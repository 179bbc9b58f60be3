SPECIFICATION SumSpec
CONSTANTS
  x1 = x1
  x2 = x2
  x3 = x3
  Last = 1
  Limit = 2
  MaxRetries = 0
  Envelope = {1, 2}
  UploadStatus = TRUE
  Background = {TRUE, FALSE}
  Turbo = {TRUE, FALSE}
  Policies = {TRUE, FALSE}
  None = None
  Portion = {x1, x2}
  Length <- Plaintext
  Tag = 1
  MaxGeneration = 1
  Parts = 3
  Request = {x1, x2, x3}
  BodyBytes = 2
  Configured = {1, 3}
  Memory = {1, 5, 6}
  Fixed = 2
  Slot = 2
  MaxConcurrency = 8
  MinEvents = 2
  CongestionCooldown = 2
  Retired = 2
  MaxNow = 2
  Missing = Missing
INVARIANT SelectionExact
PROPERTIES UploadExact PaceHonest
CHECK_DEADLOCK FALSE
