SPECIFICATION Spec
CONSTANTS
  Last = 1
  Limit = 2
  MaxRetries = 0
  Envelope = {m1, m2}
  UploadStatus = TRUE
  Background = {TRUE, FALSE}
  Turbo = {FALSE}
  Policies = {TRUE, FALSE}
  None = None
INVARIANT FinalizationResumable
CHECK_DEADLOCK FALSE
