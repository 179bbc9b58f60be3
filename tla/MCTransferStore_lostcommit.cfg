SPECIFICATION Spec
CONSTANTS
  Position = {p1}
  Store = {1}
  Content = {x}
  Manifest = {m1}
  Request = {r1}
  Attempt = {a1, a2}
  Reaper = {k1}
  Worker = {w1}
  None = None
  Mode = "distribute"
  MaxJobs = 1
  WritesBounded = TRUE
  LostCommitAck = TRUE
INVARIANT AcknowledgedPublished
CHECK_DEADLOCK FALSE
