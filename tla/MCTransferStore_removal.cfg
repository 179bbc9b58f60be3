SPECIFICATION FairSpec
CONSTANTS
  Position = {p1}
  Store = {1, 2}
  Content = {x}
  Manifest = {m1}
  Request = {r1}
  Attempt = {a1, a2}
  Reaper = {k1}
  Worker = {w1}
  None = None
  Mode = "replicate"
  MaxJobs = 1
  WritesBounded = TRUE
  LostCommitAck = FALSE
PROPERTIES ReplicasSafe Drained RemovalTerminates
CHECK_DEADLOCK FALSE
