SPECIFICATION Spec
CONSTANTS
  Position = {p1, p2}
  Store = {1, 2}
  Content = {x, y}
  Manifest = {m1}
  Request = {r1, r2}
  Attempt = {a1, a2, a3, a4}
  Reaper = {}
  Worker = {w1}
  None = None
  Mode = "replicate"
  MaxJobs = 1
  WritesBounded = FALSE
  LostCommitAck = FALSE
SYMMETRY Symmetry
INVARIANTS AcknowledgedPublished LocationBacked PlacementExact CompletionReadable
PROPERTY ImplementsCiphertextStore
CHECK_DEADLOCK FALSE
