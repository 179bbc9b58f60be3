SPECIFICATION Spec
CONSTANTS
  x1 = x1
  x2 = x2
  x3 = x3
  x4 = x4
  y1 = y1
  y2 = y2
  Alias = Alias
  Illegal = Illegal
  Foreign = Foreign
  None = None
  Row = {x1}
  Worker = {x2, x3, x4}
  Thread = {y1, y2}
  MaxPrompt = 1
  Account = {x1}
  Key = {x1, x2}
  MaxBundles = 2
  Reader = {x1}
  Size = 3
  ChunkBytes = 2
  Drivers = {"http", "webrtc"}
  EndAttempts = 2
  Product = {x1}
  Process = {y1, y2}
  Catalog <- Releases
  Windows = {TRUE, FALSE}
  Program = {y1}
  Field <- Fields
  Instances = {None, 1}
  Transfer = {x1, x2}
  Items <- Received
  Retry = {y1, y2}
  Origin = {x1, x2}
  Policies <- Served
  Username = {x3}
  MaxId = 2
  MaxSends = 1
  Owner = {x3, x4}
  Member <- Members
  MaxThreads = 2
  MaxCommands = 4
  Instance = {x1, x2, x3, x4}
  Link = {x1, x3}
  Task = {x1}
  Capacity = 2
  History = 2
  MaxMessages = 4
INVARIANTS JobsReachable SessionHonest KeysRecoverable NotesKept SendsAsAsked AccountsApart DesktopHostSafe
PROPERTIES UpdateSafe ConfigMerged 
CHECK_DEADLOCK FALSE
