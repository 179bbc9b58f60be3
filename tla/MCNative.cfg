SPECIFICATION NativeSpec
CONSTANTS
  x1 = x1
  x2 = x2
  x3 = x3
  x4 = x4
  None = None
  Missing = None
  Torn = Torn
  Size = 2
  MaxPart = 2
  MaxRetries = 1
  MaxResets = 1
  Ids = 2
  Key = {x1, x2}
  TheKey = x1
  Transfers <- Linked
  Stores = {x3, x4}
  MaxAttempts = 1
  Process = {x1, x2}
  Value = {x3}
  MaxKey = 2
  Windows = {TRUE, FALSE}
  Chunks <- TwoFiles
  Slots = 2
  Background = {TRUE, FALSE}
  Turbo = {TRUE, FALSE}
  Work = {x1, x2}
  Delivery = {x1, x2}
  Bytes <- Deliveries
  CacheLimit = 2
  Last = 1
  Sid = {x1, x2}
  Piece = {x3, x4}
  Frames = 2
  MaxPeers = 1
  MaxEpoch = 2
  MaxSeq = 3
  Burnable = {TRUE, FALSE}
  Transfer = {x1, x2}
  Content <- Contents
  Portable <- Names
  Password = {x3, x4}
  Bundle = {x1}
  ChunkBytes = 2
  MaxChunks = 2
  MaxStops = 1
  Handler = {1, 2}
  Watcher = {1, 2, 3}
  Watchers = 2
  Parts = 1
  MaxFaults = 1
  Request = {1, 2}
  Session = {1, 2}
  Description = {x1}
  Limit = 1
  Burn = {TRUE, FALSE}
  MaxEvents = 1
INVARIANTS StagedUploadExact DownloadRecordUsable CompletionsSafe SealingExact
PROPERTIES DownloadExact LiveShareSafe SignallingSafe
  CheckpointAtomic InboxAccounted ReportsHonest
CHECK_DEADLOCK FALSE
