SPECIFICATION FairSpec
CONSTANTS
  Upload = {u1}
  Content = {x}
  Handler = {h1, h2}
  Size = 1
  MinPart = 1
  MaxParts = 1
  MaxRows = 1
  None = None
PROPERTY StagingReclaimed
CHECK_DEADLOCK FALSE
