SPECIFICATION Spec
CONSTANTS
  Upload = {u1}
  Content = {x}
  Handler = {h1, h2}
  Size = 2
  MinPart = 1
  MaxParts = 2
  MaxRows = 1
  None = None
INVARIANT OffsetMatchesState
CHECK_DEADLOCK FALSE
