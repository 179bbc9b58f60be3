SPECIFICATION ServerSpec
CONSTANTS
  x1 = x1
  x2 = x2
  x3 = x3
  Upload = {u1}
  Content = {b1, b2}
  Handler = {h1, h2}
  Size = 2
  MinPart = 1
  MaxParts = 2
  MaxRows = 1
  None = None
SYMMETRY Symmetry
INVARIANTS DistributionExact StagedIntact TerminalSafe
PROPERTIES StageConsistent
CHECK_DEADLOCK FALSE
