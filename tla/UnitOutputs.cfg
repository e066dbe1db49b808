SPECIFICATION Spec
CONSTANTS
  Extent = 2
  OutExtent = 2
  MaxFields = 8
  MaxDepth = 3
  Widths = {1}
  Kinds = {"leaf", "transform", "output"}
  Quirks = {}
INVARIANTS
  SameFile
CHECK_DEADLOCK FALSE
