SPECIFICATION Spec
CONSTANTS
  Extent = 4
  OutExtent = 1
  MaxFields = 4
  MaxDepth = 3
  Widths = {0, 1}
  Kinds = {"leaf", "const", "group", "chunks", "concat", "transform", "output"}
  Quirks = {}
INVARIANTS
  SameFile
  NeverBoth
  AllSpokenFor
  TakenBack
CHECK_DEADLOCK FALSE
