SPECIFICATION Spec
CONSTANTS
  Extent = 2
  Emit = "field"
  Quirks = {"empty_transform"}
  MaxDatagrams = 3
INVARIANTS
  DatagramsStandAlone
PROPERTIES
  KeepsItsPromise
\* The stage stops when the stream's output is complete.
CHECK_DEADLOCK FALSE
