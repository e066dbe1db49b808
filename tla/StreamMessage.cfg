SPECIFICATION Spec
CONSTANTS
  Extent = 6
  Emit = "message"
  Quirks = {}
INVARIANTS
  DecisionIsCarriedOut
  KnownIsAStart
PROPERTIES
  DecidedOnce
  Terminates
  KeepsItsPromise
\* The stage stops when the stream's output is complete.
CHECK_DEADLOCK FALSE
