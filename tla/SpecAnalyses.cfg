SPECIFICATION Spec
CONSTANTS
  Units = {"m", "u"}
  Entry = "m"
  TypeNesting = 2
  FieldChoices <- MCFields
  MaxFields = 2
  Nesting = 2
INVARIANTS
  BytesAreLeft
  TailsAreLast
  DecodesAdvance
  PlanIsClosed
PROPERTIES
  Ends
CHECK_DEADLOCK FALSE
