SPECIFICATION Spec
CONSTANTS
  Units = {"m", "u"}
  Entry = "m"
  TypeNesting = 2
  Specifications <- MCSpecifications
  Inputs <- MCInputs
  MaxDepth = 1
  MaxHops = 2
INVARIANTS
  SameOutcome
  ReachIsTheEnd
  NeighboursDoNotMatter
  WorkIsBounded
