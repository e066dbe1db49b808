SPECIFICATION Spec
CONSTANTS
  Places <- MCPlaces
  Cases <- MCCases
  First <- MCFirst
  Holds <- MCHolds
  MaxChanged = 2
  MaxShift = 4
  MaxDigits = 1
INVARIANT
  NothingEscapes
CHECK_DEADLOCK FALSE
