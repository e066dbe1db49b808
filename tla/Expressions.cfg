SPECIFICATION Spec
CONSTANTS
  Places <- MCPlaces
  Cases <- MCCases
  First <- MCFirst
  Holds <- MCHolds
  MaxChanged = 3
  MaxShift = 4
  MaxDigits = 9
INVARIANTS
  NeverRaises
  SameAnswer
  SpelledBack
PROPERTIES
  OnlyWhatIsReferenced
CHECK_DEADLOCK FALSE
