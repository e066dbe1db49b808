SPECIFICATION Spec
CONSTANTS
  Runs <- MCRuns
  Searches <- MCSearches
  Base = 2
  MaxCursors = 2
  Counts <- MCCounts
  None = None
INVARIANTS
  TypeOK
  WindowsOfTheRun
  ReadsAreExact
  ConsumedIsClaimed
