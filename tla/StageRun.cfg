SPECIFICATION Spec
CONSTANTS
  Documents <- MCDocuments
  Suppliable <- MCSuppliable
  Vintages <- MCVintages
  MaxOutputs = 2
  ChangesWhileRunning = FALSE
INVARIANTS
  DecodedAsConfigured
  OneDigestOneConfiguration
  RecordsAsDeclared
