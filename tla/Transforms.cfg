SPECIFICATION Spec
CONSTANTS
  Names = {"gzip", "deflate", "own"}
  Codecs = {"gzip", "deflate"}
  Callers = {"cipher"}
  Standard <- MCStandard
  Several = {"gzip"}
  Registered <- MCRegistered
  Users = {"decoder", "module"}
  Fields <- MCFields
  Sources <- MCSources
  Limits = {2}
  Returned = {1, 2, 3}
  Reads = {2}
  Untyped = Untyped
  Refuses = Refuses
  Nothing = Nothing
INVARIANTS
  WithinTheLimit
  NamesStayBound
  SaysWhatTheDataIs
PROPERTIES
  EveryRunEnds
