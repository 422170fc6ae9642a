SPECIFICATION FairSpec
CONSTANTS
  Me = p1
  BaseBytes <- MCBytes
  MaxIdentifierLen = 63
  Invocations = {p1, p2}
  Requests <- MCRequests
  Initially <- MCInitially
  Templates <- MCTemplates
  OthersMay = {"drop", "rename"}
  MaxDatabases = 2
INVARIANTS
  NilMeansRestored
  AbortedTouchedNothing
  SomethingIsComing
PROPERTIES
  DeclineIsFinal
  RestoreEnds
  ImplementsRun
