SPECIFICATION FairSpec
CONSTANTS
  BaseBytes <- MCBytes
  MaxIdentifierLen = 63
  Invocations = {p1, p2, p3}
  Requests <- UsualRequests
  Initially <- Crowded
  Templates = {}
  OthersMay = {"create"}
  MaxDatabases = 4
INVARIANTS
  TypeOK
  NeverWritesExisting
  RestoredIsThere
  RefusedTouchedNothing
PROPERTIES
  OfferedIsFree
  InvocationEnds
