SPECIFICATION FairSpec
CONSTANTS
  N = 3
  DBName <- MCDBName
  MaxConcurrency = 2
  HasCallback = TRUE
INVARIANTS
  SlotsRespected
  NoGoroutineOutlivesCall
  ResultsComplete
  OkMeansDumped
PROPERTIES
  ImplementsContract
  CallReturns
