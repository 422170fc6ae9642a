SPECIFICATION Spec
CONSTANTS
  N = 2
  DBName <- TwoNames
  MaxConcurrency = 1
INVARIANTS
  NilMeansAllBackedUp
