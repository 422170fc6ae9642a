SPECIFICATION FairSpec
CONSTANTS
  N = 2
  DBName <- TwoNames
  MaxConcurrency = 0
INVARIANTS
  TypeOK
  NilIsEarned
  CountersAgree
  ShownIsTrue
  BackupsFollowReport
  SomethingIsComing
PROPERTIES
  DeclineIsFinal
  NeverHangs
