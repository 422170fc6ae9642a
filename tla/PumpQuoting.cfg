SPECIFICATION FairSpec
CONSTANTS
  Runs <- OnlyQuoting
  PipeCap = 2
INVARIANTS
  WarnedMeansCompleted
