SPECIFICATION FairSpec
CONSTANTS
  Runs <- Usual
  PipeCap = 2
INVARIANTS
  WarningsComplete
  SomebodyCanRun
PROPERTIES
  NoCallbackAfterReturn
  NothingBlocks
