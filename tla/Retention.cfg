SPECIFICATION Spec
CONSTANTS
  j1 = j1
  j2 = j2
  Calls <- MCCalls
  Databases = {"a", "b"}
  Formats = {"custom", "plain"}
  MaxTime = 3
  Jobs = {j1, j2}
  Scripted = {j1}
  Lists <- MCLists
  MaxAge = 1
  LongestRun = 1
  SetBackAt = 2
INVARIANTS
  TypeOK
  OkIsGood
PROPERTIES
  PruneSparesOwn
