SPECIFICATION Spec
CONSTANTS
  j1 = j1
  j2 = j2
  Calls <- MCCalls
  Databases = {"a", "b"}
  Formats = {"custom"}
  MaxTime = 3
  Jobs = {j1, j2, j3}
  Scripted = {j1, j2, j3}
  Lists <- Separate
  MaxAge = 1
  LongestRun = 1
  SetBackAt = 2
PROPERTIES
  FailedBackupsLeaveACopy
