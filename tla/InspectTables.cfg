SPECIFICATION FairSpec
CONSTANTS
  MaxTables = 4
  Databases <- MCDatabases
  MaxInspectConcurrency = 2
  Counts = {0, 7}
INVARIANTS
  ReportIsExact
  SomebodyCanRun
PROPERTIES
  InspectReturns
  ImplementsContract
