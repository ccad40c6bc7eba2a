SPECIFICATION Spec
CONSTANTS
  MaxRuns = 2
  MaxRecords = 1
  MaxDeaths = 1
  MaxShown = 2
  MaxTestRuns = 3
  BusSessions = {1, 2}
  MaxReported = 2
  MaxManaged = 3
  MaxCalls = 3
  MaxTries = 2
  MaxRedirects = 1
  MaxVisits = 2
  MaxScriptRuns = 3
  MaxIncludes = 3
INVARIANTS
  TypeOK
  JobsRunAsDefined
  ReportsAreComplete
  SettingsAreFollowed
  MachineIsRestored
PROPERTIES
  WrittenIsReadAgain
  BusIsTruthful
CHECK_DEADLOCK FALSE
