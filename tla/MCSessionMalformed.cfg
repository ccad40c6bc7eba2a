SPECIFICATION MCSpec
CONSTANTS
  Names <- MCNames
  Sorted <- MCSorted
  Records <- MCRecords
  JobDefs <- MCJobDefs
  InitialMaps <- MCInitialMaps
  ResourceNames <- MCResourceNames
  ResourceOutputs <- MCResourceOutputs
  LocalOutputs <- MCLocalOutputs
  MaxDesired = 3
  Kinds = {"on_local"}
INVARIANT ResultsUpdateReadiness
CHECK_DEADLOCK FALSE
