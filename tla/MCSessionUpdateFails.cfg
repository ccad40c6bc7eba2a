SPECIFICATION MCSpec
CONSTANTS
  Names <- MCNames
  Sorted <- MCSorted
  Records <- MCRecords
  JobDefs <- MCJobDefs
  InitialMaps <- MCInitialMaps
  ResourceNames <- MCResourceNames
  ResourceOutputs <- MCResourceOutputs
  LocalOutputs <- MCLocalOutputs
  MaxDesired = 3
  Kinds = {"requests"}
INVARIANT UpdateNeverFails
CHECK_DEADLOCK FALSE
