SPECIFICATION MCSpec
CONSTANTS
  Names <- MCNames
  Sorted <- MCSorted
  Records <- MCRecords
  JobDefs <- MCJobDefs
  InitialMaps <- MCInitialMaps
  ResourceNames <- MCResourceNames
  ResourceOutputs <- MCResourceOutputs
  LocalOutputs <- MCLocalOutputs
  MaxDesired = 3
  Kinds = {"results", "requests"}
INVARIANTS
  IInv
  ReadinessIsTrue
  UpdateIsFair
PROPERTIES
  JobsAreKept
  UpdateEnds
CHECK_DEADLOCK FALSE
