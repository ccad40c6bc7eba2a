SPECIFICATION ResumeSpec
CONSTANTS
  Names <- MCNames
  Sorted <- MCSorted
  Records <- MCRecords
  JobDefs <- MCJobDefs
  InitialMaps <- MCInitialMaps
  ResourceNames <- MCResourceNames
  ResourceOutputs <- MCResourceOutputs
  LocalOutputs <- MCLocalOutputs
  MaxDesired = 1
INVARIANT NotIncompatible
CHECK_DEADLOCK FALSE
