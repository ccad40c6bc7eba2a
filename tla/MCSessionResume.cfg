SPECIFICATION ResumeSpec
CONSTANTS
  Names <- MCNames
  Sorted <- MCSorted
  Records <- MCRecords
  JobDefs <- MCJobDefs
  InitialMaps <- MCInitialMaps
  ResourceNames <- MCResourceNames
  ResourceOutputs <- MCResourceOutputs
  LocalOutputs <- MCLocalOutputs
  MaxDesired = 1
INVARIANTS
  ResumeTypeOK
  ResumeIsFaithful
PROPERTY
  ResumeEnds
CHECK_DEADLOCK FALSE
