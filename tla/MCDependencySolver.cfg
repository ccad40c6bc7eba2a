SPECIFICATION Spec
CONSTANTS
  Names <- MCNames
  Sorted <- MCSorted
  Records <- MCRecords
  JobDefs <- MCJobDefs
  MaxVisit = 3
INVARIANTS
  IInv
  SolutionIsCorrect
  OrderIsRetained
  ProblemIsTrue
PROPERTY
  Terminates
CHECK_DEADLOCK FALSE
