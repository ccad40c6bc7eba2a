SPECIFICATION Spec
CONSTANTS
  Processes = {p}
  Faults = {"rename"}
  MaxCheckpoints = 2
INVARIANT AcknowledgedIsDurable
CHECK_DEADLOCK FALSE
