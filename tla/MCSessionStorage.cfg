SPECIFICATION MCSpec
CONSTANTS
  Processes = {p}
  Faults = {"open", "write", "fsync", "rename", "unlink", "fsyncdir"}
  MaxCheckpoints = 4
INVARIANTS
  IInv
  CheckpointsAreSafe
PROPERTIES
  NeverOlder
  IsRegisterIfRenamed
CHECK_DEADLOCK FALSE
