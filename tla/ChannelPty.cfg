SPECIFICATION Spec
CONSTANTS
  recv_window = 3
  TransWindow = 1
  PipeSize = 1
  MaxBytes = 2
CHECK_DEADLOCK FALSE
INVARIANTS
  FlushingDrains
