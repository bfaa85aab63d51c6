SPECIFICATION Spec
CONSTANTS
  Capacity = 3
  MaxChunk = 3
  MaxRead = 3
  MaxBytes = 7
INVARIANT
  NeverBothWaiting
CHECK_DEADLOCK FALSE
