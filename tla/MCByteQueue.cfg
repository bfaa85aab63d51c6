SPECIFICATION Spec
CONSTANTS
  Capacity = 3
  MaxChunk = 4
  MaxRead = 3
  MaxBytes = 7
INVARIANTS
  TypeOK
  InOrder
  PolledReadNeverBlocks
PROPERTIES
  ImplementsPipe
  WriteReturns
  BytesDelivered
CHECK_DEADLOCK FALSE
