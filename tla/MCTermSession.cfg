SPECIFICATION Spec
CONSTANTS
  Capacity = 2
  MaxWrite = 2
  MaxIn = 3
  MaxOut = 3
INVARIANTS
  TypeOK
  InputSignalled
  OutputSignalled
  BlockedIsServed
PROPERTIES
  WriteReturns
  InputProcessed
  OutputDelivered
CHECK_DEADLOCK FALSE
