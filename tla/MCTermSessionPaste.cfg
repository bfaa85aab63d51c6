SPECIFICATION Spec
CONSTANTS
  Capacity = 2
  MaxWrite = 3
  MaxIn = 1
  MaxOut = 3
PROPERTIES
  WriteReturns
CHECK_DEADLOCK FALSE
