SPECIFICATION Spec
CONSTANTS
  Capacity = 2
  MaxWrite = 2
  MaxIn = 4
  MaxOut = 1
PROPERTIES
  ReaderStops
CHECK_DEADLOCK FALSE
