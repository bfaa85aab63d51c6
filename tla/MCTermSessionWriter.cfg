SPECIFICATION Spec
CONSTANTS
  Capacity = 2
  MaxWrite = 2
  MaxIn = 1
  MaxOut = 1
PROPERTIES
  WriterStops
CHECK_DEADLOCK FALSE
