CONSTANTS
  MinRows = 1
  MaxRows = 3
  MaxColumns = 2
  MaxArg = 4
  IntMax = 4
SPECIFICATION Spec
CONSTRAINT OneAtMost
VIEW WithoutOutside
INVARIANTS TypeOK MarginsOnScreen
PROPERTIES CursorOnScreen DrawsOnScreen RegionKeepsCursor
