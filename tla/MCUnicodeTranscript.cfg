CONSTANTS
  Text = {t}
  Blank = blank
  TotalRows = 5
  MaxScreenRows = 3
SPECIFICATION Spec
INVARIANT TypeOK
PROPERTIES ImplementsScrollback RowsMoveAsPromised
