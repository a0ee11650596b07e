SPECIFICATION Spec
CONSTANTS
  Cells = 3
  AddrSpace = 8
  XLo = 1
  XHi = 5
  Pitch = 2
  Columns = 7
  Rows = 3
  Luminances <- MCLuminances
  LevelSensitive = FALSE
INVARIANT FullIsDone
