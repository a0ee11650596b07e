SPECIFICATION DetectSpec
CONSTANTS
  Cells = 3
  AddrSpace = 8
  XLo = 1
  XHi = 5
  Pitch = 2
  Columns = 7
  Rows = 2
  Luminances <- MCLuminances
  LevelSensitive = TRUE
  Colours <- MCColours
  PowerUp = {7}
  IntegralSpace = 1000000000
INVARIANTS
  TypeOK
  NeverDone
  SlotsHoldSamples
  CloseToWeightedMean
PROPERTIES
  WriteOnce
  DisplayNeverChanges
  Monotone
