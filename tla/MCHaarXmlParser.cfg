SPECIFICATION GenSpec
CONSTANTS
  Digits = {0, 1, 2, 3, 8, 9}
  MaxDigits = 3
  Cascade <- MCCascade
  Files <- MCFiles
  MaxCalls = 5
CHECK_DEADLOCK FALSE
INVARIANTS
  TablesAgree
  RightIffConvertible
