SPECIFICATION FairSpec
CONSTANTS
  Cells = 4
  SW_START = 509
  HW_DONE = 510
  IS_FACE = 511
  Bytes = {0, 1}
  ClassifierWords <- MCWords
  Index = 0
  IsFace <- MCIsFace
  MaxResets = 3
INVARIANTS
  DoneExportsVerdict
  ImageIsBlank
PROPERTIES
  ShakesHands
  VerdictIsSignalled
