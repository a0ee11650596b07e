SPECIFICATION Spec
CONSTANTS
  Stages = 22
  FEAT_NUMS <- HeaderFeatNums
  STAGE_DATA <- HeaderStageData
  RECT_NUMS <- HeaderRectNums
  FEAT_DATA <- HeaderFeatData
  RECT_DATA <- HeaderRectData
  Width = 20
  Images <- MCImages
  Scale <- Divisor
CHECK_DEADLOCK FALSE
INVARIANTS
  VerdictIsOneBlock
  OnlyFirstStageRejects
