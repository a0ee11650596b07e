SPECIFICATION Spec
CONSTANTS
  Stages = 2
  FEAT_NUMS <- MCFeatNums
  STAGE_DATA <- MCStageData
  RECT_NUMS <- MCRectNums
  FEAT_DATA <- MCFeatData
  RECT_DATA <- MCRectData
  Width = 2
  Images <- MCImages
  Scale = 10
CHECK_DEADLOCK FALSE
INVARIANTS
  VerdictInClosedForm
PROPERTY Returns
