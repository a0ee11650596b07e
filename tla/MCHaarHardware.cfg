SPECIFICATION Spec
CONSTANTS
  Images <- MCImages
  PowerUp <- MCPowerUp
  IntegralSpace = 1000000000
  MaxRuns = 3
  LevelSensitive = TRUE
INVARIANTS
  TypeOK
  OnlyFirstRunFindsFaces
  ScoresAddUp
PROPERTIES
  VerdictIsFirstFeature
