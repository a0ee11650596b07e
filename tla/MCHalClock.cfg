SPECIFICATION Spec
CONSTANTS
  Word = 16
  ALT_US = 10
  TickRate = 5
  Times <- MCTimes
INVARIANTS
  SetIsRead
