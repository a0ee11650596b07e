SPECIFICATION FairSpec
CONSTANTS
  LEN = 3
  Depth = 2
  ReadThreshold = 0
  WriteThreshold = 1
  IntMax = 4
  DefaultTimeout = 2
  Timeouts <- MCTimeouts
  MaxCall = 2
  MaxBytes = 3
INVARIANTS
  TypeOK
  MaskedOnlyWhenFull
  QueuedIsArmed
PROPERTIES
  Receives
  Transmits
  WrittenIsFetched
  CallsEnd
