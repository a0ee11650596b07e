SPECIFICATION Spec
CONSTANTS
  ALT_MAX_FD = 6
  Names <- MCNames
  alt_dev_null = alt_dev_null
  jtag_uart_0 = jtag_uart_0
  nodev = nodev
  NULL = NULL
  OpenFlags <- MCOpenFlags
  StatusFlags <- MCStatusFlags
INVARIANTS
  NothingLeaks
  ConsoleStaysOpen
PROPERTIES
  LockExcludes
  LockIsAlone
