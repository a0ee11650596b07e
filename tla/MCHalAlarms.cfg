SPECIFICATION Spec
CONSTANTS
  Irqs = {0, 1}
  Handlers = {isr1, isr2}
  NULL = NULL
  Alarms = {a, b}
  ListHead = alt_alarm_list
  Word = 3
  Delays <- MCDelays
  Periods <- MCPeriods
INVARIANTS
  TypeOK
  CriticalSectionsHold
  HandlerIsWhole
  CallbackOnTime
  ListIsArmed
PROPERTIES
  KeepsTime
  TickReturns
