CONSTANTS
  idle = idle
  init = init
  a = a
  b = b
  NULL = NULL
  ERROR = ERROR
  Procs <- MCProcs
  Idle <- idle
  Init1 <- init
  Statuses <- OneStatus
  DEFAULT_TIMESLICE = 1
  MaxDelay = 2
SPECIFICATION Spec
INVARIANTS DelayReturnsZero
CHECK_DEADLOCK FALSE
