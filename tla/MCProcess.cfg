CONSTANTS
  idle = idle
  init = init
  a = a
  b = b
  NULL = NULL
  ERROR = ERROR
  Procs <- MCProcs
  Idle <- idle
  Init1 <- init
  Statuses <- MCStatuses
  DEFAULT_TIMESLICE = 2
  MaxDelay = 2
SPECIFICATION Spec
INVARIANTS TypeOK QueueDiscipline OneRunning ExitedNeverRuns ParentAlive NoLostWakeup WaitExact
PROPERTIES ImplementsSched NoOvertaking BoundedWait
SYMMETRY Symmetry
CHECK_DEADLOCK FALSE
