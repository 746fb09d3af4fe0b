CONSTANTS
  idle = idle
  a = a
  b = b
  c = c
  NULL = NULL
  Procs <- MCProcs
  Idle <- idle
  MAX_SYNCS = 2
SPECIFICATION SyncSpec
INVARIANTS TypeOK IdsExact MutualExclusion WaitersBehindOwner
PROPERTIES LinkedByCaller NoOvertaking
SYMMETRY Symmetry
CHECK_DEADLOCK FALSE
