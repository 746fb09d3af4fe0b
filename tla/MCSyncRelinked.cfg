CONSTANTS
  idle = idle
  a = a
  b = b
  c = c
  NULL = NULL
  Procs <- TwoUsers
  Idle <- idle
  MAX_SYNCS = 2
SPECIFICATION SyncSpec
INVARIANT OneList
CHECK_DEADLOCK FALSE
