CONSTANTS
  idle = idle
  a = a
  b = b
  c = c
  NULL = NULL
  Junk = Junk
  Procs <- MCProcs
  Idle <- idle
  PIPE_BUFFER_LEN = 2
  MaxLen = 3
SPECIFICATION PipeSpec
INVARIANT NoStandoff
CHECK_DEADLOCK FALSE
