CONSTANTS
  idle = idle
  init = init
  a = a
  Procs <- MCProcs
  Idle <- idle
  Init1 <- init
  Kernel = Kernel
  NONE = NONE
  MAX_PT_LEN = 5
  KERNEL_STACK_BASE = 4
  ORIG_BRK = 1
  NUM_VPN = 10
  WORD = 1024
  Programs <- MCPrograms
  KernelBrks <- MCKernelBrks
  UserBrks <- MCUserBrks
  UserSps <- MCUserSps
SPECIFICATION Spec
INVARIANTS TypeOK FramesNotShared FramesAccounted BootFramesKept HeapMapped OwnStack
PROPERTY TradesOnly
CHECK_DEADLOCK FALSE
