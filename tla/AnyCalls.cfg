SPECIFICATION Spec
CONSTANTS
  MaxProc = 3
  QUANTUM_TICKS = 1
  AGING_THRESHOLD = 1
  MAX_FINISHED_COLLECT = 1
  MAX_SEMAPHORES = 2
  MaxSemId = 2
  MaxSemValue = 1
  MaxSemRefs = 1
  BUFFER_SIZE = 1
  MaxRead = 1
  ShellOps <- AnyOps
  UserOps <- AnyChildOps
  Priorities = {3}
  Foregrounds = {TRUE}
  Keys = {"ctrl_c"}
INVARIANTS TypeOK IdleIsAvailable NoTokenWithWaiters
CHECK_DEADLOCK FALSE
