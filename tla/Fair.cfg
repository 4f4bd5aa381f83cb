SPECIFICATION FairSpec
CONSTANTS
  MaxProc = 4
  QUANTUM_TICKS = 1
  AGING_THRESHOLD = 2
  MAX_FINISHED_COLLECT = 1
  MAX_SEMAPHORES = 1
  MaxSemId = 1
  MaxSemValue = 1
  MaxSemRefs = 1
  BUFFER_SIZE = 1
  MaxRead = 1
  ShellOps <- WaitOps
  UserOps <- WaitChildOps
  Priorities = {0, 2}
  Foregrounds = {TRUE, FALSE}
  Keys = {}
INVARIANT SomeoneInForeground
PROPERTIES WaitReturns StarvationFree FinishedAreCollected
