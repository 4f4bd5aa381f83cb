SPECIFICATION FairSpec
CONSTANTS
  MaxProc = 4
  QUANTUM_TICKS = 1
  AGING_THRESHOLD = 2
  MAX_FINISHED_COLLECT = 1
  MAX_SEMAPHORES = 2
  MaxSemId = 2
  MaxSemValue = 2
  MaxSemRefs = 2
  BUFFER_SIZE = 2
  MaxRead = 2
  ShellOps <- InputOps
  UserOps <- InputChildOps
  Priorities = {2}
  Foregrounds = {TRUE, FALSE}
  Keys = {"char", "newline"}
INVARIANTS BlockedAreListed NoLostKey
PROPERTIES KeysAreRead SemaphoresAreFifo
