SPECIFICATION Spec
CONSTANTS
  MaxProc = 4
  QUANTUM_TICKS = 2
  AGING_THRESHOLD = 2
  MAX_FINISHED_COLLECT = 1
  MAX_SEMAPHORES = 2
  MaxSemId = 2
  MaxSemValue = 1
  MaxSemRefs = 2
  BUFFER_SIZE = 1
  MaxRead = 1
  ShellOps <- LifecycleOps
  UserOps <- ChildOps
  Priorities = {0, 3}
  Foregrounds = {FALSE}
  Keys = {}
INVARIANTS QueuesLinked QueuedByState AgingBoosts
PROPERTY HigherPriorityPreempts
