SPECIFICATION Spec
CONSTANTS
  MaxProc = 4
  QUANTUM_TICKS = 1
  AGING_THRESHOLD = 2
  MAX_FINISHED_COLLECT = 1
  MAX_SEMAPHORES = 1
  MaxSemId = 1
  MaxSemValue = 1
  MaxSemRefs = 1
  BUFFER_SIZE = 1
  MaxRead = 1
  ShellOps = {"create"}
  UserOps = {"read", "exit"}
  Priorities = {2}
  Foregrounds = {TRUE}
  Keys = {"char", "ctrl_c"}
PROPERTY KillIsFinal
