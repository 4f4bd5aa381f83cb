SPECIFICATION Spec
CONSTANTS
  Process = {dec1, inc1}
  Inc = {inc1}
  Repeat = 1
  MAX_USER_SEMS = 1
  MAX_SEMAPHORES = 4
  MaxId = 4
INVARIANT ResultIsZero
CHECK_DEADLOCK FALSE
