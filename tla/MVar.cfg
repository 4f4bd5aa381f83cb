SPECIFICATION FairSpec
CONSTANTS
  num_writers = 3
  num_readers = 1
  PIPE_BUFFER_SIZE = 2
  MAX_USER_SEMS = 3
  MAX_SEMAPHORES = 3
  MaxId = 6
INVARIANTS OneValueAtMost NobodySleepsInThePipe
PROPERTY EveryoneTakesPart
CHECK_DEADLOCK FALSE
