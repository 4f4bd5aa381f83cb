SPECIFICATION FairSpec
CONSTANTS
  Readers = {r1, r2}
  Writers = {w1}
  PIPE_BUFFER_SIZE = 2
  MaxWakes = 2
  MaxChunk = 2
  MaxBytes = 4
INVARIANTS RingIsFifo NobodySleepsForNothing NothingIsLeaked
PROPERTIES EndIsFinal EndIsSeen ShellReturns
CHECK_DEADLOCK FALSE
