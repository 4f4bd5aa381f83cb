SPECIFICATION Spec
CONSTANTS
  Width = 3
  Height = 2
  TabStep = 2
  IntBits = 8
  MAX_ARGS = 2
  Keys = {"c", "d", "7", "bar", "space", "enter", "backspace", "tab"}
  BUFFER_SIZE = 2
  MAX_LINE_LENGTH = 5
  Commands <- MCCommands
  External <- MCExternal
  NoEntry <- MCNoEntry
  ExitCommand <- MCExit
  Numbers <- MCNumbers
  MaxKeys = 5
  MaxModifiers = 2
INVARIANTS RingIsSequence LineIsShown ArgsAreWords NumbersAreReadBack
CHECK_DEADLOCK FALSE
