CONSTANTS
  Name = {f, g, h}
  Data = {v, w}
  DirEntries = 3
  MaxBlocks = 5
  MaxMiB = 3
  MaxSystem = 2
  Word = 1000
  BlockBytes = 2
  Kilo = 4
  SizeText <- MCSizeText

SYMMETRY Symmetric
SPECIFICATION Spec
INVARIANTS ContentsKept SizeIsExact
PROPERTIES DamageNeedsDeleted BootSurvives
CHECK_DEADLOCK FALSE
CONSTRAINT Bounded
VIEW View
