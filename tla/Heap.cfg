SPECIFICATION Spec
CONSTANTS
  SimpleRegions <- MCSimpleRegions
  BuddyRegions <- MCBuddyRegions
  SimpleSizes = {0, 17, 40, 72, 65488, 65489}
  BuddySizes = {0, 33, 96, 500, 65488, 65489}
  Word = 65536
  MM_MAX_LEVELS = 5
  MaxAllocs = 6
  MaxFrees = 4
INVARIANTS HeapIsTiled FreeListsAreExact FreedIsWhole StatsAreExact
PROPERTY IsAllocator
