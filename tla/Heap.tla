-------------------------------- MODULE Heap --------------------------------
(***************************************************************************)
(* The kernel's heap (include/mm.h): one of the two memory managers,       *)
(* chosen when the kernel is built (USE_SIMPLE_MM), behind one interface.  *)
(***************************************************************************)
EXTENDS Integers

CONSTANTS
  SimpleRegions, BuddyRegions,   \* the heaps mm_default_region may find
  SimpleSizes, BuddySizes,       \* the sizes callers ask for
  Word,                          \* 2^64: unsigned arithmetic is modulo Word
  MM_MAX_LEVELS,                 \* levels of the buddy manager (32)
  MaxAllocs, MaxFrees            \* bounds on the calls of either manager

ASSUME HeapAssumption ==
  /\ Word \in Nat \ {0} /\ Word % 16 = 0
  /\ SimpleSizes \cup BuddySizes \subseteq 0..(Word - 1)
  /\ SimpleRegions \cup BuddyRegions \subseteq [start : 1..(Word - 1), size : 0..(Word - 1)]
  /\ MM_MAX_LEVELS \in Nat \ {0} /\ {MaxAllocs, MaxFrees} \subseteq Nat

VARIABLES manager,   \* "simple" or "buddy"
          region, mm, owned

vars == <<manager, region, mm, owned>>

Simple == INSTANCE MemSimple WITH Regions <- SimpleRegions, Sizes <- SimpleSizes
Buddy  == INSTANCE MemBuddy  WITH Regions <- BuddyRegions,  Sizes <- BuddySizes

IsSimple == manager = "simple"

Init == \/ manager = "simple" /\ Simple!Init
        \/ manager = "buddy"  /\ Buddy!Init

Next == /\ \/ IsSimple  /\ Simple!Next
           \/ ~IsSimple /\ Buddy!Next
        /\ UNCHANGED manager

Spec == Init /\ [][Next]_vars

-----------------------------------------------------------------------------
\* Whatever is split and merged, the blocks tile the heap, each with room for
\* a header and where the manager's arithmetic expects it: next_phys and
\* prev_phys of mm_simple.c agree with the sizes, and every buddy mm_buddy.c
\* computes has a header.
HeapIsTiled == IF IsSimple THEN Simple!HeapIsTiled ELSE Buddy!BlocksAreAligned

\* The free lists hold the free blocks, all of them and nothing else, and are
\* linked both ways: mm_alloc misses no block, mm_free can unlink a neighbour.
FreeListsAreExact ==
  IF IsSimple THEN Simple!FreeListIsExact ELSE Buddy!FreeListsAreExact

\* What is freed can be used again in one piece: coalesce_with_neighbors
\* leaves no two free blocks side by side, coalesce no two free buddies.
FreedIsWhole == IF IsSimple THEN Simple!FreedIsWhole ELSE Buddy!FreedIsWhole

\* What mm_get_stats reports is what the callers hold: the used bytes, the
\* largest free block and the counts of allocations and frees; but
\* mm_buddy.c reports 0 allocations whatever is allocated.
StatsAreExact == IF IsSimple THEN Simple!StatsAreExact ELSE Buddy!StatsAreExact

\* mm_alloc and mm_free keep the promise of mm.h: memory in use is in the
\* heap, as large as was asked for (16 bytes if the size wraps, above
\* 2^64 - 48 in both managers), and nobody else's.
A == INSTANCE Allocator WITH Alignment <- 8, Sizes <- SimpleSizes \cup BuddySizes,
                             Largest <- Word - 48, Least <- 16
IsAllocator == A!Spec

=============================================================================
