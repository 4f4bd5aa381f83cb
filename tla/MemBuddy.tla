------------------------------ MODULE MemBuddy ------------------------------
(***************************************************************************)
(* Kernel/mm/mm_buddy.c: the buddy manager.  A block of level l has        *)
(* BASE_BLOCK_SIZE * 2^l bytes, header included, and starts at a multiple  *)
(* of its size from heap_base; free_lists[l] lists the free blocks of      *)
(* level l.                                                                *)
(*                                                                         *)
(* Addresses and sizes are the bytes of the code.  hdr maps the address of *)
(* every block to its header; the header of a block that was merged into   *)
(* its buddy leaves the domain, so that TLC would report a read of it.     *)
(* Left out is the count of failed allocations, which is only shown.       *)
(***************************************************************************)
EXTENDS Iteration, Maps, Integers, FiniteSets, FiniteSetsExt

CONSTANTS
  Regions,        \* the heaps mm_default_region may find, [start, size]
  Sizes,          \* the sizes callers ask for
  Word,           \* 2^64 in the code: unsigned arithmetic is modulo Word
  MM_MAX_LEVELS,  \* 32 in the code
  MaxFrees        \* bound: largest count of frees explored

MIN_ALIGN == 16
HDR_SIZE  == 32                         \* sizeof(buddy_block_t), aligned

VARIABLES
  region,         \* the heap the linker script leaves to the manager
  mm,             \* the statics of mm_buddy.c and the headers in the heap
  owned           \* what the callers hold: the size asked for, by address

vars == <<region, mm, owned>>

NULL  == 0
Level == 0..(MM_MAX_LEVELS - 1)

align_up_u64(v, a) == (((v + a - 1) % Word) \div a) * a

\* The smallest power of two that holds a header and MIN_ALIGN bytes.
min_need == HDR_SIZE + 16
BASE_BLOCK_SIZE == Iterate([v \in Nat |-> IF v < min_need THEN 2 * v ELSE v], 1, min_need)

BlockSize(l) == BASE_BLOCK_SIZE * 2^l

\* The least level whose blocks have size bytes, at most the last level.
order_for(size) ==
  CHOOSE l \in Level : /\ BlockSize(l) >= size \/ l = MM_MAX_LEVELS - 1
                       /\ \A j \in 0..(l - 1) : BlockSize(j) < size

-----------------------------------------------------------------------------
(* The free lists *)

Header(l) == [level |-> l, is_free |-> TRUE, next |-> NULL, prev |-> NULL]

\* b->next->prev = p, when there is a next.
LinkBack(h, n, p) == IF n = NULL THEN h ELSE [h EXCEPT ![n].prev = p]

\* Mutant: the old first block does not point back.
push_free_OneWay(m, b) ==
  LET l == m.hdr[b].level
  IN  [m EXCEPT !.hdr[b].is_free = TRUE, !.hdr[b].prev = NULL,
                !.hdr[b].next = m.free_lists[l], !.free_lists[l] = b]

push_free(m, b) ==
  LET l == m.hdr[b].level
      n == m.free_lists[l]
  IN  [m EXCEPT !.hdr = LinkBack([@ EXCEPT ![b].is_free = TRUE, ![b].prev = NULL,
                                           ![b].next = n], n, b),
                !.free_lists[l] = b]

\* pop_free of a list that is not empty.
pop_free(m, l) ==
  LET b == m.free_lists[l]
      n == m.hdr[b].next
  IN  [m EXCEPT !.hdr = [LinkBack(@, n, NULL) EXCEPT
                           ![b].next = NULL, ![b].prev = NULL,
                           ![b].is_free = FALSE],
                !.free_lists[l] = n]

\* The blocks on the walk along free_lists[l].
FreeList(m, l) ==
  LET step == [b \in DOMAIN m.hdr \cup {NULL} |->
                 IF b = NULL THEN NULL ELSE m.hdr[b].next]
  IN  {Iterate(step, m.free_lists[l], i) : i \in 0..Cardinality(DOMAIN m.hdr)}
        \ {NULL}

\* The walk finds the link that leads to b, or leaves the list alone.
remove_from_free_list(m, b) ==
  LET l == m.hdr[b].level
      n == m.hdr[b].next
      linked == [x \in DOMAIN m.hdr |->
                   IF x \in FreeList(m, l) /\ m.hdr[x].next = b
                   THEN [m.hdr[x] EXCEPT !.next = n] ELSE m.hdr[x]]
      h == LinkBack(linked, n, m.hdr[b].prev)
  IN  IF b \notin FreeList(m, l) THEN m
      ELSE [m EXCEPT !.hdr = [h EXCEPT ![b].next = NULL, ![b].prev = NULL],
                     !.free_lists[l] = IF @ = b THEN n ELSE @]

\* Mutant: the left half keeps the level of the whole.
SplitOnce_KeepsLevel(m, l) ==
  LET b      == m.free_lists[l]
      popped == pop_free(m, l)
      right  == [popped EXCEPT !.hdr = With(@, b + BlockSize(l - 1), Header(l - 1))]
  IN  push_free(push_free(right, b + BlockSize(l - 1)), b)

\* Halve the first block of level l: the right half is pushed first.
SplitOnce(m, l) ==
  LET b      == m.free_lists[l]
      popped == pop_free(m, l)
      right  == [popped EXCEPT !.hdr = With(@, b + BlockSize(l - 1), Header(l - 1))]
      left   == [push_free(right, b + BlockSize(l - 1)) EXCEPT !.hdr[b] = Header(l - 1)]
  IN  push_free(left, b)

\* split_down leaves its result at the head of free_lists[to].
split_down(m, from, to) ==
  LET it[l \in to..from] == IF l = from THEN m ELSE SplitOnce(it[l + 1], l + 1)
  IN  it[to]

\* offset ^ block_size: the other half of the block of the next level; NULL
\* when it does not lie in the heap.
find_buddy(m, b) ==
  LET size   == BlockSize(m.hdr[b].level)
      offset == b - m.heap_base
      other  == IF (offset \div size) % 2 = 0 THEN offset + size ELSE offset - size
  IN  IF other + size > m.usable THEN NULL ELSE m.heap_base + other

\* Mutant: only blocks of the lowest level are merged.
CanMerge_Lowest(m, b) ==
  LET bud == find_buddy(m, b)
  IN  /\ m.hdr[b].level < m.max_level /\ bud # NULL /\ m.hdr[bud].is_free
      /\ m.hdr[bud].level = m.hdr[b].level /\ m.hdr[b].level = 0

CanMerge(m, b) ==
  LET bud == find_buddy(m, b)
  IN  /\ m.hdr[b].level < m.max_level /\ bud # NULL
      /\ m.hdr[bud].is_free /\ m.hdr[bud].level = m.hdr[b].level

\* A turn of coalesce's loop, with the block it has reached.
MergeTurn(x) ==
  LET bud  == find_buddy(x.m, x.block)
      low  == IF bud < x.block THEN bud ELSE x.block
      high == IF bud < x.block THEN x.block ELSE bud
      m    == remove_from_free_list(x.m, bud)
      h    == [m.hdr EXCEPT ![low].level = @ + 1, ![low].is_free = TRUE]
  IN  IF ~CanMerge(x.m, x.block) THEN x
      ELSE [m |-> [m EXCEPT !.hdr = Without(h, high)],
            block |-> low]

coalesce(m, b) ==
  LET it[i \in Nat] == IF i = 0 THEN [m |-> m, block |-> b] ELSE MergeTurn(it[i - 1])
      merged == it[MM_MAX_LEVELS]
  IN  push_free(merged.m, merged.block)

-----------------------------------------------------------------------------
(* The interface *)

Uninitialized ==
  [initialized |-> FALSE, hdr |-> <<>>, free_lists |-> [l \in Level |-> NULL],
   heap_base |-> NULL, max_level |-> 0, usable |-> 0, capacity |-> 0, used |-> 0,
   allocation_count |-> 0, free_count |-> 0]

\* A turn of mm_init's loop: the largest block that fits in what remains.
CarveTurn(x) ==
  LET l == CHOOSE j \in 0..x.m.max_level :
             /\ j = 0 \/ BlockSize(j) <= x.remaining
             /\ \A i \in (j + 1)..x.m.max_level : BlockSize(i) > x.remaining
      made == [x.m EXCEPT !.hdr = With(@, x.cur, Header(l))]
  IN  IF x.remaining < BASE_BLOCK_SIZE THEN x
      ELSE [m |-> push_free(made, x.cur), cur |-> x.cur + BlockSize(l),
            remaining |-> x.remaining - BlockSize(l)]

Carve(m) ==
  LET it[i \in Nat] ==
        IF i = 0 THEN [m |-> m, cur |-> m.heap_base, remaining |-> m.usable]
        ELSE CarveTurn(it[i - 1])
  IN  it[m.usable \div BASE_BLOCK_SIZE].m

mm_init(m) ==
  LET aligned_start  == align_up_u64(region.start, MIN_ALIGN)
      alignment_loss == aligned_start - region.start
      usable == ((region.size - alignment_loss) \div MIN_ALIGN) * MIN_ALIGN
  IN  IF \/ region.size < min_need
         \/ alignment_loss >= region.size
         \/ usable < min_need
      THEN [m EXCEPT !.initialized = FALSE, !.capacity = 0, !.usable = 0]
      ELSE Carve([Uninitialized EXCEPT !.initialized = TRUE,
                    !.heap_base = aligned_start, !.usable = usable,
                    !.max_level = order_for(usable),
                    !.capacity = usable - HDR_SIZE])

Ready(m) == IF m.initialized THEN m ELSE mm_init(m)

SmallerOf(a, b) == IF a <= b THEN a ELSE b

\* The level mm_alloc takes a block of: the one asked for, or the next one
\* that has a block to split; MM_MAX_LEVELS when there is none.
SourceLevel(m, ord) ==
  LET L == {l \in {ord} \cup (ord..m.max_level) : m.free_lists[l] # NULL}
  IN  IF L = {} THEN MM_MAX_LEVELS ELSE CHOOSE l \in L : \A j \in L : l <= j

\* mm_alloc with a block of level from: heap_allocation_count stays as it is.
Take(m, from, ord) ==
  LET s == split_down(m, from, ord)
  IN  [pop_free(s, ord) EXCEPT
         !.used = SmallerOf(@ + BlockSize(ord) - HDR_SIZE, m.capacity)]

\* Mutant: the room for the header is forgotten.
Required_NoHeader(size) == align_up_u64(size, MIN_ALIGN)

Required(size) == (align_up_u64(size, MIN_ALIGN) + HDR_SIZE) % Word

mm_alloc(size) ==
  LET m    == Ready(mm)
      ord  == order_for(Required(size))
      from == IF m.initialized /\ size # 0 THEN SourceLevel(m, ord)
              ELSE MM_MAX_LEVELS
      ptr  == split_down(m, from, ord).free_lists[ord] + HDR_SIZE
  IN  /\ from = MM_MAX_LEVELS => mm' = m /\ UNCHANGED owned
      /\ from # MM_MAX_LEVELS => /\ mm' = Take(m, from, ord)
                                 /\ owned' = With(owned, ptr, size)
      /\ UNCHANGED region

\* Mutant: the header is counted with the payload.
Release_WithHeader(m, b) ==
  LET bytes == BlockSize(m.hdr[b].level)
  IN  coalesce([m EXCEPT !.hdr[b].is_free = TRUE,
                         !.used = IF @ >= bytes THEN @ - bytes ELSE 0,
                         !.free_count = @ + 1], b)

\* mm_free of a block in use.
Release(m, b) ==
  LET bytes == BlockSize(m.hdr[b].level) - HDR_SIZE
  IN  coalesce([m EXCEPT !.hdr[b].is_free = TRUE,
                         !.used = IF @ >= bytes THEN @ - bytes ELSE 0,
                         !.free_count = @ + 1], b)

\* Callers free what they hold.
mm_free(p) ==
  LET b == p - HDR_SIZE
  IN  /\ mm.free_count < MaxFrees
      /\ mm' = IF mm.initialized /\ ~mm.hdr[b].is_free THEN Release(mm, b) ELSE mm
      /\ owned' = Without(owned, p)
      /\ UNCHANGED region

\* mm_get_stats: the largest free payload, and the free bytes.
largest_free_block(m) ==
  LET free == UNION {FreeList(m, l) : l \in 0..m.max_level}
      sizes == {BlockSize(m.hdr[b].level) - HDR_SIZE : b \in free} \cup {0}
  IN  CHOOSE s \in sizes : \A t \in sizes : t <= s

free_bytes(m) == IF m.capacity > m.used THEN m.capacity - m.used ELSE 0

Init ==
  /\ region \in Regions
  /\ mm = mm_init(Uninitialized)
  /\ owned = <<>>

Next ==
  \/ \E size \in Sizes : mm_alloc(size)
  \/ \E p \in DOMAIN owned : mm_free(p)

Spec == Init /\ [][Next]_vars

-----------------------------------------------------------------------------
(* Properties *)

Blocks == DOMAIN mm.hdr

End(b) == b + BlockSize(mm.hdr[b].level)

\* Splitting and merging keep the heap tiled by blocks that start at a
\* multiple of their size from heap_base, which is what find_buddy computes
\* with: every buddy it names has a header.
BlocksAreAligned ==
  mm.initialized =>
    LET end == mm.heap_base + (mm.usable \div BASE_BLOCK_SIZE) * BASE_BLOCK_SIZE
    IN  /\ mm.heap_base \in Blocks \cup {end}
        /\ \A b \in Blocks :
             /\ (b - mm.heap_base) % BlockSize(mm.hdr[b].level) = 0
             /\ End(b) \in Blocks \cup {end}
             /\ \A c \in Blocks \ {b} : c < b \/ c >= End(b)
             /\ find_buddy(mm, b) = NULL \/ find_buddy(mm, b) \in Blocks

\* Each free list holds the free blocks of its level, all of them and nothing
\* else, and links them both ways: mm_alloc misses no block, and coalesce
\* finds the buddy it takes out.
FreeListsAreExact ==
  \A l \in Level :
    /\ FreeList(mm, l) = {b \in Blocks : mm.hdr[b].is_free /\ mm.hdr[b].level = l}
    /\ \A b \in FreeList(mm, l) :
         LET p == mm.hdr[b].prev
         IN  IF mm.free_lists[l] = b THEN p = NULL
             ELSE p \in Blocks /\ mm.hdr[p].next = b

\* What is freed can be used again in one piece: a block that no caller holds
\* is free, and coalesce leaves no two free halves of one larger block.
FreedIsWhole ==
  \A b \in Blocks :
    LET l == mm.hdr[b].level
    IN  /\ mm.hdr[b].is_free <=> (b + HDR_SIZE) \notin DOMAIN owned
        /\ mm.hdr[b].is_free /\ (b - mm.heap_base) % BlockSize(l + 1) = 0 =>
             \A c \in Blocks : c = End(b) /\ mm.hdr[c].is_free =>
               mm.hdr[c].level # l

\* Of the statistics of mm_get_stats, heap_used_bytes is the sum of the
\* payloads in use (its clamps never act), and the largest free block is no
\* larger than what is said to be free.  The number of allocations is not
\* counted: heap_allocation_count stays 0 while the frees are counted, also
\* when callers hold memory.
StatsAreExact ==
  mm.initialized =>
    /\ mm.allocation_count = 0
    /\ mm.used = FoldSet(LAMBDA b, sum : BlockSize(mm.hdr[b].level) - HDR_SIZE + sum,
                         0, {b \in Blocks : ~mm.hdr[b].is_free})
    /\ largest_free_block(mm) <= free_bytes(mm)

=============================================================================
