----------------------------- MODULE MemSimple ------------------------------
(***************************************************************************)
(* Kernel/mm/mm_simple.c: the first-fit manager.  The heap is tiled by     *)
(* blocks, each with a header at its start; the headers form a list in the *)
(* order of the addresses (prev_phys, next_phys), and those of the free    *)
(* blocks a circular list through a sentinel (prev_free, next_free).       *)
(*                                                                         *)
(* Addresses and sizes are the bytes of the code.  hdr maps the address of *)
(* every block to its header.  A header that has been merged into the      *)
(* block before it leaves the domain of hdr: TLC would report any read of  *)
(* it.  Left out is the count of failed allocations, which is only shown.  *)
(***************************************************************************)
EXTENDS Iteration, Maps, Integers, FiniteSets, FiniteSetsExt

CONSTANTS
  Regions,     \* the heaps mm_default_region may find, [start, size]
  Sizes,       \* the sizes callers ask for
  Word,        \* 2^64 in the code: unsigned arithmetic is modulo Word
  MaxAllocs    \* bound: largest allocation count explored

MM_ALIGNMENT == 16
HEADER       == 40                     \* sizeof(block_header_t)
min_block_size == HEADER + MM_ALIGNMENT

VARIABLES
  region,      \* the heap the linker script leaves to the manager
  mm,          \* the statics of mm_simple.c and the headers in the heap
  owned        \* what the callers hold: the size asked for, by address

vars == <<region, mm, owned>>

NULL     == 0
SENTINEL == -1                         \* &free_list_sentinel

align_up(value, alignment) ==
  (((value + alignment - 1) % Word) \div alignment) * alignment

-----------------------------------------------------------------------------
(* The lists.  h is the map of headers. *)

Header(size, prev, next) ==
  [size |-> size, allocated |-> FALSE, prev_phys |-> prev, next_phys |-> next,
   prev_free |-> NULL, next_free |-> NULL]

free_list_init ==
  [x \in {SENTINEL} |-> [Header(0, NULL, NULL) EXCEPT !.prev_free = SENTINEL,
                                                      !.next_free = SENTINEL]]

free_list_insert(h, b) ==
  LET n == h[SENTINEL].next_free
  IN  [h EXCEPT ![b].prev_free = SENTINEL, ![b].next_free = n,
                ![n].prev_free = b, ![SENTINEL].next_free = b]

\* Mutant: the neighbour on the right keeps its backward link.
free_list_remove_OneWay(h, b) ==
  [h EXCEPT ![h[b].prev_free].next_free = h[b].next_free,
            ![b].prev_free = NULL, ![b].next_free = NULL]

free_list_remove(h, b) ==
  LET p == h[b].prev_free
      n == h[b].next_free
  IN  [h EXCEPT ![p].next_free = n, ![n].prev_free = p,
                ![b].prev_free = NULL, ![b].next_free = NULL]

\* NULL when no block is large enough.
find_first_fit(h, required) ==
  LET step == [b \in DOMAIN h |->
                 IF b = SENTINEL \/ h[b].size >= required THEN b
                 ELSE h[b].next_free]
      last == Iterate(step, h[SENTINEL].next_free, Cardinality(DOMAIN h))
  IN  IF last = SENTINEL THEN NULL ELSE last

\* The block that follows b, if any, has b before it.
LinkBack(h, b) ==
  LET n == h[b].next_phys
  IN  IF n = NULL THEN h ELSE [h EXCEPT ![n].prev_phys = b]

\* Mutant: the rest may be too small to hold a header.
split_block_if_possible_Tiny(h, b, required) ==
  LET new  == b + required
      rest == h[b].size - required
      kept == [h EXCEPT ![b].size = required, ![b].next_phys = new]
      cut  == With(kept, new, Header(rest, b, h[b].next_phys))
  IN  IF rest <= 0 THEN h ELSE free_list_insert(LinkBack(cut, new), new)

split_block_if_possible(h, b, required) ==
  LET new  == b + required
      rest == h[b].size - required
      kept == [h EXCEPT ![b].size = required, ![b].next_phys = new]
      cut  == With(kept, new, Header(rest, b, h[b].next_phys))
  IN  IF h[b].size < required + min_block_size THEN h
      ELSE free_list_insert(LinkBack(cut, new), new)

\* b becomes part of the block a before it.
Absorb(h, a, b) ==
  LET grown == [h EXCEPT ![a].size = @ + h[b].size, ![a].allocated = FALSE,
                         ![a].next_phys = h[b].next_phys]
  IN  LinkBack(Without(grown, b), a)

IsFree(h, b) == b # NULL /\ ~h[b].allocated

\* Mutant: the block on the right is not looked at.
coalesce_with_neighbors_LeftOnly(h, b) ==
  LET p == h[b].prev_phys
  IN  IF IsFree(h, p)
      THEN [h |-> Absorb(free_list_remove(h, p), p, b), block |-> p]
      ELSE [h |-> h, block |-> b]

coalesce_with_neighbors(h, b) ==
  LET p == h[b].prev_phys
      n == h[b].next_phys
      left  == IF IsFree(h, p) THEN Absorb(free_list_remove(h, p), p, b) ELSE h
      block == IF IsFree(h, p) THEN p ELSE b
  IN  [h |-> IF IsFree(h, n) THEN Absorb(free_list_remove(left, n), block, n)
             ELSE left,
       block |-> block]

-----------------------------------------------------------------------------
(* The interface *)

Uninitialized ==
  [initialized |-> FALSE, hdr |-> <<>>, capacity |-> 0, used |-> 0,
   allocation_count |-> 0, free_count |-> 0]

mm_init(m) ==
  LET aligned_start  == align_up(region.start, MM_ALIGNMENT)
      alignment_loss == aligned_start - region.start
      usable == ((region.size - alignment_loss) \div MM_ALIGNMENT) * MM_ALIGNMENT
  IN  IF region.size < min_block_size THEN Uninitialized
      ELSE IF aligned_start < region.start \/ alignment_loss >= region.size
      THEN [m EXCEPT !.initialized = FALSE]
      ELSE IF usable < min_block_size THEN Uninitialized
      ELSE [Uninitialized EXCEPT
              !.initialized = TRUE,
              !.hdr = free_list_insert(
                        With(free_list_init, aligned_start, Header(usable, NULL, NULL)),
                        aligned_start),
              !.capacity = usable - HEADER]

SmallerOf(a, b) == IF a <= b THEN a ELSE b

\* Mutant: the room for the header is forgotten.
Required_NoHeader(size) ==
  LET r == align_up(size, MM_ALIGNMENT)
  IN  IF r < min_block_size THEN min_block_size ELSE r

Required(size) ==
  LET r == (align_up(size, MM_ALIGNMENT) + HEADER) % Word
  IN  IF r < min_block_size THEN min_block_size ELSE r

\* mm_alloc from the block b that find_first_fit returned.
Take(m, b, required) ==
  LET h == split_block_if_possible(free_list_remove(m.hdr, b), b, required)
  IN  [m EXCEPT !.hdr = [h EXCEPT ![b].allocated = TRUE],
                !.used = SmallerOf(@ + h[b].size - HEADER, m.capacity),
                !.allocation_count = @ + 1]

\* A manager that is not initialized tries again with the same region.
Ready(m) == IF m.initialized THEN m ELSE mm_init(m)

mm_alloc(size) ==
  LET m == Ready(mm)
      b == IF m.initialized /\ size # 0 THEN find_first_fit(m.hdr, Required(size))
           ELSE NULL
  IN  /\ b = NULL => mm' = m /\ UNCHANGED owned
      /\ b # NULL => /\ m.allocation_count < MaxAllocs
                     /\ mm' = Take(m, b, Required(size))
                     /\ owned' = With(owned, b + HEADER, size)
      /\ UNCHANGED region

\* Mutant: the header is counted with the payload.
Release_WithHeader(m, b) ==
  LET marked == [m.hdr EXCEPT ![b].allocated = FALSE]
      merged == coalesce_with_neighbors(marked, b)
      bytes  == m.hdr[b].size
  IN  [m EXCEPT !.hdr = free_list_insert(merged.h, merged.block),
                !.used = IF @ >= bytes THEN @ - bytes ELSE 0,
                !.free_count = @ + 1]

\* mm_free of an allocated block.
Release(m, b) ==
  LET marked == [m.hdr EXCEPT ![b].allocated = FALSE]
      merged == coalesce_with_neighbors(marked, b)
      bytes  == m.hdr[b].size - HEADER
  IN  [m EXCEPT !.hdr = free_list_insert(merged.h, merged.block),
                !.used = IF @ >= bytes THEN @ - bytes ELSE 0,
                !.free_count = @ + 1]

\* Callers free what they hold.
mm_free(p) ==
  LET b == p - HEADER
  IN  /\ mm' = IF mm.initialized /\ mm.hdr[b].allocated THEN Release(mm, b) ELSE mm
      /\ owned' = Without(owned, p)
      /\ UNCHANGED region

\* The blocks a walk along the free list visits.
FreeList(h) ==
  LET step == [b \in DOMAIN h |-> IF b = SENTINEL THEN b ELSE h[b].next_free]
  IN  {Iterate(step, h[SENTINEL].next_free, i) : i \in 0..Cardinality(DOMAIN h)}
        \ {SENTINEL}

\* mm_get_stats: the largest free payload, and the free bytes.
largest_free_block(m) ==
  LET sizes == {m.hdr[b].size : b \in FreeList(m.hdr)} \cup {0}
      largest == CHOOSE s \in sizes : \A t \in sizes : t <= s
  IN  IF largest >= HEADER THEN largest - HEADER ELSE 0

free_bytes(m) == IF m.capacity > m.used THEN m.capacity - m.used ELSE 0

Init ==
  /\ region \in Regions
  /\ mm = mm_init(Uninitialized)
  /\ owned = <<>>

Next ==
  \/ \E size \in Sizes : mm_alloc(size)
  \/ \E p \in DOMAIN owned : mm_free(p)

Spec == Init /\ [][Next]_vars

-----------------------------------------------------------------------------
(* Properties *)

Blocks == DOMAIN mm.hdr \ {SENTINEL}

\* The payload of a block, as the statistics count it.
Payload(b) == mm.hdr[b].size - HEADER

\* Whatever is split and merged, the blocks tile the heap: each has room for
\* a header and a payload, ends where the next one starts (next_phys) or
\* where the heap ends, and the next one points back (prev_phys).
HeapIsTiled ==
  LET first == align_up(region.start, MM_ALIGNMENT)
      end   == first + mm.capacity + HEADER
  IN  mm.initialized =>
        /\ first \in Blocks /\ mm.hdr[first].prev_phys = NULL
        /\ \A b \in Blocks :
             LET n == mm.hdr[b].next_phys
             IN  /\ mm.hdr[b].size >= min_block_size
                 /\ IF n = NULL THEN b + mm.hdr[b].size = end
                    ELSE /\ n \in Blocks /\ n = b + mm.hdr[b].size
                         /\ mm.hdr[n].prev_phys = b

\* The free list, walked from the sentinel, holds the blocks that are not
\* allocated, all of them and nothing else, and its backward links mirror
\* the forward ones: find_first_fit misses no block and mm_free's unlinking
\* of a neighbour (free_list_remove) finds it in the list.
FreeListIsExact ==
  mm.initialized =>
    /\ FreeList(mm.hdr) = {b \in Blocks : ~mm.hdr[b].allocated}
    /\ \A b \in FreeList(mm.hdr) \cup {SENTINEL} :
         mm.hdr[mm.hdr[b].next_free].prev_free = b

\* What is freed can be used again in one piece: a block that no caller holds
\* is free, and coalesce_with_neighbors leaves no two free blocks side by
\* side, so that the heap is one block again once everything is freed.
FreedIsWhole ==
  \A b \in Blocks :
    /\ mm.hdr[b].allocated <=> (b + HEADER) \in DOMAIN owned
    /\ ~mm.hdr[b].allocated /\ mm.hdr[b].next_phys # NULL =>
         mm.hdr[mm.hdr[b].next_phys].allocated

\* The statistics of mm_get_stats are exact: heap_used_bytes is the sum of
\* the payloads in use (its clamps never act), the difference of the two
\* counters is the number of blocks in use, and the largest free block is
\* no larger than what is said to be free.
StatsAreExact ==
  mm.initialized =>
    /\ mm.used = FoldSet(LAMBDA b, sum : Payload(b) + sum, 0,
                        {b \in Blocks : mm.hdr[b].allocated})
    /\ mm.allocation_count - mm.free_count = Cardinality(DOMAIN owned)
    /\ largest_free_block(mm) <= free_bytes(mm)

=============================================================================
