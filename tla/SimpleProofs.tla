---------------------------- MODULE SimpleProofs ----------------------------
(***************************************************************************)
(* Proofs about Kernel/mm/mm_simple.c (MemSimple): the blocks tile the     *)
(* heap, the free list holds the free blocks, free blocks are merged, and  *)
(* the manager implements include/mm.h (Allocator).                        *)
(*                                                                         *)
(* The argument has three layers.  A list is a ring of blocks through the  *)
(* sentinel (IsList, an IsRing of DataProofs), which an insertion extends  *)
(* and a removal shortens.  A tiling is the set of blocks with their       *)
(* neighbours (Tiling), which can be cut and merged.  Between two calls    *)
(* the list is the free blocks of the tiling, no two side by side (Sound); *)
(* while a block is being freed, one free block is not in the list yet     *)
(* (Pending).                                                              *)
(*                                                                         *)
(* Every nested update of the code is taken one field at a time, and its   *)
(* effect is stated as a relation between the headers before and after.    *)
(***************************************************************************)
EXTENDS MemSimple, DataProofs

block_header_t ==
  [size : Nat, allocated : BOOLEAN, prev_phys : Int, next_phys : Int,
   prev_free : Int, next_free : Int]

\* h is a map of headers with the domain D.
Headers(D, h) == h \in [D -> block_header_t] /\ D \subseteq Int /\ SENTINEL \in D

\* g and h differ at most in the links of the free list ...
SameBlocks(D, g, h) ==
  \A x \in D : /\ g[x].size = h[x].size /\ g[x].allocated = h[x].allocated
               /\ g[x].prev_phys = h[x].prev_phys /\ g[x].next_phys = h[x].next_phys

\* ... or at most in the rest.
SameLinks(D, g, h) ==
  \A x \in D : g[x].prev_free = h[x].prev_free /\ g[x].next_free = h[x].next_free

set_prev_free(h, b, v) == [h EXCEPT ![b].prev_free = v]

set_next_free(h, b, v) == [h EXCEPT ![b].next_free = v]

\* g is h with another prev_free, or another next_free, in the header of b.
PrevFreeIs(D, g, h, b, v) ==
  /\ SameBlocks(D, g, h)
  /\ \A x \in D : /\ g[x].prev_free = IF x = b THEN v ELSE h[x].prev_free
                  /\ g[x].next_free = h[x].next_free

NextFreeIs(D, g, h, b, v) ==
  /\ SameBlocks(D, g, h)
  /\ \A x \in D : /\ g[x].next_free = IF x = b THEN v ELSE h[x].next_free
                  /\ g[x].prev_free = h[x].prev_free

\* One back link of the free list is written, and nothing else.
LEMMA SetPrevFree ==
  ASSUME NEW D, NEW h, Headers(D, h), NEW b \in D, NEW v \in Int
  PROVE  LET g == set_prev_free(h, b, v) IN Headers(D, g) /\ PrevFreeIs(D, g, h, b, v)
  BY DEF set_prev_free, PrevFreeIs, Headers, SameBlocks, block_header_t

\* One forward link of the free list is written, and nothing else.
LEMMA SetNextFree ==
  ASSUME NEW D, NEW h, Headers(D, h), NEW b \in D, NEW v \in Int
  PROVE  LET g == set_next_free(h, b, v) IN Headers(D, g) /\ NextFreeIs(D, g, h, b, v)
  BY DEF set_next_free, NextFreeIs, Headers, SameBlocks, block_header_t

\* free_list_insert links b between the sentinel and the first block n.
Inserted(D, g, h, b, n) ==
  /\ Headers(D, g) /\ SameBlocks(D, g, h)
  /\ \A x \in D :
       /\ g[x].next_free = IF x = SENTINEL THEN b ELSE IF x = b THEN n ELSE h[x].next_free
       /\ g[x].prev_free = IF x = n THEN b ELSE IF x = b THEN SENTINEL ELSE h[x].prev_free

\* free_list_insert puts b between the sentinel and the block after it.
LEMMA InsertEffect ==
  ASSUME NEW D, NEW h, Headers(D, h), NEW b \in D \ {SENTINEL},
         h[SENTINEL].next_free \in D \ {b}
  PROVE  Inserted(D, free_list_insert(h, b), h, b, h[SENTINEL].next_free)
  <1> DEFINE n  == h[SENTINEL].next_free
             g1 == set_prev_free(h, b, SENTINEL)
             g2 == set_next_free(g1, b, n)
             g3 == set_prev_free(g2, n, b)
             g4 == set_next_free(g3, SENTINEL, b)
  <1>1. SENTINEL \in D /\ SENTINEL \in Int /\ b \in D /\ b \in Int /\ n \in D /\ n \in Int
    BY DEF Headers
  <1>2. free_list_insert(h, b) = g4
    BY DEF free_list_insert, set_prev_free, set_next_free
  <1> HIDE DEF n, g1, g2, g3, g4
  <1>3. Headers(D, g1) /\ PrevFreeIs(D, g1, h, b, SENTINEL)
    BY <1>1, SetPrevFree DEF g1
  <1>4. Headers(D, g2) /\ NextFreeIs(D, g2, g1, b, n)
    BY <1>1, <1>3, SetNextFree DEF g2
  <1>5. Headers(D, g3) /\ PrevFreeIs(D, g3, g2, n, b)
    BY <1>1, <1>4, SetPrevFree DEF g3
  <1>6. Headers(D, g4) /\ NextFreeIs(D, g4, g3, SENTINEL, b)
    BY <1>1, <1>5, SetNextFree DEF g4
  <1>7. Headers(D, g4) /\ SameBlocks(D, g4, h)
    BY <1>3, <1>4, <1>5, <1>6 DEF PrevFreeIs, NextFreeIs, SameBlocks
  <1>8. Inserted(D, g4, h, b, n)
    BY <1>3, <1>4, <1>5, <1>6, <1>7 DEF PrevFreeIs, NextFreeIs, Inserted
  <1> QED BY <1>2, <1>8 DEF n

\* free_list_remove links the neighbours of b to each other.
Removed(D, g, h, b) ==
  LET p == h[b].prev_free
      n == h[b].next_free
  IN  /\ Headers(D, g) /\ SameBlocks(D, g, h)
      /\ \A x \in D :
           /\ g[x].next_free = IF x = b THEN NULL ELSE IF x = p THEN n ELSE h[x].next_free
           /\ g[x].prev_free = IF x = b THEN NULL ELSE IF x = n THEN p ELSE h[x].prev_free

\* free_list_remove joins the neighbours of b, and forgets its links.
LEMMA RemoveEffect ==
  ASSUME NEW D, NEW h, Headers(D, h), NEW b \in D,
         h[b].prev_free \in D, h[b].next_free \in D
  PROVE  Removed(D, free_list_remove(h, b), h, b)
  <1> DEFINE p  == h[b].prev_free
             n  == h[b].next_free
             g1 == set_next_free(h, p, n)
             g2 == set_prev_free(g1, n, p)
             g3 == set_prev_free(g2, b, NULL)
             g4 == set_next_free(g3, b, NULL)
  <1>1. p \in D /\ p \in Int /\ n \in D /\ n \in Int /\ NULL \in Int
    <2>1. D \subseteq Int
      BY DEF Headers
    <2>2. NULL \in Int
      BY DEF NULL
    <2> QED BY <2>1, <2>2, Zenon
  <1>2. free_list_remove(h, b) = g4
    <2>1. free_list_remove(h, b) = [h EXCEPT ![p].next_free = n, ![n].prev_free = p,
                                             ![b].prev_free = NULL, ![b].next_free = NULL]
      BY DEF free_list_remove
    <2> HIDE DEF n, p
    <2> QED BY <2>1 DEF set_prev_free, set_next_free
  <1> HIDE DEF n, p, g1, g2, g3, g4
  <1>3. Headers(D, g1) /\ NextFreeIs(D, g1, h, p, n)
    BY <1>1, SetNextFree DEF g1
  <1>4. Headers(D, g2) /\ PrevFreeIs(D, g2, g1, n, p)
    BY <1>1, <1>3, SetPrevFree DEF g2
  <1>5. Headers(D, g3) /\ PrevFreeIs(D, g3, g2, b, NULL)
    BY <1>1, <1>4, SetPrevFree DEF g3
  <1>6. Headers(D, g4) /\ NextFreeIs(D, g4, g3, b, NULL)
    BY <1>1, <1>5, SetNextFree DEF g4
  <1>7. Headers(D, g4) /\ SameBlocks(D, g4, h)
    BY <1>3, <1>4, <1>5, <1>6 DEF PrevFreeIs, NextFreeIs, SameBlocks
  <1>8. Removed(D, g4, h, b)
    BY <1>3, <1>4, <1>5, <1>6, <1>7 DEF PrevFreeIs, NextFreeIs, Removed, p, n
  <1> QED BY <1>2, <1>8

-----------------------------------------------------------------------------
(* The free list. *)

\* The links of the blocks of F and of the sentinel.
NextFree(h, F) == [x \in F \cup {SENTINEL} |-> h[x].next_free]

PrevFree(h, F) == [x \in F \cup {SENTINEL} |-> h[x].prev_free]

\* The free list is a ring through the sentinel and the blocks of F.
IsList(h, F) == IsRing(NextFree(h, F), PrevFree(h, F), SENTINEL, F)

\* init_sentinel makes the list without blocks.
LEMMA EmptyList ==
  ASSUME NEW h, h[SENTINEL].next_free = SENTINEL, h[SENTINEL].prev_free = SENTINEL
  PROVE  IsList(h, {})
  <1> DEFINE nxt == NextFree(h, {})
             prv == PrevFree(h, {})
  <1>1. nxt[SENTINEL] = SENTINEL /\ prv[SENTINEL] = SENTINEL
    BY DEF NextFree, PrevFree
  <1> HIDE DEF nxt, prv
  <1>2. IsRing(nxt, prv, SENTINEL, {})
    BY <1>1, EmptyRing
  <1> QED BY <1>2 DEF IsList, nxt, prv

\* A list depends on the links of its members only.
LEMMA ListFrame ==
  ASSUME NEW h, NEW g, NEW F, IsList(h, F), SameLinks(F \cup {SENTINEL}, g, h)
  PROVE  IsList(g, F)
  <1>1. NextFree(g, F) = NextFree(h, F) /\ PrevFree(g, F) = PrevFree(h, F)
    BY DEF SameLinks, NextFree, PrevFree
  <1> QED BY <1>1 DEF IsList

\* The neighbours of a member are members or the sentinel, and not itself.
LEMMA ListNeighbours ==
  ASSUME NEW h, NEW F, SENTINEL \notin F, IsList(h, F)
  PROVE  /\ \A b \in F \cup {SENTINEL} :
              /\ h[b].next_free \in F \cup {SENTINEL}
              /\ h[b].prev_free \in F \cup {SENTINEL}
              /\ h[h[b].next_free].prev_free = b
         /\ \A b \in F : h[b].next_free # b /\ h[b].prev_free # b
  <1> DEFINE nxt == NextFree(h, F)
             prv == PrevFree(h, F)
  <1>1. \A b \in F \cup {SENTINEL} : nxt[b] = h[b].next_free /\ prv[b] = h[b].prev_free
    BY DEF NextFree, PrevFree
  <1>2. IsRing(nxt, prv, SENTINEL, F)
    BY DEF IsList
  <1> HIDE DEF nxt, prv
  <1>3. /\ \A b \in F \cup {SENTINEL} :
             nxt[b] \in F \cup {SENTINEL} /\ prv[b] \in F \cup {SENTINEL} /\ prv[nxt[b]] = b
        /\ \A b \in F : nxt[b] # b /\ prv[b] # b
    BY <1>2, RingNeighbours
  <1> QED BY <1>1, <1>3

\* An insertion puts b in front of the list.
LEMMA ListInsert ==
  ASSUME NEW D, NEW h, NEW g, NEW F, NEW b, F \subseteq D, SENTINEL \in D, b \in D,
         b \notin F \cup {SENTINEL}, SENTINEL \notin F, IsList(h, F),
         Inserted(D, g, h, b, h[SENTINEL].next_free)
  PROVE  IsList(g, F \cup {b})
  <1> DEFINE nxt == NextFree(h, F)
             prv == PrevFree(h, F)
             nx  == NextFree(g, F \cup {b})
             pv  == PrevFree(g, F \cup {b})
             z   == SENTINEL
  <1>1. \A x \in F \cup {z} : nxt[x] = h[x].next_free /\ prv[x] = h[x].prev_free
    BY DEF NextFree, PrevFree
  <1>2. \A x \in F \cup {z, b} : nx[x] = g[x].next_free /\ pv[x] = g[x].prev_free
    BY DEF NextFree, PrevFree
  <1>3. IsRing(nxt, prv, z, F)
    BY DEF IsList
  <1> HIDE DEF nxt, prv, nx, pv, z
  <1>4. \A x \in F \cup {z, b} :
          /\ nx[x] = IF x = z THEN b ELSE IF x = b THEN nxt[z] ELSE nxt[x]
          /\ pv[x] = IF x = nxt[z] THEN b ELSE IF x = b THEN z ELSE prv[x]
    <2> TAKE x \in F \cup {z, b}
    <2>1. /\ g[x].next_free = IF x = z THEN b ELSE IF x = b THEN h[z].next_free
                              ELSE h[x].next_free
          /\ g[x].prev_free = IF x = h[z].next_free THEN b ELSE IF x = b THEN z
                              ELSE h[x].prev_free
      BY DEF Inserted, z
    <2> QED BY <1>1, <1>2, <2>1
  <1>5. IsRing(nx, pv, z, F \cup {b})
    BY <1>3, <1>4, RingInsert DEF z
  <1> QED BY <1>5 DEF IsList, nx, pv, z

\* A removal takes b out of the list.
LEMMA ListRemove ==
  ASSUME NEW D, NEW h, NEW g, NEW F, NEW b \in F, F \subseteq D, SENTINEL \in D,
         SENTINEL \notin F, IsList(h, F), Removed(D, g, h, b)
  PROVE  IsList(g, F \ {b})
  <1> DEFINE nxt == NextFree(h, F)
             prv == PrevFree(h, F)
             nx  == NextFree(g, F \ {b})
             pv  == PrevFree(g, F \ {b})
             z   == SENTINEL
  <1>1. \A x \in F \cup {z} : nxt[x] = h[x].next_free /\ prv[x] = h[x].prev_free
    BY DEF NextFree, PrevFree
  <1>2. \A x \in (F \cup {z}) \ {b} : nx[x] = g[x].next_free /\ pv[x] = g[x].prev_free
    BY DEF NextFree, PrevFree
  <1>3. IsRing(nxt, prv, z, F)
    BY DEF IsList
  <1> HIDE DEF nxt, prv, nx, pv, z
  <1>4. \A x \in (F \cup {z}) \ {b} :
          /\ nx[x] = IF x = prv[b] THEN nxt[b] ELSE nxt[x]
          /\ pv[x] = IF x = nxt[b] THEN prv[b] ELSE prv[x]
    BY <1>1, <1>2 DEF Removed, z
  <1>5. IsRing(nx, pv, z, F \ {b})
    BY <1>3, <1>4, RingRemove DEF z
  <1> QED BY <1>5 DEF IsList, nx, pv, z

-----------------------------------------------------------------------------
(* Walks along the free list. *)

\* The walk of mm_get_stats visits the blocks of the list.
LEMMA FreeListIs ==
  ASSUME NEW h, IsFiniteSet(DOMAIN h), NEW F, F \subseteq DOMAIN h,
         SENTINEL \in DOMAIN h, SENTINEL \notin F, IsList(h, F)
  PROVE  FreeList(h) = F
  <1> DEFINE nxt == NextFree(h, F)
             prv == PrevFree(h, F)
             D == DOMAIN h
             step == [b \in D |-> IF b = SENTINEL THEN b ELSE h[b].next_free]
             m == Cardinality(D)
             z == SENTINEL
  <1>1. FreeList(h) = {Iterate(step, nxt[z], i) : i \in 0..m} \ {z}
    BY DEF FreeList, NextFree
  <1>2. step[z] = z /\ \A b \in F : step[b] = nxt[b]
    BY DEF NextFree
  <1>3. m \in Nat /\ m <= m
    BY FS_CardinalityType
  <1>4. IsRing(nxt, prv, z, F) /\ z \notin F
    BY DEF IsList
  <1>5. IsFiniteSet(D) /\ F \subseteq D
    OBVIOUS
  <1> HIDE DEF step, nxt, prv, z, D
  <1>6. {Iterate(step, nxt[z], i) : i \in 0..m} \ {z} = F
    BY <1>2, <1>3, <1>4, <1>5, WalkIsRing
  <1> QED BY <1>1, <1>6

\* find_first_fit returns a block of the list that is large enough, or NULL.
LEMMA FitIs ==
  ASSUME NEW h, IsFiniteSet(DOMAIN h), NEW F, F \subseteq DOMAIN h,
         SENTINEL \in DOMAIN h, SENTINEL \notin F, IsList(h, F), NEW required,
         find_first_fit(h, required) # NULL
  PROVE  /\ find_first_fit(h, required) \in F
         /\ h[find_first_fit(h, required)].size >= required
  <1> DEFINE nxt == NextFree(h, F)
             prv == PrevFree(h, F)
  <1>0. \A b \in F \cup {SENTINEL} : nxt[b] = h[b].next_free
    BY DEF NextFree
  <1> HIDE DEF nxt, prv
  <1>1. PICK n \in Nat : \E s \in [0..(n + 1) -> F \cup {SENTINEL}] :
                           Chain(nxt, prv, SENTINEL, F, n, s)
    BY DEF IsList, IsRing, nxt, prv
  <1>2. PICK s \in [0..(n + 1) -> F \cup {SENTINEL}] : Chain(nxt, prv, SENTINEL, F, n, s)
    BY <1>1
  <1> DEFINE D == DOMAIN h
             step == [b \in D |-> IF b = SENTINEL \/ h[b].size >= required THEN b
                                  ELSE h[b].next_free]
             x == h[SENTINEL].next_free
             m == Cardinality(D)
             last == Iterate(step, x, m)
             Fits == {b \in F : h[b].size >= required} \cup {SENTINEL}
             S == [k \in Nat |-> IF k < n THEN Fits \cup {s[k + 1]} ELSE Fits]
  <1>3. m \in Nat /\ n <= m
    BY <1>2, RingIsShort
  <1>4. find_first_fit(h, required) = IF last = SENTINEL THEN NULL ELSE last
    BY DEF find_first_fit
  <1>5. s[0] = SENTINEL /\ s[n + 1] = SENTINEL
    BY <1>2 DEF Chain
  <1>6. x \in S[0]
    <2>1. 0 \in 0..n /\ 0 + 1 = 1
      OBVIOUS
    <2>2. x = s[1]
      BY <1>0, <1>2, <1>5, <2>1 DEF Chain
    <2> QED BY <1>5, <2>2
  <1>7. ASSUME NEW k \in Nat, NEW b \in S[k] PROVE step[b] \in S[k + 1]
    <2>1. CASE b \in Fits
      <3>1. step[b] = b
        BY <2>1
      <3> HIDE DEF step
      <3> QED BY <2>1, <3>1
    <2>2. CASE b \notin Fits
      <3>1. k < n /\ b = s[k + 1]
        <4> HIDE DEF Fits, step
        <4> QED BY <1>7, <2>2
      <3>2. k + 1 \in 1..n /\ k + 1 \in 0..n /\ k + 1 + 1 \in 1..(n + 1)
        BY <3>1
      <3>3. s[k + 1] \in F /\ h[s[k + 1]].next_free = s[k + 1 + 1]
        BY <1>0, <1>2, <3>2 DEF Chain
      <3>4. step[b] = s[k + 1 + 1]
        BY <2>2, <3>1, <3>3
      <3>5. s[k + 1 + 1] \in S[k + 1]
        <4> HIDE DEF step
        <4>1. CASE k + 1 < n
          BY <4>1
        <4>2. CASE k + 1 = n
          BY <1>5, <4>2
        <4> QED BY <3>1, <4>1, <4>2
      <3> QED BY <3>4, <3>5
    <2> QED BY <2>1, <2>2
  <1>8. S[m] = Fits
    BY <1>3
  <1> HIDE DEF S, step, x
  <1>9. last \in S[m]
    BY <1>3, <1>6, <1>7, IterateInvariant
  <1> HIDE DEF last
  <1> QED BY <1>4, <1>8, <1>9 DEF NULL

-----------------------------------------------------------------------------
(* Splitting and merging blocks. *)

\* The other fields of the headers.
LEMMA LinkBackEffect ==
  ASSUME NEW D, NEW h, Headers(D, h), NEW b \in D, h[b].next_phys \in D \cup {NULL}
  PROVE  LET g == LinkBack(h, b)
             n == h[b].next_phys
         IN  /\ Headers(D, g) /\ SameLinks(D, g, h)
             /\ \A x \in D :
                  /\ g[x].size = h[x].size /\ g[x].allocated = h[x].allocated
                  /\ g[x].next_phys = h[x].next_phys
                  /\ g[x].prev_phys = IF n # NULL /\ x = n THEN b ELSE h[x].prev_phys
  <1> DEFINE n == h[b].next_phys
  <1>0. b \in Int /\ n \in Int
    BY DEF Headers, block_header_t
  <1>1. CASE n = NULL
    BY <1>1 DEF LinkBack, SameLinks
  <1>2. CASE n # NULL
    <2>1. n \in D
      BY <1>2
    <2>2. LinkBack(h, b) = [h EXCEPT ![n].prev_phys = b]
      BY <1>2 DEF LinkBack
    <2> HIDE DEF n
    <2>3. LET g == [h EXCEPT ![n].prev_phys = b]
          IN  /\ Headers(D, g) /\ SameLinks(D, g, h)
             /\ \A x \in D :
                  /\ g[x].size = h[x].size /\ g[x].allocated = h[x].allocated
                  /\ g[x].next_phys = h[x].next_phys
                  /\ g[x].prev_phys = IF x = n THEN b ELSE h[x].prev_phys
      BY <1>0, <2>1 DEF Headers, block_header_t, SameLinks
    <2> QED BY <1>2, <2>2, <2>3 DEF n
  <1> QED BY <1>1, <1>2

\* A header is written where there was none.
LEMMA WithHeader ==
  ASSUME NEW D, NEW h, Headers(D, h), NEW a \in Int \ D, NEW r \in block_header_t
  PROVE  /\ Headers(D \cup {a}, With(h, a, r)) /\ With(h, a, r)[a] = r
         /\ \A x \in D : With(h, a, r)[x] = h[x]
  BY DEF Headers, With

\* A header is no longer one.
LEMMA WithoutHeader ==
  ASSUME NEW D, NEW h, Headers(D, h), NEW a \in D \ {SENTINEL}
  PROVE  /\ Headers(D \ {a}, Without(h, a))
         /\ \A x \in D \ {a} : Without(h, a)[x] = h[x]
  BY DEF Headers, Without

\* split_block_if_possible, when the rest is large enough for a block: b keeps
\* the first bytes, the rest becomes a block of its own.
Cut(D, g, h, b, required) ==
  LET new == b + required
      n   == h[b].next_phys
  IN  /\ g[new].size = h[b].size - required /\ g[new].allocated = FALSE
      /\ g[new].prev_phys = b /\ g[new].next_phys = n
      /\ \A x \in D :
           /\ g[x].size = IF x = b THEN required ELSE h[x].size
           /\ g[x].allocated = h[x].allocated
           /\ g[x].next_phys = IF x = b THEN new ELSE h[x].next_phys
           /\ g[x].prev_phys = IF n # NULL /\ x = n THEN new ELSE h[x].prev_phys

CutBlock(h, b, required) ==
  LET kept == [h EXCEPT ![b].size = required, ![b].next_phys = b + required]
  IN  LinkBack(With(kept, b + required, Header(h[b].size - required, b, h[b].next_phys)),
               b + required)

\* split_block writes a header behind the part it keeps, and links it.
LEMMA CutEffect ==
  ASSUME NEW D, NEW h, Headers(D, h), NEW b \in D, NEW required \in Nat,
         h[b].size - required \in Nat, b + required \notin D, b + required # NULL,
         h[b].next_phys \in D \cup {NULL}
  PROVE  LET g == CutBlock(h, b, required)
         IN  /\ Headers(D \cup {b + required}, g)
             /\ SameLinks(D, g, h) /\ Cut(D, g, h, b, required)
  <1> DEFINE new  == b + required
             n    == h[b].next_phys
             rest == h[b].size - required
             kept == [h EXCEPT ![b].size = required, ![b].next_phys = new]
             r    == Header(rest, b, n)
             cut  == With(kept, new, r)
             E    == D \cup {new}
             g    == LinkBack(cut, new)
  <1>0. b \in Int /\ new \in Int /\ n \in Int /\ NULL \in Int /\ rest \in Nat
    BY DEF Headers, block_header_t, NULL
  <1>1. /\ r \in block_header_t /\ r.size = rest /\ r.allocated = FALSE
        /\ r.prev_phys = b /\ r.next_phys = n
    <2> HIDE DEF n, rest
    <2> QED BY <1>0 DEF Header, block_header_t
  <1>2. /\ Headers(D, kept) /\ SameLinks(D, kept, h)
        /\ \A x \in D : /\ kept[x].size = IF x = b THEN required ELSE h[x].size
                        /\ kept[x].allocated = h[x].allocated
                        /\ kept[x].next_phys = IF x = b THEN new ELSE h[x].next_phys
                        /\ kept[x].prev_phys = h[x].prev_phys
    <2> HIDE DEF new
    <2> QED BY <1>0 DEF Headers, SameLinks, block_header_t
  <1>2a. new \in Int \ D
    BY <1>0
  <1> HIDE DEF kept, r, new, n
  <1>3. /\ Headers(E, cut) /\ cut[new] = r /\ \A x \in D : cut[x] = kept[x]
    <2>1. new \in Int \ D /\ r \in block_header_t /\ Headers(D, kept)
      BY <1>1, <1>2, <1>2a
    <2>2. Headers(E, cut)
      BY <2>1, WithHeader
    <2>3. cut[new] = r /\ \A x \in D : cut[x] = kept[x]
      BY <2>1 DEF Headers, With
    <2> QED BY <2>2, <2>3
  <1> HIDE DEF cut
  <1>4. new \in E /\ cut[new].next_phys = n /\ n \in E \cup {NULL}
    BY <1>1, <1>3 DEF n
  <1>5. /\ Headers(E, g) /\ SameLinks(E, g, cut)
        /\ \A x \in E :
             /\ g[x].size = cut[x].size /\ g[x].allocated = cut[x].allocated
             /\ g[x].next_phys = cut[x].next_phys
             /\ g[x].prev_phys = IF n # NULL /\ x = n THEN new ELSE cut[x].prev_phys
    BY <1>3, <1>4, LinkBackEffect
  <1>6. g = CutBlock(h, b, required)
    BY DEF CutBlock, cut, kept, r, new, n
  <1> HIDE DEF g
  <1>7. SameLinks(D, g, h)
    BY <1>2, <1>3, <1>5 DEF SameLinks
  <1>8. new # n
    BY DEF new, n
  <1>9. Cut(D, g, h, b, required)
    BY <1>1, <1>2, <1>3, <1>4, <1>5, <1>8 DEF Cut, new, n
  <1> QED BY <1>5, <1>6, <1>7, <1>9 DEF new

\* Absorb: b becomes part of the block a before it.
Merged(D, g, h, a, b) ==
  LET n == h[b].next_phys
  IN  \A x \in D \ {b} :
        /\ g[x].size = IF x = a THEN h[a].size + h[b].size ELSE h[x].size
        /\ g[x].allocated = IF x = a THEN FALSE ELSE h[x].allocated
        /\ g[x].next_phys = IF x = a THEN n ELSE h[x].next_phys
        /\ g[x].prev_phys = IF n # NULL /\ x = n THEN a ELSE h[x].prev_phys

\* The merge of two neighbours leaves one header.
LEMMA AbsorbEffect ==
  ASSUME NEW D, NEW h, Headers(D, h), NEW a \in D, NEW b \in D \ {SENTINEL}, a # b,
         h[b].next_phys \in (D \ {b}) \cup {NULL}
  PROVE  LET g == Absorb(h, a, b)
         IN  Headers(D \ {b}, g) /\ SameLinks(D \ {b}, g, h) /\ Merged(D, g, h, a, b)
  <1> DEFINE n     == h[b].next_phys
             size  == h[a].size + h[b].size
             grown == [h EXCEPT ![a].size = size, ![a].allocated = FALSE, ![a].next_phys = n]
             less  == Without(grown, b)
             E     == D \ {b}
             g     == LinkBack(less, a)
  <1>0. size \in Nat /\ n \in Int
    BY DEF Headers, block_header_t
  <1>1. g = Absorb(h, a, b)
    BY DEF Absorb
  <1> HIDE DEF n, size
  <1>2. /\ Headers(D, grown) /\ SameLinks(D, grown, h)
        /\ \A x \in D : /\ grown[x].size = IF x = a THEN size ELSE h[x].size
                        /\ grown[x].allocated = IF x = a THEN FALSE ELSE h[x].allocated
                        /\ grown[x].next_phys = IF x = a THEN n ELSE h[x].next_phys
                        /\ grown[x].prev_phys = h[x].prev_phys
    BY <1>0, ZenonT(30) DEF Headers, SameLinks, block_header_t
  <1> HIDE DEF grown
  <1>3. Headers(E, less) /\ \A x \in E : less[x] = grown[x]
    BY <1>2, WithoutHeader
  <1> HIDE DEF less
  <1>4. a \in E /\ less[a].next_phys = n /\ n \in E \cup {NULL}
    BY <1>2, <1>3 DEF n
  <1>5. /\ Headers(E, g) /\ SameLinks(E, g, less)
        /\ \A x \in E :
             /\ g[x].size = less[x].size /\ g[x].allocated = less[x].allocated
             /\ g[x].next_phys = less[x].next_phys
             /\ g[x].prev_phys = IF n # NULL /\ x = n THEN a ELSE less[x].prev_phys
    BY <1>3, <1>4, LinkBackEffect
  <1> HIDE DEF g
  <1>6. SameLinks(E, g, h)
    BY <1>2, <1>3, <1>5 DEF SameLinks
  <1>7. \A x \in E :
          /\ g[x].size = IF x = a THEN size ELSE h[x].size
          /\ g[x].allocated = IF x = a THEN FALSE ELSE h[x].allocated
          /\ g[x].next_phys = IF x = a THEN n ELSE h[x].next_phys
          /\ g[x].prev_phys = IF n # NULL /\ x = n THEN a ELSE h[x].prev_phys
    <2> TAKE x \in E
    <2>1. /\ g[x].size = less[x].size /\ g[x].allocated = less[x].allocated
          /\ g[x].next_phys = less[x].next_phys
          /\ g[x].prev_phys = IF n # NULL /\ x = n THEN a ELSE less[x].prev_phys
      BY <1>5
    <2>2. /\ less[x].size = grown[x].size /\ less[x].allocated = grown[x].allocated
          /\ less[x].next_phys = grown[x].next_phys /\ less[x].prev_phys = grown[x].prev_phys
      BY <1>3
    <2>3. /\ grown[x].size = IF x = a THEN size ELSE h[x].size
          /\ grown[x].allocated = IF x = a THEN FALSE ELSE h[x].allocated
          /\ grown[x].next_phys = IF x = a THEN n ELSE h[x].next_phys
          /\ grown[x].prev_phys = h[x].prev_phys
      BY <1>2
    <2> QED BY <2>1, <2>2, <2>3
  <1>8. Merged(D, g, h, a, b)
    BY <1>7 DEF Merged, n, size
  <1> QED BY <1>1, <1>5, <1>6, <1>8

-----------------------------------------------------------------------------
(* The tiling of the heap. *)

\* b lies in the heap and its neighbours are where it ends and starts.
Placed(B, h, first, end, b) ==
  LET n == h[b].next_phys
      p == h[b].prev_phys
  IN  /\ b \in Nat /\ b % 8 = 0 /\ first <= b
      /\ h[b].size \in Nat /\ h[b].size >= min_block_size /\ b + h[b].size <= end
      /\ IF n = NULL THEN b + h[b].size = end
         ELSE n \in B /\ n = b + h[b].size /\ h[n].prev_phys = b
      /\ IF p = NULL THEN b = first ELSE p \in B /\ h[p].next_phys = b

\* The blocks of B tile the heap from first to end.
Tiling(B, h, first, end) ==
  /\ first \in B /\ first \in Nat \ {0} /\ end \in Nat /\ h[first].prev_phys = NULL
  /\ \A b \in B : Placed(B, h, first, end, b)
  /\ \A b, c \in B : b < c => b + h[b].size <= c

\* The physical neighbours of a block are blocks, before and after it.
LEMMA NextOf ==
  ASSUME NEW B, NEW h, NEW first, NEW end, Tiling(B, h, first, end), NEW b \in B
  PROVE  /\ b \in Nat /\ b # 0 /\ b # SENTINEL /\ h[b].size \in Nat
         /\ h[b].next_phys \in (B \ {b}) \cup {NULL}
         /\ h[b].prev_phys \in (B \ {b}) \cup {NULL}
         /\ h[b].next_phys # NULL => h[b].next_phys > b
         /\ h[b].prev_phys # NULL => h[b].prev_phys < b
  <1>1. Placed(B, h, first, end, b) /\ first \in Nat \ {0}
    BY DEF Tiling
  <1>2. /\ b \in Nat /\ b # 0 /\ b # SENTINEL /\ h[b].size \in Nat /\ h[b].size >= 1
    BY <1>1 DEF Placed, SENTINEL, min_block_size, HEADER, MM_ALIGNMENT
  <1>3. h[b].next_phys # NULL => h[b].next_phys > b /\ h[b].next_phys \in B
    BY <1>1, <1>2 DEF Placed
  <1>4. ASSUME h[b].prev_phys # NULL PROVE h[b].prev_phys < b /\ h[b].prev_phys \in B
    <2> DEFINE p == h[b].prev_phys
    <2>1. p \in B /\ h[p].next_phys = b
      BY <1>1, <1>4 DEF Placed
    <2>2. Placed(B, h, first, end, p)
      BY <2>1 DEF Tiling
    <2>3. b # NULL
      BY <1>2 DEF NULL
    <2> HIDE DEF p
    <2>4. b = p + h[p].size /\ h[p].size >= 1 /\ p \in Nat /\ h[p].size \in Nat
      BY <2>1, <2>2, <2>3 DEF Placed, min_block_size, HEADER, MM_ALIGNMENT
    <2>5. p < b
      BY <2>4
    <2> QED BY <2>1, <2>5 DEF p
  <1> QED BY <1>2, <1>3, <1>4

\* A block can be cut in two where there is room for both.
LEMMA CutTiles ==
  ASSUME NEW D, NEW B, B \subseteq D, NEW h, NEW g, NEW first, NEW end, NEW b \in B,
         NEW required \in Nat, Tiling(B, h, first, end), required % 8 = 0,
         required >= min_block_size, h[b].size - required >= min_block_size,
         Cut(D, g, h, b, required)
  PROVE  b + required \notin B /\ Tiling(B \cup {b + required}, g, first, end)
  <1> DEFINE new == b + required
             C == B \cup {new}
             n == h[b].next_phys
  <1>0. \A x \in B : /\ x \in Nat /\ x # 0 /\ x # NULL /\ h[x].size \in Nat /\ h[x].size >= 56
                     /\ x % 8 = 0 /\ first <= x /\ x + h[x].size <= end
    <2> TAKE x \in B
    <2>1. Placed(B, h, first, end, x)
      BY DEF Tiling
    <2> QED BY <2>1, NextOf DEF Placed, NULL, min_block_size, HEADER, MM_ALIGNMENT
  <1>0a. first \in Nat /\ end \in Nat /\ b \in Nat
    BY <1>0 DEF Tiling
  <1>1. /\ new \in Nat /\ new > b /\ new % 8 = 0 /\ required >= 56
        /\ h[b].size - required >= 56 /\ h[b].size - required \in Nat
    BY <1>0 DEF min_block_size, HEADER, MM_ALIGNMENT
  <1>2. \A x \in B : (x < b => x + h[x].size <= b) /\ (b < x => b + h[b].size <= x)
    BY DEF Tiling
  <1>3. new \notin B /\ new # NULL
    BY <1>0, <1>1, <1>2 DEF NULL
  <1>4. /\ g[new].size = h[b].size - required
        /\ g[new].prev_phys = b /\ g[new].next_phys = n
        /\ \A x \in B :
             /\ g[x].size = IF x = b THEN required ELSE h[x].size
             /\ g[x].next_phys = IF x = b THEN new ELSE h[x].next_phys
             /\ g[x].prev_phys = IF n # NULL /\ x = n THEN new ELSE h[x].prev_phys
    BY DEF Cut
  <1>5. Placed(B, h, first, end, b)
    BY DEF Tiling
  <1>5a. n = NULL \/ (n \in B /\ n = b + h[b].size /\ n # b)
    BY <1>0, <1>5 DEF Placed
  <1> HIDE DEF new, n
  <1>6. Placed(C, g, first, end, new)
    <2>1. /\ g[new].size \in Nat /\ g[new].size >= 56 /\ new + g[new].size = b + h[b].size
      BY <1>0, <1>1, <1>4 DEF new
    <2>2. n = NULL => new + g[new].size = end
      BY <1>5, <2>1 DEF Placed, n
    <2>3. n # NULL => n \in C /\ n = new + g[new].size /\ g[n].prev_phys = new
      BY <1>4, <1>5a, <2>1
    <2>4. b \in C /\ g[b].next_phys = new /\ b # NULL /\ first <= new /\ new + g[new].size <= end
      BY <1>0, <1>0a, <1>1, <1>4, <1>5, <2>1
    <2> QED BY <1>1, <1>4, <2>1, <2>2, <2>3, <2>4
            DEF Placed, min_block_size, HEADER, MM_ALIGNMENT
  <1>7. Placed(C, g, first, end, b)
    <2>1. g[b].size = required /\ g[b].next_phys = new /\ b + required = new
      BY <1>4 DEF new
    <2>2. g[b].prev_phys = h[b].prev_phys
      BY <1>4, <1>5a
    <2>3. h[b].prev_phys # NULL => /\ h[b].prev_phys \in B /\ h[h[b].prev_phys].next_phys = b
                                   /\ h[b].prev_phys # b
      BY <1>5, NextOf DEF Placed
    <2>4. h[b].prev_phys # NULL => g[h[b].prev_phys].next_phys = b
      BY <1>4, <2>3
    <2>5. h[b].prev_phys = NULL => b = first
      BY <1>5 DEF Placed
    <2>6. b + required <= end
      BY <1>0, <1>0a, <1>1
    <2>7. new \in C /\ new # NULL /\ g[new].prev_phys = b
      BY <1>3, <1>4
    <2> QED BY <1>0, <1>1, <2>1, <2>2, <2>3, <2>4, <2>5, <2>6, <2>7
            DEF Placed, min_block_size, HEADER, MM_ALIGNMENT
  <1>8. ASSUME NEW x \in B, x # b PROVE Placed(C, g, first, end, x)
    <2> DEFINE nx == h[x].next_phys
               px == h[x].prev_phys
    <2>1. Placed(B, h, first, end, x)
      BY DEF Tiling
    <2>2. g[x].size = h[x].size /\ g[x].next_phys = nx
      BY <1>4, <1>8
    <2>3. nx # NULL => nx \in B /\ nx = x + h[x].size /\ h[nx].prev_phys = x
      BY <2>1 DEF Placed
    <2>4. nx # NULL => g[nx].prev_phys = x
      <3> SUFFICES ASSUME nx # NULL PROVE g[nx].prev_phys = x
        OBVIOUS
      <3>1. n # NULL => h[n].prev_phys = b
        BY <1>5 DEF Placed, n
      <3>2. ~(n # NULL /\ nx = n)
        BY <1>8, <2>3, <3>1
      <3> HIDE DEF nx
      <3> QED BY <1>4, <2>3, <3>2
    <2>5. px = NULL => x = first
      BY <2>1 DEF Placed
    <2>6. px # NULL => px \in B /\ h[px].next_phys = x
      BY <2>1 DEF Placed
    <2>7. CASE n # NULL /\ x = n
      <3>1. g[x].prev_phys = new
        BY <1>4, <2>7
      <3>2. g[new].next_phys = x /\ new \in C /\ new # NULL
        BY <1>3, <1>4, <2>7
      <3> QED BY <1>0, <2>1, <2>2, <2>3, <2>4, <3>1, <3>2 DEF Placed
    <2>8. CASE ~(n # NULL /\ x = n)
      <3>1. g[x].prev_phys = px
        BY <1>4, <2>8
      <3>2. px # NULL => px # b
        <4> SUFFICES ASSUME px # NULL, px = b PROVE FALSE
          OBVIOUS
        <4>1. n = x
          BY <2>6 DEF n
        <4> QED BY <1>0, <2>8, <4>1
      <3>3. px # NULL => g[px].next_phys = x
        BY <1>4, <2>6, <3>2
      <3> QED BY <1>0, <2>1, <2>2, <2>3, <2>4, <2>5, <2>6, <3>1, <3>3 DEF Placed
    <2> QED BY <2>7, <2>8
  <1>9. \A x, y \in C : x < y => x + g[x].size <= y
    <2> SUFFICES ASSUME NEW x \in C, NEW y \in C, x < y PROVE x + g[x].size <= y
      OBVIOUS
    <2>1. CASE x = new
      <3>0. y # new /\ y \in B
        BY <1>1, <2>1
      <3>1. y \in B /\ y # b /\ y > b
        BY <1>0, <1>0a, <1>1, <2>1, <3>0
      <3>2. b + h[b].size <= y
        BY <1>2, <3>1
      <3> QED BY <1>0, <1>1, <1>4, <2>1, <3>1, <3>2 DEF new
    <2>2. CASE y = new /\ x \in B
      <3>1. CASE x = b
        BY <1>0, <1>4, <2>2, <3>1 DEF new
      <3>2. CASE x # b
        <4>1. x < b
          BY <1>0, <1>1, <1>2, <2>2, <3>2 DEF new
        <4> QED BY <1>0, <1>1, <1>2, <1>4, <2>2, <3>2, <4>1
      <3> QED BY <3>1, <3>2
    <2>3. CASE x \in B /\ y \in B
      <3>1. x + h[x].size <= y
        BY <2>3 DEF Tiling
      <3> QED BY <1>0, <1>1, <1>4, <2>3, <3>1
    <2> QED BY <2>1, <2>2, <2>3
  <1>10. first \in B /\ first \in Nat \ {0} /\ end \in Nat /\ g[first].prev_phys = NULL
    <2>1. first \in B /\ first \in Nat \ {0} /\ end \in Nat /\ h[first].prev_phys = NULL
      BY DEF Tiling
    <2>2. ~(n # NULL /\ first = n)
      BY <1>0, <1>5a, <2>1
    <2> QED BY <1>4, <2>1, <2>2
  <1>11. Tiling(C, g, first, end)
    BY <1>6, <1>7, <1>8, <1>9, <1>10 DEF Tiling
  <1> QED BY <1>3, <1>11 DEF new

\* The free list is no part of the tiling.
LEMMA SameTiling ==
  ASSUME NEW B, NEW h, NEW g, NEW first, NEW end, Tiling(B, h, first, end),
         \A x \in B : /\ g[x].size = h[x].size /\ g[x].prev_phys = h[x].prev_phys
                      /\ g[x].next_phys = h[x].next_phys
  PROVE  Tiling(B, g, first, end)
  <1>1. ASSUME NEW b \in B PROVE Placed(B, g, first, end, b)
    <2> DEFINE n == h[b].next_phys
               p == h[b].prev_phys
    <2>1. Placed(B, h, first, end, b)
      BY DEF Tiling
    <2>2. g[b].size = h[b].size /\ g[b].next_phys = n /\ g[b].prev_phys = p
      OBVIOUS
    <2>3. n # NULL => n \in B /\ n = b + h[b].size /\ h[n].prev_phys = b
      BY <2>1 DEF Placed
    <2>4. p # NULL => p \in B /\ h[p].next_phys = b
      BY <2>1 DEF Placed
    <2>5. /\ b \in Nat /\ b % 8 = 0 /\ first <= b /\ h[b].size \in Nat
          /\ h[b].size >= min_block_size /\ b + h[b].size <= end
          /\ n = NULL => b + h[b].size = end
          /\ p = NULL => b = first
      BY <2>1 DEF Placed
    <2> HIDE DEF n, p
    <2>6. n # NULL => g[n].prev_phys = b
      BY <2>3
    <2>7. p # NULL => g[p].next_phys = b
      BY <2>4
    <2> QED BY <2>2, <2>3, <2>4, <2>5, <2>6, <2>7 DEF Placed
  <1>2. \A b, c \in B : b < c => b + g[b].size <= c
    BY DEF Tiling
  <1>3. first \in B /\ first \in Nat \ {0} /\ end \in Nat /\ g[first].prev_phys = NULL
    BY DEF Tiling
  <1> QED BY <1>1, <1>2, <1>3 DEF Tiling

\* A block can be merged with the one that follows it.
LEMMA MergeTiles ==
  ASSUME NEW D, NEW B, B \subseteq D, NEW h, NEW g, NEW first, NEW end, NEW a \in B,
         NEW b \in B, Tiling(B, h, first, end), h[a].next_phys = b,
         Merged(D, g, h, a, b)
  PROVE  Tiling(B \ {b}, g, first, end)
  <1> DEFINE C == B \ {b}
             n == h[b].next_phys
  <1>0. \A x \in B : /\ x \in Nat /\ x # 0 /\ x # NULL /\ h[x].size \in Nat /\ h[x].size >= 56
                     /\ x % 8 = 0 /\ first <= x /\ x + h[x].size <= end
    <2> TAKE x \in B
    <2>1. Placed(B, h, first, end, x)
      BY DEF Tiling
    <2> QED BY <2>1, NextOf DEF Placed, NULL, min_block_size, HEADER, MM_ALIGNMENT
  <1>0a. first \in Nat /\ end \in Nat /\ a \in Nat /\ b \in Nat
    BY <1>0 DEF Tiling
  <1>1. Placed(B, h, first, end, a) /\ Placed(B, h, first, end, b)
    BY DEF Tiling
  <1>2. b = a + h[a].size /\ h[b].prev_phys = a /\ a < b
    BY <1>0, <1>0a, <1>1 DEF Placed
  <1>3. \A x \in C :
          /\ g[x].size = IF x = a THEN h[a].size + h[b].size ELSE h[x].size
          /\ g[x].next_phys = IF x = a THEN n ELSE h[x].next_phys
          /\ g[x].prev_phys = IF n # NULL /\ x = n THEN a ELSE h[x].prev_phys
    BY DEF Merged
  <1>4. n # NULL => n \in B /\ n = b + h[b].size /\ h[n].prev_phys = b /\ n # b /\ n # a
    BY <1>0, <1>0a, <1>1, <1>2 DEF Placed
  <1>4a. n = NULL => b + h[b].size = end
    BY <1>1 DEF Placed
  <1> HIDE DEF n
  <1>5. a \in C /\ a # b
    BY <1>0a, <1>2
  <1>6. Placed(C, g, first, end, a)
    <2>1. /\ g[a].size = h[a].size + h[b].size /\ g[a].next_phys = n
          /\ g[a].prev_phys = h[a].prev_phys
      BY <1>3, <1>4, <1>5
    <2>2. /\ a \in Nat /\ a % 8 = 0 /\ first <= a /\ g[a].size \in Nat /\ g[a].size >= 56
          /\ a + g[a].size = b + h[b].size /\ b + h[b].size <= end
      BY <1>0, <1>0a, <1>2, <2>1
    <2>3. n = NULL => a + g[a].size = end
      BY <1>4a, <2>2
    <2>4. n # NULL => n \in C /\ n = a + g[a].size /\ g[n].prev_phys = a
      BY <1>3, <1>4, <2>2
    <2>5. h[a].prev_phys = NULL => a = first
      BY <1>1 DEF Placed
    <2>6. ASSUME h[a].prev_phys # NULL
          PROVE  h[a].prev_phys \in C /\ g[h[a].prev_phys].next_phys = a
      <3> DEFINE p == h[a].prev_phys
      <3>1. p \in B /\ h[p].next_phys = a /\ p < a /\ p \in Nat
        BY <1>0, <1>1, <2>6, NextOf DEF Placed
      <3> HIDE DEF p
      <3>2. p # b /\ p # a
        BY <1>0a, <1>2, <3>1
      <3>3. p \in C /\ g[p].next_phys = a
        BY <1>3, <3>1, <3>2
      <3> QED BY <3>3 DEF p
    <2> QED BY <2>1, <2>2, <2>3, <2>4, <2>5, <2>6
            DEF Placed, min_block_size, HEADER, MM_ALIGNMENT
  <1>7. ASSUME NEW x \in C, x # a PROVE Placed(C, g, first, end, x)
    <2> DEFINE nx == h[x].next_phys
               px == h[x].prev_phys
    <2>1. Placed(B, h, first, end, x) /\ x \in B /\ x # b
      BY DEF Tiling
    <2>2. g[x].size = h[x].size /\ g[x].next_phys = nx
      BY <1>3, <1>7
    <2>2a. /\ x \in Nat /\ x % 8 = 0 /\ first <= x /\ h[x].size \in Nat
           /\ h[x].size >= min_block_size /\ x + h[x].size <= end
           /\ nx = NULL => x + h[x].size = end
           /\ px = NULL => x = first
      BY <2>1 DEF Placed
    <2>3. nx # NULL => nx \in B /\ nx = x + h[x].size /\ h[nx].prev_phys = x
      BY <2>1 DEF Placed
    <2>4. px # NULL => px \in B /\ h[px].next_phys = x
      BY <2>1 DEF Placed
    <2> HIDE DEF nx, px
    <2>5. nx # NULL => nx \in C /\ g[nx].prev_phys = x
      <3> SUFFICES ASSUME nx # NULL PROVE nx \in C /\ g[nx].prev_phys = x
        OBVIOUS
      <3>1. nx # b
        BY <1>2, <1>7, <2>3
      <3>2. ~(n # NULL /\ nx = n)
        BY <1>4, <2>1, <2>3
      <3> QED BY <1>3, <2>3, <3>1, <3>2
    <2>6. CASE n # NULL /\ x = n
      <3>1. g[x].prev_phys = a /\ g[a].next_phys = x /\ a # NULL
        BY <1>0, <1>3, <1>5, <2>6
      <3> QED BY <1>5, <2>2, <2>2a, <2>3, <2>5, <3>1 DEF Placed
    <2>7. CASE ~(n # NULL /\ x = n)
      <3>1. g[x].prev_phys = px
        BY <1>3, <2>7 DEF px
      <3>2. px # NULL => px # b /\ px # a
        <4>1. px # NULL /\ px = b => n = x
          BY <2>4 DEF n
        <4>2. px # NULL /\ px = a => x = b
          BY <2>4
        <4> QED BY <1>0, <2>1, <2>7, <4>1, <4>2
      <3>3. px # NULL => px \in C /\ g[px].next_phys = x
        BY <1>3, <2>4, <3>2
      <3> QED BY <2>2, <2>2a, <2>3, <2>5, <3>1, <3>3 DEF Placed
    <2> QED BY <2>6, <2>7
  <1>8. \A x, y \in C : x < y => x + g[x].size <= y
    <2> SUFFICES ASSUME NEW x \in C, NEW y \in C, x < y PROVE x + g[x].size <= y
      OBVIOUS
    <2>1. x + h[x].size <= y
      BY DEF Tiling
    <2>2. CASE x = a
      <3>1. b < y
        BY <1>0, <1>0a, <1>2, <2>1, <2>2
      <3>2. b + h[b].size <= y
        BY <3>1 DEF Tiling
      <3> QED BY <1>0, <1>0a, <1>2, <1>3, <2>2, <3>2
    <2>3. CASE x # a
      BY <1>3, <2>1, <2>3
    <2> QED BY <2>2, <2>3
  <1>9. first \in C /\ first \in Nat \ {0} /\ end \in Nat /\ g[first].prev_phys = NULL
    <2>1. first \in B /\ first \in Nat \ {0} /\ end \in Nat /\ h[first].prev_phys = NULL
      BY DEF Tiling
    <2>2. first # b
      BY <1>0, <1>0a, <1>2
    <2>3. ~(n # NULL /\ first = n)
      BY <1>0, <1>4, <2>1
    <2> QED BY <1>3, <2>1, <2>2, <2>3
  <1> QED BY <1>6, <1>7, <1>8, <1>9 DEF Tiling

-----------------------------------------------------------------------------
(* The operations keep the tiling and the list. *)

BlocksOf(h) == DOMAIN h \ {SENTINEL}

\* The headers h tile the heap and F are the blocks in the free list.
Formed(h, F, first, end) ==
  /\ Headers(DOMAIN h, h) /\ IsFiniteSet(DOMAIN h)
  /\ Tiling(BlocksOf(h), h, first, end)
  /\ F \subseteq BlocksOf(h) /\ IsList(h, F)

\* The physical neighbours of a block point back at it.
LEMMA FormedLinks ==
  ASSUME NEW h, NEW F, NEW first, NEW end, Formed(h, F, first, end), NEW b \in BlocksOf(h)
  PROVE  /\ b \in Nat /\ b # 0 /\ b # NULL /\ b # SENTINEL /\ h[b].size \in Nat
         /\ h[b].next_phys \in (BlocksOf(h) \ {b}) \cup {NULL}
         /\ h[b].prev_phys \in (BlocksOf(h) \ {b}) \cup {NULL}
         /\ h[b].next_phys # NULL => h[h[b].next_phys].prev_phys = b
         /\ h[b].prev_phys # NULL => h[h[b].prev_phys].next_phys = b
         /\ b \in DOMAIN h
         /\ h[b].next_free \in Int /\ h[b].allocated \in BOOLEAN
  <1>1. Tiling(BlocksOf(h), h, first, end) /\ Headers(DOMAIN h, h)
    BY DEF Formed
  <1>2. Placed(BlocksOf(h), h, first, end, b)
    BY <1>1 DEF Tiling
  <1>3. b \in DOMAIN h
    BY DEF BlocksOf
  <1>4. h[b].next_free \in Int /\ h[b].allocated \in BOOLEAN
    BY <1>1, <1>3 DEF Headers, block_header_t
  <1>5. /\ h[b].next_phys # NULL => h[h[b].next_phys].prev_phys = b
        /\ h[b].prev_phys # NULL => h[h[b].prev_phys].next_phys = b
    BY <1>2 DEF Placed
  <1>6. /\ b \in Nat /\ b # 0 /\ b # SENTINEL /\ h[b].size \in Nat
        /\ h[b].next_phys \in (BlocksOf(h) \ {b}) \cup {NULL}
        /\ h[b].prev_phys \in (BlocksOf(h) \ {b}) \cup {NULL}
    BY <1>1, NextOf
  <1> QED BY <1>3, <1>4, <1>5, <1>6 DEF NULL

\* free_list_remove takes b out of the list and changes nothing else.
LEMMA RemoveKeeps ==
  ASSUME NEW h, NEW F, NEW first, NEW end, Formed(h, F, first, end), NEW b \in F
  PROVE  LET g == free_list_remove(h, b)
         IN  /\ DOMAIN g = DOMAIN h /\ SameBlocks(DOMAIN h, g, h)
             /\ Formed(g, F \ {b}, first, end)
  <1> DEFINE g == free_list_remove(h, b)
             D == DOMAIN h
  <1>1. /\ Headers(D, h) /\ IsFiniteSet(D) /\ Tiling(BlocksOf(h), h, first, end)
        /\ F \subseteq BlocksOf(h) /\ IsList(h, F) /\ SENTINEL \notin F
        /\ F \subseteq D /\ b \in D /\ SENTINEL \in D
    BY DEF Formed, BlocksOf, Headers
  <1>2. h[b].prev_free \in D /\ h[b].next_free \in D
    BY <1>1, ListNeighbours
  <1>3. Removed(D, g, h, b)
    BY <1>1, <1>2, RemoveEffect
  <1>4. IsList(g, F \ {b})
    BY <1>1, <1>3, ListRemove
  <1> HIDE DEF g
  <1>5. Headers(D, g) /\ SameBlocks(D, g, h)
    BY <1>3 DEF Removed
  <1>6. DOMAIN g = D
    BY <1>5 DEF Headers
  <1>7. Tiling(BlocksOf(h), g, first, end)
    <2>1. \A x \in BlocksOf(h) :
            /\ g[x].size = h[x].size /\ g[x].prev_phys = h[x].prev_phys
            /\ g[x].next_phys = h[x].next_phys
      BY <1>5 DEF SameBlocks, BlocksOf
    <2> QED BY <1>1, <2>1, SameTiling
  <1>8. BlocksOf(g) = BlocksOf(h)
    BY <1>6 DEF BlocksOf
  <1>9. Formed(g, F \ {b}, first, end)
    BY <1>1, <1>4, <1>5, <1>6, <1>7, <1>8 DEF Formed
  <1> QED BY <1>5, <1>6, <1>9 DEF g

\* free_list_insert puts b in the list and changes nothing else.
LEMMA InsertKeeps ==
  ASSUME NEW h, NEW F, NEW first, NEW end, Formed(h, F, first, end),
         NEW b \in BlocksOf(h) \ F
  PROVE  LET g == free_list_insert(h, b)
         IN  /\ DOMAIN g = DOMAIN h /\ SameBlocks(DOMAIN h, g, h)
             /\ Formed(g, F \cup {b}, first, end)
  <1> DEFINE g == free_list_insert(h, b)
             D == DOMAIN h
  <1>1. /\ Headers(D, h) /\ IsFiniteSet(D) /\ Tiling(BlocksOf(h), h, first, end)
        /\ F \subseteq BlocksOf(h) /\ IsList(h, F) /\ SENTINEL \notin F
        /\ F \subseteq D /\ b \in D \ {SENTINEL} /\ SENTINEL \in D /\ b \notin F \cup {SENTINEL}
    BY DEF Formed, BlocksOf, Headers
  <1>2. h[SENTINEL].next_free \in D \ {b}
    BY <1>1, ListNeighbours
  <1>3. Inserted(D, g, h, b, h[SENTINEL].next_free)
    BY <1>1, <1>2, InsertEffect
  <1>4. IsList(g, F \cup {b})
    BY <1>1, <1>3, ListInsert
  <1> HIDE DEF g
  <1>5. Headers(D, g) /\ SameBlocks(D, g, h)
    BY <1>3 DEF Inserted
  <1>6. DOMAIN g = D
    BY <1>5 DEF Headers
  <1>7. Tiling(BlocksOf(h), g, first, end)
    <2>1. \A x \in BlocksOf(h) :
            /\ g[x].size = h[x].size /\ g[x].prev_phys = h[x].prev_phys
            /\ g[x].next_phys = h[x].next_phys
      BY <1>5 DEF SameBlocks, BlocksOf
    <2> QED BY <1>1, <2>1, SameTiling
  <1>8. BlocksOf(g) = BlocksOf(h)
    BY <1>6 DEF BlocksOf
  <1>9. Formed(g, F \cup {b}, first, end)
    BY <1>1, <1>4, <1>5, <1>6, <1>7, <1>8 DEF Formed
  <1> QED BY <1>5, <1>6, <1>9 DEF g

\* Marking a block allocated or free changes neither the tiling nor the list.
Mark(h, b, v) == [h EXCEPT ![b].allocated = v]

Marked(D, g, h, b, v) ==
  \A x \in D : /\ g[x].size = h[x].size /\ g[x].prev_phys = h[x].prev_phys
               /\ g[x].next_phys = h[x].next_phys
               /\ g[x].allocated = IF x = b THEN v ELSE h[x].allocated

\* Setting the allocated flag leaves the heap tiled.
LEMMA MarkKeeps ==
  ASSUME NEW h, NEW F, NEW first, NEW end, Formed(h, F, first, end),
         NEW b \in BlocksOf(h), NEW v \in BOOLEAN
  PROVE  LET g == Mark(h, b, v)
         IN  /\ DOMAIN g = DOMAIN h /\ Formed(g, F, first, end)
             /\ Marked(DOMAIN h, g, h, b, v)
  <1> DEFINE g == Mark(h, b, v)
             D == DOMAIN h
  <1>1. /\ Headers(D, h) /\ IsFiniteSet(D) /\ Tiling(BlocksOf(h), h, first, end)
        /\ F \subseteq BlocksOf(h) /\ IsList(h, F)
        /\ b \in D /\ BlocksOf(h) \subseteq D /\ SENTINEL \in D
    BY DEF Formed, BlocksOf, Headers
  <1>2. /\ Headers(D, g) /\ SameLinks(D, g, h)
        /\ \A x \in D :
                  /\ g[x].size = h[x].size /\ g[x].prev_phys = h[x].prev_phys
                  /\ g[x].next_phys = h[x].next_phys
                  /\ g[x].allocated = IF x = b THEN v ELSE h[x].allocated
    BY <1>1 DEF Headers, block_header_t, SameLinks, Mark
  <1>3. DOMAIN g = D
    BY <1>1 DEF Headers, Mark
  <1> HIDE DEF g
  <1>4. IsList(g, F)
    <2>1. SameLinks(F \cup {SENTINEL}, g, h)
      BY <1>1, <1>2 DEF SameLinks
    <2> QED BY <1>1, <2>1, ListFrame
  <1>5. Tiling(BlocksOf(h), g, first, end)
    <2>1. \A x \in BlocksOf(h) :
            /\ g[x].size = h[x].size /\ g[x].prev_phys = h[x].prev_phys
            /\ g[x].next_phys = h[x].next_phys
      BY <1>1, <1>2
    <2> QED BY <1>1, <2>1, SameTiling
  <1>6. BlocksOf(g) = BlocksOf(h)
    BY <1>3 DEF BlocksOf
  <1>7. Formed(g, F, first, end)
    BY <1>1, <1>2, <1>3, <1>4, <1>5, <1>6 DEF Formed
  <1>8. Marked(D, g, h, b, v)
    BY <1>2 DEF Marked
  <1> QED BY <1>3, <1>7, <1>8 DEF g

\* Splitting a block that is in no list leaves the heap tiled.
LEMMA CutKeeps ==
  ASSUME NEW h, NEW F, NEW first, NEW end, Formed(h, F, first, end),
         NEW b \in BlocksOf(h) \ F, NEW required \in Nat, required % 8 = 0,
         required >= min_block_size, h[b].size - required >= min_block_size
  PROVE  LET g == CutBlock(h, b, required)
         IN  /\ DOMAIN g = DOMAIN h \cup {b + required} /\ b + required \notin DOMAIN h
             /\ b + required # SENTINEL
             /\ Cut(DOMAIN h, g, h, b, required) /\ Formed(g, F, first, end)
  <1> DEFINE g == CutBlock(h, b, required)
             D == DOMAIN h
             B == BlocksOf(h)
             new == b + required
  <1>1. /\ Headers(D, h) /\ IsFiniteSet(D) /\ Tiling(B, h, first, end)
        /\ F \subseteq B /\ IsList(h, F)
        /\ b \in D /\ B \subseteq D /\ SENTINEL \in D
    BY DEF Formed, BlocksOf, Headers
  <1>2. /\ b \in Nat /\ h[b].size \in Nat /\ h[b].next_phys \in D \cup {NULL}
    BY <1>1, FormedLinks
  <1>3. /\ new \in Nat /\ new # NULL /\ new # SENTINEL /\ h[b].size - required \in Nat
    BY <1>2 DEF min_block_size, HEADER, MM_ALIGNMENT, NULL, SENTINEL
  <1>4. new \notin B
    <2> SUFFICES ASSUME new \in B PROVE FALSE
      OBVIOUS
    <2>1. b < new => b + h[b].size <= new
      BY <1>1 DEF Tiling
    <2> QED BY <1>2, <2>1 DEF min_block_size, HEADER, MM_ALIGNMENT
  <1>5. new \notin D
    BY <1>3, <1>4 DEF BlocksOf
  <1>6. Headers(D \cup {new}, g) /\ SameLinks(D, g, h) /\ Cut(D, g, h, b, required)
    BY <1>1, <1>2, <1>3, <1>5, CutEffect
  <1>7. Tiling(B \cup {new}, g, first, end)
    BY <1>1, <1>6, CutTiles
  <1> HIDE DEF g
  <1>8. DOMAIN g = D \cup {new}
    BY <1>6 DEF Headers
  <1> HIDE DEF new
  <1>9. BlocksOf(g) = B \cup {new}
    BY <1>3, <1>8 DEF BlocksOf
  <1>10. IsFiniteSet(DOMAIN g)
    BY <1>1, <1>8, FS_AddElement
  <1>11. IsList(g, F)
    <2>1. SameLinks(F \cup {SENTINEL}, g, h)
      BY <1>1, <1>6 DEF SameLinks
    <2> QED BY <1>1, <2>1, ListFrame
  <1>12. Formed(g, F, first, end)
    BY <1>1, <1>6, <1>7, <1>8, <1>9, <1>10, <1>11 DEF Formed
  <1> QED BY <1>3, <1>5, <1>6, <1>8, <1>12 DEF g, new

\* Merging two neighbours that are in no list leaves the heap tiled.
LEMMA AbsorbKeeps ==
  ASSUME NEW h, NEW F, NEW first, NEW end, Formed(h, F, first, end),
         NEW a \in BlocksOf(h) \ F, NEW b \in BlocksOf(h) \ F, h[a].next_phys = b
  PROVE  LET g == Absorb(h, a, b)
         IN  /\ DOMAIN g = DOMAIN h \ {b} /\ Merged(DOMAIN h, g, h, a, b)
             /\ Formed(g, F, first, end) /\ a # b
  <1> DEFINE g == Absorb(h, a, b)
             D == DOMAIN h
             B == BlocksOf(h)
  <1>1. /\ Headers(D, h) /\ IsFiniteSet(D) /\ Tiling(B, h, first, end)
        /\ F \subseteq B /\ IsList(h, F)
        /\ a \in D /\ b \in D \ {SENTINEL} /\ B \subseteq D /\ SENTINEL \in D
    BY DEF Formed, BlocksOf, Headers
  <1>2. a # b /\ h[b].next_phys \in (D \ {b}) \cup {NULL}
    BY <1>1, FormedLinks
  <1>3. Headers(D \ {b}, g) /\ SameLinks(D \ {b}, g, h) /\ Merged(D, g, h, a, b)
    BY <1>1, <1>2, AbsorbEffect
  <1>4. Tiling(B \ {b}, g, first, end)
    BY <1>1, <1>3, MergeTiles
  <1> HIDE DEF g
  <1>5. DOMAIN g = D \ {b}
    BY <1>3 DEF Headers
  <1>6. BlocksOf(g) = B \ {b} /\ F \subseteq BlocksOf(g)
    BY <1>1, <1>5 DEF BlocksOf
  <1>7. IsFiniteSet(DOMAIN g)
    BY <1>1, <1>5, FS_RemoveElement
  <1>8. IsList(g, F)
    <2>1. SameLinks(F \cup {SENTINEL}, g, h)
      BY <1>1, <1>3 DEF SameLinks
    <2> QED BY <1>1, <2>1, ListFrame
  <1>9. Formed(g, F, first, end)
    BY <1>3, <1>4, <1>5, <1>6, <1>7, <1>8 DEF Formed
  <1> QED BY <1>2, <1>3, <1>5, <1>9 DEF g

-----------------------------------------------------------------------------
(* mm_alloc and mm_free of a block. *)

FreeOf(h) == {b \in BlocksOf(h) : ~h[b].allocated}

AllocOf(h) == {b \in BlocksOf(h) : h[b].allocated}

\* b is not followed by a free block.
NotFree(h, b) == h[b].next_phys # NULL => h[h[b].next_phys].allocated

\* The heap between two calls: the free blocks are those in the free list, and
\* no two of them are side by side.
Sound(h, first, end) ==
  /\ Formed(h, FreeOf(h), first, end)
  /\ \A b \in FreeOf(h) : NotFree(h, b)

\* mm_alloc: the headers after b has been taken.
Taken(h, b, required) ==
  Mark(split_block_if_possible(free_list_remove(h, b), b, required), b, TRUE)

\* mm_simple_malloc's part after the search keeps the heap sound, and
\* hands out a block that is large enough.
LEMMA TakeKeeps ==
  ASSUME NEW h, NEW first, NEW end, Sound(h, first, end), NEW b \in FreeOf(h),
         NEW required \in Nat, required % 8 = 0, required >= min_block_size,
         h[b].size >= required
  PROVE  LET g == Taken(h, b, required)
         IN  /\ Sound(g, first, end) /\ AllocOf(g) = AllocOf(h) \cup {b}
             /\ g[b].size >= required /\ b \in BlocksOf(g) /\ g[b].size \in Nat
             /\ \A x \in AllocOf(h) : g[x].size = h[x].size
  <1> DEFINE F == FreeOf(h)
             D == DOMAIN h
             B == BlocksOf(h)
             f == free_list_remove(h, b)
             g == Taken(h, b, required)
  <1>1. /\ Formed(h, F, first, end) /\ b \in B /\ ~h[b].allocated /\ F \subseteq B /\ b \in F
        /\ B \subseteq D /\ SENTINEL \notin B
    BY DEF Sound, FreeOf, BlocksOf
  <1>2. DOMAIN f = D /\ SameBlocks(D, f, h) /\ Formed(f, F \ {b}, first, end)
    BY <1>1, RemoveKeeps
  <1>3. g = Mark(split_block_if_possible(f, b, required), b, TRUE)
    BY DEF Taken
  <1>4. \A x \in B : h[x].size \in Nat /\ x \in Nat /\ x # NULL
    BY <1>1, FormedLinks
  <1>4a. \A x \in B : /\ h[x].next_phys \in (B \ {x}) \cup {NULL}
                      /\ h[x].allocated \in BOOLEAN
    BY <1>1, FormedLinks
  <1>5. f[b].size = h[b].size /\ f[b].next_phys = h[b].next_phys
    BY <1>1, <1>2 DEF SameBlocks
  <1>6. BlocksOf(f) = B /\ b \in BlocksOf(f) \ (F \ {b})
    BY <1>1, <1>2 DEF BlocksOf
  <1>7. \A x \in F : h[x].next_phys # NULL => h[h[x].next_phys].allocated /\ h[x].next_phys \in B
    BY <1>1, <1>4a DEF Sound, NotFree
  <1> HIDE DEF f, g, F, B
  <1>7a. \A x \in B : x \in F <=> ~h[x].allocated
    BY DEF F, B, FreeOf
  <1>8. CASE h[b].size < required + min_block_size
    <2>1. g = Mark(f, b, TRUE)
      BY <1>3, <1>5, <1>8 DEF split_block_if_possible
    <2>1a. /\ DOMAIN g = D /\ Formed(g, F \ {b}, first, end)
           /\ Marked(D, g, f, b, TRUE)
      BY <1>2, <1>6, <2>1, MarkKeeps, Zenon
    <2>2. /\ DOMAIN g = D /\ Formed(g, F \ {b}, first, end)
          /\ \A x \in D : /\ g[x].size = f[x].size /\ g[x].prev_phys = f[x].prev_phys
                          /\ g[x].next_phys = f[x].next_phys
                          /\ g[x].allocated = IF x = b THEN TRUE ELSE f[x].allocated
      BY <2>1a DEF Marked
    <2>3. \A x \in B : /\ g[x].size = h[x].size /\ g[x].next_phys = h[x].next_phys
                       /\ g[x].allocated = IF x = b THEN TRUE ELSE h[x].allocated
      BY <1>1, <1>2, <2>2 DEF SameBlocks
    <2>4. BlocksOf(g) = B
      BY <2>2 DEF BlocksOf, B
    <2>5. FreeOf(g) = F \ {b}
      BY <1>1, <1>7a, <2>3, <2>4 DEF FreeOf
    <2>6. AllocOf(g) = AllocOf(h) \cup {b}
      BY <1>1, <1>4a, <2>3, <2>4 DEF AllocOf, B
    <2>7. ASSUME NEW x \in F \ {b} PROVE NotFree(g, x)
      <3>1. g[x].next_phys = h[x].next_phys
        BY <1>1, <2>3
      <3>2. h[x].next_phys # NULL => g[h[x].next_phys].allocated
        BY <1>7, <2>3
      <3> QED BY <3>1, <3>2 DEF NotFree
    <2>8. Sound(g, first, end)
      BY <2>2, <2>5, <2>7 DEF Sound
    <2>9. g[b].size >= required /\ g[b].size \in Nat /\ b \in BlocksOf(g)
      BY <1>1, <1>4, <2>3, <2>4
    <2>10. \A x \in AllocOf(h) : g[x].size = h[x].size
      BY <2>3 DEF AllocOf, B
    <2> QED BY <2>6, <2>8, <2>9, <2>10 DEF g
  <1>9. CASE ~(h[b].size < required + min_block_size)
    <2> DEFINE new == b + required
               c == CutBlock(f, b, required)
               i == free_list_insert(c, new)
               n == h[b].next_phys
    <2>1. g = Mark(i, b, TRUE)
      BY <1>3, <1>5, <1>9 DEF split_block_if_possible, CutBlock
    <2>2. f[b].size - required >= min_block_size
      BY <1>1, <1>4, <1>5, <1>9 DEF min_block_size, HEADER, MM_ALIGNMENT
    <2>3. /\ DOMAIN c = D \cup {new} /\ new \notin D /\ new # SENTINEL
          /\ Cut(D, c, f, b, required) /\ Formed(c, F \ {b}, first, end)
      BY <1>2, <1>6, <2>2, CutKeeps
    <2> HIDE DEF c, new
    <2>4. BlocksOf(c) = B \cup {new} /\ new \in BlocksOf(c) \ (F \ {b}) /\ new # b /\ new \notin B
      BY <1>1, <2>3 DEF BlocksOf, B
    <2>5. /\ DOMAIN i = D \cup {new} /\ SameBlocks(D \cup {new}, i, c)
          /\ Formed(i, (F \ {b}) \cup {new}, first, end)
      BY <2>3, <2>4, InsertKeeps
    <2> HIDE DEF i
    <2>6. BlocksOf(i) = B \cup {new} /\ b \in BlocksOf(i)
      BY <1>1, <2>3, <2>4, <2>5 DEF BlocksOf
    <2>6a. /\ DOMAIN g = D \cup {new} /\ Formed(g, (F \ {b}) \cup {new}, first, end)
           /\ Marked(D \cup {new}, g, i, b, TRUE)
      BY <2>1, <2>5, <2>6, MarkKeeps, Zenon
    <2>7. /\ DOMAIN g = D \cup {new} /\ Formed(g, (F \ {b}) \cup {new}, first, end)
          /\ \A x \in D \cup {new} :
               /\ g[x].size = i[x].size /\ g[x].prev_phys = i[x].prev_phys
               /\ g[x].next_phys = i[x].next_phys
               /\ g[x].allocated = IF x = b THEN TRUE ELSE i[x].allocated
      BY <2>6a DEF Marked
    <2>8. BlocksOf(g) = B \cup {new}
      BY <2>5, <2>6, <2>7 DEF BlocksOf
    <2>9. \A x \in B : /\ c[x].size = IF x = b THEN required ELSE f[x].size
                       /\ c[x].next_phys = IF x = b THEN new ELSE f[x].next_phys
                       /\ c[x].allocated = f[x].allocated
      BY <1>1, <2>3 DEF Cut, new
    <2>10. \A x \in B : /\ g[x].size = IF x = b THEN required ELSE h[x].size
                        /\ g[x].next_phys = IF x = b THEN new ELSE h[x].next_phys
                        /\ g[x].allocated = IF x = b THEN TRUE ELSE h[x].allocated
      <3> TAKE x \in B
      <3>1. x \in D
        BY <1>1
      <3>2. f[x].size = h[x].size /\ f[x].next_phys = h[x].next_phys
            /\ f[x].allocated = h[x].allocated
        BY <1>2, <3>1 DEF SameBlocks
      <3>3. i[x].size = c[x].size /\ i[x].next_phys = c[x].next_phys
            /\ i[x].allocated = c[x].allocated
        BY <2>5, <3>1 DEF SameBlocks
      <3>4. g[x].size = i[x].size /\ g[x].next_phys = i[x].next_phys
            /\ g[x].allocated = IF x = b THEN TRUE ELSE i[x].allocated
        BY <2>7, <3>1
      <3> QED BY <2>9, <3>2, <3>3, <3>4
    <2>11. g[new].next_phys = n /\ g[new].allocated = FALSE
      <3>1. c[new].next_phys = f[b].next_phys /\ c[new].allocated = FALSE
        BY <2>3 DEF Cut, new
      <3>2. i[new].next_phys = c[new].next_phys /\ i[new].allocated = c[new].allocated
        BY <2>5 DEF SameBlocks
      <3>3. g[new].next_phys = i[new].next_phys /\ g[new].allocated = i[new].allocated
        BY <2>4, <2>7
      <3> QED BY <1>5, <3>1, <3>2, <3>3
    <2>12. FreeOf(g) = (F \ {b}) \cup {new}
      BY <1>1, <1>7a, <2>4, <2>8, <2>10, <2>11 DEF FreeOf
    <2>13. AllocOf(g) = AllocOf(h) \cup {b}
      BY <1>1, <1>4a, <2>4, <2>8, <2>10, <2>11 DEF AllocOf, B
    <2>14. NotFree(g, new)
      <3>1. n # NULL => g[n].allocated
        BY <1>1, <1>7, <2>10
      <3> QED BY <2>11, <3>1 DEF NotFree
    <2>15. ASSUME NEW x \in F \ {b} PROVE NotFree(g, x)
      <3>1. g[x].next_phys = h[x].next_phys
        BY <1>1, <2>10
      <3>2. h[x].next_phys # NULL => g[h[x].next_phys].allocated
        BY <1>7, <2>10
      <3> QED BY <3>1, <3>2 DEF NotFree
    <2>16. Sound(g, first, end)
      BY <2>7, <2>12, <2>14, <2>15 DEF Sound
    <2>17. g[b].size >= required /\ b \in BlocksOf(g) /\ g[b].size \in Nat
      <3>1. g[b].size = required
        BY <1>1, <2>10
      <3>2. required >= required
        OBVIOUS
      <3> QED BY <1>1, <2>8, <3>1, <3>2
    <2>18. \A x \in AllocOf(h) : g[x].size = h[x].size
      BY <1>1, <2>10 DEF AllocOf, B
    <2> QED BY <2>13, <2>16, <2>17, <2>18 DEF g
  <1> QED BY <1>8, <1>9

\* While b is being freed: the free block blk is not yet in the free list, and
\* may still have a free block after it.
Pending(e, blk, h, b, first, end) ==
  /\ blk \in FreeOf(e)
  /\ Formed(e, FreeOf(e) \ {blk}, first, end)
  /\ \A x \in FreeOf(e) \ {blk} : NotFree(e, x)
  /\ AllocOf(e) = AllocOf(h) \ {b}
  /\ \A x \in AllocOf(e) : e[x].size = h[x].size

\* A block that is marked free is pending, if there is no free block before it.
LEMMA FreeAlone ==
  ASSUME NEW h, NEW first, NEW end, Sound(h, first, end), NEW b \in AllocOf(h),
         NEW m, m = Mark(h, b, FALSE), ~IsFree(m, h[b].prev_phys)
  PROVE  Pending(m, b, h, b, first, end) /\ m[b].next_phys = h[b].next_phys
  <1> DEFINE F == FreeOf(h)
             D == DOMAIN h
             B == BlocksOf(h)
  <1>1. /\ Formed(h, F, first, end) /\ b \in B /\ h[b].allocated /\ b \notin F
        /\ B \subseteq D /\ F \subseteq B /\ b \in D
    BY DEF Sound, FreeOf, AllocOf, BlocksOf
  <1>2. DOMAIN m = D /\ Formed(m, F, first, end) /\ Marked(D, m, h, b, FALSE)
    BY <1>1, MarkKeeps, Zenon
  <1>3. \A x \in B : /\ m[x].size = h[x].size /\ m[x].prev_phys = h[x].prev_phys
                     /\ m[x].next_phys = h[x].next_phys
                     /\ m[x].allocated = IF x = b THEN FALSE ELSE h[x].allocated
    BY <1>1, <1>2 DEF Marked
  <1>4. \A x \in B : /\ h[x].next_phys \in (B \ {x}) \cup {NULL} /\ x # NULL
                     /\ h[x].allocated \in BOOLEAN
                     /\ h[x].next_phys # NULL => h[h[x].next_phys].prev_phys = x
    BY <1>1, FormedLinks
  <1>5. BlocksOf(m) = B
    BY <1>2 DEF BlocksOf
  <1>6. \A x \in F : h[x].next_phys # NULL => h[h[x].next_phys].allocated
    BY DEF Sound, NotFree
  <1> HIDE DEF F, B
  <1>7. \A x \in B : (x \in F <=> ~h[x].allocated) /\ (x \in AllocOf(h) <=> h[x].allocated)
    BY DEF F, B, FreeOf, AllocOf
  <1>8. FreeOf(m) = F \cup {b}
    BY <1>1, <1>3, <1>5, <1>7 DEF FreeOf
  <1>9. AllocOf(m) = AllocOf(h) \ {b}
    BY <1>1, <1>3, <1>5 DEF AllocOf, B
  <1>10. ASSUME NEW x \in F PROVE NotFree(m, x)
    <2> DEFINE y == h[x].next_phys
    <2>1. m[x].next_phys = y
      BY <1>1, <1>3
    <2>2. y # NULL => y \in B /\ h[y].allocated /\ h[y].prev_phys = x
      BY <1>1, <1>4, <1>6
    <2> HIDE DEF y
    <2>3. y # NULL => y # b
      <3> SUFFICES ASSUME y # NULL, y = b PROVE FALSE
        OBVIOUS
      <3>1. h[b].prev_phys = x /\ x # b
        BY <1>1, <2>2
      <3>2. ~m[x].allocated /\ x # NULL
        BY <1>1, <1>3, <1>4, <1>7, <3>1
      <3> QED BY <3>1, <3>2 DEF IsFree
    <2>4. y # NULL => m[y].allocated
      BY <1>3, <2>2, <2>3
    <2> QED BY <2>1, <2>4 DEF NotFree
  <1>11. \A x \in AllocOf(m) : m[x].size = h[x].size
    BY <1>3, <1>5 DEF AllocOf
  <1>12. FreeOf(m) \ {b} = F /\ b \in FreeOf(m)
    BY <1>1, <1>8
  <1>13. Pending(m, b, h, b, first, end)
    BY <1>2, <1>9, <1>10, <1>11, <1>12 DEF Pending
  <1> QED BY <1>1, <1>3, <1>13

\* A free block before it is merged with it.
LeftMerged(h, b) ==
  LET p == h[b].prev_phys IN Absorb(free_list_remove(Mark(h, b, FALSE), p), p, b)

\* mm_simple_free, where the block before b is free: b is merged into it.
LEMMA FreeLeft ==
  ASSUME NEW h, NEW first, NEW end, Sound(h, first, end), NEW b \in AllocOf(h),
         IsFree(Mark(h, b, FALSE), h[b].prev_phys)
  PROVE  LET e == LeftMerged(h, b)
             n == h[b].next_phys
         IN  /\ Pending(e, h[b].prev_phys, h, b, first, end)
             /\ e[h[b].prev_phys].next_phys = n
             /\ n # NULL => e[n].allocated = Mark(h, b, FALSE)[n].allocated
  <1> DEFINE F == FreeOf(h)
             D == DOMAIN h
             B == BlocksOf(h)
             m == Mark(h, b, FALSE)
             p == h[b].prev_phys
             n == h[b].next_phys
             r == free_list_remove(m, p)
             e == Absorb(r, p, b)
  <1>0. e = LeftMerged(h, b)
    BY DEF LeftMerged
  <1>0a. p = h[b].prev_phys /\ n = h[b].next_phys
    OBVIOUS
  <1>1. /\ Formed(h, F, first, end) /\ b \in B /\ h[b].allocated /\ b \notin F
        /\ B \subseteq D /\ F \subseteq B /\ b \in D /\ SENTINEL \notin B
    BY DEF Sound, FreeOf, AllocOf, BlocksOf
  <1>2. DOMAIN m = D /\ Formed(m, F, first, end) /\ Marked(D, m, h, b, FALSE)
    BY <1>1, MarkKeeps, Zenon
  <1>3. \A x \in B : /\ m[x].size = h[x].size /\ m[x].next_phys = h[x].next_phys
                     /\ m[x].allocated = IF x = b THEN FALSE ELSE h[x].allocated
    BY <1>1, <1>2 DEF Marked
  <1>4. \A x \in B : /\ h[x].next_phys \in (B \ {x}) \cup {NULL} /\ x # NULL
                     /\ h[x].allocated \in BOOLEAN /\ h[x].prev_phys \in (B \ {x}) \cup {NULL}
                     /\ h[x].next_phys # NULL => h[h[x].next_phys].prev_phys = x
                     /\ h[x].prev_phys # NULL => h[h[x].prev_phys].next_phys = x
    BY <1>1, FormedLinks
  <1>5. \A x \in F : h[x].next_phys # NULL => h[h[x].next_phys].allocated
    BY DEF Sound, NotFree
  <1>5a. p # NULL /\ ~m[p].allocated
    BY DEF IsFree
  <1> HIDE DEF F, B, r, e, m, p, n
  <1>6. \A x \in B : (x \in F <=> ~h[x].allocated) /\ (x \in AllocOf(h) <=> h[x].allocated)
    BY DEF F, B, FreeOf, AllocOf
  <1>7. p \in B \ {b} /\ h[p].next_phys = b
    BY <1>0a, <1>1, <1>4, <1>5a
  <1>7a. p \in F
    BY <1>3, <1>5a, <1>6, <1>7
  <1>7b. p # n
    <2> SUFFICES ASSUME p = n PROVE FALSE
      OBVIOUS
    <2>1. p > b /\ p < b
      <3>1. Tiling(B, h, first, end)
        BY <1>1 DEF Formed, B
      <3> QED BY <1>0a, <1>1, <1>5a, <3>1, NextOf, ZenonT(30)
    <2>2. p \in Nat /\ b \in Nat
      BY <1>1, <1>7, FormedLinks DEF B
    <2> QED BY <2>1, <2>2
  <1>8. DOMAIN r = D /\ SameBlocks(D, r, m) /\ Formed(r, F \ {p}, first, end)
    BY <1>2, <1>7a, RemoveKeeps DEF r
  <1>9. \A x \in B : /\ r[x].size = h[x].size /\ r[x].next_phys = h[x].next_phys
                     /\ r[x].allocated = IF x = b THEN FALSE ELSE h[x].allocated
    <2> TAKE x \in B
    <2>1. /\ r[x].size = m[x].size /\ r[x].next_phys = m[x].next_phys
          /\ r[x].allocated = m[x].allocated
      BY <1>1, <1>8 DEF SameBlocks
    <2> QED BY <1>3, <2>1
  <1>10. BlocksOf(r) = B
    BY <1>8 DEF BlocksOf, B
  <1>11. DOMAIN e = D \ {b} /\ Merged(D, e, r, p, b) /\ Formed(e, F \ {p}, first, end)
    <2>1. p \in BlocksOf(r) \ (F \ {p}) /\ b \in BlocksOf(r) \ (F \ {p}) /\ r[p].next_phys = b
      BY <1>1, <1>7, <1>9, <1>10
    <2> QED BY <1>8, <2>1, AbsorbKeeps DEF e
  <1>12. BlocksOf(e) = B \ {b}
    BY <1>11 DEF BlocksOf, B
  <1>13. \A x \in B \ {b} :
           /\ e[x].next_phys = IF x = p THEN n ELSE h[x].next_phys
           /\ e[x].allocated = h[x].allocated
           /\ x # p => e[x].size = h[x].size
    <2> TAKE x \in B \ {b}
    <2>1. /\ e[x].next_phys = IF x = p THEN r[b].next_phys ELSE r[x].next_phys
          /\ e[x].allocated = IF x = p THEN FALSE ELSE r[x].allocated
          /\ x # p => e[x].size = r[x].size
      BY <1>1, <1>11 DEF Merged
    <2>2. ~h[p].allocated /\ h[p].allocated \in BOOLEAN
      BY <1>4, <1>6, <1>7, <1>7a
    <2> QED BY <1>0a, <1>1, <1>9, <2>1, <2>2
  <1>14. FreeOf(e) = F
    BY <1>1, <1>6, <1>12, <1>13 DEF FreeOf
  <1>15. AllocOf(e) = AllocOf(h) \ {b}
    BY <1>1, <1>6, <1>12, <1>13 DEF AllocOf, B
  <1>16. ASSUME NEW x \in F \ {p} PROVE NotFree(e, x)
    <2> DEFINE y == h[x].next_phys
    <2>1. e[x].next_phys = y
      BY <1>1, <1>13
    <2>2. y # NULL => y \in B /\ h[y].allocated /\ h[y].prev_phys = x
      BY <1>1, <1>4, <1>5
    <2> HIDE DEF y
    <2>3. y # NULL => y # b
      BY <1>0a, <2>2
    <2>4. y # NULL => e[y].allocated
      BY <1>13, <2>2, <2>3
    <2> QED BY <2>1, <2>4 DEF NotFree
  <1>17. \A x \in AllocOf(e) : e[x].size = h[x].size
    BY <1>6, <1>7a, <1>12, <1>13 DEF AllocOf
  <1>18. Pending(e, p, h, b, first, end)
    BY <1>7a, <1>11, <1>14, <1>15, <1>16, <1>17 DEF Pending
  <1>19. e[p].next_phys = n
    BY <1>7, <1>13
  <1>20. n # NULL => n \in B \ {p, b}
    BY <1>0a, <1>1, <1>4, <1>7b
  <1>21. n # NULL => e[n].allocated = m[n].allocated
    BY <1>3, <1>13, <1>20
  <1> QED BY <1>0, <1>18, <1>19, <1>21 DEF m, n, p

\* So is a free block after it.
LEMMA FreeRight ==
  ASSUME NEW h, NEW b, NEW first, NEW end, NEW l, NEW blk, Pending(l, blk, h, b, first, end),
         NEW n, n = l[blk].next_phys, IsFree(l, n)
  PROVE  LET e == Absorb(free_list_remove(l, n), blk, n)
         IN  Pending(e, blk, h, b, first, end) /\ NotFree(e, blk)
  <1> DEFINE F == FreeOf(l)
             G == F \ {blk}
             D == DOMAIN l
             B == BlocksOf(l)
             r == free_list_remove(l, n)
             e == Absorb(r, blk, n)
  <1>1. /\ Formed(l, G, first, end) /\ blk \in B /\ blk \in F /\ B \subseteq D /\ F \subseteq B
        /\ SENTINEL \notin B
    BY DEF Pending, FreeOf, BlocksOf
  <1>2. \A x \in B : /\ l[x].next_phys \in (B \ {x}) \cup {NULL} /\ x # NULL
                     /\ l[x].allocated \in BOOLEAN
                     /\ l[x].next_phys # NULL => l[l[x].next_phys].prev_phys = x
    BY <1>1, FormedLinks
  <1>3. \A x \in G : l[x].next_phys # NULL => l[l[x].next_phys].allocated
    BY DEF Pending, NotFree
  <1>3a. n # NULL /\ ~l[n].allocated
    BY DEF IsFree
  <1> HIDE DEF F, B, r, e
  <1>4. \A x \in B : (x \in F <=> ~l[x].allocated) /\ (x \in AllocOf(l) <=> l[x].allocated)
    BY DEF F, B, FreeOf, AllocOf
  <1>5. n \in G /\ n \in B /\ n # blk /\ n # SENTINEL
    BY <1>1, <1>2, <1>3a, <1>4
  <1>6. DOMAIN r = D /\ SameBlocks(D, r, l) /\ Formed(r, G \ {n}, first, end)
    BY <1>1, <1>5, RemoveKeeps DEF r
  <1>7. \A x \in B : /\ r[x].size = l[x].size /\ r[x].next_phys = l[x].next_phys
                     /\ r[x].allocated = l[x].allocated
    BY <1>1, <1>6 DEF SameBlocks
  <1>8. BlocksOf(r) = B
    BY <1>6 DEF BlocksOf, B
  <1>9. DOMAIN e = D \ {n} /\ Merged(D, e, r, blk, n) /\ Formed(e, G \ {n}, first, end)
    <2>1. blk \in BlocksOf(r) \ (G \ {n}) /\ n \in BlocksOf(r) \ (G \ {n}) /\ r[blk].next_phys = n
      BY <1>1, <1>5, <1>7, <1>8
    <2> DEFINE H == G \ {n}
    <2>2. blk \in BlocksOf(r) \ H /\ n \in BlocksOf(r) \ H /\ Formed(r, H, first, end)
      BY <1>6, <2>1
    <2> HIDE DEF H
    <2>3. DOMAIN e = DOMAIN r \ {n} /\ Merged(DOMAIN r, e, r, blk, n) /\ Formed(e, H, first, end)
      BY <2>1, <2>2, AbsorbKeeps DEF e
    <2> QED BY <1>6, <2>3 DEF H
  <1>10. BlocksOf(e) = B \ {n}
    BY <1>9 DEF BlocksOf, B
  <1>11. \A x \in B \ {n} :
           /\ e[x].next_phys = IF x = blk THEN l[n].next_phys ELSE l[x].next_phys
           /\ e[x].allocated = l[x].allocated
           /\ x # blk => e[x].size = l[x].size
    <2> TAKE x \in B \ {n}
    <2>1. /\ e[x].next_phys = IF x = blk THEN r[n].next_phys ELSE r[x].next_phys
          /\ e[x].allocated = IF x = blk THEN FALSE ELSE r[x].allocated
          /\ x # blk => e[x].size = r[x].size
      BY <1>1, <1>9 DEF Merged
    <2>2. ~l[blk].allocated /\ l[blk].allocated \in BOOLEAN
      BY <1>1, <1>2, <1>4
    <2> QED BY <1>1, <1>5, <1>7, <2>1, <2>2
  <1>12. FreeOf(e) = F \ {n} /\ FreeOf(e) \ {blk} = G \ {n} /\ blk \in FreeOf(e)
    <2>1. FreeOf(e) = F \ {n}
      BY <1>1, <1>4, <1>10, <1>11 DEF FreeOf
    <2> QED BY <1>1, <1>5, <2>1
  <1>13. AllocOf(e) = AllocOf(l)
    BY <1>3a, <1>4, <1>10, <1>11 DEF AllocOf, B
  <1>14. ASSUME NEW y \in B, l[y].allocated PROVE e[y].allocated
    BY <1>3a, <1>11, <1>14
  <1>15. ASSUME NEW x \in G \ {n} PROVE NotFree(e, x)
    <2>1. e[x].next_phys = l[x].next_phys /\ x \in B
      BY <1>1, <1>11
    <2>2. l[x].next_phys # NULL => l[x].next_phys \in B /\ l[l[x].next_phys].allocated
      BY <1>2, <1>3, <2>1
    <2> QED BY <1>14, <2>1, <2>2 DEF NotFree
  <1>16. NotFree(e, blk)
    <2>1. e[blk].next_phys = l[n].next_phys
      BY <1>1, <1>5, <1>11
    <2>2. l[n].next_phys # NULL => l[n].next_phys \in B /\ l[l[n].next_phys].allocated
      BY <1>2, <1>3, <1>5
    <2> QED BY <1>14, <2>1, <2>2 DEF NotFree
  <1>17. AllocOf(l) = AllocOf(h) \ {b} /\ \A x \in AllocOf(l) : l[x].size = h[x].size
    BY DEF Pending
  <1>18. \A x \in AllocOf(e) : e[x].size = h[x].size
    <2> TAKE x \in AllocOf(e)
    <2>1. x \in AllocOf(l) /\ x \in B \ {n}
      BY <1>10, <1>13 DEF AllocOf
    <2>2. x # blk
      BY <1>1, <1>4, <2>1
    <2> QED BY <1>11, <1>17, <2>1, <2>2
  <1>19. Pending(e, blk, h, b, first, end)
    BY <1>9, <1>12, <1>13, <1>15, <1>17, <1>18 DEF Pending
  <1> QED BY <1>16, <1>19 DEF e, r

\* mm_free: the headers after b has been freed.
Released(h, b) ==
  LET merged == coalesce_with_neighbors(Mark(h, b, FALSE), b)
  IN  free_list_insert(merged.h, merged.block)

\* mm_simple_free keeps the heap sound, and gives back just the block b.
LEMMA ReleaseKeeps ==
  ASSUME NEW h, NEW first, NEW end, Sound(h, first, end), NEW b \in AllocOf(h)
  PROVE  LET g == Released(h, b)
         IN  /\ Sound(g, first, end) /\ AllocOf(g) = AllocOf(h) \ {b}
             /\ \A x \in AllocOf(g) : g[x].size = h[x].size
  <1> DEFINE m == Mark(h, b, FALSE)
             p == h[b].prev_phys
             n == h[b].next_phys
             B == BlocksOf(h)
             left  == IF IsFree(m, p) THEN Absorb(free_list_remove(m, p), p, b) ELSE m
             block == IF IsFree(m, p) THEN p ELSE b
             e == IF IsFree(m, n) THEN Absorb(free_list_remove(left, n), block, n) ELSE left
             g == free_list_insert(e, block)
  <1>1. /\ Formed(h, FreeOf(h), first, end) /\ b \in B /\ B \subseteq DOMAIN h
    BY DEF Sound, AllocOf, BlocksOf
  <1>2. Marked(DOMAIN h, m, h, b, FALSE) /\ DOMAIN m = DOMAIN h
    BY <1>1, MarkKeeps, Zenon
  <1>3. \A x \in B : /\ m[x].prev_phys = h[x].prev_phys /\ m[x].next_phys = h[x].next_phys
                     /\ x # b => m[x].allocated = h[x].allocated
    BY <1>1, <1>2 DEF Marked
  <1>4. /\ n \in (B \ {b}) \cup {NULL} /\ p \in (B \ {b}) \cup {NULL} /\ b # NULL
    BY <1>1, FormedLinks
  <1>5. Released(h, b) = g
    <2>1. m[b].prev_phys = p /\ m[b].next_phys = n
      BY <1>1, <1>3
    <2> HIDE DEF m, p, n
    <2> QED BY <2>1 DEF Released, coalesce_with_neighbors, m
  <1>6. /\ Pending(left, block, h, b, first, end) /\ left[block].next_phys = n
        /\ n # NULL => left[n].allocated = m[n].allocated
    <2>1. CASE ~IsFree(m, p)
      <3>1. left = m /\ block = b
        BY <2>1
      <3>2. Pending(m, b, h, b, first, end) /\ m[b].next_phys = n
        BY <2>1, FreeAlone
      <3> HIDE DEF left, block, m, n
      <3> QED BY <3>1, <3>2
    <2>2. CASE IsFree(m, p)
      <3> DEFINE a == LeftMerged(h, b)
      <3>1. left = a /\ block = p
        BY <2>2 DEF LeftMerged
      <3>2. Pending(a, p, h, b, first, end) /\ a[p].next_phys = n
            /\ (n # NULL => a[n].allocated = m[n].allocated)
        BY <2>2, FreeLeft
      <3> HIDE DEF a, left, block, m, n, p, B
      <3> QED BY <3>1, <3>2
    <2> QED BY <2>1, <2>2
  <1> HIDE DEF left, block, m, n, p, B
  <1>7. Pending(e, block, h, b, first, end) /\ NotFree(e, block)
    <2>1. IsFree(m, n) <=> IsFree(left, n)
      BY <1>6 DEF IsFree
    <2>2. CASE IsFree(m, n)
      BY <1>6, <2>1, <2>2, FreeRight
    <2>3. CASE ~IsFree(m, n)
      <3>1. e = left /\ (n # NULL => left[n].allocated)
        BY <2>1, <2>3 DEF IsFree
      <3> HIDE DEF e
      <3> QED BY <1>6, <3>1 DEF NotFree
    <2> QED BY <2>2, <2>3
  <1> HIDE DEF e
  <1>8. /\ block \in FreeOf(e) /\ Formed(e, FreeOf(e) \ {block}, first, end)
        /\ \A x \in FreeOf(e) : NotFree(e, x)
        /\ AllocOf(e) = AllocOf(h) \ {b}
        /\ \A x \in AllocOf(e) : e[x].size = h[x].size
    BY <1>7 DEF Pending
  <1>8a. block \in BlocksOf(e) \ (FreeOf(e) \ {block})
    BY <1>8 DEF FreeOf
  <1>9. /\ DOMAIN g = DOMAIN e /\ SameBlocks(DOMAIN e, g, e)
        /\ Formed(g, (FreeOf(e) \ {block}) \cup {block}, first, end)
    BY <1>8, <1>8a, InsertKeeps
  <1> HIDE DEF g
  <1>10. BlocksOf(g) = BlocksOf(e)
    BY <1>9 DEF BlocksOf
  <1>11. \A x \in BlocksOf(e) : /\ g[x].size = e[x].size /\ g[x].allocated = e[x].allocated
                                /\ g[x].next_phys = e[x].next_phys
    BY <1>9 DEF SameBlocks, BlocksOf
  <1>12. FreeOf(g) = FreeOf(e) /\ AllocOf(g) = AllocOf(e)
    BY <1>10, <1>11 DEF FreeOf, AllocOf
  <1>13. Formed(g, FreeOf(g), first, end)
    <2>1. (FreeOf(e) \ {block}) \cup {block} = FreeOf(e)
      BY <1>8
    <2> QED BY <1>9, <1>12, <2>1
  <1>14. ASSUME NEW x \in FreeOf(e) PROVE NotFree(g, x)
    <2>1. x \in BlocksOf(e)
      BY DEF FreeOf
    <2>2. e[x].next_phys # NULL => e[x].next_phys \in BlocksOf(e) /\ e[e[x].next_phys].allocated
      BY <1>8, <2>1, FormedLinks DEF NotFree
    <2> QED BY <1>11, <2>1, <2>2 DEF NotFree
  <1>15. Sound(g, first, end)
    BY <1>12, <1>13, <1>14 DEF Sound
  <1>16. \A x \in AllocOf(g) : g[x].size = h[x].size
    BY <1>8, <1>11, <1>12 DEF AllocOf
  <1> QED BY <1>5, <1>8, <1>12, <1>15, <1>16

-----------------------------------------------------------------------------
(* The arithmetic of mm_init and mm_alloc. *)

\* What the code relies on: unsigned arithmetic modulo a multiple of 16, a heap
\* that does not start at the null address, and sizes and heaps of that type.
SimpleAssumption ==
  /\ Word \in Nat \ {0} /\ Word % 16 = 0
  /\ Sizes \subseteq 0..(Word - 1)
  /\ Regions \subseteq [start : 1..(Word - 1), size : 0..(Word - 1)]

\* align_up gives a multiple of the alignment, which is no smaller than its
\* argument unless the addition wraps.
LEMMA AlignUp ==
  ASSUME SimpleAssumption, NEW v \in Nat
  PROVE  LET r == align_up(v, MM_ALIGNMENT)
         IN  /\ r \in Nat /\ r % 8 = 0 /\ r % 16 = 0
             /\ v + 15 < Word => r >= v /\ r <= v + 15
  <1> DEFINE x == (v + 15) % Word
  <1>1. x \in Nat /\ (v + 15 < Word => x = v + 15)
    BY DEF SimpleAssumption
  <1>2. align_up(v, MM_ALIGNMENT) = (x \div 16) * 16
    BY DEF align_up, MM_ALIGNMENT
  <1> HIDE DEF x
  <1>3. /\ (x \div 16) * 16 \in Nat /\ ((x \div 16) * 16) % 8 = 0 /\ ((x \div 16) * 16) % 16 = 0
        /\ (x \div 16) * 16 <= x /\ (x \div 16) * 16 + 15 >= x
    BY <1>1
  <1> QED BY <1>1, <1>2, <1>3

\* The word's width keeps multiples of eight.
LEMMA ModuloEight ==
  ASSUME SimpleAssumption, NEW x \in Nat, x % 8 = 0
  PROVE  x % Word \in Nat /\ (x % Word) % 8 = 0 /\ (x < Word => x % Word = x)
  <1>1. PICK w \in Nat : Word = 16 * w
    <2>1. Word \div 16 \in Nat /\ Word = 16 * (Word \div 16)
      BY DEF SimpleAssumption
    <2> QED BY <2>1
  <1>2. PICK q \in Nat : x = Word * q + (x % Word)
    <2>1. x \div Word \in Nat /\ x = Word * (x \div Word) + (x % Word)
      BY DEF SimpleAssumption
    <2> QED BY <2>1
  <1>3. x % Word \in Nat /\ (x < Word => x % Word = x)
    BY DEF SimpleAssumption
  <1>4. PICK k \in Nat : Word * q = 16 * k
    <2>1. w * q \in Nat /\ Word * q = 16 * (w * q)
      BY <1>1
    <2> QED BY <2>1
  <1>5. x = 16 * k + (x % Word)
    BY <1>2, <1>4
  <1>6. ASSUME NEW r \in Nat, x = 16 * k + r PROVE r % 8 = 0
    BY <1>6
  <1> QED BY <1>3, <1>5, <1>6

\* The allocator of include/mm.h that the manager implements.
A == INSTANCE Allocator WITH Alignment <- 8, Largest <- Word - 48, Least <- 16

\* A size of at most w - 48, rounded up to a multiple of 16, leaves room for
\* the header below w.
LEMMA AlignedIsSmall ==
  ASSUME NEW a \in Nat, NEW w \in Nat, NEW v \in Nat, a % 16 = 0, w % 16 = 0,
         v <= w - 48, a <= v + 15
  PROVE  a + 40 < w
  <1>1. PICK i \in Nat : a = 16 * i
    OBVIOUS
  <1>2. PICK j \in Nat : w = 16 * j
    OBVIOUS
  <1>3. 16 * i <= 16 * j - 33
    BY <1>1, <1>2
  <1>4. i <= j - 3
    BY <1>3
  <1> QED BY <1>1, <1>2, <1>4

\* The size the search asks for has room for the header and the bytes that
\* the caller may use.
LEMMA RequiredIs ==
  ASSUME SimpleAssumption, NEW size \in Sizes
  PROVE  LET r == Required(size)
         IN  /\ r \in Nat /\ r % 8 = 0 /\ r >= min_block_size
             /\ A!Usable(size) \in Nat /\ r >= A!Usable(size) + HEADER
             /\ size # 0 => A!Usable(size) # 0
  <1> DEFINE a == align_up(size, MM_ALIGNMENT)
             r == (a + 40) % Word
  <1>1. size \in Nat
    BY DEF SimpleAssumption
  <1>2. /\ a \in Nat /\ a % 8 = 0 /\ a % 16 = 0
        /\ size + 15 < Word => a >= size /\ a <= size + 15
    BY <1>1, AlignUp
  <1> HIDE DEF a
  <1>3. a + 40 \in Nat /\ (a + 40) % 8 = 0
    BY <1>2
  <1>4. r \in Nat /\ r % 8 = 0 /\ (a + 40 < Word => r = a + 40)
    BY <1>3, ModuloEight
  <1>5. Required(size) = IF r < 56 THEN 56 ELSE r
    BY DEF Required, min_block_size, HEADER, MM_ALIGNMENT, a
  <1> HIDE DEF r
  <1>6. Word \in Nat /\ Word % 16 = 0
    BY DEF SimpleAssumption
  <1>7. ASSUME size <= Word - 48 PROVE r >= size + 40
    <2>1. a >= size /\ a <= size + 15
      BY <1>1, <1>2, <1>6, <1>7
    <2>2. a + 40 < Word
      BY <1>1, <1>2, <1>6, <1>7, <2>1, AlignedIsSmall
    <2> QED BY <1>1, <1>2, <1>4, <2>1, <2>2
  <1>8. A!Usable(size) = IF size <= Word - 48 THEN size ELSE 16
    BY DEF A!Usable
  <1> QED BY <1>1, <1>4, <1>5, <1>6, <1>7, <1>8 DEF min_block_size, HEADER, MM_ALIGNMENT

-----------------------------------------------------------------------------
(* The invariant. *)

First == align_up(region.start, MM_ALIGNMENT)

\* m is a record with the statics of mm_simple.c.
Statics(m) ==
  m = [initialized |-> m.initialized, hdr |-> m.hdr, capacity |-> m.capacity,
       used |-> m.used, allocation_count |-> m.allocation_count,
       free_count |-> m.free_count]

\* A manager that is initialized has a sound heap in its region ...
Working(m) ==
  /\ Statics(m) /\ m.initialized = TRUE /\ m.capacity \in Nat
  /\ Sound(m.hdr, First, First + m.capacity + HEADER)
  /\ First \in Nat /\ region.start <= First
  /\ First + m.capacity + HEADER <= region.start + region.size

\* ... and its callers hold the blocks that are allocated, each with room for
\* the bytes they may use.
Owners(h, o) ==
  /\ DOMAIN o = {b + HEADER : b \in AllocOf(h)}
  /\ \A b \in AllocOf(h) : LET u == A!Usable(o[b + HEADER])
                            IN  u \in Nat /\ u + HEADER <= h[b].size

SimpleInv ==
  /\ region \in Regions
  /\ \/ mm = Uninitialized /\ owned = <<>>
     \/ Working(mm) /\ Owners(mm.hdr, owned)

\* mm_init either gives up or makes the heap one free block.
LEMMA InitWorks ==
  ASSUME SimpleAssumption, region \in Regions
  PROVE  LET m == mm_init(Uninitialized)
         IN  m = Uninitialized \/ (Working(m) /\ AllocOf(m.hdr) = {})
  <1> DEFINE m == mm_init(Uninitialized)
             loss   == First - region.start
             usable == ((region.size - loss) \div 16) * 16
             h0 == free_list_init
             h1 == With(h0, First, Header(usable, NULL, NULL))
             h2 == free_list_insert(h1, First)
             end == First + (usable - HEADER) + HEADER
  <1>1. region.start \in Nat \ {0} /\ region.size \in Nat
    BY DEF SimpleAssumption
  <1>2. First \in Nat /\ First % 8 = 0
    BY <1>1, AlignUp DEF First
  <1>3. [Uninitialized EXCEPT !.initialized = FALSE] = Uninitialized
    <2>1. ASSUME NEW u,
                 u = [initialized |-> FALSE, hdr |-> u.hdr, capacity |-> u.capacity,
                      used |-> u.used, allocation_count |-> u.allocation_count,
                      free_count |-> u.free_count]
          PROVE  [u EXCEPT !.initialized = FALSE] = u
      BY <2>1
    <2> QED BY <2>1, Zenon DEF Uninitialized
  <1>4. \/ m = Uninitialized
        \/ /\ ~(First < region.start) /\ ~(loss >= region.size) /\ ~(usable < min_block_size)
           /\ m = [Uninitialized EXCEPT !.initialized = TRUE, !.hdr = h2,
                                        !.capacity = usable - HEADER]
    BY <1>3 DEF mm_init, First, MM_ALIGNMENT
  <1>5. ASSUME ~(First < region.start), ~(loss >= region.size), ~(usable < min_block_size),
               m = [Uninitialized EXCEPT !.initialized = TRUE, !.hdr = h2,
                                         !.capacity = usable - HEADER]
        PROVE  Working(m) /\ AllocOf(m.hdr) = {}
    <2> HIDE DEF m
    <2>1. /\ loss \in Nat /\ region.start <= First /\ First # 0
          /\ region.size - loss \in Nat
      BY <1>1, <1>2, <1>5
    <2> HIDE DEF loss
    <2>2. usable \in Nat /\ usable <= region.size - loss /\ usable >= 56
      BY <1>5, <2>1 DEF min_block_size, HEADER, MM_ALIGNMENT
    <2>3. end = First + usable /\ end <= region.start + region.size /\ usable - HEADER \in Nat
      <3>1. First + usable <= region.start + region.size
        BY <1>1, <1>2, <2>1, <2>2 DEF loss
      <3> HIDE DEF usable
      <3> QED BY <1>2, <2>2, <3>1 DEF HEADER
    <2> HIDE DEF usable, end
    <2>4. /\ DOMAIN h1 = {SENTINEL, First} /\ First # SENTINEL /\ SENTINEL \in Int
      BY <1>2 DEF With, free_list_init, SENTINEL
    <2>5. h1[SENTINEL] = [size |-> 0, allocated |-> FALSE, prev_phys |-> NULL,
                          next_phys |-> NULL, prev_free |-> SENTINEL, next_free |-> SENTINEL]
      BY <2>4 DEF With, free_list_init, Header
    <2>6. h1[First] = [size |-> usable, allocated |-> FALSE, prev_phys |-> NULL,
                       next_phys |-> NULL, prev_free |-> NULL, next_free |-> NULL]
      BY <2>4 DEF With, free_list_init, Header
    <2>7. h1 = [x \in {SENTINEL, First} |-> h1[x]]
      BY <2>4 DEF With, free_list_init
    <2> HIDE DEF h1, h2
    <2>8. Headers(DOMAIN h1, h1)
      <3>1. h1[SENTINEL] \in block_header_t /\ h1[First] \in block_header_t
        BY <2>2, <2>4, <2>5, <2>6 DEF block_header_t, NULL
      <3>2. \A x \in {SENTINEL, First} : h1[x] \in block_header_t
        BY <3>1
      <3>3. h1 \in [{SENTINEL, First} -> block_header_t]
        BY <2>7, <3>2
      <3> QED BY <1>2, <2>4, <3>3 DEF Headers
    <2>9. BlocksOf(h1) = {First}
      BY <2>4 DEF BlocksOf
    <2>10. Tiling({First}, h1, First, end)
      <3>1. /\ h1[First].size = usable /\ h1[First].prev_phys = NULL
            /\ h1[First].next_phys = NULL
        BY <2>6
      <3>2. Placed({First}, h1, First, end, First)
        BY <1>2, <2>2, <2>3, <3>1 DEF Placed, min_block_size, HEADER, MM_ALIGNMENT
      <3>3. end \in Nat /\ First \in Nat \ {0}
        BY <1>2, <2>1, <2>2, <2>3
      <3>4. \A b, c \in {First} : ~(b < c)
        BY <1>2
      <3> QED BY <3>1, <3>2, <3>3, <3>4 DEF Tiling
    <2>11. IsList(h1, {})
      <3>1. h1[SENTINEL].next_free = SENTINEL /\ h1[SENTINEL].prev_free = SENTINEL
        BY <2>5
      <3> QED BY <3>1, EmptyList
    <2>12. IsFiniteSet(DOMAIN h1)
      <3>1. IsFiniteSet({}) /\ {} \cup {SENTINEL} = {SENTINEL}
            /\ {SENTINEL} \cup {First} = {SENTINEL, First}
        BY FS_EmptySet
      <3>2. IsFiniteSet({SENTINEL})
        BY <3>1, FS_AddElement
      <3>3. IsFiniteSet({SENTINEL, First})
        BY <3>1, <3>2, FS_AddElement, SMTT(30)
      <3> QED BY <2>4, <3>3
    <2>13. Formed(h1, {}, First, end)
      BY <2>8, <2>9, <2>10, <2>11, <2>12 DEF Formed
    <2>14. First \in BlocksOf(h1) \ {}
      BY <2>9
    <2>15. /\ DOMAIN h2 = DOMAIN h1 /\ SameBlocks(DOMAIN h1, h2, h1)
           /\ Formed(h2, {} \cup {First}, First, end)
      BY <2>13, <2>14, InsertKeeps DEF h2
    <2>16. BlocksOf(h2) = {First}
      BY <2>4, <2>15 DEF BlocksOf
    <2>17. h2[First].allocated = FALSE /\ h2[First].next_phys = NULL
      <3>1. h1[First].allocated = FALSE /\ h1[First].next_phys = NULL /\ First \in DOMAIN h1
        BY <2>4, <2>6
      <3> QED BY <2>15, <3>1 DEF SameBlocks
    <2>18. FreeOf(h2) = {} \cup {First} /\ AllocOf(h2) = {}
      BY <2>16, <2>17 DEF FreeOf, AllocOf
    <2>19. Sound(h2, First, end)
      <3>1. \A b \in FreeOf(h2) : NotFree(h2, b)
        BY <2>17, <2>18 DEF NotFree
      <3> QED BY <2>15, <2>18, <3>1 DEF Sound
    <2>20. m = [initialized |-> TRUE, hdr |-> h2, capacity |-> usable - HEADER, used |-> 0,
                allocation_count |-> 0, free_count |-> 0]
      BY <1>5 DEF Uninitialized
    <2>21. m.initialized = TRUE /\ m.hdr = h2 /\ m.capacity = usable - HEADER /\ Statics(m)
      BY <2>20 DEF Statics
    <2>22. First + m.capacity + HEADER = end
      BY <2>21 DEF end
    <2> QED BY <1>2, <2>1, <2>3, <2>18, <2>19, <2>21, <2>22 DEF Working
  <1> QED BY <1>4, <1>5

\* After the lazy initialisation the manager works, or there is no memory.
LEMMA ReadyWorks ==
  ASSUME SimpleAssumption, SimpleInv
  PROVE  LET m == Ready(mm)
         IN  \/ m = Uninitialized /\ owned = <<>>
             \/ Working(m) /\ Owners(m.hdr, owned)
  <1>1. CASE mm = Uninitialized /\ owned = <<>>
    <2>1. mm.initialized = FALSE
      BY <1>1 DEF Uninitialized
    <2>2. Ready(mm) = mm_init(Uninitialized)
      BY <1>1, <2>1 DEF Ready
    <2>3. region \in Regions
      BY DEF SimpleInv
    <2>4. DOMAIN owned = {}
      BY <1>1
    <2>5. ASSUME NEW h, AllocOf(h) = {} PROVE Owners(h, owned)
      BY <2>4, <2>5 DEF Owners
    <2> QED BY <1>1, <2>2, <2>3, <2>5, InitWorks
  <1>2. CASE Working(mm) /\ Owners(mm.hdr, owned)
    <2>1. Ready(mm) = mm
      BY <1>2 DEF Ready, Working
    <2> QED BY <1>2, <2>1
  <1> QED BY <1>1, <1>2 DEF SimpleInv

\* What mm_alloc found is a free block.
LEMMA FoundIsFree ==
  ASSUME NEW m, Working(m), NEW required, find_first_fit(m.hdr, required) # NULL
  PROVE  /\ find_first_fit(m.hdr, required) \in FreeOf(m.hdr)
         /\ m.hdr[find_first_fit(m.hdr, required)].size >= required
  <1> DEFINE h == m.hdr
  <1>1. Formed(h, FreeOf(h), First, First + m.capacity + HEADER)
    BY DEF Working, Sound
  <1> HIDE DEF h
  <1>2. /\ IsFiniteSet(DOMAIN h) /\ SENTINEL \in DOMAIN h /\ IsList(h, FreeOf(h))
        /\ FreeOf(h) \subseteq DOMAIN h /\ SENTINEL \notin FreeOf(h)
    BY <1>1 DEF Formed, Headers, BlocksOf
  <1>3. find_first_fit(h, required) # NULL
    BY DEF h
  <1>4. find_first_fit(h, required) \in FreeOf(h) /\ h[find_first_fit(h, required)].size >= required
    BY <1>2, <1>3, FitIs
  <1> QED BY <1>4 DEF h

\* A block has an address and a size.
LEMMA BlockIsNat ==
  ASSUME NEW h, NEW first, NEW end, Sound(h, first, end), NEW b \in BlocksOf(h)
  PROVE  b \in Nat /\ b # NULL /\ h[b].size \in Nat
  BY FormedLinks DEF Sound

\* An allocation keeps the manager working, and its block has a new owner.
LEMMA TakeWorks ==
  ASSUME SimpleAssumption, NEW m, Working(m), NEW o, Owners(m.hdr, o), NEW size \in Sizes,
         NEW b \in FreeOf(m.hdr), m.hdr[b].size >= Required(size)
  PROVE  /\ Working(Take(m, b, Required(size)))
         /\ Owners(Take(m, b, Required(size)).hdr, With(o, b + HEADER, size))
         /\ b + HEADER \notin DOMAIN o
         /\ Take(m, b, Required(size)).hdr = Taken(m.hdr, b, Required(size))
  <1> DEFINE h == m.hdr
             r == Required(size)
             t == Take(m, b, r)
             g == Taken(h, b, r)
             end == First + m.capacity + HEADER
             p == b + HEADER
             o2 == With(o, p, size)
  <1>1. /\ r \in Nat /\ r % 8 = 0 /\ r >= min_block_size /\ A!Usable(size) \in Nat
        /\ r >= A!Usable(size) + HEADER
    BY RequiredIs
  <1>2. Sound(h, First, end) /\ Statics(m)
    BY DEF Working
  <1>3. t.hdr = g /\ t.initialized = m.initialized /\ t.capacity = m.capacity /\ Statics(t)
    <2> DEFINE s == split_block_if_possible(free_list_remove(h, b), b, r)
    <2>1. t = [m EXCEPT !.hdr = Mark(s, b, TRUE),
                        !.used = SmallerOf(m.used + s[b].size - HEADER, m.capacity),
                        !.allocation_count = m.allocation_count + 1]
      BY DEF Take, Mark
    <2>2. g = Mark(s, b, TRUE)
      BY DEF Taken
    <2> HIDE DEF t, g, s, h, r
    <2>3. t = [initialized |-> m.initialized, hdr |-> g, capacity |-> m.capacity,
               used |-> SmallerOf(m.used + s[b].size - HEADER, m.capacity),
               allocation_count |-> m.allocation_count + 1, free_count |-> m.free_count]
      BY <1>2, <2>1, <2>2 DEF Statics
    <2> QED BY <2>3 DEF Statics
  <1> HIDE DEF r, t, g, end
  <1>4. h[b].size >= r
    BY DEF r
  <1> HIDE DEF h
  <1>5. /\ Sound(g, First, end) /\ AllocOf(g) = AllocOf(h) \cup {b}
        /\ g[b].size >= r /\ b \in BlocksOf(g) /\ g[b].size \in Nat
        /\ \A x \in AllocOf(h) : g[x].size = h[x].size
    BY <1>1, <1>2, <1>4, TakeKeeps DEF g, h
  <1>6. Working(t)
    BY <1>3, <1>5 DEF Working, end
  <1>7. \A x \in AllocOf(h) \cup {b} : x \in Nat
    BY <1>2, BlockIsNat DEF AllocOf, FreeOf, h
  <1>8. b \notin AllocOf(h)
    BY DEF AllocOf, FreeOf, h
  <1>9. DOMAIN o = {x + HEADER : x \in AllocOf(h)}
    BY DEF Owners, h
  <1>10. p \notin DOMAIN o
    BY <1>7, <1>8, <1>9 DEF HEADER
  <1>11. DOMAIN o2 = {x + HEADER : x \in AllocOf(g)}
    <2>1. DOMAIN o2 = DOMAIN o \cup {p}
      BY DEF With
    <2> QED BY <1>5, <1>9, <2>1
  <1>12. ASSUME NEW x \in AllocOf(g)
         PROVE  LET u == A!Usable(o2[x + HEADER])
                IN  u \in Nat /\ u + HEADER <= g[x].size
    <2>1. CASE x = b
      <3>1. o2[x + HEADER] = size
        BY <2>1 DEF With
      <3> HIDE DEF o2
      <3> QED BY <1>1, <1>5, <2>1, <3>1 DEF HEADER
    <2>2. CASE x # b
      <3>1. x \in AllocOf(h)
        BY <1>5, <2>2
      <3>2. x + HEADER # p /\ x + HEADER \in DOMAIN o
        BY <1>7, <1>9, <2>2, <3>1 DEF HEADER
      <3>3. o2[x + HEADER] = o[x + HEADER]
        BY <3>2 DEF With
      <3>4. LET u == A!Usable(o[x + HEADER]) IN u \in Nat /\ u + HEADER <= h[x].size
        BY <3>1 DEF Owners, h
      <3> HIDE DEF o2
      <3> QED BY <1>5, <3>1, <3>3, <3>4
    <2> QED BY <2>1, <2>2
  <1> HIDE DEF o2
  <1>13. Owners(g, o2)
    BY <1>11, <1>12 DEF Owners
  <1> QED BY <1>3, <1>6, <1>10, <1>13 DEF t, g, h, r, o2

\* A release keeps the manager working, and its block has no owner.
LEMMA ReleaseWorks ==
  ASSUME NEW m, Working(m), NEW o, Owners(m.hdr, o), NEW b \in AllocOf(m.hdr)
  PROVE  /\ Working(Release(m, b))
         /\ Owners(Release(m, b).hdr, Without(o, b + HEADER))
  <1> DEFINE h == m.hdr
             t == Release(m, b)
             g == Released(h, b)
             end == First + m.capacity + HEADER
             p == b + HEADER
             o2 == Without(o, p)
  <1>1. Sound(h, First, end) /\ Statics(m)
    BY DEF Working
  <1>2. t.hdr = g /\ t.initialized = m.initialized /\ t.capacity = m.capacity /\ Statics(t)
    <2> DEFINE u == IF m.used >= h[b].size - HEADER THEN m.used - (h[b].size - HEADER) ELSE 0
    <2>1. t = [m EXCEPT !.hdr = g, !.used = u, !.free_count = m.free_count + 1]
      BY DEF Release, Released, Mark
    <2> HIDE DEF t, g, h, u
    <2>2. t = [initialized |-> m.initialized, hdr |-> g, capacity |-> m.capacity, used |-> u,
               allocation_count |-> m.allocation_count, free_count |-> m.free_count + 1]
      BY <1>1, <2>1 DEF Statics
    <2> QED BY <2>2 DEF Statics
  <1> HIDE DEF t, g, end, h
  <1>3. /\ Sound(g, First, end) /\ AllocOf(g) = AllocOf(h) \ {b}
        /\ \A x \in AllocOf(g) : g[x].size = h[x].size
    BY <1>1, ReleaseKeeps DEF g, h
  <1>4. Working(t)
    BY <1>2, <1>3 DEF Working, end
  <1>5. \A x \in AllocOf(h) : x \in Nat
    BY <1>1, BlockIsNat DEF AllocOf
  <1>5a. b \in AllocOf(h)
    BY DEF h
  <1>6. DOMAIN o = {x + HEADER : x \in AllocOf(h)}
    BY DEF Owners, h
  <1>7. DOMAIN o2 = {x + HEADER : x \in AllocOf(g)}
    <2>1. DOMAIN o2 = DOMAIN o \ {p}
      BY DEF Without
    <2>2. \A x \in AllocOf(h) : x + HEADER = p <=> x = b
      BY <1>5, <1>5a DEF HEADER
    <2> HIDE DEF p, o2
    <2>3. ASSUME NEW q \in DOMAIN o2 PROVE q \in {x + HEADER : x \in AllocOf(g)}
      <3>1. PICK x \in AllocOf(h) : q = x + HEADER
        BY <1>6, <2>1
      <3> QED BY <1>3, <2>1, <2>2, <3>1
    <2>4. ASSUME NEW x \in AllocOf(g) PROVE x + HEADER \in DOMAIN o2
      BY <1>3, <1>6, <2>1, <2>2
    <2> QED BY <2>3, <2>4
  <1>8. ASSUME NEW x \in AllocOf(g)
        PROVE  LET u == A!Usable(o2[x + HEADER])
               IN  u \in Nat /\ u + HEADER <= g[x].size
    <2>1. x \in AllocOf(h)
      BY <1>3
    <2>2. o2[x + HEADER] = o[x + HEADER]
      <3>1. x + HEADER \in DOMAIN o \ {p}
        BY <1>7 DEF Without
      <3> QED BY <3>1 DEF Without
    <2>3. LET u == A!Usable(o[x + HEADER]) IN u \in Nat /\ u + HEADER <= h[x].size
      BY <2>1 DEF Owners, h
    <2> HIDE DEF o2
    <2> QED BY <1>3, <2>2, <2>3
  <1> HIDE DEF o2
  <1>9. Owners(g, o2)
    BY <1>7, <1>8 DEF Owners
  <1> QED BY <1>2, <1>4, <1>9 DEF t, g, h, o2

\* The invariant says of a primed state what it says of the values.
LEMMA SimpleInvNext ==
  ASSUME region' = region, region \in Regions,
         \/ mm' = Uninitialized /\ owned' = <<>>
         \/ \E m, o : Working(m) /\ Owners(m.hdr, o) /\ mm' = m /\ owned' = o
  PROVE  SimpleInv'
  <1>1. CASE mm' = Uninitialized /\ owned' = <<>>
    BY <1>1 DEF SimpleInv, Uninitialized
  <1>2. CASE \E m, o : Working(m) /\ Owners(m.hdr, o) /\ mm' = m /\ owned' = o
    <2>1. PICK m, o : Working(m) /\ Owners(m.hdr, o) /\ mm' = m /\ owned' = o
      BY <1>2
    <2>2. Working(mm)'
      BY <2>1 DEF Working, First, Statics
    <2>3. Owners(mm.hdr, owned)'
      BY <2>1 DEF Owners, A!Usable
    <2> QED BY <2>2, <2>3 DEF SimpleInv
  <1> QED BY <1>1, <1>2

\* Before the first call the invariant holds.
LEMMA InitSimple ==
  ASSUME SimpleAssumption, Init
  PROVE  SimpleInv
  <1>1. region \in Regions /\ mm = mm_init(Uninitialized) /\ owned = <<>>
    BY DEF Init
  <1>2. DOMAIN owned = {}
    BY <1>1
  <1>3. ASSUME NEW h, AllocOf(h) = {} PROVE Owners(h, owned)
    BY <1>2, <1>3 DEF Owners
  <1> QED BY <1>1, <1>3, InitWorks DEF SimpleInv

\* What mm_alloc does, given the invariant: nothing for its callers, or it
\* takes a free block that is large enough.
LEMMA AllocStep ==
  ASSUME SimpleAssumption, SimpleInv, NEW size \in Sizes, mm_alloc(size)
  PROVE  \/ SimpleInv' /\ UNCHANGED <<region, owned>>
         \/ \E m, b :
              /\ Working(m) /\ Owners(m.hdr, owned) /\ b \in FreeOf(m.hdr) /\ size # 0
              /\ m.hdr[b].size >= Required(size)
              /\ mm' = Take(m, b, Required(size))
              /\ owned' = With(owned, b + HEADER, size) /\ region' = region
  <1> DEFINE m == Ready(mm)
             f == find_first_fit(m.hdr, Required(size))
             b == IF m.initialized /\ size # 0 THEN f ELSE NULL
  <1>1. region' = region /\ region \in Regions
    BY DEF mm_alloc, SimpleInv
  <1>2. \/ m = Uninitialized /\ owned = <<>>
        \/ Working(m) /\ Owners(m.hdr, owned)
    BY ReadyWorks
  <1>3. /\ b = NULL => mm' = m /\ owned' = owned
        /\ b # NULL => mm' = Take(m, b, Required(size)) /\ owned' = With(owned, b + HEADER, size)
    BY DEF mm_alloc
  <1> HIDE DEF m
  <1>4. CASE b = NULL
    <2>1. mm' = m /\ owned' = owned
      BY <1>3, <1>4
    <2>2. SimpleInv'
      BY <1>1, <1>2, <2>1, SimpleInvNext
    <2> QED BY <1>1, <2>1, <2>2
  <1>5. CASE b # NULL
    <2>1. m.initialized /\ size # 0 /\ b = f /\ f # NULL
      BY <1>5
    <2>2. Working(m) /\ Owners(m.hdr, owned)
      BY <1>2, <2>1 DEF Uninitialized
    <2>3. f \in FreeOf(m.hdr) /\ m.hdr[f].size >= Required(size)
      BY <2>1, <2>2, FoundIsFree
    <2>4. mm' = Take(m, f, Required(size)) /\ owned' = With(owned, f + HEADER, size)
      BY <1>3, <1>5, <2>1
    <2> HIDE DEF f, b
    <2> QED BY <1>1, <2>1, <2>2, <2>3, <2>4
  <1> QED BY <1>4, <1>5

\* mm_free of memory a caller holds frees its block.
LEMMA FreeStep ==
  ASSUME SimpleInv, NEW p \in DOMAIN owned, mm_free(p)
  PROVE  SimpleInv' /\ owned' = Without(owned, p) /\ region' = region
  <1> DEFINE b == p - HEADER
  <1>1. owned' = Without(owned, p) /\ region' = region /\ region \in Regions
    BY DEF mm_free, SimpleInv
  <1>2. Working(mm) /\ Owners(mm.hdr, owned)
    BY DEF SimpleInv
  <1>3. PICK x \in AllocOf(mm.hdr) : p = x + HEADER
    BY <1>2 DEF Owners
  <1>4. x \in Nat
    BY <1>2, BlockIsNat DEF Working, AllocOf
  <1>5. b = x /\ b + HEADER = p
    BY <1>3, <1>4 DEF HEADER
  <1>6. mm.initialized /\ mm.hdr[b].allocated
    BY <1>2, <1>5 DEF Working, AllocOf
  <1>7. mm' = Release(mm, b)
    BY <1>6 DEF mm_free
  <1>8. Working(Release(mm, b)) /\ Owners(Release(mm, b).hdr, Without(owned, p))
    BY <1>2, <1>5, ReleaseWorks
  <1>9. SimpleInv'
    BY <1>1, <1>7, <1>8, SimpleInvNext
  <1> QED BY <1>1, <1>9

\* Every call keeps it.
LEMMA NextSimple ==
  ASSUME SimpleAssumption, SimpleInv, [Next]_vars
  PROVE  SimpleInv'
  <1>1. ASSUME NEW size \in Sizes, mm_alloc(size) PROVE SimpleInv'
    <2>1. SUFFICES
            ASSUME NEW m, NEW b, Working(m), Owners(m.hdr, owned), b \in FreeOf(m.hdr),
                   m.hdr[b].size >= Required(size), mm' = Take(m, b, Required(size)),
                   owned' = With(owned, b + HEADER, size), region' = region
            PROVE  SimpleInv'
      BY <1>1, AllocStep
    <2>2. /\ Working(Take(m, b, Required(size)))
          /\ Owners(Take(m, b, Required(size)).hdr, With(owned, b + HEADER, size))
      BY <2>1, TakeWorks
    <2>3. region \in Regions
      BY DEF SimpleInv
    <2> QED BY <2>1, <2>2, <2>3, SimpleInvNext
  <1>2. ASSUME NEW p \in DOMAIN owned, mm_free(p) PROVE SimpleInv'
    BY <1>2, FreeStep
  <1>3. CASE UNCHANGED vars
    BY <1>3 DEF vars, SimpleInv, Working, Owners, First, Statics, A!Usable
  <1> QED BY <1>1, <1>2, <1>3 DEF Next

\* The inductive invariant of mm_simple.c.
LEMMA SimpleSafe ==
  ASSUME SimpleAssumption
  PROVE  Spec => []SimpleInv
  <1>1. Init => SimpleInv
    BY InitSimple
  <1>2. SimpleInv /\ [Next]_vars => SimpleInv'
    BY NextSimple
  <1> QED BY <1>1, <1>2, PTL DEF Spec

\* mm_simple.c: whatever is split and merged, the blocks tile the heap.
THEOREM SimpleIsTiled ==
  ASSUME SimpleAssumption
  PROVE  Spec => []HeapIsTiled
  <1>1. SimpleInv => HeapIsTiled
    <2> SUFFICES ASSUME SimpleInv, mm.initialized PROVE HeapIsTiled
      BY DEF HeapIsTiled
    <2> DEFINE end == First + mm.capacity + HEADER
    <2>1. Working(mm)
      BY DEF SimpleInv, Uninitialized
    <2>2. Tiling(Blocks, mm.hdr, First, end)
      BY <2>1 DEF Working, Sound, Formed, Blocks, BlocksOf
    <2>3. First \in Blocks /\ mm.hdr[First].prev_phys = NULL
      BY <2>2 DEF Tiling
    <2>4. ASSUME NEW b \in Blocks
          PROVE  LET n == mm.hdr[b].next_phys
                 IN  /\ mm.hdr[b].size >= min_block_size
                     /\ IF n = NULL THEN b + mm.hdr[b].size = end
                        ELSE /\ n \in Blocks /\ n = b + mm.hdr[b].size
                             /\ mm.hdr[n].prev_phys = b
      <3>1. Placed(Blocks, mm.hdr, First, end, b)
        BY <2>2 DEF Tiling
      <3> QED BY <3>1 DEF Placed
    <2> QED BY <2>3, <2>4 DEF HeapIsTiled, First
  <1> QED BY <1>1, SimpleSafe, PTL

\* mm_simple.c: the free list is the free blocks, linked both ways.
THEOREM SimpleListIsExact ==
  ASSUME SimpleAssumption
  PROVE  Spec => []FreeListIsExact
  <1>1. SimpleInv => FreeListIsExact
    <2> SUFFICES ASSUME SimpleInv, mm.initialized PROVE FreeListIsExact
      BY DEF FreeListIsExact
    <2> DEFINE h == mm.hdr
               F == FreeOf(h)
    <2>1. Formed(h, F, First, First + mm.capacity + HEADER)
      BY DEF SimpleInv, Uninitialized, Working, Sound
    <2>2. F = {b \in Blocks : ~mm.hdr[b].allocated}
      BY DEF FreeOf, Blocks, BlocksOf
    <2> HIDE DEF h, F
    <2>3. /\ IsFiniteSet(DOMAIN h) /\ SENTINEL \in DOMAIN h /\ IsList(h, F)
          /\ F \subseteq DOMAIN h /\ SENTINEL \notin F
      BY <2>1 DEF Formed, Headers, BlocksOf
    <2>4. FreeList(h) = F
      BY <2>3, FreeListIs
    <2>5. \A b \in F \cup {SENTINEL} : h[h[b].next_free].prev_free = b
      BY <2>3, ListNeighbours
    <2> QED BY <2>2, <2>4, <2>5 DEF FreeListIsExact, h
  <1> QED BY <1>1, SimpleSafe, PTL

\* mm_simple.c: a block nobody holds is free, and free blocks are merged.
THEOREM SimpleIsWhole ==
  ASSUME SimpleAssumption
  PROVE  Spec => []FreedIsWhole
  <1>1. SimpleInv => FreedIsWhole
    <2> SUFFICES ASSUME SimpleInv, NEW b \in Blocks
                 PROVE  /\ mm.hdr[b].allocated <=> (b + HEADER) \in DOMAIN owned
                        /\ ~mm.hdr[b].allocated /\ mm.hdr[b].next_phys # NULL =>
                             mm.hdr[mm.hdr[b].next_phys].allocated
      BY DEF FreedIsWhole
    <2>1. mm # Uninitialized
      <3>1. DOMAIN Uninitialized.hdr = {}
        BY DEF Uninitialized
      <3> QED BY <3>1 DEF Blocks
    <2>2. Working(mm) /\ Owners(mm.hdr, owned) /\ b \in BlocksOf(mm.hdr)
      BY <2>1 DEF SimpleInv, Blocks, BlocksOf
    <2>3. \A x \in BlocksOf(mm.hdr) : x \in Nat
      BY <2>2, BlockIsNat DEF Working
    <2>4. (b + HEADER) \in DOMAIN owned <=> b \in AllocOf(mm.hdr)
      <3>1. DOMAIN owned = {x + HEADER : x \in AllocOf(mm.hdr)}
        BY <2>2 DEF Owners
      <3>2. \A x \in AllocOf(mm.hdr) : x + HEADER = b + HEADER => x = b
        BY <2>2, <2>3 DEF AllocOf, HEADER
      <3> QED BY <3>1, <3>2
    <2>5. b \in AllocOf(mm.hdr) <=> mm.hdr[b].allocated
      BY <2>2 DEF AllocOf
    <2>6. ~mm.hdr[b].allocated => NotFree(mm.hdr, b)
      BY <2>2 DEF Working, Sound, FreeOf
    <2> QED BY <2>4, <2>5, <2>6 DEF NotFree
  <1> QED BY <1>1, SimpleSafe, PTL

\* Taking a free block is an allocation of include/mm.h: its payload is in the
\* heap, and apart from those of the blocks that are in use.
LEMMA TakeAllocates ==
  ASSUME SimpleAssumption, region \in Regions,
         NEW m, NEW b, Working(m), Owners(m.hdr, owned), b \in FreeOf(m.hdr),
         NEW size \in Sizes, size # 0, m.hdr[b].size >= Required(size),
         owned' = With(owned, b + HEADER, size), region' = region
  PROVE  A!Next
  <1> DEFINE h == m.hdr
             end == First + m.capacity + HEADER
             p == b + HEADER
             B == BlocksOf(h)
             u == A!Usable(size)
  <1>1. Tiling(B, h, First, end) /\ Sound(h, First, end)
    BY DEF Working, Sound, Formed
  <1>2. /\ u \in Nat \ {0} /\ Required(size) \in Nat /\ Required(size) >= u + 40
        /\ region.start \in Nat /\ region.size \in Nat
    BY RequiredIs DEF SimpleAssumption, HEADER
  <1>3. /\ First \in Nat /\ region.start <= First /\ end <= region.start + region.size
        /\ m.capacity \in Nat /\ end \in Nat
    BY DEF Working, HEADER
  <1> HIDE DEF h, end, B, u
  <1>4. \A x \in B : /\ x \in Nat /\ x % 8 = 0 /\ First <= x /\ h[x].size \in Nat
                     /\ x + h[x].size <= end
    BY <1>1 DEF Tiling, Placed
  <1>5. b \in B /\ b \notin AllocOf(h) /\ h[b].size >= Required(size)
    BY DEF FreeOf, AllocOf, h, B
  <1>6. /\ DOMAIN owned = {x + HEADER : x \in AllocOf(h)}
        /\ \A x \in AllocOf(h) : /\ A!Usable(owned[x + HEADER]) \in Nat
                                 /\ A!Usable(owned[x + HEADER]) + HEADER <= h[x].size
    BY DEF Owners, h
  <1>7. \A x \in AllocOf(h) : x \in B /\ x # b /\ x \in Nat
    BY <1>4, <1>5 DEF AllocOf, B
  <1>7a. b \in Nat /\ h[b].size \in Nat /\ p \in Nat /\ p = b + 40 /\ h[b].size >= u + 40
    <2>1. b \in Nat /\ h[b].size \in Nat
      BY <1>4, <1>5
    <2> QED BY <1>2, <1>5, <2>1, SMTT(30) DEF HEADER
  <1>8. p \notin DOMAIN owned
    BY <1>6, <1>7, <1>7a, SMTT(30) DEF HEADER
  <1>9. p % 8 = 0 /\ p \in A!Heap
    <2>1. p >= region.start /\ p <= region.start + region.size - 1
      BY <1>2, <1>3, <1>4, <1>5, <1>7a, SMTT(30)
    <2>2. p % 8 = 0
      BY <1>4, <1>5, <1>7a, SMTT(30)
    <2> QED BY <1>2, <1>7a, <2>1, <2>2, SMTT(30) DEF A!Heap, A!Bytes
  <1>10. A!Payload(p, size) \subseteq A!Heap
    <2>1. p >= region.start /\ p + u - 1 <= region.start + region.size - 1
      BY <1>2, <1>3, <1>4, <1>5, <1>7a, SMTT(30)
    <2> QED BY <1>2, <1>7a, <2>1, SMTT(30) DEF A!Heap, A!Bytes, A!Payload, u
  <1>11. ASSUME NEW q \in DOMAIN owned
         PROVE  A!Payload(p, size) \cap A!Payload(q, owned[q]) = {}
    <2> DEFINE v == A!Usable(owned[q])
    <2>1. PICK x \in AllocOf(h) : q = x + HEADER
      BY <1>6
    <2>2. /\ q \in Nat /\ v \in Nat /\ q + v <= x + h[x].size /\ q = x + 40
          /\ h[x].size \in Nat
      BY <1>4, <1>6, <1>7, <2>1, SMTT(30) DEF HEADER
    <2>2a. A!Payload(p, size) = p..(p + u - 1) /\ A!Payload(q, owned[q]) = q..(q + v - 1)
      BY DEF A!Payload, A!Bytes, u
    <2> HIDE DEF v
    <2>3. x < b \/ b < x
      BY <1>7, <1>7a, SMTT(30)
    <2>4. /\ x < b => x + h[x].size <= b
          /\ b < x => b + h[b].size <= x
      BY <1>1, <1>5, <1>7 DEF Tiling
    <2>5. CASE x < b
      <3>1. q + v <= p
        BY <1>7, <1>7a, <2>2, <2>4, <2>5, SMTT(30)
      <3> QED BY <1>2, <1>7a, <2>2, <2>2a, <3>1, SMTT(30)
    <2>6. CASE b < x
      <3>1. p + u <= q
        BY <1>2, <1>7, <1>7a, <2>2, <2>4, <2>6, SMTT(30)
      <3> QED BY <1>2, <1>7a, <2>2, <2>2a, <3>1, SMTT(30)
    <2> QED BY <2>3, <2>5, <2>6
  <1>12. A!mm_alloc(p, size)
    BY <1>8, <1>10, <1>11 DEF A!mm_alloc, A!With, With
  <1> HIDE DEF p
  <1>13. p \in {a \in A!Heap : a % 8 = 0} /\ size \in Sizes \ {0}
    BY <1>9
  <1> QED BY <1>12, <1>13 DEF A!Next

\* mm_simple.c implements include/mm.h: the bytes mm_alloc hands out are in
\* the heap and belong to nobody else, for every region, every set of sizes
\* and every sequence of calls.  They are the bytes asked for, or 16 when the
\* size is above 2^64 - 48 and wraps.
THEOREM SimpleIsAllocator ==
  ASSUME SimpleAssumption
  PROVE  Spec => A!Spec
  <1>1. Init => A!Init
    BY DEF Init, A!Init
  <1>2. ASSUME SimpleInv, [Next]_vars PROVE [A!Next]_(A!vars)
    <2>1. ASSUME NEW size \in Sizes, mm_alloc(size) PROVE [A!Next]_(A!vars)
      <3>1. CASE UNCHANGED <<region, owned>>
        BY <3>1 DEF A!vars
      <3>2. SUFFICES
              ASSUME NEW m, NEW b, Working(m), Owners(m.hdr, owned), b \in FreeOf(m.hdr),
                     size # 0, m.hdr[b].size >= Required(size),
                     owned' = With(owned, b + HEADER, size), region' = region
              PROVE  A!Next
        BY <1>2, <2>1, <3>1, AllocStep
      <3>3. region \in Regions
        BY <1>2 DEF SimpleInv
      <3> QED BY <3>2, <3>3, TakeAllocates
    <2>2. ASSUME NEW p \in DOMAIN owned, mm_free(p) PROVE [A!Next]_(A!vars)
      <3>1. A!mm_free(p)
        BY <1>2, <2>2, FreeStep DEF A!mm_free, A!Without, Without
      <3> QED BY <3>1 DEF A!Next
    <2>3. CASE UNCHANGED vars
      BY <2>3 DEF vars, A!vars
    <2> QED BY <1>2, <2>1, <2>2, <2>3 DEF Next
  <1> QED BY <1>1, <1>2, SimpleSafe, PTL DEF Spec, A!Spec

=============================================================================
