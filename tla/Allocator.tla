----------------------------- MODULE Allocator ------------------------------
(***************************************************************************)
(* What a memory manager promises to its callers (include/mm.h): the bytes *)
(* it hands out lie in its heap, and belong to nobody else until they are  *)
(* freed.  Both managers implement this specification.                     *)
(*                                                                         *)
(* A caller may use all the bytes it asked for, with one exception: the    *)
(* managers align the size and add a header without a test for overflow,   *)
(* so that a size above Largest wraps, and the call that ought to fail     *)
(* hands out a small block.                                                *)
(***************************************************************************)
EXTENDS Maps, Integers

CONSTANTS Sizes,      \* the sizes callers ask for
          Largest,    \* the largest size that does not wrap
          Least,      \* the bytes that even the smallest block has
          Alignment   \* every address handed out is a multiple of it

VARIABLES region,     \* the heap, [start, size]
          owned       \* the size asked for, by address handed out

vars == <<region, owned>>

Bytes(p, size) == p..(p + size - 1)

Heap == Bytes(region.start, region.size)

\* The number of bytes the caller of mm_alloc(size) may use.
Usable(size) == IF size <= Largest THEN size ELSE Least

Payload(p, size) == Bytes(p, Usable(size))

mm_alloc(p, size) ==
  /\ owned' = With(owned, p, size)
  /\ p \notin DOMAIN owned
  /\ Payload(p, size) \subseteq Heap
  /\ \A q \in DOMAIN owned : Payload(p, size) \cap Payload(q, owned[q]) = {}
  /\ UNCHANGED region

mm_free(p) ==
  /\ owned' = Without(owned, p)
  /\ UNCHANGED region

Init == owned = <<>>

Next ==
  \/ \E p \in {a \in Heap : a % Alignment = 0}, size \in Sizes \ {0} :
        mm_alloc(p, size)
  \/ \E p \in DOMAIN owned : mm_free(p)

Spec == Init /\ [][Next]_vars

=============================================================================
