------------------------------- MODULE MCHeap -------------------------------
(* Heaps that start off the alignment, that are used up exactly, that are    *)
(* and are not a power of two, and that are too small.                       *)
EXTENDS Heap

MCSimpleRegions == {[start |-> 8, size |-> 312], [start |-> 16, size |-> 224],
                    [start |-> 24, size |-> 60], [start |-> 16, size |-> 40]}

MCBuddyRegions == {[start |-> 8, size |-> 472], [start |-> 16, size |-> 512],
                   [start |-> 16, size |-> 48], [start |-> 24, size |-> 40]}

=============================================================================
