------------------------------- MODULE MCBmfs -------------------------------
EXTENDS Bmfs, TLC

\* Sizes with and without a unit, too small, malformed and too large.
MCSizeText == {<<"5">>, <<"0", "6">>, <<"1", "1">>, <<"2", "K">>, <<"2", "M">>,
               <<"4", "4", "P">>, <<"K">>, <<"2", "K", "0">>, << >>}

\* Bound: on a damaged disk files may leave the disk, and the image grows when
\* they are written; such a disk is followed while its files end with the largest disk.
Bounded == damaged => \A i \in Slot : FileEnd(disk.dir[i]) <= MaxBlocks

\* No command looks at what the blocks hold or at the size of a file, and on a
\* damaged disk no property looks further than block 0: states that differ in
\* the rest are one.
View ==
  IF ~damaged THEN vars
  ELSE <<disk.tag, disk.blocks, disk.blocks > 0 /\ disk.data[0] = "system", foreign,
         [i \in Slot |-> [disk.dir[i] EXCEPT !.size = 0]],
         IF cmd.op = "write" THEN [cmd EXCEPT !.v = "any"] ELSE cmd>>

Symmetric == Permutations(Name) \cup Permutations(Data)

=============================================================================
