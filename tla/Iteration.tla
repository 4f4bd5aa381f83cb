------------------------------ MODULE Iteration ------------------------------
(***************************************************************************)
(* Bounded loops.  A C loop is modelled by a function F that performs one  *)
(* turn of the loop on the loop's state, and is the identity on a state in *)
(* which the loop condition is false.  Iterate runs it n times; the caller *)
(* chooses n at least as large as the number of turns the loop can take,   *)
(* and treats a state that is still not final as a loop that never ends.   *)
(***************************************************************************)
EXTENDS Naturals

Iterate(F, x, n) ==
  LET it[i \in Nat] == IF i = 0 THEN x ELSE F[it[i - 1]]
  IN  it[n]

=============================================================================
