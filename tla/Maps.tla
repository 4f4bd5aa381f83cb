-------------------------------- MODULE Maps --------------------------------
(***************************************************************************)
(* Functions with a finite domain used as maps: the headers in a heap by   *)
(* address, the memory that callers hold by address.                       *)
(***************************************************************************)

\* f, with the value v at a.
With(f, a, v) == [x \in DOMAIN f \cup {a} |-> IF x = a THEN v ELSE f[x]]

\* f, without the key a.
Without(f, a) == [x \in DOMAIN f \ {a} |-> f[x]]

=============================================================================
