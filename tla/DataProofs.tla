----------------------------- MODULE DataProofs -----------------------------
(***************************************************************************)
(* What the proofs of several components rest on.                          *)
(*                                                                         *)
(* Bounded loops: if one turn of the loop takes S[i] to S[i + 1], n turns  *)
(* take S[0] to S[n].  The recursive function behind Iterate is shown to   *)
(* exist by gluing finite approximations together, and induction is the    *)
(* least-element principle, in first-order form.                           *)
(*                                                                         *)
(* Linked lists: the queues of the scheduler and the free lists of the     *)
(* memory managers are rings of nodes that go through a node z, the        *)
(* sentinel of mm_simple.c or NULL, whose links are the ends of the list.  *)
(***************************************************************************)
EXTENDS Iteration, WellFoundedInduction, FiniteSetTheorems, TLAPS

\* Induction over the natural numbers, for a set instead of a predicate.
LEMMA SetInduction ==
  ASSUME NEW T, 0 \in T, \A n \in Nat : n \in T => n + 1 \in T
  PROVE  Nat \subseteq T
<1> DEFINE R == OpToRel(<, Nat)
           Bad == Nat \ T
<1>1. SUFFICES ASSUME Bad # {} PROVE FALSE
  OBVIOUS
<1>2. PICK x \in Bad : \A y \in Bad : ~ (<<y, x>> \in R)
  <2>1. IsWellFoundedOn(R, Nat) BY NatLessThanWellFounded
  <2>2. Bad \subseteq Nat OBVIOUS
  <2> HIDE DEF R, Bad
  <2> QED BY <1>1, <2>1, <2>2, WFMin
<1>3. x \in Nat /\ x # 0 /\ x - 1 \in Nat /\ x - 1 < x
  OBVIOUS
<1>4. <<x - 1, x>> \in R
  BY <1>3 DEF OpToRel
<1>5. x - 1 \in T
  BY <1>2, <1>3, <1>4
<1> QED BY <1>3, <1>5

\* A nonempty set of natural numbers has a least element.
LEMMA NatMinimum ==
  ASSUME NEW I \in SUBSET Nat, I # {}
  PROVE  \E i \in I : \A j \in I : i <= j
<1> DEFINE T == {n \in Nat : \A j \in I : n <= j}
<1> SUFFICES ASSUME \A i \in I : \E j \in I : ~(i <= j) PROVE FALSE
  OBVIOUS
<1>1. 0 \in T OBVIOUS
<1>2. ASSUME NEW n \in Nat, n \in T PROVE n + 1 \in T
  <2>1. n \notin I BY <1>2
  <2>2. \A j \in I : n <= j /\ n # j BY <1>2, <2>1
  <2>3. \A j \in I : n + 1 <= j BY <2>2
  <2> QED BY <2>3
<1> HIDE DEF T
<1>3. Nat \subseteq T BY <1>1, <1>2, SetInduction
<1>4. PICK i \in I : TRUE OBVIOUS
<1>5. i + 1 \in T BY <1>3, <1>4
<1> QED BY <1>4, <1>5 DEF T

-----------------------------------------------------------------------------
\* g holds the values of the loop's state over the first n turns.
Approx(F, x, g, n) ==
  /\ DOMAIN g = 0..n
  /\ g[0] = x
  /\ \A i \in 1..n : g[i] = F[g[i - 1]]

\* The loop can be run for any number of turns.
LEMMA ApproxExists ==
  ASSUME NEW F, NEW x, NEW n \in Nat
  PROVE  \E g : Approx(F, x, g, n)
<1> DEFINE T == {m \in Nat : \E g : Approx(F, x, g, m)}
<1>1. 0 \in T
  <2>1. Approx(F, x, [i \in 0..0 |-> x], 0) BY DEF Approx
  <2> QED BY <2>1
<1>2. ASSUME NEW m \in Nat, m \in T PROVE m + 1 \in T
  <2>1. PICK g : Approx(F, x, g, m) BY <1>2
  <2> DEFINE h == [i \in 0..(m + 1) |-> IF i = m + 1 THEN F[g[m]] ELSE g[i]]
  <2>2. Approx(F, x, h, m + 1) BY <2>1 DEF Approx
  <2> QED BY <2>2
<1> HIDE DEF T
<1>3. Nat \subseteq T BY <1>1, <1>2, SetInduction
<1> QED BY <1>3 DEF T

\* Two runs of the loop agree as far as both of them go.
LEMMA ApproxUnique ==
  ASSUME NEW F, NEW x, NEW n \in Nat, NEW m \in Nat, n <= m,
         NEW g, NEW h, Approx(F, x, g, n), Approx(F, x, h, m)
  PROVE  \A i \in 0..n : g[i] = h[i]
<1> DEFINE T == {i \in Nat : i <= n => g[i] = h[i]}
<1>1. 0 \in T BY DEF Approx
<1>2. ASSUME NEW i \in Nat, i \in T PROVE i + 1 \in T
  <2>1. CASE i + 1 <= n
    <3>1. g[i] = h[i] /\ i + 1 \in 1..n /\ i + 1 \in 1..m /\ (i + 1) - 1 = i
      BY <1>2, <2>1
    <3>2. g[i + 1] = F[g[i]] /\ h[i + 1] = F[h[i]]
      BY <3>1 DEF Approx
    <3> QED BY <3>1, <3>2
  <2> QED BY <2>1
<1> HIDE DEF T
<1>3. Nat \subseteq T BY <1>1, <1>2, SetInduction
<1> QED BY <1>3 DEF T

\* The defining equations of Iterate.
LEMMA IterateUnfolds ==
  ASSUME NEW F, NEW x
  PROVE  /\ Iterate(F, x, 0) = x
         /\ \A n \in Nat : Iterate(F, x, n + 1) = F[Iterate(F, x, n)]
<1> DEFINE gOf(n) == CHOOSE g : Approx(F, x, g, n)
           f == [n \in Nat |-> gOf(n)[n]]
           it == CHOOSE it : it = [i \in Nat |-> IF i = 0 THEN x ELSE F[it[i - 1]]]
<1>1. \A n \in Nat : Approx(F, x, gOf(n), n)
  BY ApproxExists
<1>2. f = [i \in Nat |-> IF i = 0 THEN x ELSE F[f[i - 1]]]
  <2>1. f[0] = x BY <1>1 DEF Approx
  <2>2. ASSUME NEW i \in Nat, i # 0 PROVE f[i] = F[f[i - 1]]
    <3>1. i - 1 \in Nat /\ i - 1 <= i /\ i \in 1..i /\ i - 1 \in 0..(i - 1)
      BY <2>2
    <3>2. Approx(F, x, gOf(i), i) /\ Approx(F, x, gOf(i - 1), i - 1) BY <1>1, <3>1
    <3> HIDE DEF gOf
    <3>3. gOf(i - 1)[i - 1] = gOf(i)[i - 1] BY <3>1, <3>2, ApproxUnique
    <3>4. gOf(i)[i] = F[gOf(i)[i - 1]] BY <3>1, <3>2 DEF Approx
    <3> QED BY <3>1, <3>3, <3>4
  <2> HIDE DEF gOf
  <2> QED BY <2>1, <2>2
<1>3. it = [i \in Nat |-> IF i = 0 THEN x ELSE F[it[i - 1]]]
  <2> HIDE DEF f
  <2> QED BY <1>2
<1>4. \A n \in Nat : Iterate(F, x, n) = it[n]
  BY DEF Iterate
<1> HIDE DEF it, f
<1>5. it[0] = x BY <1>3
<1>6. ASSUME NEW n \in Nat PROVE it[n + 1] = F[it[n]]
  <2>1. n + 1 \in Nat /\ n + 1 # 0 /\ (n + 1) - 1 = n OBVIOUS
  <2> QED BY <1>3, <2>1
<1> QED BY <1>4, <1>5, <1>6

\* The invariant rule for loops.
THEOREM IterateInvariant ==
  ASSUME NEW F, NEW S, NEW x, x \in S[0],
         \A i \in Nat : \A s \in S[i] : F[s] \in S[i + 1],
         NEW n \in Nat
  PROVE  Iterate(F, x, n) \in S[n]
<1> DEFINE T == {i \in Nat : Iterate(F, x, i) \in S[i]}
<1>1. 0 \in T BY IterateUnfolds
<1>2. ASSUME NEW i \in Nat, i \in T PROVE i + 1 \in T
  <2>1. Iterate(F, x, i + 1) = F[Iterate(F, x, i)] BY IterateUnfolds
  <2>2. Iterate(F, x, i) \in S[i] BY <1>2
  <2>3. F[Iterate(F, x, i)] \in S[i + 1] BY <2>2
  <2>4. i + 1 \in Nat OBVIOUS
  <2> QED BY <2>1, <2>3, <2>4
<1> HIDE DEF T
<1>3. Nat \subseteq T BY <1>1, <1>2, SetInduction
<1> QED BY <1>3 DEF T

\* ... for a loop whose invariant does not depend on the turn.
THEOREM IterateStays ==
  ASSUME NEW F, NEW S, NEW x \in S, \A s \in S : F[s] \in S, NEW n \in Nat
  PROVE  Iterate(F, x, n) \in S
<1> DEFINE Sn == [i \in Nat |-> S]
<1>1. x \in Sn[0] /\ \A i \in Nat : \A s \in Sn[i] : F[s] \in Sn[i + 1]
  OBVIOUS
<1>2. Sn[n] = S OBVIOUS
<1> HIDE DEF Sn
<1>3. Iterate(F, x, n) \in Sn[n] BY <1>1, IterateInvariant
<1> QED BY <1>2, <1>3

-----------------------------------------------------------------------------
(* Linked lists. *)

\* s names the n nodes of a ring in their order, between two visits of z.
Chain(nxt, prv, z, F, n, s) ==
  /\ s[0] = z /\ s[n + 1] = z
  /\ \A i \in 1..n : s[i] \in F
  /\ \A i, j \in 1..n : s[i] = s[j] => i = j
  /\ \A b \in F : \E i \in 1..n : s[i] = b
  /\ \A i \in 0..n : nxt[s[i]] = s[i + 1] /\ prv[s[i + 1]] = s[i]

\* The links nxt and prv form a ring through z and the nodes of F.
IsRing(nxt, prv, z, F) ==
  \E n \in Nat : \E s \in [0..(n + 1) -> F \cup {z}] : Chain(nxt, prv, z, F, n, s)

\* The ring without nodes.
LEMMA EmptyRing ==
  ASSUME NEW nxt, NEW prv, NEW z, nxt[z] = z, prv[z] = z
  PROVE  IsRing(nxt, prv, z, {})
  <1> DEFINE s == [i \in 0..1 |-> z]
  <1>1. s \in [0..(0 + 1) -> {} \cup {z}]
    OBVIOUS
  <1>2. Chain(nxt, prv, z, {}, 0, s)
    BY DEF Chain
  <1> QED BY <1>1, <1>2 DEF IsRing

\* A ring depends on the links of its nodes only.
LEMMA RingFrame ==
  ASSUME NEW nxt, NEW prv, NEW nx, NEW pv, NEW z, NEW F, IsRing(nxt, prv, z, F),
         \A x \in F \cup {z} : nx[x] = nxt[x] /\ pv[x] = prv[x]
  PROVE  IsRing(nx, pv, z, F)
  <1>1. PICK n \in Nat : \E s \in [0..(n + 1) -> F \cup {z}] : Chain(nxt, prv, z, F, n, s)
    BY DEF IsRing
  <1>2. PICK s \in [0..(n + 1) -> F \cup {z}] : Chain(nxt, prv, z, F, n, s)
    BY <1>1
  <1>3. ASSUME NEW i \in 0..n
        PROVE  nx[s[i]] = s[i + 1] /\ pv[s[i + 1]] = s[i]
    <2>1. s[i] \in F \cup {z} /\ s[i + 1] \in F \cup {z}
      OBVIOUS
    <2> QED BY <1>2, <2>1 DEF Chain
  <1>4. Chain(nx, pv, z, F, n, s)
    BY <1>2, <1>3 DEF Chain
  <1> QED BY <1>4 DEF IsRing

\* The neighbours of a node are nodes or z, and not itself.
LEMMA RingNeighbours ==
  ASSUME NEW nxt, NEW prv, NEW z, NEW F, z \notin F, IsRing(nxt, prv, z, F)
  PROVE  /\ \A b \in F \cup {z} :
              /\ nxt[b] \in F \cup {z}
              /\ prv[b] \in F \cup {z}
              /\ prv[nxt[b]] = b
         /\ \A b \in F : nxt[b] # b /\ prv[b] # b
  <1>1. PICK n \in Nat : \E s \in [0..(n + 1) -> F \cup {z}] : Chain(nxt, prv, z, F, n, s)
    BY DEF IsRing
  <1>2. PICK s \in [0..(n + 1) -> F \cup {z}] : Chain(nxt, prv, z, F, n, s)
    BY <1>1
  <1>3. \A i \in 0..n : /\ nxt[s[i]] = s[i + 1] /\ s[i + 1] \in F \cup {z}
                        /\ prv[s[i + 1]] = s[i] /\ s[i] \in F \cup {z}
    BY <1>2 DEF Chain
  <1>4. ASSUME NEW b \in F
        PROVE  /\ nxt[b] \in F \cup {z} /\ prv[b] \in F \cup {z}
               /\ prv[nxt[b]] = b
               /\ nxt[b] # b /\ prv[b] # b
    <2>1. PICK i \in 1..n : s[i] = b
      BY <1>2 DEF Chain
    <2>2. i \in 0..n /\ i - 1 \in 0..n /\ (i - 1) + 1 = i
      OBVIOUS
    <2>3. /\ nxt[b] = s[i + 1] /\ prv[s[i + 1]] = b
          /\ prv[b] = s[i - 1]
          /\ s[i + 1] \in F \cup {z} /\ s[i - 1] \in F \cup {z}
      BY <1>3, <2>1, <2>2
    <2>4. s[i + 1] # b
      <3>1. CASE i = n
        BY <1>2, <3>1 DEF Chain
      <3>2. CASE i # n
        <4>1. i + 1 \in 1..n /\ i + 1 # i
          BY <3>2
        <4> QED BY <1>2, <2>1, <4>1 DEF Chain
      <3> QED BY <3>1, <3>2
    <2>5. s[i - 1] # b
      <3>1. CASE i = 1
        BY <1>2, <3>1 DEF Chain
      <3>2. CASE i # 1
        <4>1. i - 1 \in 1..n /\ i - 1 # i
          BY <3>2
        <4> QED BY <1>2, <2>1, <4>1 DEF Chain
      <3> QED BY <3>1, <3>2
    <2> QED BY <2>3, <2>4, <2>5
  <1>5. /\ nxt[z] \in F \cup {z}
        /\ prv[z] \in F \cup {z}
        /\ prv[nxt[z]] = z
    <2>1. 0 \in 0..n /\ n \in 0..n /\ 0 + 1 = 1
      OBVIOUS
    <2>2. s[0] = z /\ s[n + 1] = z
      BY <1>2 DEF Chain
    <2>3. /\ nxt[s[0]] = s[0 + 1] /\ prv[s[0 + 1]] = s[0] /\ s[0 + 1] \in F \cup {z}
      BY <1>3, <2>1
    <2>4. prv[s[n + 1]] = s[n] /\ s[n] \in F \cup {z}
      BY <1>3, <2>1
    <2> QED BY <2>2, <2>3, <2>4
  <1> QED BY <1>4, <1>5

\* A new node after z.
LEMMA RingInsert ==
  ASSUME NEW nxt, NEW prv, NEW nx, NEW pv, NEW z, NEW F, NEW b,
         b \notin F \cup {z}, z \notin F, IsRing(nxt, prv, z, F),
         \A x \in F \cup {z, b} :
           /\ nx[x] = IF x = z THEN b ELSE IF x = b THEN nxt[z] ELSE nxt[x]
           /\ pv[x] = IF x = nxt[z] THEN b ELSE IF x = b THEN z ELSE prv[x]
  PROVE  IsRing(nx, pv, z, F \cup {b})
  <1>1. PICK n \in Nat : \E s \in [0..(n + 1) -> F \cup {z}] : Chain(nxt, prv, z, F, n, s)
    BY DEF IsRing
  <1>2. PICK s \in [0..(n + 1) -> F \cup {z}] : Chain(nxt, prv, z, F, n, s)
    BY <1>1
  <1> DEFINE t == [i \in 0..(n + 2) |->
                     IF i = 0 THEN z ELSE IF i = 1 THEN b ELSE s[i - 1]]
             G == F \cup {b}
  <1>3. /\ t[0] = z /\ t[1] = b /\ t[n + 2] = z
        /\ \A i \in 2..(n + 2) : t[i] = s[i - 1] /\ i - 1 \in 1..(n + 1)
    <2>1. \A i \in 2..(n + 2) : t[i] = s[i - 1] /\ i - 1 \in 1..(n + 1)
      OBVIOUS
    <2>2. n + 2 \in 2..(n + 2) /\ (n + 2) - 1 = n + 1 /\ s[n + 1] = z
      BY <1>2 DEF Chain
    <2> QED BY <2>1, <2>2
  <1>4. t \in [0..(n + 1 + 1) -> G \cup {z}]
    <2>1. \A i \in 0..(n + 2) : t[i] \in G \cup {z}
      <3> TAKE i \in 0..(n + 2)
      <3>1. CASE i \in 2..(n + 2)
        BY <1>3, <3>1
      <3>2. CASE i \in {0, 1}
        BY <3>2
      <3> QED BY <3>1, <3>2
    <2>2. n + 1 + 1 = n + 2
      OBVIOUS
    <2> QED BY <2>1, <2>2
  <1>5. \A i \in 2..(n + 1) : t[i] = s[i - 1] /\ i - 1 \in 1..n /\ s[i - 1] \in F
    BY <1>2, <1>3, SMTT(30) DEF Chain
  <1> HIDE DEF t
  <1>6. \A i \in 1..(n + 1) : t[i] \in G
    BY <1>3, <1>5
  <1>7. \A i, j \in 1..(n + 1) : t[i] = t[j] => i = j
    <2> SUFFICES ASSUME NEW i \in 1..(n + 1), NEW j \in 1..(n + 1), t[i] = t[j] PROVE i = j
      OBVIOUS
    <2>1. CASE i = 1 \/ j = 1
      BY <1>3, <1>5, <2>1
    <2>2. CASE i # 1 /\ j # 1
      <3>1. s[i - 1] = s[j - 1] /\ i - 1 \in 1..n /\ j - 1 \in 1..n
        BY <1>5, <2>2
      <3>2. i - 1 = j - 1
        BY <1>2, <3>1 DEF Chain
      <3> QED BY <3>2
    <2> QED BY <2>1, <2>2
  <1>8. \A c \in G : \E i \in 1..(n + 1) : t[i] = c
    <2> TAKE c \in G
    <2>1. CASE c = b
      <3>1. 1 \in 1..(n + 1)
        OBVIOUS
      <3> QED BY <1>3, <2>1, <3>1
    <2>2. CASE c \in F
      <3>1. PICK i \in 1..n : s[i] = c
        BY <1>2, <2>2 DEF Chain
      <3>2. i + 1 \in 2..(n + 1) /\ i + 1 \in 1..(n + 1) /\ (i + 1) - 1 = i
        OBVIOUS
      <3> QED BY <1>5, <3>1, <3>2
    <2> QED BY <2>1, <2>2
  <1>9. \A i \in 0..(n + 1) : nx[t[i]] = t[i + 1] /\ pv[t[i + 1]] = t[i]
    <2>0. s[0] = z /\ nxt[z] = s[1] /\ s[1] \in F \cup {z}
      <3>1. 0 \in 0..n /\ 0 + 1 = 1
        OBVIOUS
      <3> QED BY <1>2, <3>1 DEF Chain
    <2> TAKE i \in 0..(n + 1)
    <2>1. CASE i = 0
      <3>1. t[i] = z /\ t[i + 1] = b
        BY <1>3, <2>1
      <3> QED BY <2>0, <3>1
    <2>2. CASE i = 1
      <3>1. t[i] = b /\ t[i + 1] = s[1]
        <4>1. 2 \in 2..(n + 2) /\ 2 - 1 = 1 /\ 1 + 1 = 2
          OBVIOUS
        <4> QED BY <1>3, <2>2, <4>1
      <3> QED BY <2>0, <3>1
    <2>3. CASE i \in 2..(n + 1)
      <3>1. /\ t[i] = s[i - 1] /\ i - 1 \in 1..n /\ s[i - 1] \in F
            /\ t[i + 1] = s[i] /\ i \in 2..(n + 1)
        <4>1. i + 1 \in 2..(n + 2) /\ (i + 1) - 1 = i
          BY <2>3
        <4> QED BY <1>3, <1>5, <2>3, <4>1
      <3>2. nxt[s[i - 1]] = s[i] /\ prv[s[i]] = s[i - 1]
        <4>1. i - 1 \in 0..n /\ (i - 1) + 1 = i
          BY <3>1
        <4> QED BY <1>2, <4>1 DEF Chain
      <3>3. s[i] \in F \cup {z} /\ s[i] # s[1]
        <4>1. CASE i = n + 1
          <5>1. 1 \in 1..n
            BY <2>3, <4>1
          <5> QED BY <1>2, <4>1, <5>1 DEF Chain
        <4>2. CASE i # n + 1
          <5>1. i \in 1..n /\ 1 \in 1..n /\ i # 1
            BY <2>3, <4>2
          <5> QED BY <1>2, <5>1 DEF Chain
        <4> QED BY <4>1, <4>2
      <3> QED BY <2>0, <3>1, <3>2, <3>3
    <2> QED BY <2>1, <2>2, <2>3
  <1>10. Chain(nx, pv, z, G, n + 1, t)
    <2>1. t[n + 1 + 1] = z
      <3>1. n + 1 + 1 = n + 2
        OBVIOUS
      <3> QED BY <1>3, <3>1
    <2> QED BY <1>3, <1>6, <1>7, <1>8, <1>9, <2>1 DEF Chain
  <1> QED BY <1>4, <1>10 DEF IsRing

\* A node leaves, and its neighbours are linked to each other.
LEMMA RingRemove ==
  ASSUME NEW nxt, NEW prv, NEW nx, NEW pv, NEW z, NEW F, NEW b \in F,
         z \notin F, IsRing(nxt, prv, z, F),
         \A x \in (F \cup {z}) \ {b} :
           /\ nx[x] = IF x = prv[b] THEN nxt[b] ELSE nxt[x]
           /\ pv[x] = IF x = nxt[b] THEN prv[b] ELSE prv[x]
  PROVE  IsRing(nx, pv, z, F \ {b})
  <1>1. PICK n \in Nat : \E s \in [0..(n + 1) -> F \cup {z}] : Chain(nxt, prv, z, F, n, s)
    BY DEF IsRing
  <1>2. PICK s \in [0..(n + 1) -> F \cup {z}] : Chain(nxt, prv, z, F, n, s)
    BY <1>1
  <1>3. PICK k \in 1..n : s[k] = b
    BY <1>2 DEF Chain
  <1> DEFINE t == [i \in 0..n |-> IF i < k THEN s[i] ELSE s[i + 1]]
             G == F \ {b}
  <1>4. /\ n - 1 \in Nat /\ n - 1 + 1 = n /\ n \in Nat /\ k \in 1..n
        /\ t[0] = z /\ t[n] = z
        /\ \A i \in 0..n : t[i] = IF i < k THEN s[i] ELSE s[i + 1]
    BY <1>2, <1>3 DEF Chain
  <1>4a. s[n + 1] = z
    BY <1>2 DEF Chain
  <1>5. \A i \in 1..n : s[i] = b => i = k
    BY <1>2, <1>3 DEF Chain
  <1>6. t \in [0..(n - 1 + 1) -> G \cup {z}]
    <2>1. \A i \in 0..n : t[i] \in G \cup {z}
      <3> TAKE i \in 0..n
      <3>1. CASE i < k
        <4>1. s[i] # b \/ i = 0
          BY <1>5, <3>1
        <4> QED BY <1>2, <1>4, <3>1, <4>1 DEF Chain
      <3>2. CASE ~(i < k)
        <4>1. s[i + 1] # b \/ i = n
          BY <1>4, <1>5, <3>2
        <4>2. t[i] = s[i + 1] /\ s[i + 1] \in F \cup {z} /\ (i = n => s[i + 1] = z)
          BY <1>4, <1>4a, <3>2
        <4> QED BY <4>1, <4>2
      <3> QED BY <3>1, <3>2
    <2> QED BY <1>4, <2>1
  <1> HIDE DEF t
  <1>7. \A i \in 1..(n - 1) : t[i] \in G
    <2> TAKE i \in 1..(n - 1)
    <2>1. CASE i < k
      <3>1. i \in 1..n /\ i \in 0..n /\ i # k
        BY <1>4, <2>1
      <3> QED BY <1>2, <1>4, <1>5, <2>1, <3>1 DEF Chain
    <2>2. CASE ~(i < k)
      <3>1. i + 1 \in 1..n /\ i \in 0..n /\ i + 1 # k
        BY <1>4, <2>2
      <3> QED BY <1>2, <1>4, <1>5, <2>2, <3>1 DEF Chain
    <2> QED BY <2>1, <2>2
  <1>8. \A i, j \in 1..(n - 1) : t[i] = t[j] => i = j
    <2> SUFFICES ASSUME NEW i \in 1..(n - 1), NEW j \in 1..(n - 1), t[i] = t[j] PROVE i = j
      OBVIOUS
    <2> DEFINE Old(x) == IF x < k THEN x ELSE x + 1
    <2>1. Old(i) \in 1..n /\ Old(j) \in 1..n /\ (Old(i) = Old(j) => i = j)
      BY <1>4
    <2>2. t[i] = s[Old(i)] /\ t[j] = s[Old(j)]
      BY <1>4
    <2> HIDE DEF Old
    <2> QED BY <1>2, <2>1, <2>2, ZenonT(30) DEF Chain
  <1>9. \A c \in G : \E i \in 1..(n - 1) : t[i] = c
    <2> TAKE c \in G
    <2>1. PICK i \in 1..n : s[i] = c
      BY <1>2 DEF Chain
    <2>2. i # k
      BY <1>3, <2>1
    <2>3. CASE i < k
      <3>1. i \in 1..(n - 1) /\ t[i] = c
        BY <1>4, <2>1, <2>3
      <3> QED BY <3>1
    <2>4. CASE i > k
      <3>1. i - 1 \in 1..(n - 1) /\ ~(i - 1 < k) /\ i - 1 \in 0..n /\ (i - 1) + 1 = i
        BY <1>4, <2>4
      <3>2. t[i - 1] = c
        BY <1>4, <2>1, <3>1
      <3> QED BY <3>1, <3>2
    <2> QED BY <2>2, <2>3, <2>4
  <1>10. /\ \A i \in 0..n : nxt[s[i]] = s[i + 1] /\ prv[s[i + 1]] = s[i]
         /\ prv[b] = s[k - 1] /\ nxt[b] = s[k + 1]
    <2>1. k \in 0..n /\ k - 1 \in 0..n /\ (k - 1) + 1 = k
      OBVIOUS
    <2> QED BY <1>2, <1>3, <2>1 DEF Chain
  <1>10a. \A x \in (F \cup {z}) \ {b} :
            /\ nx[x] = IF x = s[k - 1] THEN s[k + 1] ELSE nxt[x]
            /\ pv[x] = IF x = s[k + 1] THEN s[k - 1] ELSE prv[x]
    BY <1>10
  <1>11. \A i \in 0..(n - 1) : nx[t[i]] = t[i + 1] /\ pv[t[i + 1]] = t[i]
    <2> TAKE i \in 0..(n - 1)
    <2>0. /\ i \in 0..n /\ i + 1 \in 0..n /\ t[i] \in G \cup {z}
          /\ t[i + 1] \in G \cup {z}
      BY <1>4, <1>6
    <2>00. /\ t[i] \in (F \cup {z}) \ {b} /\ t[i + 1] \in (F \cup {z}) \ {b}
      BY <2>0
    <2>01. /\ nx[t[i]] = IF t[i] = s[k - 1] THEN s[k + 1] ELSE nxt[t[i]]
           /\ pv[t[i + 1]] = IF t[i + 1] = s[k + 1] THEN s[k - 1]
                                      ELSE prv[t[i + 1]]
      BY <1>10a, <2>00
    <2>1. CASE i + 1 < k
      <3>1. t[i] = s[i] /\ t[i + 1] = s[i + 1]
        BY <1>4, <2>0, <2>1
      <3>2. s[i] # s[k - 1] /\ s[i + 1] # s[k + 1]
        <4>1. /\ k - 1 \in 1..n /\ (i = 0 \/ i \in 1..n) /\ i # k - 1
              /\ i + 1 \in 1..n /\ (k = n \/ k + 1 \in 1..n) /\ i + 1 # k + 1
          BY <1>4, <2>0, <2>1
        <4> QED BY <1>2, <4>1, SMTT(30) DEF Chain
      <3> QED BY <1>10, <2>0, <2>01, <3>1, <3>2
    <2>2. CASE i + 1 = k
      <3>1. t[i] = s[k - 1] /\ t[i + 1] = s[k + 1]
        <4>1. i = k - 1 /\ ~(i + 1 < k) /\ i < k /\ (i + 1) + 1 = k + 1
          BY <1>4, <2>2
        <4> QED BY <1>4, <2>0, <4>1
      <3> QED BY <2>01, <3>1
    <2>3. CASE i + 1 > k
      <3>1. t[i] = s[i + 1] /\ t[i + 1] = s[i + 2]
        <4>1. ~(i < k) /\ ~(i + 1 < k) /\ (i + 1) + 1 = i + 2
          BY <1>4, <2>3
        <4> QED BY <1>4, <2>0, <4>1
      <3>2. nxt[s[i + 1]] = s[i + 2] /\ prv[s[i + 2]] = s[i + 1]
        <4>1. i + 1 \in 0..n /\ (i + 1) + 1 = i + 2
          BY <2>0
        <4> QED BY <1>10, <4>1
      <3>3. s[i + 1] # s[k - 1] /\ s[i + 2] # s[k + 1]
        <4>1. /\ (k - 1 = 0 \/ k - 1 \in 1..n) /\ i + 1 \in 1..n /\ i + 1 # k - 1
              /\ k + 1 \in 1..n /\ (i + 2 = n + 1 \/ i + 2 \in 1..n) /\ i + 2 # k + 1
          BY <1>4, <2>0, <2>3
        <4>2. s[i + 1] # s[k - 1]
          <5>1. CASE k - 1 = 0
            BY <1>2, <4>1, <5>1 DEF Chain
          <5>2. CASE k - 1 \in 1..n
            BY <1>2, <4>1, <5>2 DEF Chain
          <5> QED BY <4>1, <5>1, <5>2
        <4>3. s[i + 2] # s[k + 1]
          <5>1. CASE i + 2 = n + 1
            <6>1. s[i + 2] = z
              BY <1>4a, <5>1
            <6>2. s[k + 1] \in F
              BY <1>2, <4>1 DEF Chain
            <6> QED BY <6>1, <6>2
          <5>2. CASE i + 2 \in 1..n
            BY <1>2, <4>1, <5>2 DEF Chain
          <5> QED BY <4>1, <5>1, <5>2
        <4> QED BY <4>2, <4>3
      <3> QED BY <2>01, <3>1, <3>2, <3>3
    <2> QED BY <1>4, <2>1, <2>2, <2>3
  <1>12. Chain(nx, pv, z, G, n - 1, t)
    BY <1>4, <1>7, <1>8, <1>9, <1>11 DEF Chain
  <1> QED BY <1>4, <1>6, <1>12 DEF IsRing

\* A ring in a finite set has at most as many nodes.
LEMMA RingIsShort ==
  ASSUME NEW D, IsFiniteSet(D), NEW F, F \subseteq D, NEW nxt, NEW prv, NEW z, NEW n \in Nat,
         NEW s \in [0..(n + 1) -> F \cup {z}], Chain(nxt, prv, z, F, n, s)
  PROVE  Cardinality(D) \in Nat /\ n <= Cardinality(D)
  <1> DEFINE f == [i \in 1..n |-> s[i]]
  <1>1. f \in [1..n -> D]
    BY DEF Chain
  <1>2. \A i, j \in 1..n : f[i] = f[j] => i = j
    BY DEF Chain
  <1> HIDE DEF f
  <1>3. f \in Injection(1..n, D)
    BY <1>1, <1>2 DEF Injection, IsInjective
  <1>4. Cardinality(1..n) <= Cardinality(D)
    BY <1>3, FS_Injection
  <1>5. Cardinality(1..n) = n
    <2>1. 1 \in Int /\ n \in Int
      OBVIOUS
    <2> QED BY <2>1, FS_Interval
  <1> QED BY <1>4, <1>5, FS_CardinalityType

\* Seen from the other side a ring is a ring.
LEMMA RingReverse ==
  ASSUME NEW nxt, NEW prv, NEW z, NEW F, IsRing(nxt, prv, z, F)
  PROVE  IsRing(prv, nxt, z, F)
  <1>1. PICK n \in Nat : \E s \in [0..(n + 1) -> F \cup {z}] : Chain(nxt, prv, z, F, n, s)
    BY DEF IsRing
  <1>2. PICK s \in [0..(n + 1) -> F \cup {z}] : Chain(nxt, prv, z, F, n, s)
    BY <1>1
  <1> DEFINE t == [i \in 0..(n + 1) |-> s[n + 1 - i]]
  <1>3. \A i \in 0..(n + 1) : n + 1 - i \in 0..(n + 1) /\ t[i] = s[n + 1 - i]
    OBVIOUS
  <1>4. t \in [0..(n + 1) -> F \cup {z}]
    BY <1>3
  <1> HIDE DEF t
  <1>5. \A i \in 1..n : n + 1 - i \in 1..n /\ t[i] = s[n + 1 - i] /\ n + 1 - (n + 1 - i) = i
    BY <1>3
  <1>6. \A i \in 1..n : t[i] \in F
    BY <1>2, <1>5, ZenonT(30) DEF Chain
  <1>7. \A i, j \in 1..n : t[i] = t[j] => i = j
    <2> TAKE i, j \in 1..n
    <2>1. s[n + 1 - i] = s[n + 1 - j] => n + 1 - i = n + 1 - j
      BY <1>2, <1>5 DEF Chain
    <2> QED BY <1>5, <2>1
  <1>8. \A b \in F : \E i \in 1..n : t[i] = b
    <2> TAKE b \in F
    <2>1. PICK i \in 1..n : s[i] = b
      BY <1>2 DEF Chain
    <2>2. n + 1 - i \in 1..n /\ t[n + 1 - i] = s[i]
      BY <1>5
    <2> QED BY <2>1, <2>2
  <1>9. \A i \in 0..n : prv[t[i]] = t[i + 1] /\ nxt[t[i + 1]] = t[i]
    <2> TAKE i \in 0..n
    <2>1. /\ n - i \in 0..n /\ n + 1 - i = (n - i) + 1 /\ n + 1 - (i + 1) = n - i
          /\ i \in 0..(n + 1) /\ i + 1 \in 0..(n + 1)
      OBVIOUS
    <2>2. t[i] = s[(n - i) + 1] /\ t[i + 1] = s[n - i]
      BY <1>3, <2>1
    <2> QED BY <1>2, <2>1, <2>2 DEF Chain
  <1>10. t[0] = z /\ t[n + 1] = z
    <2>1. s[0] = z /\ s[n + 1] = z
      BY <1>2 DEF Chain
    <2>2. n + 1 - 0 = n + 1 /\ n + 1 - (n + 1) = 0 /\ 0 \in 0..(n + 1) /\ n + 1 \in 0..(n + 1)
      OBVIOUS
    <2> QED BY <1>3, <2>1, <2>2
  <1>11. Chain(prv, nxt, z, F, n, t)
    BY <1>6, <1>7, <1>8, <1>9, <1>10 DEF Chain
  <1> QED BY <1>4, <1>11 DEF IsRing

\* step leads along the chain s and stays at z.
Follows(step, nxt, prv, z, F, n, s) ==
  /\ n \in Nat /\ s \in [0..(n + 1) -> F \cup {z}] /\ Chain(nxt, prv, z, F, n, s)
  /\ step[z] = z /\ \A b \in F : step[b] = nxt[b]

\* The walk along nxt from the first node visits them in their order, and
\* stays at z.
LEMMA WalkVisits ==
  ASSUME NEW step, NEW nxt, NEW prv, NEW z, NEW F, NEW n, NEW s,
         Follows(step, nxt, prv, z, F, n, s), NEW i \in Nat
  PROVE  Iterate(step, nxt[z], i) = IF i <= n THEN s[i + 1] ELSE z
  <1> USE DEF Follows
  <1> DEFINE x == nxt[z]
             S == [k \in Nat |-> {IF k <= n THEN s[k + 1] ELSE z}]
  <1>0. s[0] = z /\ s[n + 1] = z
    BY DEF Chain
  <1>1. x \in S[0]
    <2>1. 0 \in 0..n /\ 0 + 1 = 1
      OBVIOUS
    <2> QED BY <1>0, <2>1 DEF Chain
  <1>2. ASSUME NEW k \in Nat, NEW b \in S[k] PROVE step[b] \in S[k + 1]
    <2>1. CASE k < n
      <3>1. b = s[k + 1] /\ k + 1 \in 1..n /\ k + 1 \in 0..n /\ k + 1 + 1 \in 1..(n + 1)
        BY <1>2, <2>1
      <3>2. s[k + 1] \in F /\ nxt[s[k + 1]] = s[k + 1 + 1]
        BY <3>1 DEF Chain
      <3>3. step[b] = s[k + 1 + 1]
        BY <3>1, <3>2
      <3>4. S[k + 1] = {s[k + 1 + 1]}
        BY <2>1
      <3> QED BY <3>3, <3>4
    <2>2. CASE k >= n
      <3>1. b = z
        BY <1>0, <1>2, <2>2
      <3>2. S[k + 1] = {z}
        BY <2>2
      <3> QED BY <3>1, <3>2
    <2> QED BY <2>1, <2>2
  <1> HIDE DEF S, x
  <1>3. Iterate(step, x, i) \in S[i]
    BY <1>1, <1>2, IterateInvariant
  <1> QED BY <1>3 DEF S, x

\* The nodes on a walk of m steps, if there are at most m of them: those of the
\* ring.  The walk ends at z.
LEMMA WalkIsRing ==
  ASSUME NEW nxt, NEW prv, NEW z, NEW F, z \notin F, IsRing(nxt, prv, z, F),
         NEW step, step[z] = z, \A b \in F : step[b] = nxt[b],
         NEW D, IsFiniteSet(D), F \subseteq D, NEW m \in Nat, Cardinality(D) <= m
  PROVE  /\ {Iterate(step, nxt[z], i) : i \in 0..m} \ {z} = F
         /\ Iterate(step, nxt[z], m) = z
         /\ nxt[z] # z => nxt[z] \in F
  <1>1. PICK n \in Nat : \E s \in [0..(n + 1) -> F \cup {z}] : Chain(nxt, prv, z, F, n, s)
    BY DEF IsRing
  <1>2. PICK s \in [0..(n + 1) -> F \cup {z}] : Chain(nxt, prv, z, F, n, s)
    BY <1>1
  <1>3. n <= m /\ s[n + 1] = z
    <2>1. Cardinality(D) \in Nat /\ n <= Cardinality(D)
      BY <1>2, RingIsShort
    <2> QED BY <1>2, <2>1 DEF Chain
  <1> DEFINE x == nxt[z]
  <1>4. ASSUME NEW i \in Nat PROVE Iterate(step, x, i) = IF i <= n THEN s[i + 1] ELSE z
    <2>1. Follows(step, nxt, prv, z, F, n, s)
      BY <1>2 DEF Follows
    <2> QED BY <2>1, WalkVisits
  <1>4a. x \in F \cup {z}
    <2>1. Iterate(step, x, 0) = x
      BY IterateUnfolds
    <2>2. Iterate(step, x, 0) = s[0 + 1] /\ 0 + 1 \in 0..(n + 1)
      BY <1>4
    <2> QED BY <2>1, <2>2
  <1> HIDE DEF x
  <1>5. ASSUME NEW i \in 0..m, Iterate(step, x, i) # z
        PROVE  Iterate(step, x, i) \in F
    <2>1. i <= n /\ Iterate(step, x, i) = s[i + 1]
      BY <1>3, <1>4, <1>5
    <2>2. s[i + 1] \in F \cup {z}
      BY <2>1
    <2> QED BY <1>5, <2>1, <2>2
  <1>6. ASSUME NEW b \in F PROVE \E i \in 0..m : Iterate(step, x, i) = b
    <2>1. PICK k \in 1..n : s[k] = b
      BY <1>2 DEF Chain
    <2>2. k - 1 \in 0..m /\ k - 1 \in Nat /\ k - 1 <= n /\ (k - 1) + 1 = k
      BY <1>3
    <2>3. Iterate(step, x, k - 1) = b
      BY <1>4, <2>1, <2>2
    <2> QED BY <2>2, <2>3
  <1>7. Iterate(step, x, m) = z
    BY <1>3, <1>4
  <1> QED BY <1>4a, <1>5, <1>6, <1>7 DEF x

=============================================================================
