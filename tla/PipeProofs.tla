----------------------------- MODULE PipeProofs -----------------------------
(***************************************************************************)
(* What holds of the pipe for any number of readers and writers, any size  *)
(* of the ring and any number of bytes: the ring is first in, first out    *)
(* (PipeIsFifo); it is freed, with its semaphores, when its users are gone *)
(* (PipeIsFreed); a read returns 0 only at the end of the data             *)
(* (PipeEndIsFinal).                                                       *)
(***************************************************************************)
EXTENDS Pipe, TLAPS

N == PIPE_BUFFER_SIZE

Position == 0..(N - 1)

Count == 0..N

pipe_t == [used : BOOLEAN, buffer : [Position -> Nat], read_pos : Position,
           write_pos : Position, count : Count, readers : Int, writers : Int]

PipeType == pipe \in pipe_t /\ sent \in Nat /\ got \in Nat

\* The inductive invariant.
IInv == PipeType /\ RingIsFifo

\* The ring has room.
LEMMA NIsPositive == N \in Nat /\ N > 0
  BY PipeAssumption DEF N

\* The positions of the ring: the remainder of less than two turns.
LEMMA Turn ==
  ASSUME NEW x \in Nat, x < 2 * N
  PROVE  x % N = IF x < N THEN x ELSE x - N
  BY NIsPositive

\* One position further.
LEMMA AheadOnRing ==
  ASSUME NEW i \in Position
  PROVE  Ahead(i) \in Position /\ Ahead(i) = IF i = N - 1 THEN 0 ELSE i + 1
  <1>1. i + 1 \in Nat /\ i + 1 < 2 * N
    BY NIsPositive DEF Position
  <1> QED BY <1>1, Turn, NIsPositive DEF Ahead, Position, N


\* Position i of the bytes, counted from read_pos.
Place(r, i) == (r + i) % N

\* Where the byte number i after position r is.
LEMMA PlaceOnRing ==
  ASSUME NEW r \in Position, NEW i \in 0..N
  PROVE  /\ Place(r, i) \in Position
         /\ Place(r, i) = IF r + i < N THEN r + i ELSE r + i - N
  <1>1. r + i \in Nat /\ r + i < 2 * N
    BY NIsPositive DEF Position
  <1> QED BY <1>1, Turn, NIsPositive DEF Place, Position

\* From the next position on, everything is one place closer.
LEMMA PlaceAhead ==
  ASSUME NEW r \in Position, NEW i \in Position
  PROVE  /\ Place(Ahead(r), i) = Place(r, i + 1)
         /\ Place(r, i + 1) = Ahead(Place(r, i))
  <1>1. /\ i \in 0..N /\ i + 1 \in 0..N /\ N \in Nat /\ r \in 0..(N - 1) /\ i \in 0..(N - 1)
        /\ Ahead(r) \in Position /\ Ahead(r) = IF r = N - 1 THEN 0 ELSE r + 1
    BY NIsPositive, AheadOnRing DEF Position
  <1>2. Place(r, i) \in Position /\ Place(r, i) = IF r + i < N THEN r + i ELSE r + i - N
    BY <1>1, PlaceOnRing
  <1>3. Place(r, i + 1) = IF r + (i + 1) < N THEN r + (i + 1) ELSE r + (i + 1) - N
    BY <1>1, PlaceOnRing
  <1>4. Place(Ahead(r), i) = IF Ahead(r) + i < N THEN Ahead(r) + i ELSE Ahead(r) + i - N
    BY <1>1, PlaceOnRing
  <1>5. Ahead(Place(r, i)) = IF Place(r, i) = N - 1 THEN 0 ELSE Place(r, i) + 1
    BY <1>2, AheadOnRing
  <1>6. Place(Ahead(r), i) = Place(r, i + 1)
    BY <1>1, <1>3, <1>4
  <1>7. Place(r, i + 1) = Ahead(Place(r, i))
    BY <1>1, <1>2, <1>3, <1>5
  <1> QED BY <1>6, <1>7

\* Bytes in the ring do not overlap.
LEMMA PlaceInjective ==
  ASSUME NEW r \in Position, NEW i \in Position, NEW j \in Position
  PROVE  Place(r, i) = Place(r, j) => i = j
  <1> DEFINE PlaceOf(x) == IF r + x < N THEN r + x ELSE r + x - N
  <1>1. /\ i \in 0..N /\ j \in 0..N /\ N \in Nat
        /\ r \in 0..(N - 1) /\ i \in 0..(N - 1) /\ j \in 0..(N - 1)
    BY NIsPositive DEF Position
  <1>2. Place(r, i) = PlaceOf(i) /\ Place(r, j) = PlaceOf(j)
    BY <1>1, PlaceOnRing
  <1>3. PlaceOf(i) = PlaceOf(j) => i = j
    BY <1>1
  <1> QED BY <1>2, <1>3

\* The updates of a pipe_t.
LEMMA Updates ==
  ASSUME NEW v \in pipe_t, NEW pos \in Position, NEW n \in Count, NEW b \in Nat
  PROVE  /\ [v EXCEPT !.read_pos = pos, !.count = n] \in pipe_t
         /\ [v EXCEPT !.buffer[v.write_pos] = b, !.write_pos = pos, !.count = n] \in pipe_t
         /\ [v EXCEPT !.used = FALSE, !.read_pos = pos, !.write_pos = pos,
                      !.count = n] \in pipe_t
  <1>1. [v.buffer EXCEPT ![v.write_pos] = b] \in [Position -> Nat]
    BY DEF pipe_t
  <1> QED BY <1>1 DEF pipe_t

\* A step that moves no byte.
LEMMA Unmoved ==
  ASSUME IInv, PipeType', UNCHANGED <<sent, got>>, pipe'.used => pipe.used,
         UNCHANGED <<pipe.buffer, pipe.read_pos, pipe.write_pos, pipe.count>>
                \/ ~pipe'.used
  PROVE  RingIsFifo'
  BY DEF IInv, RingIsFifo

\* pipe_create makes an empty ring.
LEMMA InitFifo == Init => IInv
  <1> SUFFICES ASSUME Init PROVE IInv
    OBVIOUS
  <1>1. PipeType
    BY NIsPositive DEF Init, PipeType, pipe_t, Count, Position, N
  <1>2. Place(0, 0) = 0
    BY PlaceOnRing, NIsPositive DEF Position
  <1> QED BY <1>1, <1>2, NIsPositive DEF IInv, RingIsFifo, Init, Place, N

\* A byte is taken from read_pos.
LEMMA ByteRead ==
  ASSUME IInv, pipe.count > 0, got' = pipe.buffer[pipe.read_pos], sent' = sent,
         pipe' = [pipe EXCEPT !.read_pos = Ahead(@), !.count = @ - 1]
  PROVE  IInv'
  <1> DEFINE r == pipe.read_pos
             n == pipe.count
  <1>1. PipeType /\ r \in Position /\ n \in 1..N /\ N \in Nat /\ N > 0
    BY NIsPositive DEF IInv, PipeType, pipe_t, Count
  <1>2. Ahead(r) \in Position /\ Ahead(r) = IF r = N - 1 THEN 0 ELSE r + 1
    BY <1>1, AheadOnRing
  <1>3. PipeType'
    <2>1. n - 1 \in Count /\ pipe.buffer[r] \in Nat /\ pipe \in pipe_t
      BY <1>1 DEF PipeType, pipe_t, Count
    <2> QED BY <1>2, <2>1, Updates DEF IInv, PipeType
  <1>4. \A i \in 0..(n - 1) : Place(Ahead(r), i) = Place(r, i + 1)
    <2> TAKE i \in 0..(n - 1)
    <2>1. i \in Position
      BY <1>1 DEF Position
    <2> QED BY <1>1, <2>1, PlaceAhead
  <1>5. Place(r, 0) = r
    BY <1>1, PlaceOnRing DEF Position
  <1>6. CASE pipe.used
    <2>1. /\ got = sent - n /\ Place(r, n) = pipe.write_pos
          /\ \A i \in 0..(n - 1) : pipe.buffer[Place(r, i)] = got + 1 + i
      BY <1>6 DEF IInv, RingIsFifo, Place, N
    <2>2. got' = got + 1
      BY <1>1, <1>5, <2>1 DEF PipeType, pipe_t, Count
    <2>3. pipe'.read_pos = Ahead(r) /\ pipe'.count = n - 1
          /\ pipe'.write_pos = pipe.write_pos /\ pipe'.buffer = pipe.buffer
      BY <1>1 DEF PipeType, pipe_t, Count
    <2>4. got' = sent' - (n - 1)
      BY <1>1, <2>1, <2>2 DEF PipeType, pipe_t, Count
    <2>5. Place(Ahead(r), n - 1) = pipe.write_pos
      BY <1>1, <1>4, <2>1
    <2>6. \A i \in 0..(n - 1 - 1) : pipe.buffer[Place(Ahead(r), i)] = got' + 1 + i
      <3> TAKE i \in 0..(n - 1 - 1)
      <3>1. i \in 0..(n - 1) /\ i + 1 \in 0..(n - 1)
        BY <1>1
      <3>2. pipe.buffer[Place(r, i + 1)] = got + 1 + (i + 1)
        BY <2>1, <3>1
      <3> QED BY <1>1, <1>4, <2>2, <3>1, <3>2 DEF PipeType, pipe_t, Count
    <2> QED BY <1>3, <2>3, <2>4, <2>5, <2>6 DEF IInv, RingIsFifo, Place, N
  <1>7. CASE ~pipe.used
    BY <1>1, <1>3, <1>7 DEF IInv, RingIsFifo, PipeType, pipe_t
  <1> QED BY <1>6, <1>7

\* A byte is put at write_pos.
LEMMA ByteWritten ==
  ASSUME IInv, pipe.count < N, got' = got, sent' = sent + 1,
         pipe' = [pipe EXCEPT !.buffer[pipe.write_pos] = sent + 1,
                              !.write_pos = Ahead(@), !.count = @ + 1]
  PROVE  IInv'
  <1> DEFINE r == pipe.read_pos
             w == pipe.write_pos
             n == pipe.count
  <1>1. /\ PipeType /\ r \in Position /\ w \in Position /\ n \in 0..(N - 1)
        /\ N \in Nat /\ N > 0 /\ sent \in Nat
    BY NIsPositive DEF IInv, PipeType, pipe_t, Count
  <1>2. Ahead(w) \in Position /\ Ahead(w) = IF w = N - 1 THEN 0 ELSE w + 1
    BY <1>1, AheadOnRing
  <1>3. PipeType'
    <2>1. n + 1 \in Count /\ sent + 1 \in Nat /\ pipe \in pipe_t
      BY <1>1 DEF PipeType, Count
    <2> QED BY <1>2, <2>1, Updates DEF IInv, PipeType
  <1>4. CASE pipe.used
    <2>1. /\ got = sent - n /\ Place(r, n) = w
          /\ \A i \in 0..(n - 1) : pipe.buffer[Place(r, i)] = got + 1 + i
      BY <1>4 DEF IInv, RingIsFifo, Place, N
    <2>2. /\ pipe'.read_pos = r /\ pipe'.count = n + 1 /\ pipe'.write_pos = Ahead(w)
          /\ pipe'.buffer = [pipe.buffer EXCEPT ![w] = sent + 1]
      BY <1>1 DEF PipeType, pipe_t, Count
    <2>3. got' = sent' - (n + 1)
      BY <1>1, <2>1 DEF PipeType, pipe_t, Count
    <2>4. Place(r, n + 1) = Ahead(w)
      <3>1. n \in Position
        BY <1>1 DEF Position
      <3> QED BY <1>1, <2>1, <3>1, PlaceAhead
    <2>5. \A i \in 0..(pipe'.count - 1) : pipe'.buffer[Place(r, i)] = got' + 1 + i
      <3> TAKE i \in 0..(pipe'.count - 1)
      <3>0. i \in 0..n
        BY <1>1, <2>2
      <3>1. i \in Position /\ n \in Position /\ i \in 0..N
        BY <1>1, <3>0 DEF Position
      <3>2. Place(r, i) \in Position /\ (Place(r, i) = Place(r, n) => i = n)
        BY <1>1, <3>1, PlaceOnRing, PlaceInjective
      <3>3. pipe.buffer \in [Position -> Nat]
        BY <1>1 DEF PipeType, pipe_t
      <3>4. CASE i = n
        <4>1. pipe'.buffer[Place(r, i)] = sent + 1
          BY <1>1, <2>1, <2>2, <3>3, <3>4
        <4> QED BY <1>1, <2>1, <3>4, <4>1 DEF PipeType, pipe_t, Count
      <3>5. CASE i # n
        <4>1. i \in 0..(n - 1)
          BY <1>1, <3>0, <3>5
        <4>2. pipe'.buffer[Place(r, i)] = pipe.buffer[Place(r, i)]
          BY <2>1, <2>2, <3>2, <3>3, <3>5
        <4> QED BY <2>1, <4>1, <4>2
      <3> QED BY <3>4, <3>5
    <2>6. Place(pipe'.read_pos, pipe'.count) = pipe'.write_pos
      BY <2>2, <2>4
    <2>7. got' = sent' - pipe'.count
      BY <2>2, <2>3
    <2>8. \A i \in 0..(pipe'.count - 1) :
               pipe'.buffer[Place(pipe'.read_pos, i)] = got' + 1 + i
      BY <2>2, <2>5, Zenon
    <2> QED BY <1>3, <2>6, <2>7, <2>8 DEF IInv, RingIsFifo, Place, N
  <1>5. CASE ~pipe.used
    BY <1>1, <1>3, <1>5 DEF IInv, RingIsFifo, PipeType, pipe_t
  <1> QED BY <1>4, <1>5

\* A process is counted at its end ...
LEMMA OpenedFifo ==
  ASSUME IInv, NEW p, Opened(p), UNCHANGED <<sent, got>>
  PROVE  IInv'
  <1>1. PipeType' /\ UNCHANGED <<pipe.used, pipe.buffer, pipe.read_pos, pipe.write_pos,
                                 pipe.count>>
    BY DEF Opened, IInv, PipeType, pipe_t, Count
  <1> QED BY <1>1, Unmoved DEF IInv

\* ... or leaves it, and the slot may become free.
LEMMA DroppedFifo ==
  ASSUME IInv, NEW p, UNCHANGED <<sent, got>>,
         pipe' = Dropped(p) \/ pipe' = Freed(Dropped(p))
  PROVE  IInv'
  <1> DEFINE c == Dropped(p)
  <1>1. /\ c \in pipe_t /\ c.used = pipe.used /\ c.buffer = pipe.buffer
        /\ c.read_pos = pipe.read_pos /\ c.write_pos = pipe.write_pos /\ c.count = pipe.count
    BY DEF Dropped, IInv, PipeType, pipe_t, Count
  <1>2. CASE pipe' = c
    BY <1>1, <1>2, Unmoved DEF IInv, PipeType
  <1>3. CASE pipe' = Freed(c)
    <2>1. 0 \in Position /\ 0 \in Count
      BY NIsPositive DEF Position, Count
    <2>2. Freed(c) \in pipe_t
      BY <1>1, <2>1, Updates DEF Freed
    <2>3. ~pipe'.used
      BY <1>1, <1>3 DEF Freed, pipe_t
    <2> QED BY <1>3, <2>2, <2>3, Unmoved DEF IInv, PipeType
  <1> QED BY <1>2, <1>3

\* Every step keeps the order of the bytes.
LEMMA NextFifo == IInv /\ [Next]_vars => IInv'
  <1> SUFFICES ASSUME IInv, [Next]_vars PROVE IInv'
    OBVIOUS
  <1>0. PipeType
    BY DEF IInv
  <1>1. CASE UNCHANGED <<pipe, sent, got>>
    BY <1>1 DEF IInv, PipeType, RingIsFifo
  <1>2. ASSUME NEW p \in Process, pipe_open_by_id(p) PROVE IInv'
    BY <1>1, <1>2, OpenedFifo DEF pipe_open_by_id
  <1>7. ASSUME NEW p \in Process, kill(p) PROVE IInv'
    BY <1>1, <1>7, DroppedFifo DEF kill, Killed
  <1>8. CASE open_resumes
    BY <1>1, <1>8, OpenedFifo DEF open_resumes
  <1>9. CASE kill_resumes
    BY <1>1, <1>9, DroppedFifo DEF kill_resumes, Killed
  <1>3. ASSUME NEW p \in Process, NEW n, call(p, n) PROVE IInv'
    BY <1>1, <1>3 DEF call
  <1>4. ASSUME NEW p \in Process, exit(p) PROVE IInv'
    BY <1>1, <1>4 DEF exit
  <1>5. ASSUME NEW p \in Process, Step(p) PROVE IInv'
    <2>1. CASE resume(p)
      BY <1>1, <2>1 DEF resume
    <2>2. CASE enter(p)
      BY <1>1, <2>2 DEF enter, Hangs
    <2>3. CASE pipe_read(p)
      <3>1. CASE UNCHANGED <<pipe, sent, got>>
        BY <1>1, <3>1
      <3>2. CASE /\ pipe.count > 0 /\ got' = pipe.buffer[pipe.read_pos] /\ sent' = sent
                 /\ pipe' = [pipe EXCEPT !.read_pos = Ahead(@), !.count = @ - 1]
        BY <3>2, ByteRead
      <3> QED BY <2>3, <3>1, <3>2 DEF pipe_read, Hangs
    <2>4. CASE pipe_write(p)
      <3>1. CASE UNCHANGED <<pipe, sent, got>>
        BY <1>1, <3>1
      <3>2. CASE /\ pipe.count < N /\ got' = got /\ sent' = sent + 1
                 /\ pipe' = [pipe EXCEPT !.buffer[pipe.write_pos] = sent + 1,
                                         !.write_pos = Ahead(@), !.count = @ + 1]
        BY <3>2, ByteWritten
      <3> QED BY <2>4, <3>1, <3>2 DEF pipe_write, Hangs, N
    <2>5. CASE close_counts(p)
      BY <2>5, DroppedFifo DEF close_counts
    <2>6. CASE close_locks(p)
      BY <1>1, <2>6 DEF close_locks
    <2>7. CASE close_does(p)
      BY <1>1, <2>7 DEF close_does
    <2>8. CASE close_blocks(p)
      BY <1>1, <2>8 DEF close_blocks
    <2> QED BY <1>5, <2>1, <2>2, <2>3, <2>4, <2>5, <2>6, <2>7, <2>8 DEF Step
  <1>6. CASE UNCHANGED vars
    BY <1>1, <1>6 DEF vars
  <1> QED BY <1>2, <1>3, <1>4, <1>5, <1>6, <1>7, <1>8, <1>9 DEF Next, ShellStep

\* The ring delivers the bytes in the order in which pipe_write accepted them,
\* each of them once, however many processes read and write it, wherever they
\* sleep, are preempted or end, and whatever its size.
THEOREM PipeIsFifo == Spec => []RingIsFifo
  <1>1. IInv => RingIsFifo
    BY DEF IInv
  <1> QED BY <1>1, InitFifo, NextFifo, PTL DEF Spec

(***************************************************************************)
(* Counting a finite set by numbering its elements.                        *)
(***************************************************************************)
\* n is the number of the elements of S: the numbers up to n list them, each once.
OneToOne(f, n) == \A i, j \in 1..n : f[i] = f[j] => i = j

Numbers(f, n, S) == f \in [1..n -> S] /\ OneToOne(f, n)

Lists(f, n, x) == \E i \in 1..n : f[i] = x

Counts(n, S) ==
  /\ n \in Nat
  /\ \E f : Numbers(f, n, S) /\ \A x \in S : Lists(f, n, x)

\* Only the empty set has no elements.
LEMMA CountZero ==
  ASSUME NEW n, NEW S, Counts(n, S)
  PROVE  n \in Nat /\ (n = 0 <=> S = {})
  <1>1. PICK f \in [1..n -> S] : \A x \in S : \E i \in 1..n : f[i] = x
    BY DEF Counts, Numbers, Lists
  <1>2. n \in Nat
    BY DEF Counts
  <1>3. ASSUME n = 0 PROVE S = {}
    BY <1>1, <1>3
  <1>4. ASSUME n # 0 PROVE S # {}
    <2>1. 1 \in 1..n
      BY <1>2, <1>4
    <2> QED BY <1>1, <2>1
  <1> QED BY <1>2, <1>3, <1>4

\* The empty set has none.
LEMMA CountNone == Counts(0, {})
  <1>1. [i \in 1..0 |-> 0] \in [1..0 -> {}]
    OBVIOUS
  <1>2. Numbers([i \in 1..0 |-> 0], 0, {})
    BY <1>1 DEF Numbers, OneToOne
  <1> QED BY <1>2 DEF Counts

\* A new element is the last one listed.
WithLast(f, n, p) == [i \in 1..(n + 1) |-> IF i = n + 1 THEN p ELSE f[i]]

\* The longer list is a list without repetition.
LEMMA WithLastIs ==
  ASSUME NEW n \in Nat, NEW S, NEW f, Numbers(f, n, S), NEW p, p \notin S
  PROVE  /\ Numbers(WithLast(f, n, p), n + 1, S \cup {p})
         /\ WithLast(f, n, p)[n + 1] = p /\ \A i \in 1..n : WithLast(f, n, p)[i] = f[i]
  <1> DEFINE g == WithLast(f, n, p)
  <1>0. \A i \in 1..(n + 1) : i = n + 1 \/ i \in 1..n
    OBVIOUS
  <1>0a. n + 1 \in 1..(n + 1) /\ n + 1 \notin 1..n /\ 1..n \subseteq 1..(n + 1)
    OBVIOUS
  <1>1. g[n + 1] = p /\ (\A i \in 1..n : g[i] = f[i]) /\ DOMAIN g = 1..(n + 1)
        /\ g = [i \in 1..(n + 1) |-> g[i]]
    BY <1>0a DEF WithLast
  <1> HIDE DEF g
  <1>2. \A i \in 1..n : g[i] \in S
    BY <1>1, SMTT(30) DEF Numbers
  <1>3. \A i \in 1..(n + 1) : g[i] \in S \cup {p}
    BY <1>0, <1>1, <1>2
  <1>4. g \in [1..(n + 1) -> S \cup {p}]
    BY <1>1, <1>3
  <1>5. OneToOne(g, n + 1)
    <2> SUFFICES ASSUME NEW i \in 1..(n + 1), NEW j \in 1..(n + 1), g[i] = g[j]
                 PROVE  i = j
      BY DEF OneToOne
    <2>1. CASE i \in 1..n /\ j \in 1..n
      BY <1>1, <2>1, SMTT(30) DEF Numbers, OneToOne
    <2>2. CASE i = n + 1 /\ j \in 1..n
      BY <1>1, <1>2, <2>2
    <2>3. CASE i \in 1..n /\ j = n + 1
      BY <1>1, <1>2, <2>3
    <2> QED BY <1>0, <2>1, <2>2, <2>3
  <1> QED BY <1>1, <1>4, <1>5 DEF g, Numbers

\* Counting one more.
LEMMA CountAdd ==
  ASSUME NEW n, NEW S, Counts(n, S), NEW p, p \notin S
  PROVE  Counts(n + 1, S \cup {p})
  <1>1. n \in Nat
    BY DEF Counts
  <1>2. PICK f : Numbers(f, n, S) /\ \A x \in S : Lists(f, n, x)
    BY DEF Counts
  <1> DEFINE g == WithLast(f, n, p)
  <1>3. /\ Numbers(g, n + 1, S \cup {p})
        /\ g[n + 1] = p /\ \A i \in 1..n : g[i] = f[i]
    <2>1. Numbers(f, n, S)
      BY <1>2
    <2>2. Numbers(g, n + 1, S \cup {p})
      BY <1>1, <2>1, WithLastIs
    <2>3. g[n + 1] = p /\ \A i \in 1..n : g[i] = f[i]
      BY <1>1 DEF WithLast
    <2> QED BY <2>2, <2>3
  <1> HIDE DEF g
  <1>4. n + 1 \in Nat /\ n + 1 \in 1..(n + 1) /\ 1..n \subseteq 1..(n + 1)
    BY <1>1
  <1>5. ASSUME NEW x \in S \cup {p} PROVE Lists(g, n + 1, x)
    <2>1. CASE x = p
      BY <1>3, <1>4, <2>1 DEF Lists
    <2>2. CASE x \in S
      <3>1. PICK i \in 1..n : f[i] = x
        BY <1>2, <2>2 DEF Lists
      <3> QED BY <1>3, <1>4, <3>1 DEF Lists
    <2> QED BY <2>1, <2>2
  <1> QED BY <1>3, <1>4, <1>5 DEF Counts

\* Without element k, the last one takes its place.
Without(f, n, k) == [i \in 1..(n - 1) |-> IF i = k THEN f[n] ELSE f[i]]

\* The shorter list is one, and keeps the other elements.
LEMMA WithoutIs ==
  ASSUME NEW n \in Nat, NEW S, NEW f, Numbers(f, n, S), NEW k \in 1..n
  PROVE  /\ Numbers(Without(f, n, k), n - 1, S \ {f[k]})
         /\ \A i \in 1..n : i # k => Lists(Without(f, n, k), n - 1, f[i])
  <1> DEFINE g == Without(f, n, k)
  <1>0. /\ n \in 1..n /\ n \notin 1..(n - 1) /\ 1..(n - 1) \subseteq 1..n
        /\ \A i \in 1..n : i = n \/ i \in 1..(n - 1)
    OBVIOUS
  <1>1. /\ \A i \in 1..(n - 1) : g[i] = IF i = k THEN f[n] ELSE f[i]
        /\ g = [i \in 1..(n - 1) |-> g[i]]
    BY DEF Without
  <1> HIDE DEF g
  <1>2. ASSUME NEW i \in 1..(n - 1) PROVE g[i] \in S \ {f[k]}
    <2>1. CASE i = k
      BY <1>0, <1>1, <2>1 DEF Numbers, OneToOne
    <2>2. CASE i # k
      BY <1>0, <1>1, <2>2 DEF Numbers, OneToOne
    <2> QED BY <2>1, <2>2
  <1>3. g \in [1..(n - 1) -> S \ {f[k]}]
    BY <1>1, <1>2
  <1>4. OneToOne(g, n - 1)
    <2> SUFFICES ASSUME NEW i \in 1..(n - 1), NEW j \in 1..(n - 1), g[i] = g[j]
                 PROVE  i = j
      BY DEF Numbers, OneToOne
    <2>1. i # n /\ j # n /\ i \in 1..n /\ j \in 1..n
      BY <1>0
    <2>2. CASE i = k /\ j # k
      BY <1>0, <1>1, <2>1, <2>2 DEF Numbers, OneToOne
    <2>3. CASE i # k /\ j = k
      BY <1>0, <1>1, <2>1, <2>3 DEF Numbers, OneToOne
    <2>4. CASE i # k /\ j # k
      BY <1>0, <1>1, <2>1, <2>4 DEF Numbers, OneToOne
    <2> QED BY <2>2, <2>3, <2>4
  <1>5. ASSUME NEW i \in 1..n, i # k PROVE Lists(g, n - 1, f[i])
    <2>1. CASE i = n
      <3>1. k \in 1..(n - 1)
        BY <1>0, <1>5, <2>1
      <3> QED BY <1>1, <2>1, <3>1 DEF Lists
    <2>2. CASE i \in 1..(n - 1)
      BY <1>1, <1>5, <2>2 DEF Lists
    <2> QED BY <1>0, <2>1, <2>2
  <1> QED BY <1>3, <1>4, <1>5 DEF g, Numbers

\* Counting one less.
LEMMA CountRemove ==
  ASSUME NEW n, NEW S, Counts(n, S), NEW p \in S
  PROVE  n \in Nat /\ n > 0 /\ Counts(n - 1, S \ {p})
  <1>1. n \in Nat /\ n > 0 /\ n - 1 \in Nat
    BY CountZero
  <1>2. PICK f : Numbers(f, n, S) /\ \A x \in S : Lists(f, n, x)
    BY DEF Counts
  <1>3. PICK k \in 1..n : f[k] = p
    BY <1>2 DEF Lists
  <1> DEFINE g == Without(f, n, k)
  <1>4. /\ Numbers(g, n - 1, S \ {p})
        /\ \A i \in 1..n : i # k => Lists(g, n - 1, f[i])
    <2>1. Numbers(f, n, S)
      BY <1>2
    <2>2. Numbers(g, n - 1, S \ {f[k]})
      BY <1>1, <2>1, WithoutIs
    <2>3. \A i \in 1..n : i # k => Lists(g, n - 1, f[i])
      BY <1>1, <2>1, WithoutIs
    <2> HIDE DEF g
    <2> QED BY <1>3, <2>2, <2>3
  <1> HIDE DEF g
  <1>5. ASSUME NEW x \in S \ {p} PROVE Lists(g, n - 1, x)
    <2>1. PICK i \in 1..n : f[i] = x
      BY <1>2 DEF Lists
    <2> QED BY <1>3, <1>4, <2>1
  <1> QED BY <1>1, <1>4, <1>5 DEF Counts

(***************************************************************************)
(* Who has an end of the pipe, who sleeps where, and what a process that   *)
(* is ending has still to do.                                              *)
(***************************************************************************)
InCall == {"user", "loop", "held", "wait_mutex", "wait_item", "wait_space"}

ThenCount(name) == <<Op(name, "mutex"), Op("count", "mutex")>>

OnlyCount == <<Op("count", "mutex")>>

\* What a process has to do that is ending and still counted ...
Before == {ThenCount("wait"), ThenCount("block"), OnlyCount}

\* ... and one that no longer is.
After == Seq([name : {"signal", "close"}, sem : Sem])

PC == InCall \cup {"new", "terminal", "closing", "finished", "killed"}

process_t == [pc : PC, left : Int, done : Int, todo : Before \cup After]

Sleeper == Process \cup {Shell}

semaphore_t == [used : BOOLEAN, value : Nat, queue : Seq(Sleeper),
                lock : Process \cup {Nobody}]

SemType(s) ==
  /\ DOMAIN s = {"items", "spaces", "mutex", "blocked"}
  /\ \A i \in Sem : s[i] \in semaphore_t

EndsType ==
  /\ proc \in [Process -> process_t] /\ SemType(sem)
  /\ shell \in [pc : {"idle", "opening", "killing", "done"}, p : Process \cup {Nobody}]
  /\ cpu # Nobody => cpu \in Process /\ proc[cpu].pc \in {"loop", "held"}

HasEnd(p) == proc[p].pc \in InCall \/ (proc[p].pc = "closing" /\ proc[p].todo \in Before)

AtEnds(S) == {p \in S : HasEnd(p)}

\* The counts of an open pipe are exact.
Counted ==
  pipe.used => /\ Counts(pipe.readers, AtEnds(Readers))
               /\ Counts(pipe.writers, AtEnds(Writers))

TodoByPc(p) ==
  /\ proc[p].todo # <<>> => proc[p].pc \in {"closing", "killed"}
  /\ proc[p].pc = "closing" => proc[p].todo # <<>>
  /\ proc[p].todo \in Before => proc[p].pc = "closing" /\ pipe.used

Closes(p, i) == \E j \in DOMAIN proc[p].todo : proc[p].todo[j] = Op("close", i)

\* An open pipe is held by somebody as soon as somebody was started, and has
\* its semaphores.  Once it is free, each of those that are left will be closed by
\* somebody.
Held ==
  IF pipe.used
  THEN /\ \A i \in Sem : sem[i].used
       /\ \A p \in Process : proc[p].pc # "terminal" /\ ~\E i \in Sem : Closes(p, i)
       /\ \/ \E p \in Process : HasEnd(p)
          \/ \A p \in Process : proc[p].pc = "new"
  ELSE \A i \in Sem : sem[i].used => \E p \in Process : Closes(p, i)

\* A lock is held by the process that works on the semaphore.
LocksAreHeld ==
  \A i \in Sem : Locked(i) =>
    LET todo == proc[sem[i].lock].todo
    IN  todo # <<>> /\ Head(todo).sem = i /\ Head(todo).name \in {"wait", "signal", "close"}

\* What the shell knows of the process it opens or closes an end for.
ShellKnows ==
  /\ shell.pc = "opening" => shell.p \in Process /\ proc[shell.p].pc = "new"
  /\ shell.pc = "killing" =>
       /\ Writers = {shell.p} /\ proc[shell.p].pc \notin {"new", "terminal"}
       /\ \A r \in Readers : proc[r].pc \in {"new", "terminal", "finished"}
  /\ shell.pc = "done" => ~pipe.used

EndsInv ==
  /\ EndsType /\ Counted /\ (\A p \in Process : TodoByPc(p)) /\ Held /\ LocksAreHeld
  /\ ShellKnows

\* What an operation on semaphores keeps.
Kept(s, t) == SemType(t) /\ \A j \in Sem : t[j].used = s[j].used /\ t[j].lock = s[j].lock

\* Only the queue of i may change, into q, and the sleeping processes into b.
Queues(s, t, i, q, b) ==
  t.blocked = b /\ \A j \in Sem : t[j].queue = IF j = i THEN q ELSE s[j].queue

\* One semaphore changes ...
Put(s, i, v) == [s EXCEPT ![i] = v]

\* Nothing else changes with it.
LEMMA OneChanges ==
  ASSUME NEW s, SemType(s), NEW i \in Sem, NEW v \in semaphore_t
  PROVE  /\ SemType(Put(s, i, v)) /\ Put(s, i, v)[i] = v /\ Put(s, i, v).blocked = s.blocked
         /\ \A j \in Sem : j # i => Put(s, i, v)[j] = s[j]
  BY DEF SemType, Sem, Put

\* ... or the set of the sleeping processes.
WithBlocked(s, b) == [s EXCEPT !.blocked = b]

\* Only that set changes.
LEMMA BlockedChanges ==
  ASSUME NEW s, SemType(s), NEW b
  PROVE  /\ SemType(WithBlocked(s, b)) /\ WithBlocked(s, b).blocked = b
         /\ \A j \in Sem : WithBlocked(s, b)[j] = s[j]
  BY DEF SemType, Sem, WithBlocked

\* sem_wait_by_id up to the release of the lock: the queue of i may grow.
LEMMA EnlistEffect ==
  ASSUME NEW s, SemType(s), NEW i \in Sem, NEW p \in Sleeper
  PROVE  LET t == Enlist(s, i, p)
         IN  /\ Kept(s, t)
             /\ Queues(s, t, i, IF Sleeps(s, i) THEN Append(s[i].queue, p) ELSE s[i].queue,
                       s.blocked)
  <1>1. s[i] \in semaphore_t
    BY DEF SemType
  <1>2. /\ [s[i] EXCEPT !.queue = Append(@, p)] \in semaphore_t
        /\ ~Sleeps(s, i) /\ Exists(s, i) => [s[i] EXCEPT !.value = @ - 1] \in semaphore_t
    <2>1. /\ s[i].queue \in Seq(Sleeper) /\ s[i].value \in Nat
          /\ Append(s[i].queue, p) \in Seq(Sleeper)
      BY <1>1 DEF semaphore_t
    <2>2. ~Sleeps(s, i) /\ Exists(s, i) => s[i].value - 1 \in Nat
      BY <2>1 DEF Sleeps, Exists
    <2> QED BY <1>1, <2>1, <2>2 DEF semaphore_t
  <1>3. CASE ~Exists(s, i)
    BY <1>3 DEF Enlist, Kept, Queues, Sleeps, Exists
  <1>4. CASE Exists(s, i) /\ Sleeps(s, i)
    <2> DEFINE v == [s[i] EXCEPT !.queue = Append(@, p)]
    <2>1. Enlist(s, i, p) = Put(s, i, v)
      BY <1>4 DEF Enlist, Put
    <2>2. v.used = s[i].used /\ v.lock = s[i].lock /\ v.queue = Append(s[i].queue, p)
      BY <1>1 DEF semaphore_t
    <2>3. v \in semaphore_t
      BY <1>2, <1>4
    <2> HIDE DEF v
    <2>4. LET t == Enlist(s, i, p)
          IN  /\ SemType(t) /\ t[i] = v /\ t.blocked = s.blocked
              /\ \A j \in Sem : j # i => t[j] = s[j]
      BY <2>1, <2>3, OneChanges
    <2>5. Kept(s, Enlist(s, i, p))
      BY <2>2, <2>4 DEF Kept
    <2> QED BY <1>4, <2>2, <2>4, <2>5 DEF Queues
  <1>5. CASE Exists(s, i) /\ ~Sleeps(s, i)
    <2> DEFINE v == [s[i] EXCEPT !.value = @ - 1]
    <2>1. Enlist(s, i, p) = Put(s, i, v)
      BY <1>5 DEF Enlist, Put
    <2>2. v.used = s[i].used /\ v.lock = s[i].lock /\ v.queue = s[i].queue
      BY <1>1 DEF semaphore_t
    <2>3. v \in semaphore_t
      BY <1>2, <1>5
    <2> HIDE DEF v
    <2>4. LET t == Enlist(s, i, p)
          IN  /\ SemType(t) /\ t[i] = v /\ t.blocked = s.blocked
              /\ \A j \in Sem : j # i => t[j] = s[j]
      BY <2>1, <2>3, OneChanges
    <2>5. Kept(s, Enlist(s, i, p))
      BY <2>2, <2>4 DEF Kept
    <2> QED BY <1>5, <2>2, <2>4, <2>5 DEF Queues
  <1> QED BY <1>3, <1>4, <1>5

\* sem_signal_by_id: the first of the queue of i is woken, if there is one.
LEMMA SignalEffect ==
  ASSUME NEW s, SemType(s), NEW i \in Sem
  PROVE  LET t == sem_signal_by_id(s, i)
             q == s[i].queue
         IN  /\ Kept(s, t)
             /\ IF ~s[i].used \/ q = <<>> THEN Queues(s, t, i, q, s.blocked)
                ELSE Queues(s, t, i, Tail(q), s.blocked \ {Head(q)})
  <1> DEFINE q == s[i].queue
             t == sem_signal_by_id(s, i)
  <1>1. s[i] \in semaphore_t /\ q \in Seq(Sleeper) /\ s[i].value \in Nat
    BY DEF SemType, semaphore_t
  <1>2. CASE ~s[i].used
    BY <1>2 DEF sem_signal_by_id, Kept, Queues, Exists
  <1>3. CASE s[i].used /\ q = <<>>
    <2> DEFINE v == [s[i] EXCEPT !.value = @ + 1]
    <2>1. t = Put(s, i, v)
      BY <1>3 DEF sem_signal_by_id, Put, Exists
    <2>2. v.used = s[i].used /\ v.lock = s[i].lock /\ v.queue = q /\ v \in semaphore_t
      BY <1>1 DEF semaphore_t
    <2> HIDE DEF v
    <2>3. /\ SemType(t) /\ t[i] = v /\ t.blocked = s.blocked
          /\ \A j \in Sem : j # i => t[j] = s[j]
      BY <2>1, <2>2, OneChanges
    <2>4. Kept(s, t)
      BY <2>2, <2>3 DEF Kept
    <2> QED BY <1>3, <2>2, <2>3, <2>4 DEF Queues
  <1>4. CASE s[i].used /\ q # <<>>
    <2> DEFINE v == [s[i] EXCEPT !.queue = Tail(@)]
               b == s.blocked \ {Head(q)}
               u == WithBlocked(s, b)
    <2>1. t = Put(u, i, v)
      BY <1>4 DEF sem_signal_by_id, Put, WithBlocked, Exists, SemType, Sem
    <2>2. SemType(u) /\ u.blocked = b /\ \A j \in Sem : u[j] = s[j]
      BY BlockedChanges
    <2>2a. Tail(q) \in Seq(Sleeper)
      BY <1>1, <1>4
    <2>3. v.used = s[i].used /\ v.lock = s[i].lock /\ v.queue = Tail(q) /\ v \in semaphore_t
      BY <1>1, <2>2a DEF semaphore_t
    <2> HIDE DEF v, u
    <2>4. /\ SemType(t) /\ t[i] = v /\ t.blocked = u.blocked
          /\ \A j \in Sem : j # i => t[j] = u[j]
      BY <2>1, <2>2, <2>3, OneChanges
    <2>5. Kept(s, t)
      BY <2>2, <2>3, <2>4 DEF Kept
    <2> QED BY <1>4, <2>2, <2>3, <2>4, <2>5 DEF Queues
  <1> QED BY <1>2, <1>3, <1>4

\* sem_wait_by_id: if p has to sleep, it is the last of the queue of i.
LEMMA WaitEffect ==
  ASSUME NEW s, SemType(s), NEW i \in Sem, NEW p \in Sleeper
  PROVE  LET t == sem_wait_by_id(s, i, p)
             q == s[i].queue
         IN  /\ Kept(s, t)
             /\ IF Sleeps(s, i) THEN Queues(s, t, i, Append(q, p), s.blocked \cup {p})
                ELSE Queues(s, t, i, q, s.blocked)
  <1> DEFINE e == Enlist(s, i, p)
             q == s[i].queue
  <1>1. Kept(s, e)
    BY EnlistEffect
  <1>2. Queues(s, e, i, IF Sleeps(s, i) THEN Append(q, p) ELSE q, s.blocked)
    BY EnlistEffect
  <1> HIDE DEF e
  <1>3. CASE Sleeps(s, i)
    <2> DEFINE t == WithBlocked(e, e.blocked \cup {p})
    <2>1. sem_wait_by_id(s, i, p) = t
      BY <1>3 DEF sem_wait_by_id, scheduler_block_current, e, WithBlocked
    <2>2. SemType(t) /\ t.blocked = e.blocked \cup {p} /\ \A j \in Sem : t[j] = e[j]
      BY <1>1, BlockedChanges DEF Kept
    <2> HIDE DEF t
    <2>3. Kept(s, t)
      BY <1>1, <2>2 DEF Kept
    <2>4. Queues(s, t, i, Append(q, p), s.blocked \cup {p})
      BY <1>2, <1>3, <2>2 DEF Queues
    <2> QED BY <1>3, <2>1, <2>3, <2>4
  <1>4. CASE ~Sleeps(s, i)
    BY <1>1, <1>2, <1>4 DEF sem_wait_by_id, e
  <1> QED BY <1>3, <1>4

\* The shell and nobody are not processes at the ends.
LEMMA Names ==
  /\ Shell \notin Process /\ Nobody \notin Process /\ Nobody # Shell
  /\ Readers \cap Writers = {} /\ Process = Readers \cup Writers
  BY PipeAssumption DEF Process, Shell, Nobody

\* An operation is known by its name and its semaphore.
LEMMA Ops ==
  /\ \A n1, n2, i1, i2 : Op(n1, i1) = Op(n2, i2) => n1 = n2 /\ i1 = i2
  /\ \A n, i : Op(n, i).name = n /\ Op(n, i).sem = i
  BY DEF Op

\* Sequences of one and of two elements.
LEMMA Short ==
  ASSUME NEW a, NEW b
  PROVE  /\ <<a, b>> # <<>> /\ Head(<<a, b>>) = a /\ Tail(<<a, b>>) = <<b>> /\ Len(<<a, b>>) = 2
         /\ DOMAIN <<a, b>> = {1, 2} /\ <<a, b>>[1] = a /\ <<a, b>>[2] = b
         /\ <<a>> # <<>> /\ Head(<<a>>) = a /\ Tail(<<a>>) = <<>> /\ Len(<<a>>) = 1
         /\ DOMAIN <<a>> = {1} /\ <<a>>[1] = a
  OBVIOUS

\* A process that is no longer counted only signals and closes.
LEMMA AfterIs ==
  ASSUME NEW todo \in After
  PROVE  \A j \in DOMAIN todo : todo[j].name \in {"signal", "close"} /\ todo[j].sem \in Sem
  <1>0. \A S, s : s \in Seq(S) => \A j \in DOMAIN s : s[j] \in S
    OBVIOUS
  <1> TAKE j \in DOMAIN todo
  <1>1. todo[j] \in [name : {"signal", "close"}, sem : Sem]
    BY <1>0, Zenon DEF After
  <1> QED BY <1>1

\* The three things a process does that is still counted.
LEMMA BeforeIs ==
  ASSUME NEW todo \in Before
  PROVE  /\ todo # <<>> /\ todo \notin After
         /\ \A i : ~\E j \in DOMAIN todo : todo[j] = Op("close", i)
         /\ \/ /\ todo = ThenCount("wait") /\ Head(todo) = Op("wait", "mutex")
               /\ Tail(todo) = OnlyCount /\ Len(todo) = 2
            \/ /\ todo = ThenCount("block") /\ Head(todo) = Op("block", "mutex")
               /\ Tail(todo) = OnlyCount /\ Len(todo) = 2
            \/ todo = OnlyCount /\ Head(todo) = Op("count", "mutex") /\ Len(todo) = 1
  <1> DEFINE w == Op("wait", "mutex")
             b == Op("block", "mutex")
             c == Op("count", "mutex")
  <1>1. w.name = "wait" /\ b.name = "block" /\ c.name = "count"
    BY Ops
  <1>2. \A i : Op("close", i).name = "close"
    BY Ops
  <1>3. ASSUME NEW i, NEW j \in DOMAIN todo PROVE todo[j] # Op("close", i)
    <2>1. todo = <<w, c>> \/ todo = <<b, c>> \/ todo = <<c>>
      BY DEF Before, ThenCount, OnlyCount
    <2> HIDE DEF w, b, c
    <2>2. todo[j] \in {w, b, c}
      BY <2>1, Short
    <2> QED BY <1>1, <1>2, <2>2
  <1>4. todo \notin After
    <2> SUFFICES ASSUME todo \in After PROVE FALSE
      OBVIOUS
    <2>1. todo = <<w, c>> \/ todo = <<b, c>> \/ todo = <<c>>
      BY DEF Before, ThenCount, OnlyCount
    <2> HIDE DEF w, b, c
    <2>2. 1 \in DOMAIN todo /\ todo[1] \in {w, b, c}
      BY <2>1, Short
    <2> QED BY <1>1, <2>2, AfterIs
  <1>5. CASE todo = ThenCount("wait")
    BY <1>3, <1>4, <1>5, Short DEF ThenCount, OnlyCount
  <1>6. CASE todo = ThenCount("block")
    BY <1>3, <1>4, <1>6, Short DEF ThenCount, OnlyCount
  <1>7. CASE todo = OnlyCount
    BY <1>3, <1>4, <1>7, Short DEF OnlyCount
  <1> QED BY <1>5, <1>6, <1>7 DEF Before

\* Of a process only proc[p] changes.
Only(p) == \A q \in Process : q # p => proc'[q] = proc[q]

\* A step of a process that has an end of the pipe and keeps it.
LEMMA KeepsEnd ==
  ASSUME EndsInv, NEW p \in Process, HasEnd(p), HasEnd(p)', Only(p), TodoByPc(p)',
         EndsType', LocksAreHeld', \A i \in Sem : sem'[i].used = sem[i].used,
         pipe'.used = pipe.used, pipe'.readers = pipe.readers, pipe'.writers = pipe.writers,
         shell' = shell
  PROVE  EndsInv'
  <1>0. InCall \cap {"new", "terminal", "closing", "finished", "killed"} = {}
    BY DEF InCall
  <1>1. /\ proc[p].pc \notin {"new", "terminal", "finished", "killed"}
        /\ proc'[p].pc \notin {"new", "terminal", "finished", "killed"}
    BY <1>0 DEF HasEnd
  <1>2. \A q \in Process : HasEnd(q)' <=> HasEnd(q)
    BY DEF Only, HasEnd
  <1>3. AtEnds(Readers)' = AtEnds(Readers) /\ AtEnds(Writers)' = AtEnds(Writers)
    BY <1>2, Names DEF AtEnds
  <1>4. Counted'
    BY <1>3 DEF EndsInv, Counted
  <1>5. ASSUME NEW q \in Process PROVE TodoByPc(q)'
    <2>1. CASE q = p
      BY <2>1
    <2>2. CASE q # p
      BY <2>2 DEF TodoByPc, Only, EndsInv
    <2> QED BY <2>1, <2>2
  <1>6. \A i \in Sem : ~Closes(p, i) /\ ~Closes(p, i)'
    <2>1. proc[p].todo = <<>> \/ proc[p].todo \in Before
      BY <1>0 DEF HasEnd, EndsInv, TodoByPc
    <2>2. proc'[p].todo = <<>> \/ proc'[p].todo \in Before
      BY <1>0 DEF HasEnd, TodoByPc
    <2> QED BY <2>1, <2>2, BeforeIs DEF Closes
  <1>7. \A q \in Process, i \in Sem : Closes(q, i)' <=> Closes(q, i)
    BY <1>6 DEF Closes, Only
  <1>8. Held'
    <2>1. CASE pipe.used
      <3>1. \A q \in Process : proc'[q].pc # "terminal"
        BY <1>1, <2>1 DEF EndsInv, Held, Only
      <3> QED BY <1>7, <2>1, <3>1 DEF EndsInv, Held
    <2>2. CASE ~pipe.used
      BY <1>7, <2>2 DEF EndsInv, Held
    <2> QED BY <2>1, <2>2
  <1>9. ShellKnows'
    <2>1. ShellKnows
      BY DEF EndsInv
    <2>2. ASSUME shell.pc = "opening" PROVE shell.p \in Process /\ proc'[shell.p].pc = "new"
      BY <1>1, <2>1, <2>2 DEF ShellKnows, Only
    <2>3. ASSUME shell.pc = "killing"
          PROVE  /\ Writers = {shell.p} /\ proc'[shell.p].pc \notin {"new", "terminal"}
                 /\ \A r \in Readers : proc'[r].pc \in {"new", "terminal", "finished"}
      BY <1>1, <2>1, <2>3, Names DEF ShellKnows, Only
    <2> QED BY <2>1, <2>2, <2>3 DEF ShellKnows
  <1> QED BY <1>4, <1>5, <1>8, <1>9 DEF EndsInv

\* The locks are those of before, and so is what their holders have to do.
LEMMA LocksStay ==
  ASSUME EndsInv, \A i \in Sem : sem'[i].lock = sem[i].lock,
         \A q \in Process : proc'[q].todo = proc[q].todo
  PROVE  LocksAreHeld'
  <1> SUFFICES ASSUME NEW i \in Sem, Locked(i)'
               PROVE  LET todo == proc'[sem'[i].lock].todo
                      IN  /\ todo # <<>> /\ Head(todo).sem = i
                          /\ Head(todo).name \in {"wait", "signal", "close"}
    BY DEF LocksAreHeld
  <1>1. sem'[i].lock = sem[i].lock /\ Locked(i) /\ sem[i].lock \in Process
    BY DEF Locked, EndsInv, EndsType, SemType, semaphore_t
  <1> QED BY <1>1 DEF EndsInv, LocksAreHeld

\* A step of a process in a call: it stays there.
LEMMA StaysInCall ==
  ASSUME EndsInv, NEW p \in Process, proc[p].pc \in InCall, proc' \in [Process -> process_t],
         Only(p), proc'[p].todo = proc[p].todo, proc'[p].pc \in InCall,
         Kept(sem, sem'), pipe'.used = pipe.used, pipe'.readers = pipe.readers,
         pipe'.writers = pipe.writers, shell' = shell,
         cpu' # Nobody => cpu' = p /\ proc'[p].pc \in {"loop", "held"}
  PROVE  EndsInv'
  <1>0. InCall \cap {"new", "terminal", "closing", "finished", "killed"} = {}
    BY DEF InCall
  <1>1. EndsType'
    BY DEF EndsInv, EndsType, Kept
  <1>2. HasEnd(p) /\ HasEnd(p)'
    BY DEF HasEnd
  <1>3. TodoByPc(p)'
    BY <1>0 DEF EndsInv, TodoByPc
  <1>4. LocksAreHeld'
    BY LocksStay DEF Kept, Only
  <1> QED BY <1>1, <1>2, <1>3, <1>4, KeepsEnd DEF Kept

\* A step of the shell that starts nobody.
LEMMA ShellOnly ==
  ASSUME EndsInv, UNCHANGED <<pipe, proc>>, Kept(sem, sem'), EndsType', ShellKnows'
  PROVE  EndsInv'
  <1>1. \A q : /\ HasEnd(q)' <=> HasEnd(q)
               /\ TodoByPc(q)' <=> TodoByPc(q)
               /\ \A i : Closes(q, i)' <=> Closes(q, i)
    BY DEF HasEnd, TodoByPc, Closes
  <1>2. AtEnds(Readers)' = AtEnds(Readers) /\ AtEnds(Writers)' = AtEnds(Writers)
    BY <1>1 DEF AtEnds
  <1>3. Counted'
    BY <1>2 DEF EndsInv, Counted
  <1>4. Held'
    BY <1>1 DEF EndsInv, Held, Kept
  <1>5. LocksAreHeld'
    BY LocksStay DEF Kept
  <1> QED BY <1>1, <1>3, <1>4, <1>5 DEF EndsInv

\* A process that has no end of the pipe, and gets none, when the pipe is free.
LEMMA WithoutPipe ==
  ASSUME EndsInv, ~pipe.used, ~pipe'.used, NEW p \in Process, Only(p), Kept(sem, sem'),
         proc'[p].todo = proc[p].todo, TodoByPc(p)', EndsType', ShellKnows'
  PROVE  EndsInv'
  <1>1. \A q \in Process : proc'[q].todo = proc[q].todo
    BY DEF Only
  <1>2. \A q \in Process, i \in Sem : Closes(q, i)' <=> Closes(q, i)
    BY <1>1 DEF Closes
  <1>3. Held'
    BY <1>2 DEF EndsInv, Held, Kept
  <1>4. LocksAreHeld'
    BY <1>1, LocksStay DEF Kept
  <1>5. ASSUME NEW q \in Process PROVE TodoByPc(q)'
    <2>1. CASE q = p
      BY <2>1
    <2>2. CASE q # p
      BY <2>2 DEF TodoByPc, Only, EndsInv
    <2> QED BY <2>1, <2>2
  <1> QED BY <1>3, <1>4, <1>5 DEF EndsInv, Counted

\* Who has an end when p gets one, or loses it.
LEMMA AtEndsOf ==
  ASSUME NEW p \in Process, Only(p)
  PROVE  /\ HasEnd(p)' => /\ p \in Readers => /\ AtEnds(Readers)' = AtEnds(Readers) \cup {p}
                                              /\ AtEnds(Writers)' = AtEnds(Writers)
                          /\ p \in Writers => /\ AtEnds(Writers)' = AtEnds(Writers) \cup {p}
                                              /\ AtEnds(Readers)' = AtEnds(Readers)
         /\ ~HasEnd(p)' => /\ p \in Readers => /\ AtEnds(Readers)' = AtEnds(Readers) \ {p}
                                               /\ AtEnds(Writers)' = AtEnds(Writers)
                           /\ p \in Writers => /\ AtEnds(Writers)' = AtEnds(Writers) \ {p}
                                               /\ AtEnds(Readers)' = AtEnds(Readers)
  <1>1. \A q \in Process : q # p => (HasEnd(q)' <=> HasEnd(q))
    BY DEF Only, HasEnd
  <1>2. p \in Readers => p \notin Writers
    BY Names
  <1>3. Readers \subseteq Process /\ Writers \subseteq Process
    BY Names
  <1>4. CASE HasEnd(p)'
    BY <1>1, <1>2, <1>3, <1>4 DEF AtEnds
  <1>5. CASE ~HasEnd(p)'
    BY <1>1, <1>2, <1>3, <1>5 DEF AtEnds
  <1> QED BY <1>4, <1>5

\* A process is counted at its end.
LEMMA OpenedEnds ==
  ASSUME EndsInv, PipeType, NEW p \in Process, proc[p].pc = "new", Opened(p),
         Kept(sem, sem'), cpu' = Nobody
  PROVE  EndsInv'
  <1>1. proc \in [Process -> process_t] /\ proc[p].todo = <<>>
    BY DEF EndsInv, EndsType, TodoByPc
  <1>2. /\ proc' \in [Process -> process_t] /\ Only(p) /\ proc'[p].todo = <<>>
        /\ proc'[p].pc = "user"
    BY <1>1 DEF Opened, Go, Only, process_t, PC, InCall
  <1>3. shell' = [pc |-> "idle", p |-> Nobody]
    BY DEF Opened, ShellGoes
  <1>4. EndsType'
    BY <1>2, <1>3 DEF EndsType, Kept
  <1>5. HasEnd(p)' /\ ~HasEnd(p)
    BY <1>2 DEF HasEnd, InCall
  <1>6. p \notin AtEnds(Readers) /\ p \notin AtEnds(Writers)
    BY <1>5 DEF AtEnds
  <1>7. pipe.used => /\ Counts(pipe.readers + 1, AtEnds(Readers) \cup {p})
                     /\ Counts(pipe.writers + 1, AtEnds(Writers) \cup {p})
    BY <1>6, CountAdd DEF EndsInv, Counted
  <1>8. /\ pipe'.used = pipe.used
        /\ p \in Writers => pipe'.writers = pipe.writers + 1 /\ pipe'.readers = pipe.readers
        /\ p \in Readers => pipe'.readers = pipe.readers + 1 /\ pipe'.writers = pipe.writers
    BY Names DEF Opened, PipeType, pipe_t
  <1>9. Counted'
    <2>1. CASE p \in Readers
      <3>1. AtEnds(Readers)' = AtEnds(Readers) \cup {p} /\ AtEnds(Writers)' = AtEnds(Writers)
        BY <1>2, <1>5, <2>1, AtEndsOf
      <3> QED BY <1>7, <1>8, <2>1, <3>1 DEF EndsInv, Counted
    <2>2. CASE p \in Writers
      <3>1. AtEnds(Writers)' = AtEnds(Writers) \cup {p} /\ AtEnds(Readers)' = AtEnds(Readers)
        BY <1>2, <1>5, <2>2, AtEndsOf
      <3> QED BY <1>7, <1>8, <2>2, <3>1 DEF EndsInv, Counted
    <2> QED BY <2>1, <2>2, Names
  <1>10. \A q \in Process : proc'[q].todo = proc[q].todo
    BY <1>1, <1>2 DEF Only
  <1>11. \A q \in Process, i \in Sem : Closes(q, i)' <=> Closes(q, i)
    BY <1>10 DEF Closes
  <1>12. Held'
    <2>1. \A i \in Sem : sem'[i].used = sem[i].used
      BY DEF Kept
    <2>2. CASE pipe.used
      <3>1. \A q \in Process : proc'[q].pc # "terminal"
        BY <1>2, <2>2 DEF EndsInv, Held, Only
      <3> QED BY <1>5, <1>8, <1>11, <2>1, <2>2, <3>1 DEF EndsInv, Held
    <2>3. CASE ~pipe.used
      BY <1>8, <1>11, <2>1, <2>3 DEF EndsInv, Held
    <2> QED BY <2>2, <2>3
  <1>13. LocksAreHeld'
    BY <1>10, LocksStay DEF Kept
  <1>14. ASSUME NEW q \in Process PROVE TodoByPc(q)'
    <2>1. CASE q = p
      BY <1>2, <2>1, BeforeIs DEF TodoByPc
    <2>2. CASE q # p
      BY <1>2, <1>8, <2>2 DEF TodoByPc, Only, EndsInv
    <2> QED BY <2>1, <2>2
  <1>15. ShellKnows'
    BY <1>3 DEF ShellKnows
  <1> QED BY <1>4, <1>9, <1>12, <1>13, <1>14, <1>15 DEF EndsInv

\* The counts when p leaves.
LEMMA DroppedIs ==
  ASSUME EndsInv, PipeType, pipe.used, NEW p \in Process, HasEnd(p)
  PROVE  /\ Dropped(p).used /\ Dropped(p) \in pipe_t
         /\ Counts(Dropped(p).readers, AtEnds(Readers) \ {p})
         /\ Counts(Dropped(p).writers, AtEnds(Writers) \ {p})
  <1>1. /\ Counts(pipe.readers, AtEnds(Readers)) /\ Counts(pipe.writers, AtEnds(Writers))
        /\ pipe \in pipe_t
    BY DEF EndsInv, Counted, PipeType
  <1>2. CASE p \in Readers
    <2>1. p \in AtEnds(Readers) /\ AtEnds(Writers) \ {p} = AtEnds(Writers) /\ p \notin Writers
      BY <1>2, Names DEF AtEnds
    <2>2. Counts(pipe.readers - 1, AtEnds(Readers) \ {p})
      BY <1>1, <2>1, CountRemove
    <2>3. pipe.readers \in Nat /\ pipe.readers > 0
      BY <1>1, <2>1, CountRemove
    <2>4. Dropped(p) = [pipe EXCEPT !.readers = pipe.readers - 1]
      BY <1>1, <2>1, <2>3 DEF Dropped
    <2>5. /\ Dropped(p) \in pipe_t /\ Dropped(p).used = pipe.used
          /\ Dropped(p).readers = pipe.readers - 1 /\ Dropped(p).writers = pipe.writers
      <3> DEFINE m == pipe.readers - 1
      <3>1. m \in Int
        BY <2>3
      <3> HIDE DEF m
      <3>2. LET c == [pipe EXCEPT !.readers = m]
            IN  c \in pipe_t /\ c.used = pipe.used /\ c.readers = m /\ c.writers = pipe.writers
        BY <1>1, <3>1 DEF pipe_t
      <3> QED BY <2>4, <3>2, Zenon DEF m
    <2> QED BY <1>1, <2>1, <2>2, <2>5
  <1>3. CASE p \in Writers
    <2>1. p \in AtEnds(Writers) /\ AtEnds(Readers) \ {p} = AtEnds(Readers) /\ p \notin Readers
      BY <1>3, Names DEF AtEnds
    <2>2. Counts(pipe.writers - 1, AtEnds(Writers) \ {p})
      BY <1>1, <2>1, CountRemove
    <2>3. pipe.writers \in Nat /\ pipe.writers > 0
      BY <1>1, <2>1, CountRemove
    <2>4. Dropped(p) = [pipe EXCEPT !.writers = pipe.writers - 1]
      BY <1>1, <1>3, <2>1, <2>3 DEF Dropped
    <2>5. /\ Dropped(p) \in pipe_t /\ Dropped(p).used = pipe.used
          /\ Dropped(p).writers = pipe.writers - 1 /\ Dropped(p).readers = pipe.readers
      <3> DEFINE m == pipe.writers - 1
      <3>1. m \in Int
        BY <2>3
      <3> HIDE DEF m
      <3>2. LET c == [pipe EXCEPT !.writers = m]
            IN  c \in pipe_t /\ c.used = pipe.used /\ c.writers = m /\ c.readers = pipe.readers
        BY <1>1, <3>1 DEF pipe_t
      <3> QED BY <2>4, <3>2, Zenon DEF m
    <2> QED BY <1>1, <2>1, <2>2, <2>5
  <1> QED BY <1>2, <1>3, Names

\* The counts are 0 when p was the last at its end.
LEMMA DroppedCounts ==
  ASSUME EndsInv, PipeType, pipe.used, NEW p \in Process, HasEnd(p)
  PROVE  /\ Dropped(p).readers \in Nat
         /\ NobodyAtEnds(Dropped(p)) <=>
              AtEnds(Readers) \ {p} = {} /\ AtEnds(Writers) \ {p} = {}
  <1>1. /\ Counts(Dropped(p).readers, AtEnds(Readers) \ {p})
        /\ Counts(Dropped(p).writers, AtEnds(Writers) \ {p})
    BY DroppedIs
  <1>2. Dropped(p).readers \in Nat /\ (Dropped(p).readers = 0 <=> AtEnds(Readers) \ {p} = {})
    BY <1>1, CountZero
  <1>3. Dropped(p).writers = 0 <=> AtEnds(Writers) \ {p} = {}
    BY <1>1, CountZero
  <1> QED BY <1>2, <1>3 DEF NobodyAtEnds

\* Nobody who is ending is still counted when nobody has an end.
LEMMA NobodyLeft ==
  ASSUME EndsInv, PipeType, pipe.used, NEW p \in Process, HasEnd(p),
         NobodyAtEnds(Dropped(p))
  PROVE  \A q \in Process : q # p => ~HasEnd(q)
  <1>1. AtEnds(Readers) \ {p} = {} /\ AtEnds(Writers) \ {p} = {}
    BY DroppedCounts
  <1> QED BY <1>1, Names DEF AtEnds

\* The signals for the readers and for the mutex.
LEMMA AfterCount ==
  ASSUME NEW c \in pipe_t, c.readers \in Nat, NEW wake \in {WakeReaders(c), <<>>}
  PROVE  LET todo == wake \o <<Op("signal", "mutex")>>
         IN  /\ todo \in After /\ todo # <<>>
             /\ \A i : ~\E j \in DOMAIN todo : todo[j] = Op("close", i)
  <1> DEFINE S == [name : {"signal"}, sem : Sem]
             T == [name : {"signal", "close"}, sem : Sem]
             last == <<Op("signal", "mutex")>>
             todo == wake \o last
  <1>1. Op("signal", "items") \in S /\ Op("signal", "mutex") \in S /\ S \subseteq T
    BY DEF Op, Sem
  <1>2. \A i : Op("close", i) \notin S
    BY DEF Op
  <1> HIDE DEF S, T
  <1>3. wake \in Seq(S) /\ last \in Seq(S)
    <2>1. \A n \in Nat, x \in S : [i \in 1..n |-> x] \in Seq(S)
      OBVIOUS
    <2>2. WakeReaders(c) \in Seq(S)
      BY <1>1, <2>1, PipeAssumption DEF WakeReaders
    <2>3. <<>> \in Seq(S) /\ \A x \in S : <<x>> \in Seq(S)
      OBVIOUS
    <2> QED BY <1>1, <2>2, <2>3
  <1> HIDE DEF last
  <1>4. todo \in Seq(S) /\ Len(todo) = Len(wake) + Len(last)
    BY <1>3
  <1>5. Len(last) = 1 /\ Len(wake) \in Nat
    BY <1>3 DEF last
  <1> HIDE DEF todo
  <1>6. todo # <<>>
    BY <1>4, <1>5
  <1>7. \A j \in DOMAIN todo : todo[j] \in S
    BY <1>4
  <1>8. todo \in Seq(T)
    BY <1>1, <1>4
  <1> QED BY <1>2, <1>6, <1>7, <1>8 DEF todo, last, T, After

\* A process is ending: the head of what it has to do.
LEMMA Ending ==
  ASSUME EndsInv, NEW p \in Process, proc[p].pc = "closing"
  PROVE  LET todo == proc[p].todo
         IN  /\ todo # <<>>
             /\ \/ todo \in Before /\ HasEnd(p) /\ pipe.used
                \/ /\ todo \in After /\ todo \notin Before /\ ~HasEnd(p)
                   /\ Head(todo).name \in {"signal", "close"} /\ Head(todo).sem \in Sem
                   /\ Head(todo) = todo[1] /\ 1 \in DOMAIN todo
  <1> DEFINE todo == proc[p].todo
  <1>1. todo # <<>> /\ (todo \in Before => pipe.used) /\ todo \in Before \cup After
    BY DEF EndsInv, TodoByPc, EndsType, process_t
  <1>2. HasEnd(p) <=> todo \in Before
    BY DEF HasEnd, InCall
  <1>3. ASSUME todo \in After
        PROVE  /\ Head(todo) = todo[1] /\ 1 \in DOMAIN todo
               /\ Head(todo).name \in {"signal", "close"} /\ Head(todo).sem \in Sem
    <2>1. \A T, s : s \in Seq(T) /\ s # <<>> => Head(s) = s[1] /\ 1 \in DOMAIN s
      OBVIOUS
    <2>2. Head(todo) = todo[1] /\ 1 \in DOMAIN todo
      BY <1>1, <1>3, <2>1, Zenon DEF After
    <2> QED BY <1>3, <2>2, AfterIs
  <1> QED BY <1>1, <1>2, <1>3

\* pipe_close_by_id with the mutex: the process is no longer counted.
LEMMA CountsEnds ==
  ASSUME EndsInv, PipeType, NEW p \in Process, close_counts(p)
  PROVE  EndsInv'
  <1> DEFINE c == Dropped(p)
  <1>1. proc[p].pc = "closing" /\ Head(proc[p].todo).name = "count" /\ cpu = Nobody
    BY DEF close_counts, Closing, CanRun
  <1>2. proc[p].todo = OnlyCount /\ HasEnd(p) /\ pipe.used
    <2>1. proc[p].todo \in Before /\ HasEnd(p) /\ pipe.used
      BY <1>1, Ending
    <2>2. /\ Op("wait", "mutex").name = "wait" /\ Op("block", "mutex").name = "block"
          /\ Op("count", "mutex").name = "count"
      BY Ops
    <2> QED BY <1>1, <2>1, <2>2, BeforeIs
  <1>3. /\ c.used /\ c \in pipe_t /\ Counts(c.readers, AtEnds(Readers) \ {p})
        /\ Counts(c.writers, AtEnds(Writers) \ {p})
    BY <1>2, DroppedIs
  <1>3a. c.readers \in Nat
    BY <1>2, DroppedCounts
  <1>3b. NobodyAtEnds(c) <=> AtEnds(Readers) \ {p} = {} /\ AtEnds(Writers) \ {p} = {}
    BY <1>2, DroppedCounts
  <1> DEFINE new == proc'[p].todo
  <1>4. /\ Only(p) /\ proc'[p] = [proc[p] EXCEPT !.todo = new] /\ DOMAIN proc' = Process
        /\ UNCHANGED <<shell, sem, cpu>>
    BY DEF close_counts, Only, EndsInv, EndsType
  <1>5. IF NobodyAtEnds(c)
        THEN pipe' = Freed(c) /\ new = CloseAll
        ELSE /\ pipe' = c
             /\ \E wake \in {WakeReaders(c), <<>>} : new = wake \o <<Op("signal", "mutex")>>
    BY DEF close_counts, EndsInv, EndsType, process_t
  <1> HIDE DEF c
  <1>5a. proc[p] \in process_t
    BY DEF EndsInv, EndsType
  <1> HIDE DEF new
  <1>6. /\ new \in After /\ new # <<>>
        /\ ~NobodyAtEnds(c) => \A i : ~\E j \in DOMAIN new : new[j] = Op("close", i)
        /\ NobodyAtEnds(c) => \A i \in Sem : \E j \in DOMAIN new : new[j] = Op("close", i)
    <2>1. CASE NobodyAtEnds(c)
      <3> DEFINE o1 == Op("signal", "mutex")
                 o2 == Op("close", "items")
                 o3 == Op("close", "spaces")
                 o4 == Op("close", "mutex")
                 T == [name : {"signal", "close"}, sem : Sem]
      <3>1. o1 \in T /\ o2 \in T /\ o3 \in T /\ o4 \in T
        BY DEF Op, Sem
      <3>2. new = <<o1, o2, o3, o4>>
        BY <1>5, <2>1 DEF CloseAll
      <3>3. \A i \in Sem : Op("close", i) \in {o2, o3, o4}
        BY DEF Sem
      <3> HIDE DEF o1, o2, o3, o4, T
      <3>4. new \in Seq(T) /\ new # <<>> /\ DOMAIN new = 1..4
            /\ new[2] = o2 /\ new[3] = o3 /\ new[4] = o4
        BY <3>1, <3>2
      <3> QED BY <2>1, <3>3, <3>4 DEF After, T
    <2>2. CASE ~NobodyAtEnds(c)
      BY <1>3, <1>3a, <1>5, <2>2, AfterCount
    <2> QED BY <2>1, <2>2
  <1>7. /\ proc' \in [Process -> process_t] /\ proc'[p].pc = "closing" /\ proc'[p].todo = new
    <2>1. proc'[p] \in process_t /\ proc'[p].pc = "closing" /\ proc'[p].todo = new
      BY <1>1, <1>4, <1>5a, <1>6 DEF process_t
    <2>2. \A q \in Process : proc'[q] \in process_t
      BY <2>1 DEF EndsInv, EndsType, Only, close_counts
    <2>3. proc' = [q \in Process |-> proc'[q]]
      BY DEF close_counts, EndsInv, EndsType
    <2> QED BY <2>1, <2>2, <2>3
  <1>8. ~HasEnd(p)' /\ TodoByPc(p)'
    <2>1. new \notin Before
      BY <1>6, BeforeIs
    <2> QED BY <1>6, <1>7, <2>1 DEF HasEnd, TodoByPc, InCall
  <1>9. EndsType'
    BY <1>1, <1>4, <1>7 DEF EndsInv, EndsType
  <1>10. pipe'.used = ~NobodyAtEnds(c) /\ (~NobodyAtEnds(c) => pipe' = c)
    BY <1>3, <1>5 DEF Freed, pipe_t
  <1>11. Counted'
    <2>1. pipe'.used => pipe' = c
      BY <1>10
    <2>2. AtEnds(Readers)' = AtEnds(Readers) \ {p} /\ AtEnds(Writers)' = AtEnds(Writers) \ {p}
      <3>1. p \in Readers => AtEnds(Writers) \ {p} = AtEnds(Writers)
        BY Names DEF AtEnds
      <3>2. p \in Writers => AtEnds(Readers) \ {p} = AtEnds(Readers)
        BY Names DEF AtEnds
      <3> QED BY <1>4, <1>8, <3>1, <3>2, AtEndsOf, Names
    <2> QED BY <1>3, <2>1, <2>2 DEF Counted
  <1>12. ASSUME NEW q \in Process PROVE TodoByPc(q)'
    <2>1. CASE q = p
      BY <1>8, <2>1
    <2>2. CASE q # p
      <3>1. proc'[q] = proc[q]
        BY <1>4, <2>2 DEF Only
      <3>2. NobodyAtEnds(c) => ~HasEnd(q)
        BY <1>2, <2>2, NobodyLeft DEF c
      <3>3. TodoByPc(q)
        BY DEF EndsInv
      <3>4. proc[q].todo \in Before => ~NobodyAtEnds(c)
        BY <3>2, <3>3 DEF TodoByPc, HasEnd
      <3> QED BY <1>10, <3>1, <3>3, <3>4 DEF TodoByPc
    <2> QED BY <2>1, <2>2
  <1>13. Held'
    <2>1. CASE NobodyAtEnds(c)
      <3>1. \A i \in Sem : Closes(p, i)'
        BY <1>6, <1>7, <2>1 DEF Closes
      <3> QED BY <1>10, <2>1, <3>1 DEF Held
    <2>2. CASE ~NobodyAtEnds(c)
      <3>1. \A q \in Process, i \in Sem : ~Closes(q, i)'
        <4>1. \A i \in Sem : ~Closes(p, i)'
          BY <1>6, <1>7, <2>2 DEF Closes
        <4>2. \A q \in Process, i \in Sem : ~Closes(q, i)
          BY <1>2 DEF EndsInv, Held
        <4>3. \A q \in Process, i \in Sem : q # p => ~Closes(q, i)'
          BY <1>4, <4>2 DEF Closes, Only
        <4> QED BY <4>1, <4>3
      <3>2. \A q \in Process : proc'[q].pc # "terminal"
        BY <1>2, <1>4, <1>7 DEF Only, EndsInv, Held
      <3>3. \E q \in Process : HasEnd(q)'
        <4>1. AtEnds(Readers) \ {p} # {} \/ AtEnds(Writers) \ {p} # {}
          BY <1>3b, <2>2
        <4>2. PICK q \in Process : q # p /\ HasEnd(q)
          BY <4>1, Names DEF AtEnds
        <4> QED BY <1>4, <4>2 DEF HasEnd, Only
      <3> QED BY <1>2, <1>4, <1>10, <2>2, <3>1, <3>2, <3>3 DEF Held, EndsInv
    <2> QED BY <2>1, <2>2
  <1>14. LocksAreHeld'
    <2> SUFFICES ASSUME NEW i \in Sem, Locked(i)'
                 PROVE  LET todo == proc'[sem'[i].lock].todo
                        IN  /\ todo # <<>> /\ Head(todo).sem = i
                            /\ Head(todo).name \in {"wait", "signal", "close"}
      BY DEF LocksAreHeld
    <2>1. sem' = sem /\ Locked(i) /\ sem[i].lock \in Process
      BY <1>4 DEF Locked, EndsInv, EndsType, SemType, semaphore_t
    <2>2. sem[i].lock # p
      BY <1>1, <2>1 DEF EndsInv, LocksAreHeld
    <2>3. proc'[sem[i].lock] = proc[sem[i].lock]
      BY <1>4, <2>1, <2>2 DEF Only
    <2> QED BY <2>1, <2>3 DEF EndsInv, LocksAreHeld
  <1>15. ShellKnows'
    <2>1. ShellKnows /\ shell.pc # "done"
      BY <1>2 DEF EndsInv, ShellKnows
    <2>2. ASSUME shell.pc = "opening" PROVE shell.p \in Process /\ proc'[shell.p].pc = "new"
      BY <1>1, <1>4, <2>1, <2>2 DEF ShellKnows, Only
    <2>3. ASSUME shell.pc = "killing"
          PROVE  /\ Writers = {shell.p} /\ proc'[shell.p].pc \notin {"new", "terminal"}
                 /\ \A r \in Readers : proc'[r].pc \in {"new", "terminal", "finished"}
      BY <1>1, <1>4, <1>7, <2>1, <2>3, Names DEF ShellKnows, Only
    <2> QED BY <1>4, <2>1, <2>2, <2>3 DEF ShellKnows
  <1> QED BY <1>9, <1>11, <1>12, <1>13, <1>14, <1>15 DEF EndsInv

\* A process that no longer counts makes one of its calls.
LEMMA AfterEnds ==
  ASSUME EndsInv, NEW p \in Process, proc[p].pc = "closing", proc[p].todo \in After,
         proc[p].todo # <<>>, Only(p), proc' \in [Process -> process_t],
         proc'[p].todo = Tail(proc[p].todo),
         proc'[p].pc = IF Tail(proc[p].todo) = <<>> THEN "finished" ELSE "closing",
         SemType(sem'), LocksAreHeld', UNCHANGED <<pipe, shell>>, cpu = Nobody, cpu' = cpu,
         \A i \in Sem : sem'[i].used <=> (sem[i].used /\ Head(proc[p].todo) # Op("close", i))
  PROVE  EndsInv'
  <1> DEFINE todo == proc[p].todo
             S == [name : {"signal", "close"}, sem : Sem]
  <1>1. todo \in Seq(S)
    BY DEF After
  <1> HIDE DEF S
  <1>2. /\ Tail(todo) \in Seq(S) /\ todo[1] = Head(todo)
        /\ DOMAIN todo = 1..Len(todo) /\ DOMAIN Tail(todo) = 1..(Len(todo) - 1)
        /\ Len(todo) \in Nat \ {0}
        /\ \A j \in 1..(Len(todo) - 1) : Tail(todo)[j] = todo[j + 1]
    BY <1>1
  <1>3. Tail(todo) \in After
    BY <1>2 DEF After, S
  <1>4. \A i : Closes(p, i)' => Closes(p, i)
    <2> TAKE i
    <2> SUFFICES ASSUME Closes(p, i)' PROVE Closes(p, i)
      OBVIOUS
    <2>1. PICK j \in 1..(Len(todo) - 1) : Tail(todo)[j] = Op("close", i)
      BY <1>2 DEF Closes
    <2>2. j + 1 \in DOMAIN todo /\ todo[j + 1] = Op("close", i)
      BY <1>2, <2>1
    <2> QED BY <2>2 DEF Closes
  <1>5. \A i : Closes(p, i) => Closes(p, i)' \/ Head(todo) = Op("close", i)
    <2> TAKE i
    <2> SUFFICES ASSUME Closes(p, i), Head(todo) # Op("close", i) PROVE Closes(p, i)'
      OBVIOUS
    <2>1. PICK j \in 1..Len(todo) : todo[j] = Op("close", i)
      BY <1>2 DEF Closes
    <2>2. j # 1
      BY <1>2, <2>1
    <2>3. j - 1 \in 1..(Len(todo) - 1) /\ Tail(todo)[j - 1] = Op("close", i)
      BY <1>2, <2>1, <2>2
    <2> QED BY <1>2, <2>3 DEF Closes
  <1>6. \A q \in Process, i \in Sem : q # p => (Closes(q, i)' <=> Closes(q, i))
    BY DEF Closes, Only
  <1>7. ~HasEnd(p) /\ ~HasEnd(p)'
    BY <1>3, BeforeIs DEF HasEnd, InCall
  <1>8. \A q \in Process : HasEnd(q)' <=> HasEnd(q)
    BY <1>7, SMTT(30) DEF HasEnd, Only
  <1>9. AtEnds(Readers)' = AtEnds(Readers) /\ AtEnds(Writers)' = AtEnds(Writers)
    BY <1>8, Names DEF AtEnds
  <1>10. Counted'
    BY <1>9 DEF EndsInv, Counted
  <1>11. ASSUME NEW q \in Process PROVE TodoByPc(q)'
    <2>1. CASE q = p
      <3>1. proc'[p].todo \notin Before
        BY <1>3, BeforeIs
      <3> QED BY <2>1, <3>1 DEF TodoByPc
    <2>2. CASE q # p
      BY <2>2 DEF TodoByPc, Only, EndsInv
    <2> QED BY <2>1, <2>2
  <1>12. Held'
    <2>1. CASE pipe.used
      <3>1. \A q \in Process, i \in Sem : ~Closes(q, i)
        BY <2>1 DEF EndsInv, Held
      <3>2. \A q \in Process, i \in Sem : ~Closes(q, i)'
        BY <1>4, <1>6, <3>1
      <3>3. \A i \in Sem : sem'[i].used
        <4> TAKE i \in Sem
        <4>0. 1 \in DOMAIN todo
          BY <1>2
        <4>1. Head(todo) # Op("close", i)
          BY <1>2, <3>1, <4>0 DEF Closes
        <4> QED BY <2>1, <4>1 DEF EndsInv, Held
      <3>4. \A q \in Process : proc'[q].pc # "terminal"
        BY <2>1 DEF EndsInv, Held, Only
      <3>5. \E q \in Process : HasEnd(q)'
        BY <1>8, <2>1 DEF EndsInv, Held
      <3> QED BY <2>1, <3>2, <3>3, <3>4, <3>5 DEF Held
    <2>2. CASE ~pipe.used
      <3> SUFFICES ASSUME NEW i \in Sem, sem'[i].used PROVE \E q \in Process : Closes(q, i)'
        BY <2>2 DEF Held
      <3>1. sem[i].used /\ Head(todo) # Op("close", i)
        OBVIOUS
      <3>2. PICK q \in Process : Closes(q, i)
        BY <2>2, <3>1 DEF EndsInv, Held
      <3> QED BY <1>5, <1>6, <3>1, <3>2
    <2> QED BY <2>1, <2>2
  <1>13. ShellKnows'
    <2>1. ShellKnows
      BY DEF EndsInv
    <2>2. ASSUME shell.pc = "opening" PROVE shell.p \in Process /\ proc'[shell.p].pc = "new"
      BY <2>1, <2>2 DEF ShellKnows, Only
    <2>3. ASSUME shell.pc = "killing"
          PROVE  /\ Writers = {shell.p} /\ proc'[shell.p].pc \notin {"new", "terminal"}
                 /\ \A r \in Readers : proc'[r].pc \in {"new", "terminal", "finished"}
      BY <2>1, <2>3, Names DEF ShellKnows, Only
    <2> QED BY <2>1, <2>2, <2>3 DEF ShellKnows
  <1>14. EndsType'
    BY DEF EndsInv, EndsType
  <1> QED BY <1>10, <1>11, <1>12, <1>13, <1>14 DEF EndsInv

\* sem_close_by_id: only the use of i ends.
LEMMA CloseEffect ==
  ASSUME NEW s, SemType(s), NEW i \in Sem
  PROVE  LET t == sem_close_by_id(s, i)
         IN  /\ SemType(t) /\ t.blocked = s.blocked
             /\ \A j \in Sem : /\ t[j].used <=> (s[j].used /\ j # i)
                               /\ t[j].lock = s[j].lock /\ t[j].queue = s[j].queue
  <1> DEFINE v == [s[i] EXCEPT !.used = FALSE]
             t == sem_close_by_id(s, i)
  <1>1. s[i] \in semaphore_t /\ \A j \in Sem : s[j].used \in BOOLEAN
    BY DEF SemType, semaphore_t
  <1>2. v \in semaphore_t /\ ~v.used /\ v.lock = s[i].lock /\ v.queue = s[i].queue
    BY <1>1 DEF semaphore_t
  <1>3. t = Put(s, i, v)
    BY DEF sem_close_by_id, Put
  <1> HIDE DEF v, t
  <1>4. /\ SemType(t) /\ t[i] = v /\ t.blocked = s.blocked
        /\ \A j \in Sem : j # i => t[j] = s[j]
    BY <1>2, <1>3, OneChanges
  <1>5. \A j \in Sem : /\ t[j].used <=> (s[j].used /\ j # i)
                       /\ t[j].lock = s[j].lock /\ t[j].queue = s[j].queue
    BY <1>1, <1>2, <1>4
  <1> QED BY <1>4, <1>5 DEF t

\* All three are closed; locks stay as they are.
LEMMA AllCloseEffect ==
  ASSUME NEW s, SemType(s)
  PROVE  SemType(AllClosed(s)) /\ \A j \in Sem : /\ ~AllClosed(s)[j].used
                                                 /\ AllClosed(s)[j].lock = s[j].lock
  <1> DEFINE s1 == sem_close_by_id(s, "items")
             s2 == sem_close_by_id(s1, "spaces")
             s3 == sem_close_by_id(s2, "mutex")
  <1>0. "items" \in Sem /\ "spaces" \in Sem /\ "mutex" \in Sem
    BY DEF Sem
  <1>1. AllClosed(s) = s3
    BY DEF AllClosed
  <1> HIDE DEF s1, s2, s3
  <1>2. SemType(s1) /\ \A j \in Sem :
          (s1[j].used <=> (s[j].used /\ j # "items")) /\ s1[j].lock = s[j].lock
    BY <1>0, CloseEffect DEF s1
  <1>3. SemType(s2) /\ \A j \in Sem :
          (s2[j].used <=> (s1[j].used /\ j # "spaces")) /\ s2[j].lock = s1[j].lock
    BY <1>0, <1>2, CloseEffect DEF s2
  <1>4. SemType(s3) /\ \A j \in Sem :
          (s3[j].used <=> (s2[j].used /\ j # "mutex")) /\ s3[j].lock = s2[j].lock
    BY <1>0, <1>3, CloseEffect DEF s3
  <1>5. ASSUME NEW j \in Sem PROVE ~s3[j].used /\ s3[j].lock = s[j].lock
    <2>1. j = "items" \/ j = "spaces" \/ j = "mutex"
      BY DEF Sem
    <2> QED BY <1>2, <1>3, <1>4, <2>1
  <1> QED BY <1>1, <1>4, <1>5

\* A process that is killed takes the pipe with it.
LEMMA KilledFrees ==
  ASSUME EndsInv, PipeType, pipe.used, NEW p, Writers = {p},
         \A r \in Readers : proc[r].pc \in {"new", "terminal", "finished"},
         proc[p].pc \notin {"new", "terminal"}, NEW s, Killed(p, s)
  PROVE  ~pipe'.used
  <1>0. p \in Process /\ p \in Writers /\ p \notin Readers
    BY Names
  <1>1. \A r \in Readers : ~HasEnd(r)
    BY DEF HasEnd, InCall
  <1>2. HasEnd(p)
    <2>1. \E q \in Process : HasEnd(q)
      BY <1>0 DEF EndsInv, Held
    <2> QED BY <1>1, <2>1, Names
  <1>3. NobodyAtEnds(Dropped(p)) /\ Dropped(p) \in pipe_t
    <2>1. AtEnds(Readers) \ {p} = {} /\ AtEnds(Writers) \ {p} = {}
      BY <1>1 DEF AtEnds
    <2> QED BY <1>0, <1>2, <2>1, DroppedIs, DroppedCounts
  <1> QED BY <1>3 DEF Killed, Freed, pipe_t

\* The shell closes the end of the only writer.
LEMMA KilledEnds ==
  ASSUME EndsInv, PipeType, NEW p, Writers = {p},
         \A r \in Readers : proc[r].pc \in {"new", "terminal", "finished"},
         proc[p].pc \notin {"new", "terminal"}, pipe.used => ~Locked("mutex"),
         NEW s, Kept(sem, s), Killed(p, s), cpu = Nobody, cpu' = cpu
  PROVE  EndsInv'
  <1>0. p \in Process /\ p \in Writers /\ p \notin Readers
    BY Names
  <1>1. proc \in [Process -> process_t] /\ proc[p] \in process_t
    BY <1>0 DEF EndsInv, EndsType
  <1>2. /\ Only(p) /\ proc' \in [Process -> process_t]
        /\ proc'[p].pc = IF proc[p].pc = "finished" THEN "finished" ELSE "killed"
        /\ proc'[p].todo = IF pipe.used THEN <<>> ELSE proc[p].todo
    <2> DEFINE pc == IF proc[p].pc = "finished" THEN "finished" ELSE "killed"
               todo == IF pipe.used THEN <<>> ELSE proc[p].todo
    <2>1. proc' = [proc EXCEPT ![p] = [proc[p] EXCEPT !.pc = pc, !.todo = todo]]
      BY DEF Killed
    <2>2. pc \in PC /\ todo \in Before \cup After
      <3>1. <<>> \in After
        BY DEF After
      <3>2. proc[p].todo \in Before \cup After
        BY <1>1 DEF process_t
      <3> QED BY <3>1, <3>2 DEF PC
    <2> HIDE DEF pc, todo
    <2>3. [proc[p] EXCEPT !.pc = pc, !.todo = todo] \in process_t
      BY <1>1, <2>2 DEF process_t
    <2>4. Only(p) /\ proc' \in [Process -> process_t] /\ proc'[p].pc = pc /\ proc'[p].todo = todo
      BY <1>0, <1>1, <2>1, <2>3 DEF Only, process_t
    <2> QED BY <2>4 DEF pc, todo
  <1>3. shell' = [pc |-> "done", p |-> Nobody]
    BY DEF Killed, ShellGoes
  <1>4. \A r \in Readers : ~HasEnd(r)
    BY DEF HasEnd, InCall
  <1>5. CASE pipe.used
    <2>1. HasEnd(p)
      <3>1. \E q \in Process : HasEnd(q)
        BY <1>0, <1>5 DEF EndsInv, Held
      <3> QED BY <1>4, <3>1, Names
    <2>2. NobodyAtEnds(Dropped(p)) /\ Dropped(p) \in pipe_t
      <3>1. AtEnds(Readers) \ {p} = {} /\ AtEnds(Writers) \ {p} = {}
        BY <1>4 DEF AtEnds
      <3> QED BY <1>0, <1>5, <2>1, <3>1, DroppedIs, DroppedCounts
    <2>3. ~pipe'.used
      BY <2>2 DEF Killed, Freed, pipe_t
    <2>4. SemType(sem') /\ \A i \in Sem : ~sem'[i].used /\ sem'[i].lock = sem[i].lock
      BY <1>5, <2>2, AllCloseEffect DEF Killed, Kept
    <2>5. EndsType'
      BY <1>2, <1>3, <2>4 DEF EndsType
    <2>6. ASSUME NEW q \in Process PROVE TodoByPc(q)'
      <3>1. CASE q = p
        <4>1. <<>> \notin Before
          BY BeforeIs
        <4>2. proc'[q].todo = <<>> /\ proc'[q].pc # "closing"
          BY <1>2, <1>5, <3>1
        <4> QED BY <4>1, <4>2 DEF TodoByPc
      <3>2. CASE q # p
        <4>1. q \in Readers /\ proc'[q] = proc[q] /\ proc[q].pc # "closing" /\ TodoByPc(q)
          BY <1>2, <3>2, Names DEF Only, EndsInv
        <4> QED BY <4>1 DEF TodoByPc
      <3> QED BY <3>1, <3>2
    <2>7. LocksAreHeld'
      <3> SUFFICES ASSUME NEW i \in Sem, Locked(i)'
                   PROVE  LET todo == proc'[sem'[i].lock].todo
                          IN  /\ todo # <<>> /\ Head(todo).sem = i
                              /\ Head(todo).name \in {"wait", "signal", "close"}
        BY DEF LocksAreHeld
      <3>1. sem'[i].lock = sem[i].lock /\ Locked(i) /\ sem[i].lock \in Process
        BY <2>4 DEF Locked, EndsInv, EndsType, SemType, semaphore_t
      <3>2. sem[i].lock # p
        <4> SUFFICES ASSUME sem[i].lock = p PROVE FALSE
          OBVIOUS
        <4>1. proc[p].todo # <<>> /\ Head(proc[p].todo).sem = i
          BY <3>1 DEF EndsInv, LocksAreHeld
        <4>2. proc[p].todo \in Before
          BY <1>0, <2>1, <4>1 DEF HasEnd, EndsInv, TodoByPc, InCall
        <4>3. Head(proc[p].todo).sem = "mutex"
          BY <4>2, BeforeIs, Ops
        <4> QED BY <1>5, <3>1, <4>1, <4>3
      <3>3. proc'[sem[i].lock] = proc[sem[i].lock]
        BY <1>2, <3>1, <3>2 DEF Only
      <3> QED BY <3>1, <3>3 DEF EndsInv, LocksAreHeld
    <2>8. Held' /\ Counted' /\ ShellKnows'
      BY <1>3, <2>3, <2>4 DEF Held, Counted, ShellKnows
    <2> QED BY <2>5, <2>6, <2>7, <2>8 DEF EndsInv
  <1>6. CASE ~pipe.used
    <2>1. ~pipe'.used
      <3>1. ~Dropped(p).used /\ Dropped(p) \in pipe_t
        BY <1>0, <1>6 DEF Dropped, PipeType, pipe_t
      <3> QED BY <3>1 DEF Killed, Freed, pipe_t
    <2>2. sem' = s
      BY <1>6 DEF Killed
    <2>3. TodoByPc(p)'
      <3>1. TodoByPc(p)
        BY <1>0 DEF EndsInv
      <3> QED BY <1>2, <1>6, <3>1 DEF TodoByPc
    <2>4. EndsType'
      BY <1>2, <1>3, <2>2 DEF EndsType, Kept
    <2>5. ShellKnows'
      BY <1>3, <2>1 DEF ShellKnows
    <2> QED BY <1>0, <1>2, <1>6, <2>1, <2>2, <2>3, <2>4, <2>5, WithoutPipe
  <1> QED BY <1>5, <1>6

\* pipe_create: nobody is at the ends.
LEMMA InitEnds == Init => EndsInv
  <1> SUFFICES ASSUME Init PROVE EndsInv
    OBVIOUS
  <1>1. <<>> \in After /\ <<>> \notin Before
    BY BeforeIs DEF After
  <1>2. EndsType
    <2>1. \A p \in Process : proc[p] = [pc |-> "new", left |-> 0, done |-> 0, todo |-> <<>>]
      BY DEF Init
    <2>2. \A p \in Process : proc[p] \in process_t
      BY <1>1, <2>1 DEF process_t, PC
    <2>3. proc \in [Process -> process_t]
      BY <2>2 DEF Init
    <2>4. \A v \in Nat : Semaphore(v) \in semaphore_t
      BY DEF Semaphore, semaphore_t
    <2>5. SemType(sem)
      BY <2>4, NIsPositive DEF Init, SemType, Sem, N
    <2> QED BY <2>3, <2>5 DEF Init, EndsType
  <1>3. \A p \in Process : proc[p].pc = "new" /\ proc[p].todo = <<>>
    BY DEF Init
  <1>4. \A p \in Process : ~HasEnd(p) /\ TodoByPc(p) /\ \A i : ~Closes(p, i)
    BY <1>1, <1>3 DEF HasEnd, TodoByPc, Closes, InCall
  <1>5. Counted
    <2>1. AtEnds(Readers) = {} /\ AtEnds(Writers) = {}
      BY <1>4, Names DEF AtEnds
    <2>2. pipe.readers = 0 /\ pipe.writers = 0
      BY DEF Init
    <2> QED BY <2>1, <2>2, CountNone DEF Counted
  <1>6. \A i \in Sem : sem[i].used /\ sem[i].lock = Nobody
    BY DEF Init, Sem, Semaphore
  <1>7. Held /\ LocksAreHeld /\ ShellKnows
    BY <1>3, <1>4, <1>6 DEF Held, LocksAreHeld, Locked, ShellKnows, Init
  <1> QED BY <1>2, <1>4, <1>5, <1>7 DEF EndsInv

(* The steps of a process in a call *)

\* The table is well formed, also after the mutex is given on.
LEMMA KeptIs ==
  ASSUME EndsInv
  PROVE  /\ SemType(sem) /\ Kept(sem, sem) /\ Kept(sem, Unlocked)
         /\ \A s, t : Kept(sem, s) /\ Kept(s, t) => Kept(sem, t)
  <1>1. SemType(sem) /\ "mutex" \in Sem
    BY DEF EndsInv, EndsType, Sem
  <1>2. Kept(sem, sem)
    BY <1>1 DEF Kept
  <1>3. Kept(sem, sem_signal_by_id(sem, "mutex"))
    BY <1>1, SignalEffect
  <1>4. Kept(sem, Unlocked)
    BY <1>2, <1>3 DEF Unlocked
  <1>5. \A s, t : Kept(sem, s) /\ Kept(s, t) => Kept(sem, t)
    BY DEF Kept
  <1> QED BY <1>1, <1>2, <1>4, <1>5

\* Only the place of p changes ...
LEMMA GoIs ==
  ASSUME EndsInv, NEW p \in Process, NEW pc \in PC, Go(p, pc)
  PROVE  /\ Only(p) /\ proc' \in [Process -> process_t] /\ proc'[p].pc = pc
         /\ proc'[p].todo = proc[p].todo
         /\ proc'[p].left = proc[p].left /\ proc'[p].done = proc[p].done
  BY DEF EndsInv, EndsType, Go, Only, process_t

\* ... also when its call returns ...
LEMMA ReturnsIs ==
  ASSUME EndsInv, NEW p \in Process, Returns(p)
  PROVE  /\ Only(p) /\ proc' \in [Process -> process_t] /\ proc'[p].pc = "user"
         /\ proc'[p].todo = proc[p].todo /\ cpu' = Nobody
  <1>1. proc \in [Process -> process_t] /\ proc[p] \in process_t
    BY DEF EndsInv, EndsType
  <1> DEFINE v == [proc[p] EXCEPT !.pc = "user", !.left = 0, !.done = 0]
  <1>2. proc' = [proc EXCEPT ![p] = v] /\ cpu' = Nobody
    BY DEF Returns
  <1>3. v \in process_t /\ v.pc = "user" /\ v.todo = proc[p].todo
    <2>1. "user" \in PC /\ 0 \in Int
      BY DEF PC, InCall
    <2> QED BY <1>1, <2>1 DEF process_t
  <1> HIDE DEF v
  <1> QED BY <1>1, <1>2, <1>3 DEF Only

\* ... and when it has moved a byte.
LEMMA MovedIs ==
  ASSUME EndsInv, NEW p \in Process, Moved(p), cpu = p
  PROVE  /\ Only(p) /\ proc' \in [Process -> process_t]
         /\ proc'[p].todo = proc[p].todo
         /\ (proc'[p].pc = "user" /\ cpu' = Nobody) \/ (proc'[p].pc = "loop" /\ cpu' = cpu)
  <1>1. CASE proc[p].left = 1
    BY <1>1, ReturnsIs DEF Moved
  <1>2. CASE proc[p].left # 1
    <2>1. proc \in [Process -> process_t] /\ proc[p] \in process_t
      BY DEF EndsInv, EndsType
    <2> DEFINE l == proc[p].left - 1
               d == proc[p].done + 1
               v == [proc[p] EXCEPT !.pc = "loop", !.left = l, !.done = d]
    <2>2. l \in Int /\ d \in Int /\ "loop" \in PC
      BY <2>1 DEF process_t, PC, InCall
    <2>3. proc' = [proc EXCEPT ![p] = v] /\ cpu' = cpu
      BY <1>2, <2>1 DEF Moved, process_t
    <2> HIDE DEF l, d
    <2>4. v \in process_t /\ v.pc = "loop" /\ v.todo = proc[p].todo
      BY <2>1, <2>2 DEF process_t
    <2> HIDE DEF v
    <2> QED BY <2>1, <2>3, <2>4 DEF Only
  <1> QED BY <1>1, <1>2

\* A process in a call that has to wait.
LEMMA WaitForEnds ==
  ASSUME EndsInv, NEW p \in Process, proc[p].pc \in InCall, cpu = p, NEW s, Kept(sem, s),
         NEW i \in Sem, NEW next \in {"loop", "held"}, NEW asleep \in InCall,
         WaitFor(s, i, p, next, asleep), UNCHANGED <<pipe, shell>>
  PROVE  EndsInv'
  <1>1. Kept(sem, sem')
    <2>0. p \in Sleeper /\ SemType(s) /\ sem' = sem_wait_by_id(s, i, p)
      BY DEF WaitFor, Kept, Sleeper
    <2>1. Kept(s, sem')
      BY <2>0, WaitEffect
    <2> QED BY <2>1, KeptIs
  <1>2. next \in InCall /\ InCall \subseteq PC /\ "user" \in InCall
    BY DEF InCall, PC
  <1>3. \/ Returns(p)
        \/ Go(p, asleep) /\ cpu' = Nobody
        \/ Go(p, next) /\ cpu' = cpu
    BY DEF WaitFor
  <1>4. /\ Only(p) /\ proc' \in [Process -> process_t] /\ proc'[p].todo = proc[p].todo
        /\ proc'[p].pc \in InCall
        /\ cpu' # Nobody => cpu' = p /\ proc'[p].pc \in {"loop", "held"}
    BY <1>2, <1>3, GoIs, ReturnsIs
  <1> QED BY <1>1, <1>4, StaysInCall

\* Nothing changes that the invariant is about.
LEMMA NothingEnds ==
  ASSUME EndsInv, UNCHANGED <<pipe, sem, proc, shell, cpu>>
  PROVE  EndsInv'
  <1>1. EndsType' /\ ShellKnows'
    BY DEF EndsInv, EndsType, ShellKnows
  <1>2. Kept(sem, sem')
    BY KeptIs
  <1> QED BY <1>1, <1>2, ShellOnly

\* No step of a process in a call changes who has an end.
LEMMA CallEnds ==
  ASSUME EndsInv, NEW p \in Process,
         \/ \E n \in 1..MaxChunk : call(p, n)
         \/ resume(p) \/ enter(p) \/ pipe_read(p) \/ pipe_write(p)
  PROVE  EndsInv'
  <1>0. /\ {"user", "loop", "held", "wait_mutex", "wait_item", "wait_space"} \subseteq InCall
        /\ InCall \subseteq PC /\ "items" \in Sem /\ "spaces" \in Sem /\ "mutex" \in Sem
        /\ p # Nobody
    BY Names DEF InCall, PC, Sem
  <1>1. CASE \E n \in 1..MaxChunk : call(p, n)
    <2> PICK n \in 1..MaxChunk : call(p, n)
      BY <1>1
    <2>1. n \in Int
      BY PipeAssumption
    <2>2. /\ Only(p) /\ proc' \in [Process -> process_t] /\ proc'[p].pc = "loop"
          /\ proc'[p].todo = proc[p].todo /\ cpu' = p
      <3> DEFINE v == [proc[p] EXCEPT !.pc = "loop", !.left = n, !.done = 0]
      <3>1. proc \in [Process -> process_t] /\ proc[p] \in process_t
        BY DEF EndsInv, EndsType
      <3>2. proc' = [proc EXCEPT ![p] = v] /\ cpu' = p
        BY DEF call
      <3>3. v \in process_t /\ v.pc = "loop" /\ v.todo = proc[p].todo
        <4>1. 0 \in Int /\ "loop" \in PC
          BY <1>0
        <4> QED BY <2>1, <3>1, <4>1 DEF process_t
      <3> HIDE DEF v
      <3> QED BY <3>1, <3>2, <3>3 DEF Only
    <2>3. Kept(sem, sem') /\ proc[p].pc \in InCall /\ UNCHANGED <<pipe, shell>>
      BY <1>0, KeptIs DEF call
    <2> QED BY <1>0, <2>2, <2>3, StaysInCall
  <1>2. CASE resume(p)
    <2>1. \E pc \in {"loop", "held"} : Go(p, pc)
      BY <1>2 DEF resume
    <2>2. /\ Only(p) /\ proc' \in [Process -> process_t] /\ proc'[p].pc \in {"loop", "held"}
          /\ proc'[p].todo = proc[p].todo /\ cpu' = p
      BY <1>0, <1>2, <2>1, GoIs DEF resume
    <2>3. Kept(sem, sem') /\ proc[p].pc \in InCall /\ UNCHANGED <<pipe, shell>>
      BY <1>0, <1>2, KeptIs DEF resume
    <2> QED BY <1>0, <2>2, <2>3, StaysInCall
  <1>3. CASE enter(p)
    <2>1. proc[p].pc \in InCall /\ cpu = p
      BY <1>0, <1>3 DEF enter
    <2>2. CASE ~pipe.used
      <3>1. Returns(p) /\ UNCHANGED <<pipe, sem, shell>>
        BY <1>3, <2>2 DEF enter
      <3> QED BY <1>0, <2>1, <3>1, ReturnsIs, KeptIs, StaysInCall
    <2>3. CASE pipe.used /\ Locked("mutex")
      <3>1. UNCHANGED <<pipe, sem, proc, shell, cpu>>
        BY <1>3, <2>3 DEF enter, Hangs
      <3> QED BY <3>1, NothingEnds
    <2>4. CASE pipe.used /\ ~Locked("mutex")
      <3>1. WaitFor(sem, "mutex", p, "held", "wait_mutex") /\ UNCHANGED <<pipe, shell>>
        BY <1>3, <2>4 DEF enter
      <3> QED BY <1>0, <2>1, <3>1, KeptIs, WaitForEnds
    <2> QED BY <2>2, <2>3, <2>4
  <1>4. CASE pipe_read(p)
    <2>1. proc[p].pc \in InCall /\ cpu = p
      BY <1>0, <1>4 DEF pipe_read
    <2>2. CASE Hangs
      BY <2>2, NothingEnds DEF Hangs
    <2>3. CASE sem' = Unlocked /\ Returns(p) /\ UNCHANGED <<shell, pipe>>
      BY <1>0, <2>1, <2>3, ReturnsIs, KeptIs, StaysInCall
    <2>4. CASE WaitFor(Unlocked, "items", p, "loop", "wait_item") /\ UNCHANGED <<shell, pipe>>
      BY <1>0, <2>1, <2>4, KeptIs, WaitForEnds
    <2>5. CASE /\ pipe' = [pipe EXCEPT !.read_pos = Ahead(@), !.count = @ - 1]
               /\ sem' = sem_signal_by_id(Unlocked, "spaces") /\ Moved(p) /\ shell' = shell
      <3>0. SemType(Unlocked)
        BY KeptIs DEF Kept
      <3>1. Kept(Unlocked, sem')
        BY <1>0, <2>5, <3>0, SignalEffect
      <3>2. pipe'.used = pipe.used /\ pipe'.readers = pipe.readers /\ pipe'.writers = pipe.writers
        BY <2>5
      <3> QED BY <1>0, <2>1, <2>5, <3>1, <3>2, KeptIs, MovedIs, StaysInCall
    <2> QED BY <1>4, <2>2, <2>3, <2>4, <2>5 DEF pipe_read
  <1>5. CASE pipe_write(p)
    <2>1. proc[p].pc \in InCall /\ cpu = p
      BY <1>0, <1>5 DEF pipe_write
    <2>2. CASE Hangs
      BY <2>2, NothingEnds DEF Hangs
    <2>3. CASE sem' = Unlocked /\ Returns(p) /\ UNCHANGED <<shell, pipe>>
      BY <1>0, <2>1, <2>3, ReturnsIs, KeptIs, StaysInCall
    <2>4. CASE WaitFor(Unlocked, "spaces", p, "loop", "wait_space") /\ UNCHANGED <<shell, pipe>>
      BY <1>0, <2>1, <2>4, KeptIs, WaitForEnds
    <2>5. CASE /\ pipe' = [pipe EXCEPT !.buffer[pipe.write_pos] = sent + 1,
                                       !.write_pos = Ahead(@), !.count = @ + 1]
               /\ sem' = WroteByte /\ Moved(p) /\ shell' = shell
      <3>0. SemType(Unlocked)
        BY KeptIs DEF Kept
      <3>1. Kept(Unlocked, sem')
        BY <1>0, <2>5, <3>0, SignalEffect DEF WroteByte
      <3>2. pipe'.used = pipe.used /\ pipe'.readers = pipe.readers /\ pipe'.writers = pipe.writers
        BY <2>5
      <3> QED BY <1>0, <2>1, <2>5, <3>1, <3>2, KeptIs, MovedIs, StaysInCall
    <2> QED BY <1>5, <2>2, <2>3, <2>4, <2>5 DEF pipe_write
  <1> QED BY <1>1, <1>2, <1>3, <1>4, <1>5

(* The end of a process *)

WithLock(s, i, v) == [s EXCEPT ![i].lock = v]

\* t is s but for the lock of i.
LockIs(s, t, i, v) ==
  /\ SemType(t) /\ t.blocked = s.blocked
  /\ \A j \in Sem : /\ t[j].used = s[j].used /\ t[j].queue = s[j].queue
                    /\ t[j].lock = IF j = i THEN v ELSE s[j].lock

\* Only the lock of i changes.
LEMMA LockEffect ==
  ASSUME NEW s, SemType(s), NEW i \in Sem, NEW v \in Process \cup {Nobody}
  PROVE  LockIs(s, WithLock(s, i, v), i, v)
  <1> DEFINE w == [s[i] EXCEPT !.lock = v]
             t == WithLock(s, i, v)
  <1>1. s[i] \in semaphore_t
    BY DEF SemType
  <1>2. w \in semaphore_t /\ w.used = s[i].used /\ w.queue = s[i].queue /\ w.lock = v
    BY <1>1 DEF semaphore_t
  <1>3. t = Put(s, i, w)
    BY DEF Put, WithLock
  <1> HIDE DEF w, t
  <1>4. /\ SemType(t) /\ t[i] = w /\ t.blocked = s.blocked
        /\ \A j \in Sem : j # i => t[j] = s[j]
    BY <1>2, <1>3, OneChanges
  <1>5. \A j \in Sem : /\ t[j].used = s[j].used /\ t[j].queue = s[j].queue
                       /\ t[j].lock = IF j = i THEN v ELSE s[j].lock
    BY <1>2, <1>4
  <1> QED BY <1>4, <1>5 DEF t, LockIs

\* p works on nothing but the semaphore it has come to.
LEMMA LocksOfOthers ==
  ASSUME EndsInv, NEW p \in Process, Only(p),
         \A i \in Sem : \/ sem'[i].lock = Nobody
                        \/ sem'[i].lock = sem[i].lock /\ sem[i].lock # p
  PROVE  LocksAreHeld'
  <1> SUFFICES ASSUME NEW i \in Sem, Locked(i)'
               PROVE  LET todo == proc'[sem'[i].lock].todo
                      IN  /\ todo # <<>> /\ Head(todo).sem = i
                          /\ Head(todo).name \in {"wait", "signal", "close"}
    BY DEF LocksAreHeld
  <1>1. sem'[i].lock = sem[i].lock /\ Locked(i) /\ sem[i].lock \in Process /\ sem[i].lock # p
    BY DEF Locked, EndsInv, EndsType, SemType, semaphore_t
  <1>2. proc'[sem[i].lock] = proc[sem[i].lock]
    BY <1>1 DEF Only
  <1> QED BY <1>1, <1>2 DEF EndsInv, LocksAreHeld

\* A process that is ending takes a lock.
LEMMA LocksEnds ==
  ASSUME EndsInv, NEW p \in Process, close_locks(p)
  PROVE  EndsInv'
  <1> DEFINE todo == proc[p].todo
             i == Head(todo).sem
  <1>1. /\ proc[p].pc = "closing" /\ todo # <<>> /\ UNCHANGED <<shell, pipe, proc, cpu>>
        /\ Head(todo).name \in {"wait", "signal", "close"}
        /\ ~Locked(i) /\ sem' = [sem EXCEPT ![i].lock = p]
    BY DEF close_locks, Closing
  <1>2. i \in Sem
    <2>1. CASE todo \in Before
      <3>1. "mutex" \in Sem /\ \A n : Op(n, "mutex").sem = "mutex"
        BY Ops DEF Sem
      <3> QED BY <2>1, <3>1, BeforeIs
    <2>2. CASE todo \notin Before
      BY <1>1, <2>2, Ending
    <2> QED BY <2>1, <2>2
  <1> HIDE DEF i
  <1>3. /\ SemType(sem') /\ \A j \in Sem : /\ sem'[j].used = sem[j].used
                                           /\ sem'[j].lock = IF j = i THEN p ELSE sem[j].lock
    <2>1. SemType(sem) /\ p \in Process \cup {Nobody}
      BY KeptIs
    <2>2. sem' = WithLock(sem, i, p)
      BY <1>1 DEF WithLock
    <2> QED BY <1>2, <2>1, <2>2, LockEffect DEF LockIs
  <1>4. EndsType' /\ ShellKnows'
    BY <1>1, <1>3 DEF EndsInv, EndsType, ShellKnows
  <1>5. LocksAreHeld'
    <2> SUFFICES ASSUME NEW j \in Sem, Locked(j)'
                 PROVE  LET t == proc'[sem'[j].lock].todo
                        IN  /\ t # <<>> /\ Head(t).sem = j
                            /\ Head(t).name \in {"wait", "signal", "close"}
      BY DEF LocksAreHeld
    <2>1. CASE j = i
      BY <1>1, <1>3, <2>1 DEF i
    <2>2. CASE j # i
      BY <1>1, <1>3, <2>2 DEF EndsInv, LocksAreHeld, Locked
    <2> QED BY <2>1, <2>2
  <1>6. \A q : /\ HasEnd(q)' <=> HasEnd(q)
               /\ TodoByPc(q)' <=> TodoByPc(q)
               /\ \A j : Closes(q, j)' <=> Closes(q, j)
    BY <1>1 DEF HasEnd, TodoByPc, Closes
  <1>7. AtEnds(Readers)' = AtEnds(Readers) /\ AtEnds(Writers)' = AtEnds(Writers)
    BY <1>6 DEF AtEnds
  <1>8. Counted'
    BY <1>1, <1>7 DEF EndsInv, Counted
  <1>9. Held'
    BY <1>1, <1>3, <1>6 DEF EndsInv, Held
  <1> QED BY <1>4, <1>5, <1>6, <1>8, <1>9 DEF EndsInv

\* A process begins to close its end.
LEMMA ExitEnds ==
  ASSUME EndsInv, NEW p \in Process, exit(p)
  PROVE  EndsInv'
  <1>0. /\ "user" \in InCall /\ "finished" \in PC /\ "closing" \in PC
        /\ proc \in [Process -> process_t] /\ proc[p] \in process_t
    BY DEF InCall, PC, EndsInv, EndsType
  <1>1. proc[p].pc = "user" /\ cpu = Nobody /\ UNCHANGED <<shell, pipe, sem, cpu>>
    BY DEF exit, CanRun
  <1>2. proc[p].todo = <<>>
    BY <1>1 DEF EndsInv, TodoByPc
  <1>3. \A i \in Sem : sem[i].lock # p
    BY <1>2, Names DEF EndsInv, LocksAreHeld, Locked
  <1>4. CASE ~pipe.used
    <2>1. Go(p, "finished")
      BY <1>4 DEF exit
    <2>2. /\ Only(p) /\ proc' \in [Process -> process_t] /\ proc'[p].pc = "finished"
          /\ proc'[p].todo = <<>>
      BY <1>0, <1>2, <2>1, GoIs
    <2>3. EndsType'
      BY <1>1, <2>2 DEF EndsInv, EndsType
    <2>4. TodoByPc(p)'
      <3>1. <<>> \notin Before
        BY BeforeIs
      <3> QED BY <2>2, <3>1 DEF TodoByPc
    <2>5. ShellKnows'
      BY <1>1, <2>2 DEF EndsInv, ShellKnows, Only, EndsType, Process
    <2> QED BY <1>1, <1>2, <1>4, <2>2, <2>3, <2>4, <2>5, KeptIs, WithoutPipe
  <1>5. CASE pipe.used
    <2> DEFINE v == [proc[p] EXCEPT !.pc = "closing", !.todo = ThenCount("wait")]
    <2>1. proc' = [proc EXCEPT ![p] = v]
      BY <1>5 DEF exit, ThenCount
    <2>2. v \in process_t /\ v.pc = "closing" /\ v.todo = ThenCount("wait")
      <3>1. ThenCount("wait") \in Before \cup After
        BY DEF Before
      <3> QED BY <1>0, <3>1 DEF process_t
    <2> HIDE DEF v
    <2>3. /\ Only(p) /\ proc' \in [Process -> process_t] /\ proc'[p].pc = "closing"
          /\ proc'[p].todo = ThenCount("wait") /\ ThenCount("wait") \in Before
      BY <1>0, <2>1, <2>2 DEF Only, Before
    <2>4. HasEnd(p) /\ HasEnd(p)'
      BY <1>0, <1>1, <2>3 DEF HasEnd
    <2>5. EndsType'
      BY <1>1, <2>3 DEF EndsInv, EndsType
    <2>6. TodoByPc(p)'
      BY <1>1, <1>5, <2>3, BeforeIs DEF TodoByPc
    <2>7. LocksAreHeld'
      BY <1>1, <1>3, <2>3, LocksOfOthers
    <2> QED BY <1>1, <2>3, <2>4, <2>5, <2>6, <2>7, KeepsEnd
  <1> QED BY <1>4, <1>5

\* A process that is ending goes to sleep.
LEMMA BlocksEnds ==
  ASSUME EndsInv, NEW p \in Process, close_blocks(p)
  PROVE  EndsInv'
  <1> DEFINE todo == proc[p].todo
  <1>1. /\ proc[p].pc = "closing" /\ todo # <<>> /\ UNCHANGED <<shell, pipe, cpu>>
        /\ cpu = Nobody /\ Head(todo).name = "block"
        /\ sem' = [sem EXCEPT !.blocked = @ \cup {p}]
        /\ proc' = [proc EXCEPT ![p].todo = Tail(@)]
    BY DEF close_blocks, Closing, CanRun, scheduler_block_current
  <1>2. todo \in Before /\ HasEnd(p) /\ pipe.used
    BY <1>1, Ending
  <1>3. Tail(todo) = OnlyCount /\ OnlyCount \in Before
    <2>1. Op("wait", "mutex").name = "wait" /\ Op("count", "mutex").name = "count"
      BY Ops
    <2> QED BY <1>1, <1>2, <2>1, BeforeIs DEF Before
  <1>4. SemType(sem') /\ \A j \in Sem : sem'[j] = sem[j]
    <2>1. SemType(sem)
      BY KeptIs
    <2>2. DOMAIN sem' = DOMAIN sem /\ \A j \in Sem : sem'[j] = sem[j]
      BY <1>1, <2>1 DEF SemType, Sem
    <2> QED BY <2>1, <2>2 DEF SemType
  <1>5. /\ Only(p) /\ proc' \in [Process -> process_t] /\ proc'[p].pc = "closing"
        /\ proc'[p].todo = OnlyCount
    <2>1. proc \in [Process -> process_t] /\ proc[p] \in process_t
      BY DEF EndsInv, EndsType
    <2> DEFINE v == [proc[p] EXCEPT !.todo = OnlyCount]
    <2>2. proc' = [proc EXCEPT ![p] = v]
      BY <1>1, <1>3
    <2>3. v \in process_t /\ v.pc = proc[p].pc /\ v.todo = OnlyCount
      <3>1. OnlyCount \in Before \cup After
        BY <1>3
      <3> QED BY <2>1, <3>1 DEF process_t
    <2> HIDE DEF v
    <2> QED BY <1>1, <2>1, <2>2, <2>3 DEF Only
  <1>6. HasEnd(p)'
    BY <1>3, <1>5 DEF HasEnd
  <1>7. TodoByPc(p)'
    BY <1>1, <1>2, <1>3, <1>5, BeforeIs DEF TodoByPc
  <1>8. \A i \in Sem : sem[i].lock # p
    BY <1>1, Names DEF EndsInv, LocksAreHeld, Locked
  <1>9. LocksAreHeld'
    BY <1>4, <1>5, <1>8, LocksOfOthers
  <1>10. EndsType'
    BY <1>1, <1>4, <1>5 DEF EndsInv, EndsType
  <1> QED BY <1>1, <1>2, <1>4, <1>5, <1>6, <1>7, <1>9, <1>10, KeepsEnd

\* Sequences with the same elements are equal ...
LEMMA SameElements ==
  ASSUME NEW S, NEW q \in Seq(S), NEW r \in Seq(S),
         Len(q) = Len(r), \A i \in 1..Len(q) : q[i] = r[i]
  PROVE  q = r
  OBVIOUS

\* ... and so nothing comes before the elements of q in <<>> \o q ...
LEMMA NothingBefore ==
  ASSUME NEW S, NEW q \in Seq(S)
  PROVE  <<>> \o q = q
  OBVIOUS

\* ... and only the empty sequence has no elements.
LEMMA Shorter ==
  ASSUME NEW S, NEW q \in Seq(S)
  PROVE  /\ Len(q) \in Nat /\ DOMAIN q = 1..Len(q) /\ (Len(q) = 0 <=> q = <<>>)
         /\ q # <<>> => Tail(q) \in Seq(S) /\ Len(Tail(q)) = Len(q) - 1
  OBVIOUS

\* Two sequences of one element.
LEMMA Joined ==
  ASSUME NEW a, NEW b
  PROVE  <<a>> \o <<b>> = <<a, b>>
  <1>1. <<a>> \in Seq({a, b}) /\ <<b>> \in Seq({a, b}) /\ <<a, b>> \in Seq({a, b})
    OBVIOUS
  <1>2. /\ <<a>> \o <<b>> \in Seq({a, b}) /\ Len(<<a>> \o <<b>>) = 2
        /\ (<<a>> \o <<b>>)[1] = a /\ (<<a>> \o <<b>>)[2] = b
    OBVIOUS
  <1>3. Len(<<a, b>>) = 2 /\ <<a, b>>[1] = a /\ <<a, b>>[2] = b /\ 1..2 = {1, 2}
    OBVIOUS
  <1> HIDE <1>1
  <1> DEFINE s == <<a>> \o <<b>>
             t == <<a, b>>
  <1>4. s \in Seq({a, b}) /\ t \in Seq({a, b})
        /\ Len(s) = Len(t) /\ \A i \in 1..Len(s) : s[i] = t[i]
    BY <1>1, <1>2, <1>3
  <1> HIDE DEF s, t
  <1>5. s = t
    BY <1>4, SameElements
  <1> QED BY <1>5 DEF s, t

\* close_does while the process is still counted: it waits for the mutex.
LEMMA DoesWait ==
  ASSUME EndsInv, NEW p \in Process, close_does(p), proc[p].todo \in Before
  PROVE  EndsInv'
  <1> DEFINE todo == proc[p].todo
             e == Enlist(sem, "mutex", p)
             block == IF Sleeps(sem, "mutex") THEN <<Op("block", "mutex")>> ELSE <<>>
  <1>1. /\ proc[p].pc = "closing" /\ todo # <<>> /\ UNCHANGED <<shell, pipe, cpu>>
        /\ cpu = Nobody /\ Head(todo).name \in {"wait", "signal", "close"}
    BY DEF close_does, Closing, CanRun
  <1>2. /\ todo = ThenCount("wait") /\ Head(todo) = Op("wait", "mutex")
        /\ Tail(todo) = OnlyCount /\ Len(todo) = 2
        /\ Op("wait", "mutex").name = "wait" /\ Op("wait", "mutex").sem = "mutex"
    <2>1. /\ Op("block", "mutex").name = "block" /\ Op("count", "mutex").name = "count"
          /\ Op("wait", "mutex").name = "wait" /\ Op("wait", "mutex").sem = "mutex"
      BY Ops
    <2> QED BY <1>1, <2>1, BeforeIs
  <1>3. /\ sem' = [e EXCEPT !["mutex"].lock = Nobody] /\ sem["mutex"].lock = p
        /\ proc' = [proc EXCEPT ![p].todo = block \o Tail(@),
                                ![p].pc = IF Len(proc[p].todo) = 1 THEN "finished" ELSE @]
    BY <1>2 DEF close_does
  <1>4. block \o OnlyCount \in Before
    <2>1. ASSUME NEW a, NEW b PROVE <<a>> \o <<b>> = <<a, b>>
      BY Joined
    <2>1a. ASSUME NEW b PROVE <<>> \o <<b>> = <<b>>
      <3>1. <<b>> \in Seq({b})
        OBVIOUS
      <3> QED BY <3>1, NothingBefore
    <2>2. CASE Sleeps(sem, "mutex")
      <3>1. block \o OnlyCount = ThenCount("block")
        BY <2>1, <2>2 DEF OnlyCount, ThenCount
      <3> QED BY <3>1 DEF Before
    <2>3. CASE ~Sleeps(sem, "mutex")
      <3>1. block \o OnlyCount = OnlyCount
        BY <2>1a, <2>3 DEF OnlyCount
      <3> QED BY <3>1 DEF Before
    <2> QED BY <2>2, <2>3
  <1> HIDE DEF block
  <1>5. /\ Only(p) /\ proc' \in [Process -> process_t] /\ proc'[p].pc = "closing"
        /\ proc'[p].todo = block \o OnlyCount
    <2>1. proc \in [Process -> process_t] /\ proc[p] \in process_t
      BY DEF EndsInv, EndsType
    <2> DEFINE b == block \o OnlyCount
               v == [proc[p] EXCEPT !.todo = b]
    <2>2. proc' = [proc EXCEPT ![p] = v]
      <3>1. proc' = [proc EXCEPT ![p].todo = b, ![p].pc = proc[p].pc]
        <4>1. (IF Len(proc[p].todo) = 1 THEN "finished" ELSE proc[p].pc) = proc[p].pc
          BY <1>2
        <4> QED BY <1>2, <1>3, <4>1, Zenon
      <3> HIDE DEF b
      <3> QED BY <2>1, <3>1, Zenon DEF process_t
    <2>3. b \in Before \cup After
      BY <1>4
    <2> HIDE DEF b
    <2>4. v \in process_t /\ v.pc = proc[p].pc /\ v.todo = b
      BY <2>1, <2>3 DEF process_t
    <2> HIDE DEF v
    <2> QED BY <1>1, <2>1, <2>2, <2>4 DEF Only, b
  <1>6. /\ SemType(sem') /\ \A j \in Sem : /\ sem'[j].used = sem[j].used
                                           /\ sem'[j].lock = IF j = "mutex" THEN Nobody
                                                            ELSE sem[j].lock
    <2>1. SemType(sem) /\ "mutex" \in Sem /\ p \in Sleeper /\ Nobody \in Process \cup {Nobody}
      BY KeptIs DEF Sem, Sleeper
    <2>2. Kept(sem, e)
      BY <2>1, EnlistEffect
    <2> HIDE DEF e
    <2>3. /\ SemType(sem') /\ \A j \in Sem : /\ sem'[j].used = e[j].used
                                             /\ sem'[j].lock = IF j = "mutex" THEN Nobody
                                                            ELSE e[j].lock
      <3>1. sem' = WithLock(e, "mutex", Nobody) /\ SemType(e)
        BY <1>3, <2>2 DEF WithLock, Kept
      <3> QED BY <2>1, <3>1, LockEffect DEF LockIs
    <2> QED BY <2>2, <2>3 DEF Kept
  <1>7. HasEnd(p) /\ HasEnd(p)' /\ pipe.used
    BY <1>1, <1>4, <1>5, Ending DEF HasEnd
  <1>8. TodoByPc(p)'
    BY <1>1, <1>4, <1>5, <1>7, BeforeIs DEF TodoByPc
  <1>9. LocksAreHeld'
    <2>1. \A i \in Sem : i # "mutex" => sem[i].lock # p
      BY <1>2, Names DEF EndsInv, LocksAreHeld, Locked
    <2> QED BY <1>5, <1>6, <2>1, LocksOfOthers
  <1>10. EndsType'
    BY <1>1, <1>5, <1>6 DEF EndsInv, EndsType
  <1> QED BY <1>1, <1>5, <1>6, <1>7, <1>8, <1>9, <1>10, KeepsEnd

\* ... and once it no longer is.
LEMMA DoesAfter ==
  ASSUME EndsInv, NEW p \in Process, close_does(p), proc[p].todo \notin Before
  PROVE  EndsInv'
  <1> DEFINE todo == proc[p].todo
             i == Head(todo).sem
             s == IF Head(todo).name = "signal" THEN sem_signal_by_id(sem, i)
                  ELSE sem_close_by_id(sem, i)
             rest == Tail(todo)
             S == [name : {"signal", "close"}, sem : Sem]
  <1>1. /\ proc[p].pc = "closing" /\ UNCHANGED <<shell, pipe, cpu>> /\ cpu = Nobody
    BY DEF close_does, Closing, CanRun
  <1>2. /\ todo \in After /\ todo # <<>> /\ Head(todo).name \in {"signal", "close"} /\ i \in Sem
        /\ Head(todo) = todo[1] /\ 1 \in DOMAIN todo
    BY <1>1, Ending
  <1>3. /\ sem' = [s EXCEPT ![i].lock = Nobody] /\ sem[i].lock = p
        /\ proc' = [proc EXCEPT ![p].todo = <<>> \o Tail(@),
                                ![p].pc = IF Len(proc[p].todo) = 1 THEN "finished" ELSE @]
    BY <1>2 DEF close_does
  <1>4. <<>> \o rest = rest /\ rest \in After /\ (Len(todo) = 1 <=> rest = <<>>)
    <2> HIDE DEF S
    <2>1. todo \in Seq(S) /\ After = Seq(S)
      BY <1>2 DEF After, S
    <2>2. Tail(todo) \in Seq(S)
      BY <1>2, <2>1
    <2>3. <<>> \o Tail(todo) = Tail(todo) /\ (Len(todo) = 1 <=> Tail(todo) = <<>>)
      <3>1. <<>> \o Tail(todo) = Tail(todo)
        BY <2>2, NothingBefore
      <3>1a. Len(Tail(todo)) = Len(todo) - 1 /\ Len(todo) \in Nat
        BY <1>2, <2>1, Shorter
      <3>1b. Tail(todo) # <<>> => Len(Tail(todo)) # 0
        BY <2>2, Shorter
      <3>1c. Len(<<>>) = 0
        OBVIOUS
      <3> HIDE DEF todo
      <3>2. Len(todo) = 1 => Tail(todo) = <<>>
        BY <3>1a, <3>1b
      <3>3. ASSUME Tail(todo) = <<>> PROVE Len(todo) = 1
        <4>1. Len(Tail(todo)) = 0
          BY <3>1c, <3>3, Zenon
        <4> QED BY <3>1a, <4>1
      <3> QED BY <3>1, <3>2, <3>3
    <2> QED BY <2>1, <2>2, <2>3
  <1>5. /\ Only(p) /\ proc' \in [Process -> process_t] /\ proc'[p].todo = rest
        /\ proc'[p].pc = IF rest = <<>> THEN "finished" ELSE "closing"
    <2>1. proc \in [Process -> process_t] /\ proc[p] \in process_t
      BY DEF EndsInv, EndsType
    <2> DEFINE pc == IF rest = <<>> THEN "finished" ELSE "closing"
               v == [proc[p] EXCEPT !.todo = rest, !.pc = pc]
    <2>2. proc' = [proc EXCEPT ![p] = v]
      BY <1>1, <1>3, <1>4, <2>1 DEF process_t
    <2>3. pc \in PC /\ rest \in Before \cup After
      BY <1>4 DEF PC
    <2> HIDE DEF pc, rest
    <2>4. v \in process_t /\ v.pc = pc /\ v.todo = rest
      BY <2>1, <2>3 DEF process_t
    <2> HIDE DEF v
    <2> QED BY <2>1, <2>2, <2>4 DEF Only, pc
  <1>6. Head(todo) = Op(Head(todo).name, i)
    <2>1. Head(todo) \in S
      <3>1. \A T, t : t \in Seq(T) /\ t # <<>> => Head(t) \in T
        OBVIOUS
      <3> HIDE DEF S
      <3>2. todo \in Seq(S)
        BY <1>2 DEF After, S
      <3> QED BY <1>2, <3>1, <3>2, Zenon
    <2> QED BY <2>1 DEF Op
  <1>7. /\ SemType(s)
        /\ \A j \in Sem : /\ s[j].used <=> (sem[j].used /\ Head(todo) # Op("close", j))
                          /\ s[j].lock = sem[j].lock
    <2>1. SemType(sem)
      BY KeptIs
    <2>2. CASE Head(todo).name = "signal"
      <3>1. Kept(sem, s)
        BY <1>2, <2>1, <2>2, SignalEffect
      <3>2. \A j : Head(todo) # Op("close", j)
        BY <2>2, Ops
      <3> QED BY <3>1, <3>2 DEF Kept
    <2>3. CASE Head(todo).name = "close"
      <3>1. s = sem_close_by_id(sem, i)
        BY <2>3
      <3> HIDE DEF s
      <3>2. /\ SemType(s)
            /\ \A j \in Sem : /\ s[j].used <=> (sem[j].used /\ j # i)
                              /\ s[j].lock = sem[j].lock
        BY <1>2, <2>1, <3>1, CloseEffect
      <3>3. \A j : Head(todo) = Op("close", j) <=> j = i
        BY <1>6, <2>3, Ops
      <3> QED BY <3>2, <3>3
    <2> QED BY <1>2, <2>2, <2>3
  <1> HIDE DEF s
  <1>8. /\ SemType(sem')
        /\ \A j \in Sem : /\ sem'[j].used <=> (sem[j].used /\ Head(todo) # Op("close", j))
                          /\ sem'[j].lock = IF j = i THEN Nobody ELSE sem[j].lock
    <2>1. Nobody \in Process \cup {Nobody}
      OBVIOUS
    <2>2. /\ SemType(sem')
          /\ \A j \in Sem : /\ sem'[j].used = s[j].used
                            /\ sem'[j].lock = IF j = i THEN Nobody ELSE s[j].lock
      <3>1. sem' = WithLock(s, i, Nobody)
        BY <1>3 DEF WithLock
      <3>2. i \in Sem /\ SemType(s)
        BY <1>2, <1>7
      <3> HIDE DEF i
      <3>3. LockIs(s, WithLock(s, i, Nobody), i, Nobody)
        BY <2>1, <3>2, LockEffect
      <3> QED BY <3>1, <3>3 DEF LockIs
    <2> QED BY <1>7, <2>2
  <1>9. LocksAreHeld'
    <2>1. \A j \in Sem : j # i => sem[j].lock # p
      BY <1>2, Names DEF EndsInv, LocksAreHeld, Locked
    <2> QED BY <1>5, <1>8, <2>1, LocksOfOthers
  <1> QED BY <1>1, <1>2, <1>5, <1>8, <1>9, AfterEnds

(* The shell's steps *)

\* The shell starts a process.
LEMMA OpenEnds ==
  ASSUME EndsInv, PipeType, NEW p \in Process, pipe_open_by_id(p)
  PROVE  EndsInv'
  <1>0. /\ proc[p].pc = "new" /\ shell.pc = "idle" /\ cpu = Nobody /\ cpu' = cpu
        /\ SemType(sem) /\ "mutex" \in Sem /\ Shell \in Sleeper
        /\ "terminal" \in PC
    BY KeptIs DEF pipe_open_by_id, ShellRuns, Sem, Sleeper, PC
  <1>1. CASE ~pipe.used /\ Go(p, "terminal") /\ UNCHANGED <<pipe, sem, shell>>
    <2>1. /\ Only(p) /\ proc' \in [Process -> process_t] /\ proc'[p].pc = "terminal"
          /\ proc'[p].todo = proc[p].todo
      BY <1>0, <1>1, GoIs
    <2>2. proc[p].todo = <<>> /\ <<>> \notin Before
      BY <1>0, BeforeIs DEF EndsInv, TodoByPc
    <2>3. TodoByPc(p)'
      BY <2>1, <2>2 DEF TodoByPc
    <2>4. EndsType'
      BY <1>0, <1>1, <2>1 DEF EndsInv, EndsType
    <2>5. ShellKnows'
      BY <1>0, <1>1 DEF EndsInv, ShellKnows
    <2> QED BY <1>1, <2>1, <2>3, <2>4, <2>5, KeptIs, WithoutPipe
  <1>2. CASE UNCHANGED <<pipe, sem, proc, shell>>
    BY <1>0, <1>2, NothingEnds
  <1>3. CASE /\ pipe.used /\ sem' = sem_wait_by_id(sem, "mutex", Shell)
             /\ ShellGoes("opening", p) /\ UNCHANGED <<pipe, proc>>
    <2>1. Kept(sem, sem')
      BY <1>0, <1>3, WaitEffect
    <2>2. shell' = [pc |-> "opening", p |-> p]
      BY <1>3 DEF ShellGoes
    <2>3. EndsType'
      BY <1>0, <1>3, <2>1, <2>2 DEF EndsInv, EndsType, Kept
    <2>4. ShellKnows'
      BY <1>0, <1>3, <2>2 DEF ShellKnows
    <2> QED BY <1>3, <2>1, <2>3, <2>4, ShellOnly
  <1>4. CASE Opened(p) /\ sem' = sem
    BY <1>0, <1>4, KeptIs, OpenedEnds
  <1> QED BY <1>1, <1>2, <1>3, <1>4 DEF pipe_open_by_id

\* The shell goes on with it.
LEMMA OpenResumesEnds ==
  ASSUME EndsInv, PipeType, open_resumes
  PROVE  EndsInv'
  <1>1. /\ shell.p \in Process /\ proc[shell.p].pc = "new" /\ cpu = Nobody /\ cpu' = cpu
    BY DEF open_resumes, ShellRuns, EndsInv, ShellKnows
  <1>2. CASE UNCHANGED <<pipe, sem, proc, shell>>
    BY <1>1, <1>2, NothingEnds
  <1>3. CASE Opened(shell.p) /\ sem' = Unlocked
    BY <1>1, <1>3, KeptIs, OpenedEnds
  <1> QED BY <1>2, <1>3 DEF open_resumes

\* The shell kills the left side of the pipeline.
LEMMA KillEnds ==
  ASSUME EndsInv, PipeType, NEW p \in Process, kill(p)
  PROVE  EndsInv'
  <1>0. /\ Writers = {p} /\ shell.pc = "idle" /\ cpu = Nobody /\ cpu' = cpu
        /\ \A r \in Readers : proc[r].pc \in {"new", "terminal", "finished"}
        /\ proc[p].pc \notin {"new", "terminal", "finished", "killed"}
        /\ SemType(sem) /\ "mutex" \in Sem /\ Shell \in Sleeper
        /\ "killed" \in PC
    BY KeptIs DEF kill, ShellRuns, Sem, Sleeper, PC
  <1>1. CASE ~pipe.used /\ Go(p, "killed") /\ ShellGoes("done", Nobody) /\ UNCHANGED <<pipe, sem>>
    <2>1. /\ Only(p) /\ proc' \in [Process -> process_t] /\ proc'[p].pc = "killed"
          /\ proc'[p].todo = proc[p].todo
      BY <1>0, <1>1, GoIs
    <2>2. proc[p].todo \notin Before
      BY <1>1 DEF EndsInv, TodoByPc
    <2>3. TodoByPc(p)'
      BY <2>1, <2>2 DEF TodoByPc
    <2>4. shell' = [pc |-> "done", p |-> Nobody]
      BY <1>1 DEF ShellGoes
    <2>5. EndsType'
      BY <1>0, <1>1, <2>1, <2>4 DEF EndsInv, EndsType
    <2>6. ShellKnows'
      BY <1>1, <2>4 DEF ShellKnows
    <2> QED BY <1>1, <2>1, <2>3, <2>5, <2>6, KeptIs, WithoutPipe
  <1>2. CASE UNCHANGED <<pipe, sem, proc, shell>>
    BY <1>0, <1>2, NothingEnds
  <1>3. CASE /\ pipe.used /\ sem' = sem_wait_by_id(sem, "mutex", Shell)
             /\ ShellGoes("killing", p) /\ UNCHANGED <<pipe, proc>>
    <2>1. Kept(sem, sem')
      BY <1>0, <1>3, WaitEffect
    <2>2. shell' = [pc |-> "killing", p |-> p]
      BY <1>3 DEF ShellGoes
    <2>3. EndsType'
      BY <1>0, <1>3, <2>1, <2>2 DEF EndsInv, EndsType, Kept
    <2>4. ShellKnows'
      BY <1>0, <1>3, <2>2 DEF ShellKnows
    <2> QED BY <1>3, <2>1, <2>3, <2>4, ShellOnly
  <1>4. CASE pipe.used /\ ~Locked("mutex") /\ Killed(p, sem)
    BY <1>0, <1>4, KeptIs, KilledEnds
  <1> QED BY <1>1, <1>2, <1>3, <1>4 DEF kill

\* The shell goes on with that.
LEMMA KillResumesEnds ==
  ASSUME EndsInv, PipeType, kill_resumes
  PROVE  EndsInv'
  <1>1. /\ Writers = {shell.p} /\ cpu = Nobody /\ cpu' = cpu
        /\ proc[shell.p].pc \notin {"new", "terminal"}
        /\ \A r \in Readers : proc[r].pc \in {"new", "terminal", "finished"}
    BY DEF kill_resumes, ShellRuns, EndsInv, ShellKnows
  <1>2. CASE UNCHANGED <<pipe, sem, proc, shell>>
    BY <1>1, <1>2, NothingEnds
  <1>3. CASE ~(pipe.used /\ Locked("mutex")) /\ Killed(shell.p, Unlocked)
    BY <1>1, <1>3, KeptIs, KilledEnds
  <1> QED BY <1>2, <1>3 DEF kill_resumes

\* Every step keeps the account of the ends.
LEMMA NextEnds ==
  ASSUME EndsInv, PipeType, [Next]_vars
  PROVE  EndsInv'
  <1>1. CASE UNCHANGED vars
    BY <1>1, NothingEnds DEF vars
  <1>2. CASE \E p \in Process :
               \/ pipe_open_by_id(p)
               \/ kill(p)
               \/ \E n \in 1..MaxChunk : (p \in Writers => sent + n <= MaxBytes) /\ call(p, n)
               \/ exit(p)
               \/ Step(p)
    <2> PICK p \in Process :
               \/ pipe_open_by_id(p)
               \/ kill(p)
               \/ \E n \in 1..MaxChunk : (p \in Writers => sent + n <= MaxBytes) /\ call(p, n)
               \/ exit(p)
               \/ Step(p)
      BY <1>2
    <2>1. CASE pipe_open_by_id(p)
      BY <2>1, OpenEnds
    <2>2. CASE kill(p)
      BY <2>2, KillEnds
    <2>3. CASE exit(p)
      BY <2>3, ExitEnds
    <2>4. CASE \E n \in 1..MaxChunk : call(p, n)
      BY <2>4, CallEnds
    <2>5. CASE resume(p) \/ enter(p) \/ pipe_read(p) \/ pipe_write(p)
      BY <2>5, CallEnds
    <2>6. CASE close_counts(p)
      BY <2>6, CountsEnds
    <2>7. CASE close_locks(p)
      BY <2>7, LocksEnds
    <2>8. CASE close_does(p)
      BY <2>8, DoesWait, DoesAfter
    <2>9. CASE close_blocks(p)
      BY <2>9, BlocksEnds
    <2> QED BY <2>1, <2>2, <2>3, <2>4, <2>5, <2>6, <2>7, <2>8, <2>9 DEF Step
  <1>3. CASE ShellStep
    BY <1>3, OpenResumesEnds, KillResumesEnds DEF ShellStep
  <1> QED BY <1>1, <1>2, <1>3 DEF Next

\* While the pipe is open no wait fails.
LEMMA WaitsOrRuns ==
  ASSUME EndsInv, pipe.used, NEW p \in Process, NEW s, Kept(sem, s), NEW i \in Sem,
         NEW next \in PC, NEW asleep \in PC, WaitFor(s, i, p, next, asleep)
  PROVE  proc'[p].pc \in {next, asleep}
  <1>1. Exists(s, i)
    BY DEF EndsInv, Held, Kept, Exists
  <1>2. Go(p, next) \/ Go(p, asleep)
    BY <1>1 DEF WaitFor
  <1> QED BY <1>2, GoIs

\* The only way to return 0 from an open pipe is the end of the data.
LEMMA ZeroIsFinal ==
  ASSUME IInv, EndsInv, Next, NEW r \in Readers, pipe.used, ReturnsZero(r)
  PROVE  /\ got = sent
         /\ \A w \in Writers :
              proc[w].pc \in {"new", "terminal", "closing", "finished", "killed"}
  <1>1. /\ cpu = r /\ r \in Process /\ r # Nobody /\ r \notin Writers /\ proc[r].done = 0
        /\ proc'[r].pc = "user" /\ pipe' = pipe
    BY Names DEF ReturnsZero
  <1>2. proc[r].pc \in {"loop", "held"}
    BY <1>1 DEF EndsInv, EndsType
  <1>3. enter(r) \/ pipe_read(r)
    <2>1. ~open_resumes /\ ~kill_resumes
      BY <1>1 DEF open_resumes, kill_resumes, ShellRuns
    <2>2. ASSUME NEW p
          PROVE  ~pipe_open_by_id(p) /\ ~kill(p) /\ ~exit(p) /\ \A n : ~call(p, n)
      BY <1>1 DEF pipe_open_by_id, kill, exit, call, CanRun, ShellRuns
    <2>3. ASSUME NEW p PROVE ~resume(p) /\ ~Closing(p)
      BY <1>1 DEF resume, Closing, CanRun
    <2>4. ASSUME NEW p
          PROVE  ~close_counts(p) /\ ~close_locks(p) /\ ~close_does(p) /\ ~close_blocks(p)
      BY <2>3 DEF close_counts, close_locks, close_does, close_blocks
    <2>5. ASSUME NEW p
          PROVE  /\ enter(p) => p = r
                 /\ pipe_read(p) => p = r
                 /\ ~pipe_write(p)
      BY <1>1 DEF enter, pipe_read, pipe_write
    <2>6. \E p \in Process : enter(p) \/ pipe_read(p) \/ pipe_write(p)
      BY <2>1, <2>2, <2>3, <2>4 DEF Next, Step, ShellStep
    <2> QED BY <2>5, <2>6
  <1>4. /\ {"loop", "held", "wait_mutex", "wait_item"} \subseteq PC
        /\ "mutex" \in Sem /\ "items" \in Sem
    BY DEF PC, InCall, Sem
  <1>5. ~Hangs
    BY <1>1, <1>2 DEF Hangs
  <1>6. ~enter(r)
    <2>1. enter(r) => WaitFor(sem, "mutex", r, "held", "wait_mutex")
      BY <1>5 DEF enter
    <2>2. Kept(sem, sem)
      BY KeptIs
    <2>3. ASSUME WaitFor(sem, "mutex", r, "held", "wait_mutex")
          PROVE  proc'[r].pc \in {"held", "wait_mutex"}
      BY <1>1, <1>4, <2>2, <2>3, WaitsOrRuns
    <2> QED BY <1>1, <2>1, <2>3
  <1>7. ~WaitFor(Unlocked, "items", r, "loop", "wait_item")
    <2>1. Kept(sem, Unlocked)
      BY KeptIs
    <2>2. ASSUME WaitFor(Unlocked, "items", r, "loop", "wait_item")
          PROVE  proc'[r].pc \in {"loop", "wait_item"}
      BY <1>1, <1>4, <2>1, <2>2, WaitsOrRuns
    <2> QED BY <1>1, <2>2
  <1>8. pipe \in pipe_t /\ pipe.count \in Nat /\ sent \in Nat /\ got \in Nat
    BY DEF IInv, PipeType, pipe_t, Count
  <1>9. AtEnd
    <2>1. pipe' # [pipe EXCEPT !.read_pos = Ahead(@), !.count = @ - 1]
      <3>a. SUFFICES ASSUME pipe' = [pipe EXCEPT !.read_pos = Ahead(@), !.count = @ - 1]
                     PROVE  FALSE
        OBVIOUS
      <3> DEFINE pos == Ahead(pipe.read_pos)
                 n == pipe.count - 1
      <3>0. pipe' = [pipe EXCEPT !.read_pos = pos, !.count = n]
        BY <3>a
      <3> HIDE DEF pos, n
      <3>0a. pipe'.count = n
        BY <1>8, <3>0 DEF pipe_t
      <3>1. pipe'.count = pipe.count - 1
        BY <3>0a DEF n
      <3>2. pipe'.count = pipe.count
        BY <1>1
      <3> QED BY <1>8, <3>1, <3>2
    <2> QED BY <1>1, <1>3, <1>5, <1>6, <1>7, <2>1 DEF pipe_read
  <1>10. got = sent
    BY <1>8, <1>9 DEF AtEnd, IInv, RingIsFifo
  <1>11. AtEnds(Writers) = {}
    <2>1. pipe.used /\ pipe.writers = 0
      BY <1>1, <1>9 DEF AtEnd
    <2>2. Counts(pipe.writers, AtEnds(Writers))
      BY <2>1 DEF EndsInv, Counted
    <2> QED BY <2>1, <2>2, CountZero
  <1>12. ASSUME NEW w \in Writers
         PROVE  proc[w].pc \in {"new", "terminal", "closing", "finished", "killed"}
    <2>1. ~HasEnd(w) /\ w \in Process
      BY <1>11, Names DEF AtEnds
    <2>2. proc[w].pc \in PC
      BY <2>1 DEF EndsInv, EndsType, process_t
    <2> QED BY <2>1, <2>2 DEF HasEnd, PC
  <1> QED BY <1>10, <1>12

\* The account of the ends, and the order of the bytes, hold in every state.
LEMMA EndsHold == Spec => [](IInv /\ EndsInv)
  <1>1. IInv => PipeType
    BY DEF IInv
  <1>2. IInv /\ EndsInv /\ [Next]_vars => (IInv /\ EndsInv)'
    BY <1>1, NextFifo, NextEnds
  <1> QED BY <1>2, InitFifo, InitEnds, PTL DEF Spec

\* Whoever was at an end has left it: nothing of the pipe is left.
THEOREM PipeIsFreed == Spec => []NothingIsLeaked
  <1>1. EndsInv => NothingIsLeaked
    <2> SUFFICES ASSUME EndsInv, \A p \in Process : Gone(p)
                 PROVE  ~pipe.used /\ \A i \in Sem : ~sem[i].used /\ ~Locked(i)
      BY DEF NothingIsLeaked
    <2>1. ASSUME NEW p \in Process
          PROVE  proc[p].todo = <<>> /\ ~HasEnd(p) /\ (proc[p].pc = "new" => shell.pc = "done")
      <3>1. proc[p].pc \in {"finished", "terminal", "killed", "new"}
            /\ (proc[p].pc = "new" => shell.pc = "done")
            /\ (proc[p].pc = "killed" => proc[p].todo = <<>>)
        BY DEF Gone
      <3>2. proc[p].todo = <<>>
        BY <3>1 DEF EndsInv, TodoByPc
      <3> QED BY <3>1, <3>2 DEF HasEnd, InCall
    <2>2. ~pipe.used
      <3>1. \E p : p \in Process
        BY PipeAssumption DEF Process
      <3> QED BY <2>1, <3>1 DEF EndsInv, Held, ShellKnows
    <2>3. ASSUME NEW i \in Sem PROVE ~sem[i].used
      <3>1. \A p \in Process : ~Closes(p, i)
        BY <2>1 DEF Closes
      <3> QED BY <2>2, <3>1 DEF EndsInv, Held
    <2>4. ASSUME NEW i \in Sem PROVE ~Locked(i)
      <3>1. sem[i].lock \in Process \cup {Nobody}
        BY DEF EndsInv, EndsType, SemType, semaphore_t
      <3> QED BY <2>1, <3>1 DEF EndsInv, LocksAreHeld, Locked
    <2> QED BY <2>2, <2>3, <2>4
  <1> QED BY <1>1, EndsHold, PTL

\* A read that returns 0 is final: every byte that was sent has been read, and
\* no writer has the pipe open.
THEOREM PipeEndIsFinal == Spec => EndIsFinal
  <1>1. IInv /\ EndsInv /\ [Next]_vars =>
          [\A r \in Readers : pipe.used /\ ReturnsZero(r) =>
             /\ got = sent
             /\ \A w \in Writers :
                  proc[w].pc \in {"new", "terminal", "closing", "finished", "killed"}]_vars
    BY ZeroIsFinal
  <1> QED BY <1>1, EndsHold, PTL DEF Spec, EndIsFinal

=============================================================================
