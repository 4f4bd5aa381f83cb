---------------------------- MODULE ConsoleProofs ----------------------------
(***************************************************************************)
(* The keyboard's ring is the sequence of the bytes that were accepted and *)
(* not read yet, for any size of the ring and any keys.                    *)
(***************************************************************************)
EXTENDS Console, TLAPS

N == BUFFER_SIZE

\* What a key can put into the ring.
Glyph == {scancode_table(key)[i] : key \in Keys, i \in 1..2}

Byte == Glyph \cup {Upper(c) : c \in Glyph} \cup {EOT}

ring_t == [buffer : [Index -> Byte \cup {NUL}], readIndex : Index,
           writeIndex : Index, size : 0..N]

\* Byte number i of the ring, counted from readIndex.
Place(r, i) == (r + i - 1) % N

RingType == ring \in ring_t /\ queue \in Seq(Byte)

\* The inductive invariant: the next byte goes behind the last one.
RingInv ==
  /\ RingType
  /\ ring.writeIndex = Place(ring.readIndex, ring.size + 1)
  /\ RingIsSequence

\* The ring has room.
LEMMA NIsPositive == N \in Nat /\ N > 0
  BY ConsoleAssumption DEF N

\* The positions of the ring: the remainder of less than two turns.
LEMMA PlaceOnRing ==
  ASSUME NEW r \in Index, NEW i \in 1..(N + 1)
  PROVE  /\ Place(r, i) \in Index
         /\ Place(r, i) = IF r + i - 1 < N THEN r + i - 1 ELSE r + i - 1 - N
  <1>1. N \in Nat /\ N > 0 /\ r \in 0..(N - 1)
    BY NIsPositive DEF Index, N
  <1> DEFINE x == r + i - 1
  <1>2. x \in Nat /\ x < 2 * N
    BY <1>1
  <1>3. x % N = IF x < N THEN x ELSE x - N
    <2> HIDE DEF x
    <2> QED BY <1>1, <1>2
  <1> QED BY <1>1, <1>2, <1>3 DEF Place, Index, N

\* The position after a position.
LEMMA FollowOnRing ==
  ASSUME NEW r \in Index
  PROVE  Follow(r) \in Index /\ Follow(r) = IF r = N - 1 THEN 0 ELSE r + 1
  <1>1. N \in Nat /\ N > 0 /\ r \in 0..(N - 1)
    BY NIsPositive DEF Index, N
  <1>2. 2 \in 1..(N + 1) /\ r + 2 - 1 = r + 1
    BY <1>1
  <1>3. Place(r, 2) = Follow(r)
    BY <1>2 DEF Place, Follow, N
  <1> QED BY <1>1, <1>2, <1>3, PlaceOnRing

\* Reading moves the place of every byte by one.
LEMMA PlaceFollows ==
  ASSUME NEW r \in Index, NEW i \in 1..N
  PROVE  /\ Place(Follow(r), i) = Place(r, i + 1)
         /\ Place(r, i + 1) = Follow(Place(r, i))
  <1>1. /\ N \in Nat /\ N > 0 /\ r \in 0..(N - 1)
        /\ i \in 1..(N + 1) /\ i + 1 \in 1..(N + 1)
    BY NIsPositive DEF Index, N
  <1>2. Follow(r) \in Index /\ Follow(r) = IF r = N - 1 THEN 0 ELSE r + 1
    BY FollowOnRing
  <1>3. Place(r, i) \in Index /\ Place(r, i) = IF r + i - 1 < N THEN r + i - 1 ELSE r + i - 1 - N
    BY <1>1, PlaceOnRing
  <1>4. Place(r, i + 1) = IF r + (i + 1) - 1 < N THEN r + (i + 1) - 1 ELSE r + (i + 1) - 1 - N
    BY <1>1, PlaceOnRing
  <1>5. Place(Follow(r), i)
          = IF Follow(r) + i - 1 < N THEN Follow(r) + i - 1 ELSE Follow(r) + i - 1 - N
    BY <1>1, <1>2, PlaceOnRing
  <1>6. Follow(Place(r, i)) = IF Place(r, i) = N - 1 THEN 0 ELSE Place(r, i) + 1
    BY <1>3, FollowOnRing
  <1>7. Place(Follow(r), i) = Place(r, i + 1)
    BY <1>1, <1>2, <1>4, <1>5
  <1>8. Place(r, i + 1) = Follow(Place(r, i))
    BY <1>1, <1>3, <1>4, <1>6
  <1> QED BY <1>7, <1>8

\* Bytes less than one turn apart have different places.
LEMMA PlaceInjective ==
  ASSUME NEW r \in Index, NEW i \in 1..N, NEW j \in 1..N, Place(r, i) = Place(r, j)
  PROVE  i = j
  <1>1. /\ N \in Nat /\ N > 0 /\ r \in 0..(N - 1) /\ i \in 1..(N + 1) /\ j \in 1..(N + 1)
    BY NIsPositive DEF Index, N
  <1> DEFINE PlaceOf(x) == IF r + x - 1 < N THEN r + x - 1 ELSE r + x - 1 - N
  <1>2. Place(r, i) = PlaceOf(i) /\ Place(r, j) = PlaceOf(j)
    BY <1>1, PlaceOnRing
  <1>3. PlaceOf(i) = PlaceOf(j) => i = j
    BY <1>1
  <1> QED BY <1>2, <1>3

-----------------------------------------------------------------------------
\* A key of the table yields a byte.
LEMMA KeyIsByte ==
  ASSUME NEW key \in Keys
  PROVE  scToAscii(key) \in Byte
  <1> DEFINE i == IF flags.activeShift THEN 2 ELSE 1
             c == scancode_table(key)[i]
  <1>1. i \in 1..2
    OBVIOUS
  <1> HIDE DEF i
  <1>2. c \in Glyph
    BY <1>1 DEF Glyph
  <1> HIDE DEF c
  <1>3. c \in Byte /\ Upper(c) \in Byte
    BY <1>2 DEF Byte
  <1> QED BY <1>3 DEF scToAscii, c, i

\* The ring starts empty.
LEMMA InitRing == Init => RingInv
  <1> SUFFICES ASSUME Init PROVE RingInv
    OBVIOUS
  <1>1. N \in Nat /\ N > 0 /\ 0 \in Index
    BY NIsPositive DEF Index, N
  <1>2. RingType
    BY <1>1 DEF Init, RingType, ring_t
  <1>3. Place(0, 1) = 0
    BY <1>1, PlaceOnRing
  <1>4. ring.writeIndex = Place(ring.readIndex, ring.size + 1)
    BY <1>3 DEF Init
  <1>5. RingIsSequence
    BY DEF Init, RingIsSequence
  <1> QED BY <1>2, <1>4, <1>5 DEF RingInv

\* buffer_push stores a byte behind the others, or drops it.
LEMMA PushKeeps ==
  ASSUME RingInv, NEW c \in Byte, Push(c)
  PROVE  RingInv'
  <1> DEFINE r == ring.readIndex
             w == ring.writeIndex
             n == ring.size
  <1>1. /\ N \in Nat /\ N > 0 /\ ring \in ring_t /\ queue \in Seq(Byte)
        /\ r \in Index /\ w \in Index /\ n \in 0..N /\ Len(queue) = n
        /\ ring.buffer \in [Index -> Byte \cup {NUL}] /\ w = Place(r, n + 1)
    BY NIsPositive DEF RingInv, RingType, ring_t, RingIsSequence
  <1>2. CASE buffer_full(ring)
    BY <1>2 DEF Push, buffer_push, RingInv, RingType, RingIsSequence
  <1>3. CASE ~buffer_full(ring)
    <2>1. n \in 0..(N - 1) /\ n + 1 \in 1..N
      BY <1>1, <1>3 DEF buffer_full, N
    <2>2. Follow(w) \in Index /\ Follow(w) = Place(r, n + 2)
      <3>1. n + 1 + 1 = n + 2
        BY <1>1
      <3> QED BY <1>1, <2>1, <3>1, FollowOnRing, PlaceFollows
    <2>3. /\ ring' = [ring EXCEPT !.buffer[w] = c, !.writeIndex = Follow(w), !.size = n + 1]
          /\ queue' = Append(queue, c)
      BY <1>3 DEF Push, buffer_push
    <2> DEFINE b == [ring.buffer EXCEPT ![w] = c]
    <2>4. ring' = [buffer |-> b, readIndex |-> r, writeIndex |-> Follow(w), size |-> n + 1]
      BY <1>1, <2>3 DEF ring_t
    <2>5. /\ ring' \in ring_t /\ ring'.readIndex = r /\ ring'.writeIndex = Follow(w)
          /\ ring'.size = n + 1 /\ ring'.buffer = [ring.buffer EXCEPT ![w] = c]
      <3>1. b \in [Index -> Byte \cup {NUL}] /\ n + 1 \in 0..N
        BY <1>1, <2>1
      <3> HIDE DEF b, r, w, n
      <3>2. ring' \in ring_t
        BY <1>1, <2>2, <2>4, <3>1 DEF ring_t
      <3> QED BY <2>4, <3>2 DEF b
    <2>6. /\ queue' \in Seq(Byte) /\ Len(queue') = n + 1
          /\ \A i \in 1..n : queue'[i] = queue[i]
          /\ queue'[n + 1] = c
      BY <1>1, <2>3
    <2>7. ASSUME NEW i \in 1..(n + 1) PROVE queue'[i] = ring'.buffer[Place(r, i)]
      <3>1. CASE i = n + 1
        BY <1>1, <2>5, <2>6, <3>1
      <3>2. CASE i # n + 1
        <4>1. i \in 1..n /\ i \in 1..N /\ i \in 1..(N + 1)
          BY <1>1, <2>1, <3>2
        <4>2. Place(r, i) \in Index /\ Place(r, i) # w
          BY <1>1, <2>1, <3>2, <4>1, PlaceOnRing, PlaceInjective, SMTT(30)
        <4>3. queue[i] = ring.buffer[Place(r, i)]
          BY <1>1, <4>1 DEF RingInv, RingIsSequence, Place, N
        <4> QED BY <1>1, <2>5, <2>6, <4>1, <4>2, <4>3
      <3> QED BY <3>1, <3>2
    <2>8. ring'.writeIndex = Place(ring'.readIndex, ring'.size + 1)
      <3>1. n + 1 + 1 = n + 2
        BY <1>1
      <3> QED BY <2>2, <2>5, <3>1
    <2>9. RingIsSequence'
      BY <2>5, <2>6, <2>7 DEF RingIsSequence, Place, N
    <2> QED BY <2>5, <2>6, <2>8, <2>9 DEF RingInv, RingType
  <1> QED BY <1>2, <1>3

\* buffer_pop takes the first byte.
LEMMA PopKeeps ==
  ASSUME RingInv, NEW c, getchar(c)
  PROVE  RingInv'
  <1> DEFINE r == ring.readIndex
             n == ring.size
  <1>1. /\ N \in Nat /\ N > 0 /\ ring \in ring_t /\ queue \in Seq(Byte)
        /\ r \in Index /\ n \in 1..N /\ Len(queue) = n
        /\ ring.writeIndex = Place(r, n + 1)
    BY NIsPositive DEF RingInv, RingType, ring_t, RingIsSequence, getchar, reading, buffer_empty
  <1>2. ring' = [ring EXCEPT !.readIndex = Follow(r), !.size = n - 1] /\ queue' = Tail(queue)
    BY DEF getchar, reading, buffer_pop
  <1>3. Follow(r) \in Index
    BY <1>1, FollowOnRing
  <1>4. /\ ring' \in ring_t /\ ring'.readIndex = Follow(r) /\ ring'.size = n - 1
        /\ ring'.writeIndex = ring.writeIndex /\ ring'.buffer = ring.buffer
    <2>1. ring' = [buffer |-> ring.buffer, readIndex |-> Follow(r),
                   writeIndex |-> ring.writeIndex, size |-> n - 1]
      BY <1>1, <1>2 DEF ring_t
    <2>2. n - 1 \in 0..N
      BY <1>1
    <2> HIDE DEF r, n
    <2>3. ring' \in ring_t
      BY <1>1, <1>3, <2>1, <2>2 DEF ring_t
    <2> QED BY <2>1, <2>3
  <1>5. /\ queue' \in Seq(Byte) /\ Len(queue') = n - 1
        /\ \A i \in 1..(n - 1) : queue'[i] = queue[i + 1]
    BY <1>1, <1>2
  <1>6. ASSUME NEW i \in 1..(n - 1) PROVE queue'[i] = ring'.buffer[Place(Follow(r), i)]
    <2>1. i \in 1..N /\ i + 1 \in 1..n
      BY <1>1
    <2>2. queue[i + 1] = ring.buffer[Place(r, i + 1)]
      BY <1>1, <2>1 DEF RingInv, RingIsSequence, Place, N
    <2> QED BY <1>1, <1>4, <1>5, <2>1, <2>2, PlaceFollows, SMTT(30)
  <1>7. ring'.writeIndex = Place(ring'.readIndex, ring'.size + 1)
    <2>1. n - 1 + 1 = n
      BY <1>1
    <2> QED BY <1>1, <1>4, <2>1, PlaceFollows
  <1>8. RingIsSequence'
    BY <1>4, <1>5, <1>6 DEF RingIsSequence, Place, N
  <1> QED BY <1>4, <1>5, <1>7, <1>8 DEF RingInv, RingType

\* Ctrl+C empties the ring.
LEMMA ClearKeeps ==
  ASSUME RingInv, ring' = buffer_clear(ring), queue' = <<>>
  PROVE  RingInv'
  <1>1. N \in Nat /\ N > 0 /\ 0 \in Index /\ ring \in ring_t
    BY NIsPositive DEF Index, N, RingInv, RingType
  <1>2. /\ ring' \in ring_t /\ ring'.readIndex = 0 /\ ring'.writeIndex = 0 /\ ring'.size = 0
    BY <1>1 DEF buffer_clear, ring_t
  <1>3. Place(0, 1) = 0
    BY <1>1, PlaceOnRing
  <1>4. queue' \in Seq(Byte) /\ Len(queue') = 0
    OBVIOUS
  <1>5. RingIsSequence'
    BY <1>2, <1>4 DEF RingIsSequence
  <1> QED BY <1>2, <1>3, <1>4, <1>5 DEF RingInv, RingType

\* Every key, every read and every step of the shell keep the ring a queue.
LEMMA NextRing == RingInv /\ [Next]_vars => RingInv'
  <1> SUFFICES ASSUME RingInv, [Next]_vars PROVE RingInv'
    OBVIOUS
  <1>1. CASE UNCHANGED <<ring, queue>>
    BY <1>1 DEF RingInv, RingType, RingIsSequence
  <1>2. ASSUME NEW key \in Keys, key_pressed(key) PROVE RingInv'
    <2> DEFINE c == scToAscii(key)
               d == IF flags.activeCtrl /\ c \in {"d", "D"} THEN EOT ELSE c
               kills == flags.activeCtrl /\ c \in {"c", "C"}
    <2>1. d \in Byte
      BY KeyIsByte DEF Byte
    <2>2. (CASE ~kills -> Push(d)
             [] kills /\ shell.state # "ended" -> ring' = buffer_clear(ring) /\ queue' = <<>>
             [] OTHER -> UNCHANGED <<ring, queue>>)
      BY <1>2 DEF key_pressed
    <2> HIDE DEF d, kills
    <2>3. CASE Push(d)
      BY <2>1, <2>3, PushKeeps
    <2>4. CASE ring' = buffer_clear(ring) /\ queue' = <<>>
      BY <2>4, ClearKeeps
    <2> QED BY <1>1, <2>2, <2>3, <2>4
  <1>3. ASSUME NEW flag, modifier(flag) PROVE RingInv'
    BY <1>1, <1>3 DEF modifier
  <1>4. CASE ignores_eot \/ erases \/ ends \/ \E c : types(c)
    BY <1>4, PopKeeps DEF ignores_eot, erases, ends, types
  <1>5. CASE fails \/ goes_on \/ exits \/ \E n : runs(n)
    BY <1>1, <1>5 DEF fails, goes_on, exits, runs
  <1>6. CASE UNCHANGED vars
    BY <1>1, <1>6 DEF vars
  <1> QED BY <1>2, <1>3, <1>4, <1>5, <1>6 DEF Next

\* keyBoardDriver.c loses, repeats and reorders no byte between the interrupt
\* that accepts it and the read that takes it: the ring is the queue of the
\* accepted bytes, whatever its size and wherever its indices have wrapped.
THEOREM RingIsQueue == Spec => []RingIsSequence
  <1>1. RingInv => RingIsSequence
    BY DEF RingInv
  <1> QED BY <1>1, InitRing, NextRing, PTL DEF Spec

=============================================================================
