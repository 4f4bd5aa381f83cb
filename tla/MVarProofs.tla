----------------------------- MODULE MVarProofs -----------------------------
(***************************************************************************)
(* mvar holds at most one value, and nobody sleeps inside its pipe, for    *)
(* any number of writers and readers.                                      *)
(*                                                                         *)
(* The argument: the two semaphores `slots' and `items' share one token.   *)
(* Either it is in one of them, or exactly one process holds it, so that   *)
(* the mutex is never contended and the pipe has a byte exactly while the  *)
(* token is on the items' side.  That the token is never given twice needs *)
(* the queues: a process is asleep exactly while it is, once, in the queue *)
(* of its own semaphore, and that semaphore is then empty.                 *)
(***************************************************************************)
EXTENDS MVar, FiniteSetTheorems, TLAPS

Sem == [used : BOOLEAN, value : Nat, refcount : Int, queue : Seq(Process)]

Names == {"slots", "items", "mutex", NoName}

UType ==
  [user_sem_names : [Index -> Names], user_sem_ids : [Index -> Int],
   sem : [Id -> Sem], next_sem_id : Nat \ {0}, asleep : SUBSET Process]

PC == {"none", "absent", "open", "dup", "loop", "mutex", "transfer", "post", "pass"}

\* Elements of a queue, and that none is there twice.
Elems(q) == {q[j] : j \in 1..Len(q)}
Distinct(q) == \A i, j \in 1..Len(q) : q[i] = q[j] => i = j

\* No semaphore has a name.
NoneOpen(m) ==
  /\ \A i \in Index : m.user_sem_names[i] = NoName
  /\ \A id \in Id : m.sem[id] = FreeSemaphore
  /\ m.asleep = {}

\* The semaphore of the n-th name.
Nth(m, n) == m.sem[m.user_sem_ids[n]]

\* The three semaphores of mvar are open.
AllOpen(m) ==
  /\ m.user_sem_names[1] = "slots" /\ m.user_sem_names[2] = "items"
  /\ m.user_sem_names[3] = "mutex" /\ \A i \in Index \ 1..3 : m.user_sem_names[i] = NoName
  /\ \A n \in 1..3 : m.user_sem_ids[n] \in Id /\ Nth(m, n).used
  /\ \A n, l \in 1..3 : m.user_sem_ids[n] = m.user_sem_ids[l] => n = l

\* The token a process holds is on the items' side.
HasItem(p) ==
  IF proc[p].pc \in {"post", "pass"} THEN Passed(p, proc[p].ok) = "items"
  ELSE p \in Readers

\* Who waits for the slots (1) and who for the items (2).
Side(n) == IF n = 1 THEN Writers ELSE Readers

Queues ==
  /\ \A n \in 1..2 :
       /\ Elems(Nth(u, n).queue) = u.asleep \cap Side(n) /\ Distinct(Nth(u, n).queue)
       /\ Nth(u, n).queue # <<>> => Nth(u, n).value = 0
  /\ Nth(u, 3).queue = <<>>
  /\ \A p \in u.asleep : proc[p].pc = "mutex"

TokenFree ==
  /\ Holding = {} /\ Nth(u, 1).value + Nth(u, 2).value = 1 /\ Nth(u, 3).value = 1
  /\ Len(pipe.bytes) = Nth(u, 2).value

TokenHeld(h) ==
  /\ Holding = {h} /\ Nth(u, 1).value = 0 /\ Nth(u, 2).value = 0
  /\ Nth(u, 3).value = IF proc[h].pc \in {"transfer", "post"} THEN 0 ELSE 1
  /\ Len(pipe.bytes) = IF HasItem(h) THEN 1 ELSE 0

Types ==
  /\ shell \in {"idle", "creating", "done"}
  /\ u \in UType
  /\ pipe \in [bytes : Seq(Writers), readers : BOOLEAN, writers : BOOLEAN]
  /\ proc \in [Process -> [pc : PC, ok : BOOLEAN]]

\* The inductive invariant.
IInv ==
  /\ Types
  /\ shell = "idle" => /\ NoneOpen(u) /\ pipe.bytes = <<>>
                       /\ \A p \in Process : proc[p].pc = "none"
  /\ shell # "idle" => /\ AllOpen(u) /\ Queues
                       /\ TokenFree \/ \E h \in Process : TokenHeld(h)

-----------------------------------------------------------------------------
(* Queues *)

\* A process that joins a queue is its last element.
LEMMA AppendElems ==
  ASSUME NEW q \in Seq(Process), NEW x \in Process
  PROVE  /\ Append(q, x) \in Seq(Process) /\ Append(q, x) # <<>>
         /\ Elems(Append(q, x)) = Elems(q) \cup {x}
         /\ Distinct(q) /\ x \notin Elems(q) => Distinct(Append(q, x))
  <1>1. /\ Append(q, x) \in Seq(Process) /\ Len(Append(q, x)) = Len(q) + 1 /\ Len(q) \in Nat
        /\ \A j \in 1..Len(q) : Append(q, x)[j] = q[j]
        /\ Append(q, x)[Len(q) + 1] = x
    OBVIOUS
  <1>2. Append(q, x) # <<>>
    BY <1>1
  <1>3. \A j \in 1..(Len(q) + 1) : j \in 1..Len(q) \/ j = Len(q) + 1
    BY <1>1
  <1>4. 1..Len(q) \subseteq 1..(Len(q) + 1) /\ Len(q) + 1 \in 1..(Len(q) + 1)
    BY <1>1
  <1>5. Elems(Append(q, x)) = Elems(q) \cup {x}
    BY <1>1, <1>3, <1>4, Zenon DEF Elems
  <1>6. ASSUME Distinct(q), x \notin Elems(q) PROVE Distinct(Append(q, x))
    BY <1>1, <1>3, <1>4, <1>6, Zenon DEF Elems, Distinct
  <1> QED BY <1>1, <1>2, <1>5, <1>6

\* The first process leaves a queue, and the others stay.
LEMMA TailElems ==
  ASSUME NEW q \in Seq(Process), q # <<>>, Distinct(q)
  PROVE  /\ Head(q) \in Process /\ Head(q) \in Elems(q)
         /\ Tail(q) \in Seq(Process) /\ Distinct(Tail(q))
         /\ Elems(Tail(q)) = Elems(q) \ {Head(q)}
  <1>1. /\ Tail(q) \in Seq(Process) /\ Len(q) \in Nat \ {0} /\ Len(Tail(q)) = Len(q) - 1
        /\ Head(q) = q[1] /\ Head(q) \in Process
    OBVIOUS
  <1>2. \A j \in 1..Len(Tail(q)) : Tail(q)[j] = q[j + 1]
    BY <1>1
  <1>3. \A i, j \in 1..Len(q) : q[i] = q[j] => i = j
    BY DEF Distinct
  <1>4. Distinct(Tail(q))
    <2> SUFFICES ASSUME NEW i \in 1..Len(Tail(q)), NEW j \in 1..Len(Tail(q)),
                        Tail(q)[i] = Tail(q)[j]
                 PROVE  i = j
      BY DEF Distinct
    <2>1. i + 1 \in 1..Len(q) /\ j + 1 \in 1..Len(q) /\ i \in Int /\ j \in Int
      BY <1>1
    <2>2. q[i + 1] = q[j + 1]
      BY <1>2
    <2>3. i + 1 = j + 1
      BY <1>3, <2>1, <2>2
    <2> QED BY <2>1, <2>3
  <1>5. \A x \in Elems(Tail(q)) : x \in Elems(q) /\ x # Head(q)
    <2> TAKE x \in Elems(Tail(q))
    <2>1. PICK j \in 1..Len(Tail(q)) : x = Tail(q)[j]
      BY DEF Elems
    <2>2. j + 1 \in 1..Len(q) /\ 1 \in 1..Len(q) /\ j + 1 # 1
      BY <1>1
    <2>3. x = q[j + 1]
      BY <1>2, <2>1
    <2> QED BY <1>1, <1>3, <2>2, <2>3 DEF Elems
  <1>6. \A x \in Elems(q) : x # Head(q) => x \in Elems(Tail(q))
    <2> SUFFICES ASSUME NEW x \in Elems(q), x # Head(q) PROVE x \in Elems(Tail(q))
      OBVIOUS
    <2>1. PICK j \in 1..Len(q) : x = q[j]
      BY DEF Elems
    <2>2. j # 1
      BY <1>1, <2>1
    <2>3. j - 1 \in 1..Len(Tail(q)) /\ (j - 1) + 1 = j
      BY <1>1, <2>2
    <2>4. x = Tail(q)[j - 1]
      BY <1>2, <2>1, <2>3
    <2> QED BY <2>3, <2>4 DEF Elems
  <1>7. Head(q) \in Elems(q)
    <2>1. 1 \in 1..Len(q)
      BY <1>1
    <2> QED BY <1>1, <2>1 DEF Elems
  <1> QED BY <1>1, <1>4, <1>5, <1>6, <1>7

\* Nobody is in the empty queue.
LEMMA NoElems == Elems(<<>>) = {} /\ Distinct(<<>>) /\ <<>> \in Seq(Process)
  BY DEF Elems, Distinct

-----------------------------------------------------------------------------
(* Names *)

\* The arrays of lib_process.c have room for the three names of mvar.
LEMMA Indices == 1 \in Index /\ 2 \in Index /\ 3 \in Index /\ Index \subseteq Int
  BY MVarAssumption DEF Index

\* my_sem_* finds a name at the first index that holds it ...
LEMMA FirstIs ==
  ASSUME NEW m, NEW name, NEW i \in Index, m.user_sem_names[i] = name,
         \A j \in Index : m.user_sem_names[j] = name => i <= j
  PROVE  FirstWith(m, name) = i
  <1> DEFINE S == {j \in Index : m.user_sem_names[j] = name}
  <1>1. i \in S /\ \A j \in S : i <= j
    OBVIOUS
  <1>2. \A j \in S : (\A l \in S : j <= l) => j = i
    <2> SUFFICES ASSUME NEW j \in S, \A l \in S : j <= l PROVE j = i
      OBVIOUS
    <2>1. i <= j /\ j <= i /\ i \in Int /\ j \in Int
      BY <1>1, Indices
    <2> QED BY <2>1
  <1>3. (CHOOSE j \in S : \A l \in S : j <= l) = i
    BY <1>1, <1>2, Zenon
  <1>4. S # {}
    BY <1>1
  <1> QED BY <1>3, <1>4, Zenon DEF FirstWith

\* ... and finds nothing if no index does.
LEMMA NoneIs ==
  ASSUME NEW m, NEW name, \A j \in Index : m.user_sem_names[j] # name
  PROVE  FirstWith(m, name) = 0
  BY DEF FirstWith

\* The names lead to the ids.
LEMMA IdsOf ==
  ASSUME NEW m, AllOpen(m)
  PROVE  /\ IdOf(m, "slots") = m.user_sem_ids[1]
         /\ IdOf(m, "items") = m.user_sem_ids[2]
         /\ IdOf(m, "mutex") = m.user_sem_ids[3]
  <1>1. \A j \in Index : /\ m.user_sem_names[j] = "slots" <=> j = 1
                         /\ m.user_sem_names[j] = "items" <=> j = 2
                         /\ m.user_sem_names[j] = "mutex" <=> j = 3
    <2> TAKE j \in Index
    <2>1. j \in {1, 2, 3} \/ j \in Index \ 1..3
      BY Indices
    <2>2. CASE j \in {1, 2, 3}
      BY <2>2 DEF AllOpen
    <2>3. CASE j \in Index \ 1..3
      BY <2>3 DEF AllOpen, NoName
    <2> QED BY <2>1, <2>2, <2>3
  <1>2. FirstWith(m, "slots") = 1
    BY <1>1, Indices, FirstIs
  <1>3. FirstWith(m, "items") = 2
    BY <1>1, Indices, FirstIs
  <1>4. FirstWith(m, "mutex") = 3
    BY <1>1, Indices, FirstIs
  <1> QED BY <1>2, <1>3, <1>4 DEF IdOf, find_sem_index

-----------------------------------------------------------------------------
(* Semaphore operations on one of the three semaphores *)

\* What a wait of p makes of a semaphore.
Waited(s, p) ==
  IF s.value > 0 THEN [s EXCEPT !.value = @ - 1] ELSE [s EXCEPT !.queue = Append(@, p)]

Signalled(s) ==
  IF s.queue = <<>> THEN [s EXCEPT !.value = @ + 1] ELSE [s EXCEPT !.queue = Tail(@)]

\* What a wait does to one semaphore: it takes a token or joins the queue.
LEMMA WaitedIs ==
  ASSUME NEW s \in Sem, NEW p \in Process
  PROVE  /\ Waited(s, p) \in Sem /\ Waited(s, p).used = s.used
         /\ Waited(s, p).value = IF s.value > 0 THEN s.value - 1 ELSE 0
         /\ Waited(s, p).queue = IF s.value > 0 THEN s.queue ELSE Append(s.queue, p)
  <1>1. s.value \in Nat /\ s.queue \in Seq(Process)
    BY DEF Sem
  <1>2. CASE s.value > 0
    <2> DEFINE v == s.value - 1
    <2>1. v \in Nat
      BY <1>1, <1>2
    <2>2. Waited(s, p) = [s EXCEPT !.value = v]
      BY <1>2, Zenon DEF Waited
    <2> HIDE DEF v
    <2>3. /\ Waited(s, p) \in Sem /\ Waited(s, p).used = s.used
          /\ Waited(s, p).value = v /\ Waited(s, p).queue = s.queue
      BY <2>1, <2>2 DEF Sem
    <2> QED BY <1>2, <2>3, Zenon DEF v
  <1>3. CASE ~(s.value > 0)
    <2> DEFINE q == Append(s.queue, p)
    <2>1. q \in Seq(Process)
      BY <1>1, AppendElems
    <2>2. s.value = 0
      BY <1>1, <1>3
    <2>3. Waited(s, p) = [s EXCEPT !.queue = q]
      BY <1>3, Zenon DEF Waited
    <2> HIDE DEF q
    <2>4. /\ Waited(s, p) \in Sem /\ Waited(s, p).used = s.used
          /\ Waited(s, p).value = s.value /\ Waited(s, p).queue = q
      BY <2>1, <2>3 DEF Sem
    <2> QED BY <1>3, <2>2, <2>4, Zenon DEF q
  <1> QED BY <1>2, <1>3

\* What a post does to one semaphore: it wakes the first sleeper or adds a
\* token.
LEMMA SignalledIs ==
  ASSUME NEW s \in Sem
  PROVE  /\ Signalled(s) \in Sem /\ Signalled(s).used = s.used
         /\ Signalled(s).value = IF s.queue = <<>> THEN s.value + 1 ELSE s.value
         /\ Signalled(s).queue = IF s.queue = <<>> THEN <<>> ELSE Tail(s.queue)
  <1>1. s.value \in Nat /\ s.queue \in Seq(Process) /\ s.value + 1 \in Nat
    BY DEF Sem
  <1>2. CASE s.queue = <<>>
    <2> DEFINE v == s.value + 1
    <2>1. Signalled(s) = [s EXCEPT !.value = v]
      BY <1>2, Zenon DEF Signalled
    <2>2. v \in Nat
      BY <1>1
    <2> HIDE DEF v
    <2>3. /\ Signalled(s) \in Sem /\ Signalled(s).used = s.used
          /\ Signalled(s).value = v /\ Signalled(s).queue = s.queue
      BY <2>1, <2>2 DEF Sem
    <2> QED BY <1>2, <2>3, Zenon DEF v
  <1>3. CASE s.queue # <<>>
    <2> DEFINE q == Tail(s.queue)
    <2>1. Signalled(s) = [s EXCEPT !.queue = q]
      BY <1>3, Zenon DEF Signalled
    <2>2. q \in Seq(Process)
      BY <1>1, <1>3
    <2> HIDE DEF q
    <2>3. /\ Signalled(s) \in Sem /\ Signalled(s).used = s.used
          /\ Signalled(s).value = s.value /\ Signalled(s).queue = q
      BY <2>1, <2>2 DEF Sem
    <2> QED BY <1>3, <2>3, Zenon DEF q
  <1> QED BY <1>2, <1>3

\* The n-th of the open semaphores becomes s.
LEMMA Changed ==
  ASSUME NEW m \in UType, AllOpen(m), NEW n \in 1..3, NEW s \in Sem, s.used, NEW m2,
         m2.user_sem_names = m.user_sem_names, m2.user_sem_ids = m.user_sem_ids,
         m2.sem[m.user_sem_ids[n]] = s,
         \A i \in Id \ {m.user_sem_ids[n]} : m2.sem[i] = m.sem[i]
  PROVE  /\ AllOpen(m2)
         /\ \A l \in 1..3 : Nth(m2, l) = IF l = n THEN s ELSE Nth(m, l)
  <1> DEFINE id == m.user_sem_ids[n]
  <1>1. /\ id \in Id /\ m.sem \in [Id -> Sem]
        /\ \A l \in 1..3 : m.user_sem_ids[l] \in Id /\ Nth(m, l).used
        /\ \A l \in 1..3 : m.user_sem_ids[l] = id => l = n
    BY DEF AllOpen, UType
  <1>2. \A l \in 1..3 : Nth(m2, l) = IF l = n THEN s ELSE Nth(m, l)
    BY <1>1 DEF Nth
  <1>3. \A l \in 1..3 : Nth(m2, l).used
    BY <1>1, <1>2
  <1>4. AllOpen(m2)
    BY <1>3 DEF AllOpen
  <1> QED BY <1>2, <1>4

\* A wait on one of the three semaphores leaves the other two alone ...
LEMMA WaitOnOne ==
  ASSUME NEW m \in UType, AllOpen(m), NEW n \in 1..3, NEW p \in Process
  PROVE  LET m2 == sem_wait_by_id(m, m.user_sem_ids[n], p) IN
         /\ m2 \in UType /\ AllOpen(m2)
         /\ m2.asleep = IF Nth(m, n).value > 0 THEN m.asleep ELSE m.asleep \cup {p}
         /\ \A l \in 1..3 : Nth(m2, l) = IF l = n THEN Waited(Nth(m, n), p) ELSE Nth(m, l)
  <1> DEFINE id == m.user_sem_ids[n]
             m2 == sem_wait_by_id(m, m.user_sem_ids[n], p)
             s  == m.sem[id]
             a  == IF s.value > 0 THEN m.asleep ELSE m.asleep \cup {p}
  <1>1. id \in Id /\ s \in Sem /\ s.used /\ Nth(m, n) = s
    BY DEF AllOpen, UType, Nth
  <1>2. Exists(m, id)
    BY <1>1 DEF Exists
  <1>3. Waited(s, p) \in Sem /\ Waited(s, p).used
    BY <1>1, WaitedIs
  <1>4. a \in SUBSET Process
    BY DEF UType
  <1>5. m2 = [m EXCEPT !.sem[id] = Waited(s, p), !.asleep = a]
    <2>1. CASE s.value > 0
      <3>1. m2 = [m EXCEPT !.sem[id].value = @ - 1]
        BY <1>2, <2>1 DEF sem_wait_by_id
      <3>2. m2 = [m EXCEPT !.sem[id] = [s EXCEPT !.value = @ - 1], !.asleep = m.asleep]
        BY <3>1 DEF UType
      <3> QED BY <2>1, <3>2 DEF Waited
    <2>2. CASE ~(s.value > 0)
      <3>1. m2 = [m EXCEPT !.sem[id].queue = Append(@, p), !.asleep = @ \cup {p}]
        BY <1>2, <2>2 DEF sem_wait_by_id
      <3> QED BY <2>2, <3>1 DEF Waited
    <2> QED BY <2>1, <2>2
  <1> HIDE DEF a, s, id
  <1> DEFINE t == Waited(s, p)
             f == [m.sem EXCEPT ![id] = t]
  <1>6. m2 = [m EXCEPT !.sem = f, !.asleep = a]
    BY <1>5, Zenon
  <1>0. t \in Sem /\ t.used /\ id \in Id
    BY <1>1, <1>3, Zenon
  <1> HIDE DEF t, m2
  <1>7. /\ f \in [Id -> Sem] /\ f[id] = t /\ \A i \in Id \ {id} : f[i] = m.sem[i]
    BY <1>0 DEF UType
  <1> HIDE DEF f
  <1>8. /\ m2 \in UType /\ m2.asleep = a /\ m2.sem = f
        /\ m2.user_sem_names = m.user_sem_names /\ m2.user_sem_ids = m.user_sem_ids
    BY <1>4, <1>6, <1>7 DEF UType
  <1>9. AllOpen(m2) /\ \A l \in 1..3 : Nth(m2, l) = IF l = n THEN t ELSE Nth(m, l)
    BY <1>0, <1>7, <1>8, Changed DEF id
  <1>10. /\ m2 \in UType /\ AllOpen(m2) /\ m2.asleep = a
         /\ \A l \in 1..3 : Nth(m2, l) = IF l = n THEN t ELSE Nth(m, l)
    BY <1>8, <1>9
  <1> QED BY <1>1, <1>10, Zenon DEF a, t, m2

\* ... and so does a post.
LEMMA SignalOne ==
  ASSUME NEW m \in UType, AllOpen(m), NEW n \in 1..3
  PROVE  LET m2 == sem_signal_by_id(m, m.user_sem_ids[n]) IN
         /\ m2 \in UType /\ AllOpen(m2)
         /\ m2.asleep = IF Nth(m, n).queue = <<>> THEN m.asleep
                        ELSE m.asleep \ {Head(Nth(m, n).queue)}
         /\ \A l \in 1..3 : Nth(m2, l) = IF l = n THEN Signalled(Nth(m, n)) ELSE Nth(m, l)
  <1> DEFINE id == m.user_sem_ids[n]
             m2 == sem_signal_by_id(m, m.user_sem_ids[n])
             s  == m.sem[id]
             a  == IF s.queue = <<>> THEN m.asleep ELSE m.asleep \ {Head(s.queue)}
  <1>1. id \in Id /\ s \in Sem /\ s.used /\ Nth(m, n) = s
    BY DEF AllOpen, UType, Nth
  <1>2. Exists(m, id)
    BY <1>1 DEF Exists
  <1>3. Signalled(s) \in Sem /\ Signalled(s).used
    BY <1>1, SignalledIs
  <1>4. a \in SUBSET Process
    BY DEF UType
  <1>5. m2 = [m EXCEPT !.sem[id] = Signalled(s), !.asleep = a]
    <2>1. CASE s.queue = <<>>
      <3>1. m2 = [m EXCEPT !.sem[id].value = @ + 1]
        BY <1>2, <2>1 DEF sem_signal_by_id
      <3>2. m2 = [m EXCEPT !.sem[id] = [s EXCEPT !.value = @ + 1], !.asleep = m.asleep]
        BY <3>1 DEF UType
      <3> QED BY <2>1, <3>2 DEF Signalled
    <2>2. CASE s.queue # <<>>
      <3>1. m2 = [m EXCEPT !.asleep = @ \ {Head(s.queue)}, !.sem[id].queue = Tail(@)]
        BY <1>2, <2>2 DEF sem_signal_by_id
      <3>2. m2 = [m EXCEPT !.sem[id] = [s EXCEPT !.queue = Tail(@)],
                           !.asleep = m.asleep \ {Head(s.queue)}]
        BY <3>1 DEF UType
      <3> QED BY <2>2, <3>2 DEF Signalled
    <2> QED BY <2>1, <2>2
  <1> HIDE DEF a, s, id
  <1> DEFINE t == Signalled(s)
             f == [m.sem EXCEPT ![id] = t]
  <1>6. m2 = [m EXCEPT !.sem = f, !.asleep = a]
    BY <1>5, Zenon
  <1>0. t \in Sem /\ t.used /\ id \in Id
    BY <1>1, <1>3, Zenon
  <1> HIDE DEF t, m2
  <1>7. /\ f \in [Id -> Sem] /\ f[id] = t /\ \A i \in Id \ {id} : f[i] = m.sem[i]
    BY <1>0 DEF UType
  <1> HIDE DEF f
  <1>8. /\ m2 \in UType /\ m2.asleep = a /\ m2.sem = f
        /\ m2.user_sem_names = m.user_sem_names /\ m2.user_sem_ids = m.user_sem_ids
    BY <1>4, <1>6, <1>7 DEF UType
  <1>9. AllOpen(m2) /\ \A l \in 1..3 : Nth(m2, l) = IF l = n THEN t ELSE Nth(m, l)
    BY <1>0, <1>7, <1>8, Changed DEF id
  <1>10. /\ m2 \in UType /\ AllOpen(m2) /\ m2.asleep = a
         /\ \A l \in 1..3 : Nth(m2, l) = IF l = n THEN t ELSE Nth(m, l)
    BY <1>8, <1>9
  <1> QED BY <1>1, <1>10, Zenon DEF a, t, m2

-----------------------------------------------------------------------------
(* The semaphores are opened, and closed if there is no pipe *)

NewSemaphore(v) == [used |-> TRUE, value |-> v, refcount |-> 1, queue |-> <<>>]

\* Free slots and new semaphores are semaphores.
LEMMA FreshAreSems ==
  /\ FreeSemaphore \in Sem /\ ~FreeSemaphore.used
  /\ \A v \in Nat : NewSemaphore(v) \in Sem
  BY NoElems DEF FreeSemaphore, NewSemaphore, Sem

\* A name that is new, for which index i is free.
LEMMA OpenNew ==
  ASSUME NEW m \in UType, NEW name \in Names, NEW v \in Nat, NEW i \in Index,
         FirstWith(m, name) = 0, FirstWith(m, NoName) = i, ~Full(m), m.next_sem_id \in Id
  PROVE  LET m2 == my_sem_open(m, name, v) IN
         /\ m2 \in UType /\ m2.asleep = m.asleep /\ m2.next_sem_id = m.next_sem_id + 1
         /\ m2.user_sem_names[i] = name /\ m2.user_sem_ids[i] = m.next_sem_id
         /\ \A j \in Index \ {i} : /\ m2.user_sem_names[j] = m.user_sem_names[j]
                                   /\ m2.user_sem_ids[j] = m.user_sem_ids[j]
         /\ m2.sem[m.next_sem_id] = NewSemaphore(v)
         /\ \A id \in Id \ {m.next_sem_id} : m2.sem[id] = m.sem[id]
  <1> DEFINE m2 == my_sem_open(m, name, v)
             n  == m.next_sem_id
             N  == [m.user_sem_names EXCEPT ![i] = name]
             D  == [m.user_sem_ids EXCEPT ![i] = n]
             S  == [m.sem EXCEPT ![n] = NewSemaphore(v)]
  <1>1. i # 0
    BY DEF Index
  <1>2. m2 = Numbered(Named(sem_alloc(m, v), i, name), i, n)
    BY <1>1 DEF my_sem_open, find_sem_index, find_free_sem_slot, NewId
  <1>3. sem_alloc(m, v) = [m EXCEPT !.sem = S, !.next_sem_id = n + 1]
    BY DEF sem_alloc, NewSemaphore
  <1>4. /\ N \in [Index -> Names] /\ N[i] = name
        /\ \A j \in Index \ {i} : N[j] = m.user_sem_names[j]
    BY DEF UType
  <1>5. D \in [Index -> Int] /\ D[i] = n /\ \A j \in Index \ {i} : D[j] = m.user_sem_ids[j]
    BY DEF UType, Id
  <1>6. S \in [Id -> Sem] /\ S[n] = NewSemaphore(v) /\ \A id \in Id \ {n} : S[id] = m.sem[id]
    BY FreshAreSems DEF UType
  <1>7. m2 = [[[m EXCEPT !.sem = S, !.next_sem_id = n + 1] EXCEPT !.user_sem_names = N]
                 EXCEPT !.user_sem_ids = D]
    <2>1. Named(sem_alloc(m, v), i, name) =
            [[m EXCEPT !.sem = S, !.next_sem_id = n + 1] EXCEPT !.user_sem_names = N]
      BY <1>3 DEF Named, UType
    <2> QED BY <1>2, <2>1 DEF Numbered, UType
  <1>8. n + 1 \in Nat \ {0}
    BY DEF Id
  <1> DEFINE n1 == n + 1
  <1> HIDE DEF m2, N, D, S, n1, n
  <1>9. m2 = [[[m EXCEPT !.sem = S, !.next_sem_id = n1] EXCEPT !.user_sem_names = N]
                 EXCEPT !.user_sem_ids = D]
    BY <1>7 DEF n1
  <1>10. /\ m2 \in UType /\ m2.user_sem_names = N /\ m2.user_sem_ids = D /\ m2.sem = S
         /\ m2.next_sem_id = n1 /\ m2.asleep = m.asleep
    BY <1>4, <1>5, <1>6, <1>8, <1>9 DEF UType, n1
  <1> QED BY <1>4, <1>5, <1>6, <1>10 DEF m2, n1, n

\* The name at index i, of a semaphore with one reference, is removed.
LEMMA CloseOne ==
  ASSUME NEW m \in UType, NEW name \in Names, NEW i \in Index, FirstWith(m, name) = i,
         m.user_sem_ids[i] \in Id, m.sem[m.user_sem_ids[i]].used,
         m.sem[m.user_sem_ids[i]].refcount = 1
  PROVE  LET m2 == my_sem_close(m, name) IN
         /\ m2 \in UType /\ m2.asleep = m.asleep /\ m2.next_sem_id = m.next_sem_id
         /\ m2.user_sem_names[i] = NoName
         /\ \A j \in Index \ {i} : /\ m2.user_sem_names[j] = m.user_sem_names[j]
                                   /\ m2.user_sem_ids[j] = m.user_sem_ids[j]
         /\ m2.sem[m.user_sem_ids[i]] = FreeSemaphore
         /\ \A id \in Id \ {m.user_sem_ids[i]} : m2.sem[id] = m.sem[id]
  <1> DEFINE m2 == my_sem_close(m, name)
             n  == m.user_sem_ids[i]
             N  == [m.user_sem_names EXCEPT ![i] = NoName]
             D  == [m.user_sem_ids EXCEPT ![i] = 0]
             S  == [m.sem EXCEPT ![n] = FreeSemaphore]
  <1>1. i # 0
    BY DEF Index
  <1>2. sem_close_by_id(m, n) = [m EXCEPT !.sem = S]
    BY DEF sem_close_by_id, Exists
  <1>3. m2 = [sem_close_by_id(m, n) EXCEPT !.user_sem_names[i] = NoName,
                                           !.user_sem_ids[i] = 0]
    BY <1>1 DEF my_sem_close, find_sem_index
  <1>0. NoName \in Names
    BY DEF Names
  <1>4. /\ N \in [Index -> Names] /\ N[i] = NoName
        /\ \A j \in Index \ {i} : N[j] = m.user_sem_names[j]
    BY <1>0 DEF UType
  <1>5. D \in [Index -> Int] /\ \A j \in Index \ {i} : D[j] = m.user_sem_ids[j]
    BY DEF UType
  <1>6. S \in [Id -> Sem] /\ S[n] = FreeSemaphore /\ \A id \in Id \ {n} : S[id] = m.sem[id]
    BY FreshAreSems DEF UType
  <1>7. m2 = [[m EXCEPT !.sem = S] EXCEPT !.user_sem_names = N, !.user_sem_ids = D]
    BY <1>2, <1>3 DEF UType
  <1> HIDE DEF m2, N, D, S, n
  <1>8. /\ m2 \in UType /\ m2.user_sem_names = N /\ m2.user_sem_ids = D /\ m2.sem = S
        /\ m2.next_sem_id = m.next_sem_id /\ m2.asleep = m.asleep
    BY <1>4, <1>5, <1>6, <1>7 DEF UType
  <1> QED BY <1>4, <1>5, <1>6, <1>8 DEF m2, n

\* The names in the order in which mvarCmd opens them, and their values.
NameOf(i)  == IF i = 1 THEN "slots" ELSE IF i = 2 THEN "items" ELSE "mutex"
ValueOf(i) == IF i = 2 THEN 0 ELSE 1

\* The first l of them are open, with the ids from n on.
OpenUpTo(m, n, l) ==
  /\ m \in UType /\ m.asleep = {} /\ m.next_sem_id = n + l
  /\ \A i \in Index : m.user_sem_names[i] = IF i <= l THEN NameOf(i) ELSE NoName
  /\ \A i \in 1..l : m.user_sem_ids[i] = n + i - 1 /\ m.sem[n + i - 1] = NewSemaphore(ValueOf(i))
  /\ \A id \in Id : id \notin n..(n + l - 1) => m.sem[id] = FreeSemaphore

\* The three names differ, and none of them is the empty one.
LEMMA NamesOf ==
  /\ \A i : NameOf(i) \in Names /\ NameOf(i) # NoName
  /\ \A i, j \in 1..3 : NameOf(i) = NameOf(j) => i = j
  /\ \A i : ValueOf(i) \in Nat
  BY DEF NameOf, ValueOf, Names, NoName

\* my_sem_open of the next name takes the next index and the next id.
LEMMA OpenNext ==
  ASSUME NEW n \in Nat \ {0}, n + 2 <= MaxId, NEW l \in 0..2, NEW m, OpenUpTo(m, n, l)
  PROVE  OpenUpTo(my_sem_open(m, NameOf(l + 1), ValueOf(l + 1)), n, l + 1)
  <1> DEFINE i    == l + 1
             name == NameOf(l + 1)
             v    == ValueOf(l + 1)
             m2   == my_sem_open(m, name, v)
  <1>1. m \in UType /\ m.asleep = {} /\ m.next_sem_id = n + l
    BY DEF OpenUpTo
  <1>2. i \in Index /\ i \in 1..3 /\ n + l \in Id /\ l \in Int /\ n \in Int
    BY MVarAssumption DEF Index, Id
  <1>3. name \in Names /\ v \in Nat /\ name # NoName
    BY NamesOf
  <1>4. \A j \in 1..3 : j # i => NameOf(j) # name
    BY <1>2, NamesOf
  <1>5. FirstWith(m, NoName) = i
    <2>1. m.user_sem_names[i] = NoName
      BY <1>2 DEF OpenUpTo
    <2>2. \A j \in Index : m.user_sem_names[j] = NoName => i <= j
      BY <1>2, NamesOf DEF OpenUpTo, Index
    <2> QED BY <1>2, <2>1, <2>2, FirstIs
  <1>6. FirstWith(m, name) = 0
    <2>1. \A j \in Index : m.user_sem_names[j] # name
      <3> SUFFICES ASSUME NEW j \in Index PROVE m.user_sem_names[j] # name
        OBVIOUS
      <3>1. CASE j <= l
        <4>1. j # i /\ j \in 1..3
          BY <1>2, <3>1 DEF Index
        <4> QED BY <1>4, <3>1, <4>1 DEF OpenUpTo
      <3>2. CASE ~(j <= l)
        BY <1>3, <3>2 DEF OpenUpTo
      <3> QED BY <3>1, <3>2
    <2> QED BY <2>1, NoneIs
  <1>7. ~Full(m)
    <2>1. {id \in Id : m.sem[id].used} \subseteq n..(n + l - 1)
      BY FreshAreSems DEF OpenUpTo
    <2>2. IsFiniteSet(n..(n + l - 1)) /\ Cardinality(n..(n + l - 1)) <= 2
      <3>1. n + l - 1 \in Int
        BY <1>2
      <3>2. /\ IsFiniteSet(n..(n + l - 1))
            /\ Cardinality(n..(n + l - 1)) = IF n > n + l - 1 THEN 0 ELSE (n + l - 1) - n + 1
        BY <1>2, <3>1, FS_Interval
      <3> QED BY <1>2, <3>2
    <2> DEFINE T == {id \in Id : m.sem[id].used}
    <2> HIDE DEF T
    <2>3. IsFiniteSet(T) /\ Cardinality(T) <= Cardinality(n..(n + l - 1))
      BY <2>1, <2>2, FS_Subset DEF T
    <2>4. Cardinality(T) \in Nat /\ Cardinality(n..(n + l - 1)) \in Nat
      BY <2>2, <2>3, FS_CardinalityType
    <2>5. ~(Cardinality(T) >= MAX_SEMAPHORES)
      BY <2>2, <2>3, <2>4, MVarAssumption
    <2> QED BY <2>5 DEF Full, T
  <1> HIDE DEF i, name, v, m2
  <1>8. /\ m2 \in UType /\ m2.asleep = {} /\ m2.next_sem_id = n + l + 1
        /\ m2.user_sem_names[i] = name /\ m2.user_sem_ids[i] = n + l
        /\ \A j \in Index \ {i} : /\ m2.user_sem_names[j] = m.user_sem_names[j]
                                  /\ m2.user_sem_ids[j] = m.user_sem_ids[j]
        /\ m2.sem[n + l] = NewSemaphore(v)
        /\ \A id \in Id \ {n + l} : m2.sem[id] = m.sem[id]
    <2>1. m.next_sem_id \in Id
      BY <1>1, <1>2
    <2>2. /\ m2 \in UType /\ m2.asleep = m.asleep /\ m2.next_sem_id = m.next_sem_id + 1
          /\ m2.user_sem_names[i] = name /\ m2.user_sem_ids[i] = m.next_sem_id
          /\ \A j \in Index \ {i} : /\ m2.user_sem_names[j] = m.user_sem_names[j]
                                    /\ m2.user_sem_ids[j] = m.user_sem_ids[j]
          /\ m2.sem[m.next_sem_id] = NewSemaphore(v)
          /\ \A id \in Id \ {m.next_sem_id} : m2.sem[id] = m.sem[id]
      <3>1. m \in UType
        BY <1>1
      <3> QED BY <3>1, <1>2, <1>3, <1>5, <1>6, <1>7, <2>1, OpenNew DEF m2
    <2> QED BY <1>1, <2>2
  <1>9. \A j \in Index : m2.user_sem_names[j] = IF j <= i THEN NameOf(j) ELSE NoName
    BY <1>2, <1>8 DEF OpenUpTo, i, name, Index
  <1>10. \A j \in 1..i : /\ m2.user_sem_ids[j] = n + j - 1
                         /\ m2.sem[n + j - 1] = NewSemaphore(ValueOf(j))
    <2> SUFFICES ASSUME NEW j \in 1..i
                 PROVE  /\ m2.user_sem_ids[j] = n + j - 1
                        /\ m2.sem[n + j - 1] = NewSemaphore(ValueOf(j))
      OBVIOUS
    <2>1. CASE j = i
      BY <1>2, <1>8, <2>1 DEF i, v
    <2>2. CASE j # i
      <3>1. j \in 1..l /\ j \in Index \ {i} /\ n + j - 1 \in Id \ {n + l}
        BY <1>2, <2>2, MVarAssumption DEF i, Index, Id
      <3> QED BY <1>8, <3>1 DEF OpenUpTo
    <2> QED BY <2>1, <2>2
  <1>11. \A id \in Id : id \notin n..(n + i - 1) => m2.sem[id] = FreeSemaphore
    BY <1>2, <1>8 DEF OpenUpTo, i, Id
  <1>12. m2.next_sem_id = n + i
    BY <1>2, <1>8 DEF i
  <1> QED BY <1>8, <1>9, <1>10, <1>11, <1>12 DEF OpenUpTo, m2, i, name, v

\* mvarCmd opens its three semaphores at the first three indices.
LEMMA OpenAllIs ==
  ASSUME NEW m \in UType, NoneOpen(m), m.next_sem_id + 2 <= MaxId
  PROVE  OpenUpTo(OpenAll(m), m.next_sem_id, 3)
  <1> DEFINE n == m.next_sem_id
             a == my_sem_open(m, NameOf(1), ValueOf(1))
             b == my_sem_open(a, NameOf(2), ValueOf(2))
             c == my_sem_open(b, NameOf(3), ValueOf(3))
  <1>1. n \in Nat \ {0} /\ n + 2 <= MaxId
    BY DEF UType
  <1>2. OpenUpTo(m, n, 0)
    BY <1>1 DEF OpenUpTo, NoneOpen, Index
  <1>3. OpenAll(m) = c
    BY DEF OpenAll, NameOf, ValueOf
  <1> HIDE DEF n, a, b, c
  <1>4. OpenUpTo(a, n, 1)
    <2>1. OpenUpTo(my_sem_open(m, NameOf(0 + 1), ValueOf(0 + 1)), n, 0 + 1)
      BY <1>1, <1>2, OpenNext
    <2> QED BY <2>1 DEF a
  <1>5. OpenUpTo(b, n, 2)
    <2>1. OpenUpTo(my_sem_open(a, NameOf(1 + 1), ValueOf(1 + 1)), n, 1 + 1)
      BY <1>1, <1>4, OpenNext
    <2> QED BY <2>1 DEF b
  <1>6. OpenUpTo(c, n, 3)
    <2>1. OpenUpTo(my_sem_open(b, NameOf(2 + 1), ValueOf(2 + 1)), n, 2 + 1)
      BY <1>1, <1>5, OpenNext
    <2> QED BY <2>1 DEF c
  <1> QED BY <1>3, <1>6 DEF n

\* After that the three semaphores are open, with their initial values.
LEMMA NowOpen ==
  ASSUME NEW n \in Nat \ {0}, n + 2 <= MaxId, NEW m, OpenUpTo(m, n, 3)
  PROVE  /\ AllOpen(m)
         /\ Nth(m, 1) = NewSemaphore(1) /\ Nth(m, 2) = NewSemaphore(0)
         /\ Nth(m, 3) = NewSemaphore(1)
  <1>1. 1..3 \subseteq Index
    BY Indices
  <1>2. \A i \in 1..3 : /\ m.user_sem_ids[i] = n + i - 1
                        /\ m.sem[n + i - 1] = NewSemaphore(ValueOf(i))
    BY DEF OpenUpTo
  <1>3. \A i \in 1..3 : /\ n + i - 1 \in Id
                        /\ \A j \in 1..3 : n + i - 1 = n + j - 1 => i = j
    BY MVarAssumption DEF Id
  <1>4. \A i \in 1..3 : Nth(m, i) = NewSemaphore(ValueOf(i))
    BY <1>2 DEF Nth
  <1>5. Nth(m, 1) = NewSemaphore(1) /\ Nth(m, 2) = NewSemaphore(0) /\ Nth(m, 3) = NewSemaphore(1)
    BY <1>4 DEF ValueOf
  <1>6. /\ m.user_sem_names[1] = "slots" /\ m.user_sem_names[2] = "items"
        /\ m.user_sem_names[3] = "mutex" /\ \A i \in Index \ 1..3 : m.user_sem_names[i] = NoName
    <2>1. \A i \in Index : m.user_sem_names[i] = IF i <= 3 THEN NameOf(i) ELSE NoName
      BY DEF OpenUpTo
    <2>2. \A i \in Index \ 1..3 : ~(i <= 3)
      BY DEF Index
    <2> QED BY <1>1, <2>1, <2>2 DEF NameOf
  <1>7. \A v : NewSemaphore(v).used
    BY DEF NewSemaphore
  <1>8. \A i \in 1..3 : m.user_sem_ids[i] \in Id /\ Nth(m, i).used
    BY <1>2, <1>3, <1>4, <1>7
  <1>9. \A i, j \in 1..3 : m.user_sem_ids[i] = m.user_sem_ids[j] => i = j
    BY <1>2, <1>3
  <1> QED BY <1>5, <1>6, <1>8, <1>9 DEF AllOpen

\* The i-th name is closed while the names before it are closed already.
OpenFrom(m, n, l) ==
  /\ m \in UType /\ m.asleep = {}
  /\ \A i \in Index : m.user_sem_names[i] = IF l <= i /\ i <= 3 THEN NameOf(i) ELSE NoName
  /\ \A i \in l..3 : m.user_sem_ids[i] = n + i - 1 /\ m.sem[n + i - 1] = NewSemaphore(ValueOf(i))
  /\ \A id \in Id : id \notin (n + l - 1)..(n + 2) => m.sem[id] = FreeSemaphore

\* my_sem_close frees the semaphores in the order in which they were opened.
LEMMA CloseNext ==
  ASSUME NEW n \in Nat \ {0}, n + 2 <= MaxId, NEW i \in 1..3, NEW m, OpenFrom(m, n, i)
  PROVE  OpenFrom(my_sem_close(m, NameOf(i)), n, i + 1)
  <1> DEFINE name == NameOf(i)
             d    == n + i - 1
             m2   == my_sem_close(m, name)
  <1>1. /\ m \in UType /\ m.asleep = {} /\ m.user_sem_ids[i] = d
        /\ m.sem[d] = NewSemaphore(ValueOf(i))
    BY DEF OpenFrom
  <1>2. i \in Index /\ d \in Id /\ i \in Int /\ n \in Int
    BY MVarAssumption, Indices DEF Id
  <1>3. name \in Names /\ name # NoName /\ \A j \in 1..3 : NameOf(j) = name => j = i
    BY NamesOf
  <1>4. FirstWith(m, name) = i
    <2>1. m.user_sem_names[i] = name
      BY <1>2 DEF OpenFrom
    <2>2. \A j \in Index : m.user_sem_names[j] = name => i <= j
      BY <1>2, <1>3 DEF OpenFrom, Index
    <2> QED BY <1>2, <2>1, <2>2, FirstIs
  <1>5. NewSemaphore(ValueOf(i)).used /\ NewSemaphore(ValueOf(i)).refcount = 1
    BY DEF NewSemaphore
  <1> HIDE DEF name, d, m2
  <1>6. /\ m2 \in UType /\ m2.asleep = m.asleep
        /\ m2.user_sem_names[i] = NoName
        /\ \A j \in Index \ {i} : /\ m2.user_sem_names[j] = m.user_sem_names[j]
                                  /\ m2.user_sem_ids[j] = m.user_sem_ids[j]
        /\ m2.sem[d] = FreeSemaphore /\ \A id \in Id \ {d} : m2.sem[id] = m.sem[id]
    <2>1. m.user_sem_ids[i] \in Id /\ m.sem[m.user_sem_ids[i]].used
          /\ m.sem[m.user_sem_ids[i]].refcount = 1
      BY <1>1, <1>2, <1>5
    <2>2. m \in UType
      BY <1>1
    <2>3. /\ m2 \in UType /\ m2.asleep = m.asleep
          /\ m2.user_sem_names[i] = NoName
          /\ \A j \in Index \ {i} : /\ m2.user_sem_names[j] = m.user_sem_names[j]
                                    /\ m2.user_sem_ids[j] = m.user_sem_ids[j]
          /\ m2.sem[m.user_sem_ids[i]] = FreeSemaphore
          /\ \A id \in Id \ {m.user_sem_ids[i]} : m2.sem[id] = m.sem[id]
      BY <1>2, <1>3, <1>4, <2>1, <2>2, CloseOne DEF m2
    <2> QED BY <1>1, <2>3
  <1>7. \A j \in Index :
          m2.user_sem_names[j] = IF i + 1 <= j /\ j <= 3 THEN NameOf(j) ELSE NoName
    BY <1>2, <1>6 DEF OpenFrom, Index
  <1>8. \A j \in (i + 1)..3 : /\ m2.user_sem_ids[j] = n + j - 1
                              /\ m2.sem[n + j - 1] = NewSemaphore(ValueOf(j))
    <2> SUFFICES ASSUME NEW j \in (i + 1)..3
                 PROVE  /\ m2.user_sem_ids[j] = n + j - 1
                        /\ m2.sem[n + j - 1] = NewSemaphore(ValueOf(j))
      OBVIOUS
    <2>1. j \in i..3 /\ j \in Index \ {i} /\ n + j - 1 \in Id \ {d}
      BY <1>2, MVarAssumption DEF d, Index, Id
    <2> QED BY <1>6, <2>1 DEF OpenFrom
  <1>9. \A id \in Id : id \notin (n + (i + 1) - 1)..(n + 2) => m2.sem[id] = FreeSemaphore
    BY <1>2, <1>6 DEF OpenFrom, d, Id
  <1> QED BY <1>1, <1>6, <1>7, <1>8, <1>9 DEF OpenFrom, m2, name

\* mvarCmd without a pipe leaves no name behind.
LEMMA CloseAllIs ==
  ASSUME NEW n \in Nat \ {0}, n + 2 <= MaxId, NEW m, OpenUpTo(m, n, 3)
  PROVE  CloseAll(m) \in UType /\ NoneOpen(CloseAll(m))
  <1> DEFINE a == my_sem_close(m, NameOf(1))
             b == my_sem_close(a, NameOf(2))
             c == my_sem_close(b, NameOf(3))
  <1>1. OpenFrom(m, n, 1)
    BY DEF OpenUpTo, OpenFrom, Index
  <1>2. CloseAll(m) = c
    BY DEF CloseAll, NameOf
  <1> HIDE DEF a, b, c
  <1>3. OpenFrom(a, n, 2)
    <2>1. OpenFrom(my_sem_close(m, NameOf(1)), n, 1 + 1)
      BY <1>1, CloseNext
    <2> QED BY <2>1 DEF a
  <1>4. OpenFrom(b, n, 3)
    <2>1. OpenFrom(my_sem_close(a, NameOf(2)), n, 2 + 1)
      BY <1>3, CloseNext
    <2> QED BY <2>1 DEF b
  <1>5. OpenFrom(c, n, 4)
    <2>1. OpenFrom(my_sem_close(b, NameOf(3)), n, 3 + 1)
      BY <1>4, CloseNext
    <2> QED BY <2>1 DEF c
  <1>6. c \in UType /\ NoneOpen(c)
    BY <1>5 DEF OpenFrom, NoneOpen, Index, Id
  <1> QED BY <1>2, <1>6

-----------------------------------------------------------------------------
(* The invariant *)

\* p is on one of the two sides.
LEMMA Sides ==
  /\ Writers \cap Readers = {} /\ Side(1) = Writers /\ Side(2) = Readers
  /\ \A p \in Process : p \notin Writers <=> p \in Readers
  BY MVarAssumption DEF Writers, Readers, Process, Side

\* Where p waits, and where its token goes.
OwnIndex(p)    == IF p \in Writers THEN 1 ELSE 2
PassedIndex(p) == IF Passed(p, proc[p].ok) = "items" THEN 2 ELSE 1

\* The index of the semaphore a process waits on, and of the one it posts.
LEMMA IndexNames ==
  \A p \in Process : /\ Own(p) = NameOf(OwnIndex(p)) /\ OwnIndex(p) \in 1..2
                     /\ Passed(p, proc[p].ok) = NameOf(PassedIndex(p))
                     /\ PassedIndex(p) \in 1..2
                     /\ p \in Side(OwnIndex(p))
  BY Sides DEF Own, Other, Passed, NameOf, OwnIndex, PassedIndex

\* A name leads to the id stored beside it.
LEMMA NamedIs ==
  ASSUME NEW m, AllOpen(m), NEW n \in 1..3
  PROVE  IdOf(m, NameOf(n)) = m.user_sem_ids[n]
  BY IdsOf DEF NameOf

\* my_sem_wait and my_sem_post on the n-th semaphore.
LEMMA WaitsOn ==
  ASSUME NEW m \in UType, AllOpen(m), NEW n \in 1..3, NEW p \in Process
  PROVE  LET m2 == my_sem_wait(m, NameOf(n), p) IN
         /\ m2 \in UType /\ AllOpen(m2)
         /\ m2.asleep = IF Nth(m, n).value > 0 THEN m.asleep ELSE m.asleep \cup {p}
         /\ \A l \in 1..3 \ {n} : Nth(m2, l) = Nth(m, l)
         /\ Nth(m2, n).value = IF Nth(m, n).value > 0 THEN Nth(m, n).value - 1 ELSE 0
         /\ Nth(m2, n).queue = IF Nth(m, n).value > 0 THEN Nth(m, n).queue
                               ELSE Append(Nth(m, n).queue, p)
  <1> DEFINE w == sem_wait_by_id(m, m.user_sem_ids[n], p)
  <1>1. my_sem_wait(m, NameOf(n), p) = w
    BY NamedIs, Zenon DEF my_sem_wait
  <1>2. Nth(m, n) \in Sem
    BY DEF UType, AllOpen, Nth
  <1>3. /\ w \in UType /\ AllOpen(w)
        /\ w.asleep = IF Nth(m, n).value > 0 THEN m.asleep ELSE m.asleep \cup {p}
        /\ \A l \in 1..3 : Nth(w, l) = IF l = n THEN Waited(Nth(m, n), p) ELSE Nth(m, l)
    BY WaitOnOne
  <1> HIDE DEF w
  <1>4. Nth(w, n) = Waited(Nth(m, n), p) /\ \A l \in 1..3 \ {n} : Nth(w, l) = Nth(m, l)
    BY <1>3
  <1>5. /\ Nth(w, n).value = IF Nth(m, n).value > 0 THEN Nth(m, n).value - 1 ELSE 0
        /\ Nth(w, n).queue = IF Nth(m, n).value > 0 THEN Nth(m, n).queue
                             ELSE Append(Nth(m, n).queue, p)
    BY <1>2, <1>4, WaitedIs, ZenonT(30)
  <1> QED BY <1>1, <1>3, <1>4, <1>5, Zenon

\* my_sem_post by name, seen from the three semaphores.
LEMMA PostsTo ==
  ASSUME NEW m \in UType, AllOpen(m), NEW n \in 1..3
  PROVE  LET m2 == my_sem_post(m, NameOf(n)) IN
         /\ m2 \in UType /\ AllOpen(m2)
         /\ m2.asleep = IF Nth(m, n).queue = <<>> THEN m.asleep
                        ELSE m.asleep \ {Head(Nth(m, n).queue)}
         /\ \A l \in 1..3 \ {n} : Nth(m2, l) = Nth(m, l)
         /\ Nth(m2, n).value = IF Nth(m, n).queue = <<>> THEN Nth(m, n).value + 1
                               ELSE Nth(m, n).value
         /\ Nth(m2, n).queue = IF Nth(m, n).queue = <<>> THEN <<>> ELSE Tail(Nth(m, n).queue)
  <1> DEFINE w == sem_signal_by_id(m, m.user_sem_ids[n])
  <1>1. my_sem_post(m, NameOf(n)) = w
    BY NamedIs, Zenon DEF my_sem_post
  <1>2. Nth(m, n) \in Sem
    BY DEF UType, AllOpen, Nth
  <1>3. /\ w \in UType /\ AllOpen(w)
        /\ w.asleep = IF Nth(m, n).queue = <<>> THEN m.asleep
                      ELSE m.asleep \ {Head(Nth(m, n).queue)}
        /\ \A l \in 1..3 : Nth(w, l) = IF l = n THEN Signalled(Nth(m, n)) ELSE Nth(m, l)
    BY SignalOne
  <1> HIDE DEF w
  <1>4. Nth(w, n) = Signalled(Nth(m, n)) /\ \A l \in 1..3 \ {n} : Nth(w, l) = Nth(m, l)
    BY <1>3
  <1>5. /\ Nth(w, n).value = IF Nth(m, n).queue = <<>> THEN Nth(m, n).value + 1
                             ELSE Nth(m, n).value
        /\ Nth(w, n).queue = IF Nth(m, n).queue = <<>> THEN <<>> ELSE Tail(Nth(m, n).queue)
    BY <1>2, <1>4, SignalledIs, Zenon
  <1> QED BY <1>1, <1>3, <1>4, <1>5, Zenon

\* The same for the steps of the specification.
LEMMA StepWaits ==
  ASSUME u \in UType, AllOpen(u), NEW n \in 1..3, NEW p \in Process,
         u' = my_sem_wait(u, NameOf(n), p)
  PROVE  /\ u' \in UType /\ AllOpen(u')
         /\ u'.asleep = IF Nth(u, n).value > 0 THEN u.asleep ELSE u.asleep \cup {p}
         /\ \A l \in 1..3 \ {n} : Nth(u', l) = Nth(u, l)
         /\ Nth(u', n).value = IF Nth(u, n).value > 0 THEN Nth(u, n).value - 1 ELSE 0
         /\ Nth(u', n).queue = IF Nth(u, n).value > 0 THEN Nth(u, n).queue
                               ELSE Append(Nth(u, n).queue, p)
  <1> DEFINE w == my_sem_wait(u, NameOf(n), p)
  <1>1. /\ w \in UType /\ AllOpen(w)
        /\ w.asleep = IF Nth(u, n).value > 0 THEN u.asleep ELSE u.asleep \cup {p}
        /\ \A l \in 1..3 \ {n} : Nth(w, l) = Nth(u, l)
        /\ Nth(w, n).value = IF Nth(u, n).value > 0 THEN Nth(u, n).value - 1 ELSE 0
        /\ Nth(w, n).queue = IF Nth(u, n).value > 0 THEN Nth(u, n).queue
                             ELSE Append(Nth(u, n).queue, p)
    BY WaitsOn
  <1>2. u' = w
    OBVIOUS
  <1> HIDE DEF w
  <1> QED BY <1>1, <1>2, Zenon

\* The same for a step that posts.
LEMMA StepPosts ==
  ASSUME u \in UType, AllOpen(u), NEW n \in 1..3, u' = my_sem_post(u, NameOf(n))
  PROVE  /\ u' \in UType /\ AllOpen(u')
         /\ u'.asleep = IF Nth(u, n).queue = <<>> THEN u.asleep
                        ELSE u.asleep \ {Head(Nth(u, n).queue)}
         /\ \A l \in 1..3 \ {n} : Nth(u', l) = Nth(u, l)
         /\ Nth(u', n).value = IF Nth(u, n).queue = <<>> THEN Nth(u, n).value + 1
                               ELSE Nth(u, n).value
         /\ Nth(u', n).queue = IF Nth(u, n).queue = <<>> THEN <<>> ELSE Tail(Nth(u, n).queue)
  <1> DEFINE w == my_sem_post(u, NameOf(n))
  <1>1. /\ w \in UType /\ AllOpen(w)
        /\ w.asleep = IF Nth(u, n).queue = <<>> THEN u.asleep
                      ELSE u.asleep \ {Head(Nth(u, n).queue)}
        /\ \A l \in 1..3 \ {n} : Nth(w, l) = Nth(u, l)
        /\ Nth(w, n).value = IF Nth(u, n).queue = <<>> THEN Nth(u, n).value + 1
                             ELSE Nth(u, n).value
        /\ Nth(w, n).queue = IF Nth(u, n).queue = <<>> THEN <<>> ELSE Tail(Nth(u, n).queue)
    BY PostsTo
  <1>2. u' = w
    OBVIOUS
  <1> HIDE DEF w
  <1> QED BY <1>1, <1>2, Zenon

\* The step of p, field by field.
Moves(p, c) ==
  /\ proc' \in [Process -> [pc : PC, ok : BOOLEAN]]
  /\ proc'[p].pc = c /\ proc'[p].ok = proc[p].ok
  /\ \A q \in Process \ {p} : proc'[q] = proc[q]

\* A step of one process changes its own record only.
LEMMA GoMoves ==
  ASSUME Types, NEW p \in Process, NEW c \in PC, Go(p, c)
  PROVE  Moves(p, c)
  BY DEF Go, Types, Moves

\* Only p, which held nothing, moved, and it still holds nothing.
LEMMA QuietStep ==
  ASSUME IInv, shell # "idle", shell' \in {"creating", "done"}, u' = u,
         pipe'.bytes = pipe.bytes, Types', NEW p \in Process, NEW c, Moves(p, c),
         proc[p].pc \in {"none", "open", "dup"}, c \in {"absent", "open", "dup", "loop"}
  PROVE  IInv'
  <1>1. AllOpen(u') /\ Queues /\ Types
    BY DEF IInv
  <1>2. p \notin u.asleep
    BY <1>1 DEF Queues
  <1>3. Queues'
    <2>1. u.asleep \subseteq Process
      BY <1>1 DEF Types, UType
    <2>2. \A q \in u.asleep : proc'[q].pc = "mutex"
      BY <1>1, <1>2, <2>1 DEF Queues, Moves
    <2> QED BY <1>1, <2>2 DEF Queues, Nth
  <1>4. Holding' = Holding /\ p \notin Holding
    BY DEF Holding, At, Moves
  <1>5. ASSUME TokenFree PROVE TokenFree'
    BY <1>4, <1>5 DEF TokenFree, Nth
  <1>6. ASSUME NEW h \in Process, TokenHeld(h) PROVE TokenHeld(h)'
    <2>1. h \in Process \ {p}
      BY <1>4, <1>6 DEF TokenHeld
    <2>2. proc'[h] = proc[h]
      BY <2>1 DEF Moves
    <2> QED BY <1>4, <1>6, <2>2 DEF TokenHeld, Nth, HasItem
  <1> QED BY <1>1, <1>3, <1>5, <1>6 DEF IInv

\* The facts about a process p that is at work, from the invariant.
LEMMA AtWork ==
  ASSUME IInv, NEW p \in Process, NEW c \in PC \ {"none"}, At(p, c)
  PROVE  /\ shell # "idle" /\ Types /\ AllOpen(u) /\ Queues /\ u \in UType
         /\ u.asleep \subseteq Process /\ p \notin u.asleep
         /\ \A n \in 1..3 : Nth(u, n).value \in Nat /\ Nth(u, n).queue \in Seq(Process)
         /\ TokenFree \/ \E h \in Process : TokenHeld(h)
         /\ p \in Holding => TokenHeld(p)
  <1>1. shell # "idle" /\ Types
    BY DEF IInv, At
  <1>2. AllOpen(u) /\ Queues /\ (TokenFree \/ \E h \in Process : TokenHeld(h))
    BY <1>1 DEF IInv
  <1>3. u \in UType /\ u.asleep \subseteq Process
    BY <1>1 DEF Types, UType
  <1>4. \A n \in 1..3 : Nth(u, n) \in Sem
    BY <1>2, <1>3 DEF UType, AllOpen, Nth
  <1>5. \A n \in 1..3 : Nth(u, n).value \in Nat /\ Nth(u, n).queue \in Seq(Process)
    BY <1>4 DEF Sem
  <1>6. p \in Holding => TokenHeld(p)
    BY <1>2 DEF TokenFree, TokenHeld
  <1> QED BY <1>1, <1>2, <1>3, <1>5, <1>6 DEF At

\* waits_own takes the token, or queues up for it.
LEMMA WaitsOwnKeeps ==
  ASSUME IInv, NEW p \in Process, waits_own(p)
  PROVE  IInv'
  <1> DEFINE n == OwnIndex(p)
  <1>1. At(p, "loop") /\ "loop" \in PC \ {"none"} /\ "mutex" \in PC
    BY DEF waits_own, PC
  <1>2. /\ shell # "idle" /\ Types /\ AllOpen(u) /\ Queues /\ u \in UType
        /\ u.asleep \subseteq Process /\ p \notin u.asleep
        /\ \A l \in 1..3 : Nth(u, l).value \in Nat /\ Nth(u, l).queue \in Seq(Process)
        /\ TokenFree \/ \E h \in Process : TokenHeld(h)
    BY <1>1, AtWork
  <1>3. Moves(p, "mutex") /\ shell' = shell /\ pipe' = pipe
    BY <1>1, <1>2, GoMoves DEF waits_own
  <1>4. n \in 1..2 /\ p \in Side(n)
    BY IndexNames
  <1> HIDE DEF n
  <1>5. /\ u' \in UType /\ AllOpen(u')
        /\ u'.asleep = IF Nth(u, n).value > 0 THEN u.asleep ELSE u.asleep \cup {p}
        /\ \A l \in 1..3 \ {n} : Nth(u', l) = Nth(u, l)
        /\ Nth(u', n).value = IF Nth(u, n).value > 0 THEN Nth(u, n).value - 1 ELSE 0
        /\ Nth(u', n).queue = IF Nth(u, n).value > 0 THEN Nth(u, n).queue
                              ELSE Append(Nth(u, n).queue, p)
    <2>1. u' = my_sem_wait(u, NameOf(n), p)
      BY IndexNames, Zenon DEF waits_own, n
    <2>2. n \in 1..3
      BY <1>4
    <2>3. u \in UType /\ AllOpen(u)
      BY <1>2
    <2> QED BY <2>1, <2>2, <2>3, StepWaits
  <1>6. Types' /\ shell' # "idle"
    BY <1>2, <1>3, <1>5 DEF Types, Moves
  <1>7. \A q \in Process \ {p} : /\ q \in Holding' <=> q \in Holding
                                 /\ q \in u'.asleep <=> q \in u.asleep
    BY <1>3, <1>5 DEF Holding, At, Moves
  <1>8. p \notin Holding
    BY <1>1 DEF Holding, At
  <1>9. \A q \in u'.asleep : proc'[q].pc = "mutex"
    BY <1>2, <1>3, <1>5 DEF Moves, Queues
  <1>10. CASE Nth(u, n).value > 0
    <2>1. TokenFree
      BY <1>2, <1>4, <1>10 DEF TokenHeld
    <2>2. Queues'
      <3>1. u'.asleep = u.asleep
        BY <1>5, <1>10
      <3>2. \A l \in 1..3 : Nth(u', l).queue = Nth(u, l).queue
        BY <1>5, <1>10
      <3>3. \A l \in 1..2 : Nth(u, l).queue # <<>> => Nth(u', l).value = 0
        BY <1>2, <1>4, <1>5, <1>10 DEF Queues
      <3> QED BY <1>2, <1>9, <3>1, <3>2, <3>3 DEF Queues
    <2>3. Holding' = {p}
      <3>1. p \in Holding'
        BY <1>1, <1>3, <1>5, <1>10 DEF Holding, At, Moves
      <3>2. Holding' \subseteq Process
        BY DEF Holding
      <3> QED BY <1>7, <2>1, <3>1, <3>2 DEF TokenFree
    <2>4. /\ Nth(u', 1).value = 0 /\ Nth(u', 2).value = 0 /\ Nth(u', 3).value = 1
          /\ Len(pipe.bytes) = IF n = 2 THEN 1 ELSE 0
      BY <1>2, <1>4, <1>5, <1>10, <2>1, SMTT(30) DEF TokenFree
    <2>5. TokenHeld(p)'
      <3>1. HasItem(p)' <=> n = 2
        BY <1>3, Sides DEF HasItem, Moves, OwnIndex, n
      <3> QED BY <1>3, <2>3, <2>4, <3>1 DEF TokenHeld, Moves
    <2> QED BY <1>5, <1>6, <2>2, <2>5 DEF IInv
  <1>11. CASE ~(Nth(u, n).value > 0)
    <2>1. /\ u'.asleep = u.asleep \cup {p} /\ Nth(u', n).queue = Append(Nth(u, n).queue, p)
          /\ \A l \in 1..3 : Nth(u', l).value = Nth(u, l).value
      BY <1>2, <1>4, <1>5, <1>11, SMTT(30)
    <2>2. \A l \in 1..2 : /\ Elems(Nth(u', l).queue) = u'.asleep \cap Side(l)
                          /\ Distinct(Nth(u', l).queue)
                          /\ Nth(u', l).queue # <<>> => Nth(u', l).value = 0
      <3> SUFFICES ASSUME NEW l \in 1..2
                   PROVE  /\ Elems(Nth(u', l).queue) = u'.asleep \cap Side(l)
                          /\ Distinct(Nth(u', l).queue)
                          /\ Nth(u', l).queue # <<>> => Nth(u', l).value = 0
        OBVIOUS
      <3>1. /\ Elems(Nth(u, l).queue) = u.asleep \cap Side(l) /\ Distinct(Nth(u, l).queue)
            /\ Nth(u, l).queue # <<>> => Nth(u, l).value = 0
        BY <1>2 DEF Queues
      <3>2. CASE l = n
        <4>1. Nth(u, n).queue \in Seq(Process) /\ Nth(u, n).value = 0
          BY <1>2, <1>4, <1>11
        <4>2. p \notin Elems(Nth(u, n).queue)
          BY <1>2, <3>1, <3>2
        <4>3. /\ Elems(Append(Nth(u, n).queue, p)) = Elems(Nth(u, n).queue) \cup {p}
              /\ Distinct(Append(Nth(u, n).queue, p))
          BY <3>1, <3>2, <4>1, <4>2, AppendElems
        <4>4. u'.asleep \cap Side(l) = (u.asleep \cap Side(l)) \cup {p}
          BY <1>4, <2>1, <3>2
        <4>5. Nth(u', l).queue = Append(Nth(u, n).queue, p) /\ Nth(u', l).value = 0
          BY <1>4, <2>1, <3>2, <4>1
        <4> QED BY <3>1, <3>2, <4>3, <4>4, <4>5, Zenon
      <3>3. CASE l # n
        <4>1. p \notin Side(l)
          BY <1>4, <3>3, Sides
        <4>2. Nth(u', l) = Nth(u, l)
          BY <1>5, <3>3
        <4> QED BY <2>1, <3>1, <4>1, <4>2
      <3> QED BY <3>2, <3>3
    <2>3. Queues'
      <3>1. Nth(u', 3).queue = <<>>
        BY <1>2, <1>4, <1>5 DEF Queues
      <3> QED BY <1>9, <2>2, <3>1 DEF Queues
    <2>4. Holding' = Holding
      <3>1. p \notin Holding'
        BY <1>3, <2>1 DEF Holding, At, Moves
      <3>2. Holding' \subseteq Process /\ Holding \subseteq Process
        BY DEF Holding
      <3> QED BY <1>7, <1>8, <3>1, <3>2
    <2>5. TokenFree => TokenFree'
      BY <1>3, <2>1, <2>4 DEF TokenFree
    <2>6. ASSUME NEW h \in Process, TokenHeld(h) PROVE TokenHeld(h)'
      <3>1. h \in Process \ {p}
        BY <1>8, <2>6 DEF TokenHeld
      <3>2. proc'[h] = proc[h]
        BY <1>3, <3>1 DEF Moves
      <3> QED BY <1>3, <2>1, <2>4, <2>6, <3>2 DEF TokenHeld, HasItem
    <2> QED BY <1>2, <1>5, <1>6, <2>3, <2>5, <2>6 DEF IInv
  <1> QED BY <1>10, <1>11

\* The steps of the process that holds the token and keeps it.  Only the mutex
\* and the pipe change.
LEMMA HolderKeeps ==
  ASSUME IInv, NEW p \in Process, NEW c \in PC \ {"none"}, At(p, c), p \in Holding, Types',
         shell' = shell, u'.asleep = u.asleep, AllOpen(u'),
         \A l \in 1..2 : Nth(u', l) = Nth(u, l), Nth(u', 3).queue = <<>>,
         proc'[p].pc \in {"transfer", "post", "pass"},
         \A q \in Process \ {p} : proc'[q] = proc[q],
         Nth(u', 3).value = IF proc'[p].pc \in {"transfer", "post"} THEN 0 ELSE 1,
         Len(pipe'.bytes) = IF HasItem(p)' THEN 1 ELSE 0
  PROVE  IInv'
  <1>1. /\ shell # "idle" /\ Queues /\ u.asleep \subseteq Process /\ p \notin u.asleep
        /\ TokenHeld(p)
    BY AtWork
  <1>2. Queues'
    <2>1. \A q \in u.asleep : proc'[q].pc = "mutex"
      BY <1>1 DEF Queues
    <2> QED BY <1>1, <2>1 DEF Queues
  <1>3. Holding' = {p}
    <2>1. Holding = {p}
      BY <1>1 DEF TokenHeld
    <2>2. Holding' \subseteq Process /\ p \in Holding'
      BY DEF Holding
    <2>3. \A q \in Process \ {p} : q \in Holding' <=> q \in Holding
      BY DEF Holding, At
    <2> QED BY <2>1, <2>2, <2>3
  <1>4. TokenHeld(p)'
    BY <1>1, <1>3 DEF TokenHeld
  <1> QED BY <1>1, <1>2, <1>4 DEF IInv

\* The wait on the mutex keeps the invariant: whoever holds the token finds it
\* free.
LEMMA WaitsMutexKeeps ==
  ASSUME IInv, NEW p \in Process, waits_mutex(p)
  PROVE  IInv'
  <1>1. At(p, "mutex") /\ "mutex" \in PC \ {"none"} /\ "transfer" \in PC /\ p \in Holding
    BY DEF waits_mutex, PC, Holding
  <1>2. Types /\ AllOpen(u) /\ Queues /\ u \in UType /\ TokenHeld(p)
    BY <1>1, AtWork
  <1>3. Moves(p, "transfer") /\ shell' = shell /\ pipe' = pipe
    BY <1>1, <1>2, GoMoves DEF waits_mutex
  <1>4. Nth(u, 3).value = 1 /\ Nth(u, 3).queue = <<>>
    BY <1>1, <1>2 DEF TokenHeld, Queues, At
  <1>5. u' = my_sem_wait(u, NameOf(3), p)
    BY DEF waits_mutex, NameOf
  <1>6. /\ u' \in UType /\ AllOpen(u') /\ u'.asleep = u.asleep
        /\ \A l \in 1..2 : Nth(u', l) = Nth(u, l)
        /\ Nth(u', 3).value = 0 /\ Nth(u', 3).queue = <<>>
    <2>1. /\ u' \in UType /\ AllOpen(u')
          /\ u'.asleep = IF Nth(u, 3).value > 0 THEN u.asleep ELSE u.asleep \cup {p}
          /\ \A l \in 1..3 \ {3} : Nth(u', l) = Nth(u, l)
          /\ Nth(u', 3).value = IF Nth(u, 3).value > 0 THEN Nth(u, 3).value - 1 ELSE 0
          /\ Nth(u', 3).queue = IF Nth(u, 3).value > 0 THEN Nth(u, 3).queue
                                ELSE Append(Nth(u, 3).queue, p)
      BY <1>2, <1>5, StepWaits
    <2> QED BY <1>4, <2>1
  <1>7. Types'
    BY <1>2, <1>3, <1>6 DEF Types, Moves
  <1>8. Len(pipe'.bytes) = IF HasItem(p)' THEN 1 ELSE 0
    BY <1>1, <1>2, <1>3 DEF TokenHeld, HasItem, Moves, At
  <1> QED BY <1>1, <1>3, <1>6, <1>7, <1>8, HolderKeeps DEF Moves

\* The post of the mutex keeps the invariant.
LEMMA PostsMutexKeeps ==
  ASSUME IInv, NEW p \in Process, posts_mutex(p)
  PROVE  IInv'
  <1>1. At(p, "post") /\ "post" \in PC \ {"none"} /\ "pass" \in PC /\ p \in Holding
    BY DEF posts_mutex, PC, Holding, At
  <1>2. Types /\ AllOpen(u) /\ Queues /\ u \in UType /\ TokenHeld(p)
    BY <1>1, AtWork
  <1>3. Moves(p, "pass") /\ shell' = shell /\ pipe' = pipe
    BY <1>1, <1>2, GoMoves DEF posts_mutex
  <1>4. Nth(u, 3).value = 0 /\ Nth(u, 3).queue = <<>>
    BY <1>1, <1>2 DEF TokenHeld, Queues, At
  <1>5. u' = my_sem_post(u, NameOf(3))
    BY DEF posts_mutex, NameOf
  <1>6. /\ u' \in UType /\ AllOpen(u') /\ u'.asleep = u.asleep
        /\ \A l \in 1..2 : Nth(u', l) = Nth(u, l)
        /\ Nth(u', 3).value = 1 /\ Nth(u', 3).queue = <<>>
    <2>1. /\ u' \in UType /\ AllOpen(u')
          /\ u'.asleep = IF Nth(u, 3).queue = <<>> THEN u.asleep
                         ELSE u.asleep \ {Head(Nth(u, 3).queue)}
          /\ \A l \in 1..3 \ {3} : Nth(u', l) = Nth(u, l)
          /\ Nth(u', 3).value = IF Nth(u, 3).queue = <<>> THEN Nth(u, 3).value + 1
                                ELSE Nth(u, 3).value
          /\ Nth(u', 3).queue = IF Nth(u, 3).queue = <<>> THEN <<>>
                                ELSE Tail(Nth(u, 3).queue)
      BY <1>2, <1>5, StepPosts
    <2> QED BY <1>4, <2>1
  <1>7. Types'
    BY <1>2, <1>3, <1>6 DEF Types, Moves
  <1>8. Len(pipe'.bytes) = IF HasItem(p)' THEN 1 ELSE 0
    BY <1>1, <1>2, <1>3 DEF TokenHeld, HasItem, Moves, At
  <1> QED BY <1>1, <1>3, <1>6, <1>7, <1>8, HolderKeeps DEF Moves

\* The pipe of a writer that writes is empty, that of a reader that reads is not.
LEMMA TransferKeeps ==
  ASSUME IInv, NEW p \in Process, writes(p) \/ reads(p)
  PROVE  IInv'
  <1>1. At(p, "transfer") /\ "transfer" \in PC \ {"none"} /\ "post" \in PC /\ p \in Holding
    BY DEF writes, reads, PC, Holding, At
  <1>2. Types /\ AllOpen(u) /\ Queues /\ u \in UType /\ TokenHeld(p)
    BY <1>1, AtWork
  <1>3. /\ pipe.bytes \in Seq(Writers) /\ pipe.readers \in BOOLEAN /\ pipe.writers \in BOOLEAN
        /\ pipe \in [bytes : Seq(Writers), readers : BOOLEAN, writers : BOOLEAN]
    BY <1>2 DEF Types
  <1>4. Nth(u, 3).value = 0 /\ Nth(u, 3).queue = <<>>
    BY <1>1, <1>2 DEF TokenHeld, Queues, At
  <1>5. Len(pipe.bytes) = IF p \in Readers THEN 1 ELSE 0
    BY <1>1, <1>2 DEF TokenHeld, HasItem, At
  <1>6. u' = u /\ shell' = shell
    BY DEF writes, reads
  <1>7. /\ pipe' \in [bytes : Seq(Writers), readers : BOOLEAN, writers : BOOLEAN]
        /\ proc' \in [Process -> [pc : PC, ok : BOOLEAN]]
        /\ proc'[p].pc = "post" /\ \A q \in Process \ {p} : proc'[q] = proc[q]
        /\ Len(pipe'.bytes) = IF HasItem(p)' THEN 1 ELSE 0
    <2>1. CASE writes(p)
      <3>1. p \in Writers /\ p \notin Readers
        BY <2>1, Sides DEF writes
      <3>2. proc' = [proc EXCEPT ![p] = [pc |-> "post", ok |-> pipe.readers]]
        BY <2>1 DEF writes
      <3>3. /\ proc' \in [Process -> [pc : PC, ok : BOOLEAN]]
            /\ proc'[p].pc = "post" /\ proc'[p].ok = pipe.readers
            /\ \A q \in Process \ {p} : proc'[q] = proc[q]
        BY <1>1, <1>2, <1>3, <3>2 DEF Types
      <3>4. HasItem(p)' <=> pipe.readers
        BY <1>3, <3>1, <3>3 DEF HasItem, Passed, Own, Other
      <3>5. CASE pipe.readers
        <4>1. pipe' = [pipe EXCEPT !.bytes = Append(pipe.bytes, p)]
          BY <2>1, <3>5 DEF writes
        <4>2. Append(pipe.bytes, p) \in Seq(Writers) /\ Len(Append(pipe.bytes, p)) = 1
          BY <1>3, <1>5, <3>1
        <4>3. /\ pipe' \in [bytes : Seq(Writers), readers : BOOLEAN, writers : BOOLEAN]
              /\ pipe'.bytes = Append(pipe.bytes, p)
          BY <1>3, <4>1, <4>2
        <4> QED BY <3>3, <3>4, <3>5, <4>2, <4>3
      <3>6. CASE ~pipe.readers
        <4>1. pipe' = pipe
          BY <2>1, <3>6 DEF writes
        <4> QED BY <1>3, <1>5, <3>1, <3>3, <3>4, <3>6, <4>1
      <3> QED BY <3>5, <3>6
    <2>2. CASE reads(p)
      <3>1. p \in Readers /\ p \notin Writers
        BY <2>2, Sides DEF reads
      <3>2. Len(pipe.bytes) = 1 /\ pipe.bytes # <<>>
        BY <1>3, <1>5, <3>1
      <3>3. proc' = [proc EXCEPT ![p] = [pc |-> "post", ok |-> TRUE]]
        BY <2>2, <3>2 DEF reads
      <3>4. /\ proc' \in [Process -> [pc : PC, ok : BOOLEAN]]
            /\ proc'[p].pc = "post" /\ proc'[p].ok = TRUE
            /\ \A q \in Process \ {p} : proc'[q] = proc[q]
        BY <1>1, <1>2, <3>3 DEF Types
      <3>5. ~HasItem(p)'
        BY <3>1, <3>4 DEF HasItem, Passed, Own, Other
      <3>6. pipe' = [pipe EXCEPT !.bytes = Tail(pipe.bytes)]
        BY <2>2, <3>2 DEF reads
      <3>7. Tail(pipe.bytes) \in Seq(Writers) /\ Len(Tail(pipe.bytes)) = 0
        BY <1>3, <3>2
      <3>8. /\ pipe' \in [bytes : Seq(Writers), readers : BOOLEAN, writers : BOOLEAN]
            /\ pipe'.bytes = Tail(pipe.bytes)
        BY <1>3, <3>6, <3>7
      <3> QED BY <3>4, <3>5, <3>7, <3>8
    <2> QED BY <2>1, <2>2
  <1>8. Types'
    BY <1>2, <1>6, <1>7 DEF Types
  <1>9. /\ AllOpen(u') /\ u'.asleep = u.asleep /\ Nth(u', 3).queue = <<>>
        /\ Nth(u', 3).value = 0 /\ \A l \in 1..2 : Nth(u', l) = Nth(u, l)
    BY <1>2, <1>4, <1>6
  <1> QED BY <1>1, <1>6, <1>7, <1>8, <1>9, HolderKeeps

\* posts_token leaves the token in a semaphore, or hands it to the first sleeper
\* of one of the sides.
LEMMA PostsTokenKeeps ==
  ASSUME IInv, NEW p \in Process, posts_token(p)
  PROVE  IInv'
  <1> DEFINE n == PassedIndex(p)
  <1>1. At(p, "pass") /\ "pass" \in PC \ {"none"} /\ "loop" \in PC /\ p \in Holding
    BY DEF posts_token, PC, Holding, At
  <1>2. /\ shell # "idle" /\ Types /\ AllOpen(u) /\ Queues /\ u \in UType /\ TokenHeld(p)
        /\ u.asleep \subseteq Process /\ p \notin u.asleep
        /\ \A l \in 1..3 : Nth(u, l).value \in Nat /\ Nth(u, l).queue \in Seq(Process)
    BY <1>1, AtWork
  <1>3. Moves(p, "loop") /\ shell' = shell /\ pipe' = pipe
    BY <1>1, <1>2, GoMoves DEF posts_token
  <1>4. n \in 1..2 /\ (HasItem(p) <=> n = 2)
    BY <1>1, IndexNames DEF PassedIndex, HasItem, At
  <1>5. u' = my_sem_post(u, NameOf(n))
    BY IndexNames, Zenon DEF posts_token, n
  <1> HIDE DEF n
  <1>6. /\ u' \in UType /\ AllOpen(u')
        /\ u'.asleep = IF Nth(u, n).queue = <<>> THEN u.asleep
                       ELSE u.asleep \ {Head(Nth(u, n).queue)}
        /\ \A l \in 1..3 \ {n} : Nth(u', l) = Nth(u, l)
        /\ Nth(u', n).value = IF Nth(u, n).queue = <<>> THEN Nth(u, n).value + 1
                              ELSE Nth(u, n).value
        /\ Nth(u', n).queue = IF Nth(u, n).queue = <<>> THEN <<>> ELSE Tail(Nth(u, n).queue)
    <2>1. n \in 1..3
      BY <1>4
    <2> QED BY <1>2, <1>5, <2>1, StepPosts
  <1>7. Types' /\ shell' # "idle"
    BY <1>2, <1>3, <1>6 DEF Types, Moves
  <1>8. /\ Holding = {p} /\ Nth(u, 1).value = 0 /\ Nth(u, 2).value = 0 /\ Nth(u, 3).value = 1
        /\ Len(pipe.bytes) = IF n = 2 THEN 1 ELSE 0
    BY <1>1, <1>2, <1>4 DEF TokenHeld, At
  <1>9. \A q \in u'.asleep : proc'[q].pc = "mutex"
    BY <1>2, <1>3, <1>6 DEF Moves, Queues
  <1>10. Nth(u', 3) = Nth(u, 3) /\ Nth(u', 3).queue = <<>>
    BY <1>2, <1>4, <1>6 DEF Queues
  <1>11. p \notin Holding' /\ Holding' \subseteq Process
    BY <1>3 DEF Holding, At, Moves
  <1>12. CASE Nth(u, n).queue = <<>>
    <2>1. /\ u'.asleep = u.asleep /\ Nth(u', n).value = 1 /\ Nth(u', n).queue = <<>>
          /\ \A l \in 1..2 : Nth(u', l).queue = Nth(u, l).queue
      BY <1>4, <1>6, <1>8, <1>12
    <2>2. Queues'
      <3>1. \A l \in 1..2 : Nth(u', l).queue # <<>> => Nth(u', l).value = 0
        BY <1>2, <1>6, <2>1 DEF Queues
      <3> QED BY <1>2, <1>9, <1>10, <2>1, <3>1 DEF Queues
    <2>3. Holding' = {}
      <3>1. \A q \in Process \ {p} : q \in Holding' <=> q \in Holding
        BY <1>3, <2>1 DEF Holding, At, Moves
      <3> QED BY <1>8, <1>11, <3>1
    <2>4. TokenFree'
      <3>1. /\ Nth(u', 1).value = IF n = 2 THEN 0 ELSE 1
            /\ Nth(u', 2).value = IF n = 2 THEN 1 ELSE 0
        BY <1>4, <1>6, <1>8, <2>1
      <3> QED BY <1>3, <1>8, <1>10, <2>3, <3>1 DEF TokenFree
    <2> QED BY <1>6, <1>7, <2>2, <2>4 DEF IInv
  <1>13. CASE Nth(u, n).queue # <<>>
    <2>1. /\ Nth(u, n).queue \in Seq(Process) /\ Distinct(Nth(u, n).queue)
          /\ Elems(Nth(u, n).queue) = u.asleep \cap Side(n)
      BY <1>2, <1>4 DEF Queues
    <2>2. Head(Nth(u, n).queue) \in Process
      BY <1>13, <2>1, TailElems
    <2>3. PICK h \in Process : h = Head(Nth(u, n).queue)
      BY <2>2
    <2>4. /\ h \in Elems(Nth(u, n).queue)
          /\ Distinct(Tail(Nth(u, n).queue))
          /\ Elems(Tail(Nth(u, n).queue)) = Elems(Nth(u, n).queue) \ {h}
      BY <1>13, <2>1, <2>3, TailElems
    <2>5. /\ u'.asleep = u.asleep \ {h} /\ Nth(u', n).queue = Tail(Nth(u, n).queue)
          /\ \A l \in 1..3 : Nth(u', l).value = Nth(u, l).value
      BY <1>4, <1>6, <1>13, <2>3
    <2>6. h \in u.asleep /\ h \in Side(n) /\ h # p
      BY <1>2, <2>1, <2>4
    <2>7. Queues'
      <3>1. \A l \in 1..2 : /\ Elems(Nth(u', l).queue) = u'.asleep \cap Side(l)
                            /\ Distinct(Nth(u', l).queue)
                            /\ Nth(u', l).queue # <<>> => Nth(u', l).value = 0
        <4> SUFFICES ASSUME NEW l \in 1..2
                     PROVE  /\ Elems(Nth(u', l).queue) = u'.asleep \cap Side(l)
                            /\ Distinct(Nth(u', l).queue)
                            /\ Nth(u', l).queue # <<>> => Nth(u', l).value = 0
          OBVIOUS
        <4>1. Nth(u', l).value = 0
          BY <1>8, <2>5
        <4>2. CASE l = n
          BY <2>1, <2>4, <2>5, <4>1, <4>2
        <4>3. CASE l # n
          <5>1. h \notin Side(l)
            BY <1>4, <2>6, <4>3, Sides
          <5>2. Nth(u', l) = Nth(u, l)
            BY <1>6, <4>3
          <5>3. Elems(Nth(u, l).queue) = u.asleep \cap Side(l) /\ Distinct(Nth(u, l).queue)
            BY <1>2 DEF Queues
          <5> QED BY <2>5, <4>1, <5>1, <5>2, <5>3
        <4> QED BY <4>2, <4>3
      <3> QED BY <1>9, <1>10, <3>1 DEF Queues
    <2>8. proc[h].pc = "mutex" /\ proc'[h] = proc[h]
      BY <1>2, <1>3, <2>4, <2>6 DEF Queues, Moves
    <2>9. Holding' = {h}
      <3>1. h \in Holding'
        BY <2>4, <2>5, <2>8 DEF Holding, At
      <3>2. \A q \in Process \ {p, h} : q \in Holding' <=> q \in Holding
        BY <1>3, <2>5 DEF Holding, At, Moves
      <3> QED BY <1>8, <1>11, <3>1, <3>2
    <2>10. HasItem(h)' <=> n = 2
      BY <1>4, <2>4, <2>6, <2>8, Sides DEF HasItem
    <2>11. TokenHeld(h)'
      BY <1>3, <1>8, <2>5, <2>8, <2>9, <2>10 DEF TokenHeld
    <2> QED BY <1>6, <1>7, <2>4, <2>7, <2>11 DEF IInv
  <1> QED BY <1>12, <1>13

\* No semaphore is open before the command.
LEMMA InitHolds == Init => IInv
  <1> SUFFICES ASSUME Init PROVE IInv
    OBVIOUS
  <1>1. u = NoSemaphores
    BY DEF Init
  <1>2. NoSemaphores \in UType /\ NoneOpen(NoSemaphores)
    <2>1. NoName \in Names
      BY DEF Names
    <2> QED BY <2>1, FreshAreSems DEF NoSemaphores, UType, NoneOpen
  <1>3. Types
    BY <1>1, <1>2 DEF Init, Types, PC
  <1> QED BY <1>1, <1>2, <1>3 DEF Init, IInv

\* The command keeps the invariant: the token starts in slots.
LEMMA MvarCmdKeeps ==
  ASSUME IInv, mvarCmd
  PROVE  IInv'
  <1>1. /\ Types /\ NoneOpen(u) /\ pipe.bytes = <<>> /\ \A p \in Process : proc[p].pc = "none"
    BY DEF mvarCmd, IInv
  <1>2. u \in UType /\ u.next_sem_id \in Nat \ {0} /\ u.next_sem_id + 2 <= MaxId
    BY <1>1 DEF mvarCmd, Types, UType
  <1>3. OpenUpTo(OpenAll(u), u.next_sem_id, 3)
    BY <1>1, <1>2, OpenAllIs
  <1>4. OpenUpTo(u', u.next_sem_id, 3)
    BY <1>3 DEF mvarCmd
  <1>5. /\ AllOpen(u') /\ u' \in UType /\ u'.asleep = {}
        /\ Nth(u', 1) = NewSemaphore(1) /\ Nth(u', 2) = NewSemaphore(0)
        /\ Nth(u', 3) = NewSemaphore(1)
    BY <1>2, <1>4, NowOpen DEF OpenUpTo
  <1>6. \A v : NewSemaphore(v).value = v /\ NewSemaphore(v).queue = <<>>
    BY DEF NewSemaphore
  <1>7. shell' = "creating" /\ pipe' = pipe /\ proc' = proc
    BY DEF mvarCmd
  <1>8. Types'
    BY <1>1, <1>5, <1>7 DEF Types
  <1>9. Queues'
    <2>1. \A n \in 1..2 : Nth(u', n).queue = <<>>
      BY <1>5, <1>6
    <2>2. Elems(<<>>) = {} /\ Distinct(<<>>)
      BY NoElems
    <2> QED BY <1>5, <1>6, <2>1, <2>2 DEF Queues
  <1>10. TokenFree'
    <2>1. Holding' = {}
      BY <1>1, <1>7 DEF Holding, At
    <2> QED BY <1>1, <1>5, <1>6, <1>7, <2>1 DEF TokenFree
  <1> QED BY <1>5, <1>7, <1>8, <1>9, <1>10 DEF IInv

\* So does the command that finds no free pipe.
LEMMA PipeCreateFailsKeeps ==
  ASSUME IInv, pipe_create_fails
  PROVE  IInv'
  <1>1. /\ Types /\ NoneOpen(u) /\ pipe.bytes = <<>> /\ \A p \in Process : proc[p].pc = "none"
    BY DEF pipe_create_fails, IInv
  <1>2. u \in UType /\ u.next_sem_id \in Nat \ {0} /\ u.next_sem_id + 2 <= MaxId
    BY <1>1 DEF pipe_create_fails, Types, UType
  <1>3. OpenUpTo(OpenAll(u), u.next_sem_id, 3)
    BY <1>1, <1>2, OpenAllIs
  <1>4. CloseAll(OpenAll(u)) \in UType /\ NoneOpen(CloseAll(OpenAll(u)))
    BY <1>2, <1>3, CloseAllIs
  <1>5. /\ u' \in UType /\ NoneOpen(u') /\ shell' = "idle" /\ shell = "idle"
        /\ pipe' = pipe /\ proc' = proc
    BY <1>4 DEF pipe_create_fails
  <1> QED BY <1>1, <1>5 DEF IInv, Types

\* The creation of a process, or its failure, keeps the invariant.
LEMMA CreationKeeps ==
  ASSUME IInv, NEW p \in Process, create(p) \/ skip(p)
  PROVE  IInv'
  <1>1. shell # "idle" /\ proc[p].pc = "none" /\ Types
    BY DEF create, skip, MayCreate, IInv
  <1>2. shell' = shell /\ shell = "creating" /\ u' = u /\ pipe' = pipe
    BY DEF create, skip, MayCreate
  <1>3. PICK c \in {"open", "absent"} : Go(p, c)
    BY DEF create, skip
  <1>4. Moves(p, c)
    BY <1>1, <1>3, GoMoves DEF PC
  <1>5. Types'
    BY <1>1, <1>2, <1>4 DEF Types, Moves
  <1> QED BY <1>1, <1>2, <1>4, <1>5, QuietStep

\* pipe_open and pipe_dup keep the invariant.
LEMMA OpeningKeeps ==
  ASSUME IInv, NEW p \in Process, pipe_open(p) \/ pipe_dup(p)
  PROVE  IInv'
  <1>1. /\ proc[p].pc \in {"open", "dup"} /\ shell # "idle" /\ Types
        /\ shell' = shell /\ u' = u
    BY DEF pipe_open, pipe_dup, At, IInv
  <1>2. shell' \in {"creating", "done"}
    BY <1>1 DEF Types
  <1>3. PICK c \in {"dup", "loop"} : Go(p, c)
    BY DEF pipe_open, pipe_dup
  <1>4. Moves(p, c)
    BY <1>1, <1>3, GoMoves DEF PC
  <1>5. PICK b \in BOOLEAN : pipe' = Opened(b)
    <2>1. (p \in Writers) \in BOOLEAN
      OBVIOUS
    <2>2. ASSUME pipe_open(p) PROVE \E b \in BOOLEAN : pipe' = Opened(b)
      BY <2>2, Zenon DEF pipe_open
    <2>3. ASSUME pipe_dup(p) PROVE \E b \in BOOLEAN : pipe' = Opened(b)
      BY <2>1, <2>3, Zenon DEF pipe_dup
    <2> QED BY <2>2, <2>3
  <1>6. /\ pipe' \in [bytes : Seq(Writers), readers : BOOLEAN, writers : BOOLEAN]
        /\ pipe'.bytes = pipe.bytes
    BY <1>1, <1>5 DEF Types, Opened
  <1>7. Types'
    BY <1>1, <1>4, <1>6 DEF Types, Moves
  <1> QED BY <1>1, <1>2, <1>4, <1>6, <1>7, QuietStep

\* A step of the shell alone keeps the invariant.
LEMMA NothingMoves ==
  ASSUME IInv, UNCHANGED <<u, pipe, proc>>, shell' \in {"idle", "creating", "done"},
         shell' = "idle" <=> shell = "idle"
  PROVE  IInv'
  <1>1. Types'
    BY DEF IInv, Types
  <1>2. NoneOpen(u) => NoneOpen(u')
    OBVIOUS
  <1>3. AllOpen(u) => AllOpen(u')
    OBVIOUS
  <1>4. Queues => Queues'
    BY DEF Queues
  <1>5. TokenFree => TokenFree'
    BY DEF TokenFree, Holding, At
  <1>6. \A h \in Process : TokenHeld(h) => TokenHeld(h)'
    BY DEF TokenHeld, Holding, At, HasItem
  <1> QED BY <1>1, <1>2, <1>3, <1>4, <1>5, <1>6 DEF IInv

\* Every step of mvar keeps the invariant.
LEMMA NextKeeps == IInv /\ [Next]_vars => IInv'
  <1> SUFFICES ASSUME IInv, [Next]_vars PROVE IInv'
    OBVIOUS
  <1>1. CASE mvarCmd
    BY <1>1, MvarCmdKeeps
  <1>2. CASE pipe_create_fails
    BY <1>2, PipeCreateFailsKeeps
  <1>3. CASE all_created
    BY <1>3, NothingMoves DEF all_created
  <1>4. ASSUME NEW p \in Process, create(p) \/ skip(p) PROVE IInv'
    BY <1>4, CreationKeeps
  <1>5. ASSUME NEW p \in Process, pipe_open(p) \/ pipe_dup(p) PROVE IInv'
    BY <1>5, OpeningKeeps
  <1>6. ASSUME NEW p \in Process, waits_own(p) PROVE IInv'
    BY <1>6, WaitsOwnKeeps
  <1>7. ASSUME NEW p \in Process, waits_mutex(p) PROVE IInv'
    BY <1>7, WaitsMutexKeeps
  <1>8. ASSUME NEW p \in Process, writes(p) \/ reads(p) PROVE IInv'
    BY <1>8, TransferKeeps
  <1>9. ASSUME NEW p \in Process, posts_mutex(p) PROVE IInv'
    BY <1>9, PostsMutexKeeps
  <1>10. ASSUME NEW p \in Process, posts_token(p) PROVE IInv'
    BY <1>10, PostsTokenKeeps
  <1>11. CASE UNCHANGED vars
    <2>1. shell \in {"idle", "creating", "done"}
      BY DEF IInv, Types
    <2> QED BY <1>11, <2>1, NothingMoves DEF vars
  <1> QED
    BY <1>1, <1>2, <1>3, <1>4, <1>5, <1>6, <1>7, <1>8, <1>9, <1>10, <1>11 DEF Next, Step

\* The invariant holds of every reachable state.
LEMMA Invariant == Spec => []IInv
  BY InitHolds, NextKeeps, PTL DEF Spec

-----------------------------------------------------------------------------
\* The values the property speaks of are those of the first two semaphores.
LEMMA ValuesAre ==
  ASSUME AllOpen(u)
  PROVE  Value("slots") = Nth(u, 1).value /\ Value("items") = Nth(u, 2).value
  <1>1. u.user_sem_ids[1] # 0 /\ u.user_sem_ids[2] # 0
    BY DEF AllOpen, Id
  <1> QED BY <1>1, IdsOf DEF Value, Nth

\* The slots and the items semaphore of mvarCmd share one token for any number
\* of writers and readers, and the pipe has a byte exactly while the token is
\* on the items' side.
THEOREM OneValue == Spec => []OneValueAtMost
  <1>1. IInv => OneValueAtMost
    <2> SUFFICES ASSUME IInv, shell # "idle"
                 PROVE  /\ Value("slots") + Value("items") + Cardinality(Holding) = 1
                        /\ Len(pipe.bytes) = Value("items") + Cardinality(WithItem)
      BY DEF OneValueAtMost
    <2>1. AllOpen(u) /\ (TokenFree \/ \E h \in Process : TokenHeld(h))
      BY DEF IInv
    <2>2. Value("slots") = Nth(u, 1).value /\ Value("items") = Nth(u, 2).value
      BY <2>1, ValuesAre
    <2>3. WithItem = {p \in Holding : HasItem(p)}
      BY DEF WithItem, HasItem
    <2>4. CASE TokenFree
      <3>1. Holding = {} /\ WithItem = {}
        BY <2>3, <2>4 DEF TokenFree
      <3>2. Cardinality({}) = 0
        BY FS_EmptySet
      <3>3. Nth(u, 1).value \in Nat /\ Nth(u, 2).value \in Nat
        <4>1. \A n \in 1..3 : Nth(u, n) \in Sem
          BY <2>1 DEF IInv, Types, UType, AllOpen, Nth
        <4> QED BY <4>1 DEF Sem
      <3> QED BY <2>2, <2>4, <3>1, <3>2, <3>3 DEF TokenFree
    <2>5. ASSUME NEW h \in Process, TokenHeld(h)
          PROVE  /\ Value("slots") + Value("items") + Cardinality(Holding) = 1
                 /\ Len(pipe.bytes) = Value("items") + Cardinality(WithItem)
      <3>1. Holding = {h} /\ WithItem = IF HasItem(h) THEN {h} ELSE {}
        BY <2>3, <2>5 DEF TokenHeld
      <3>2. Cardinality({}) = 0 /\ Cardinality({h}) = 1
        BY FS_EmptySet, FS_Singleton
      <3> QED BY <2>2, <2>5, <3>1, <3>2 DEF TokenHeld
    <2> QED BY <2>1, <2>4, <2>5
  <1> QED BY <1>1, Invariant, PTL

\* For any number of writers and readers, whoever is inside sys_read or
\* sys_write with the mutex of mvar in hand finds a byte, or room for one.
THEOREM NobodySleeps == Spec => []NobodySleepsInThePipe
  <1>1. IInv => NobodySleepsInThePipe
    <2> SUFFICES ASSUME IInv, NEW p \in Process, At(p, "transfer")
                 PROVE  IF p \in Readers THEN pipe.bytes # <<>> \/ ~pipe.writers
                        ELSE ~pipe.readers \/ Len(pipe.bytes) < PIPE_BUFFER_SIZE
      BY DEF NobodySleepsInThePipe
    <2>1. TokenHeld(p)
      BY AtWork DEF Holding, At, PC
    <2>2. Len(pipe.bytes) = IF p \in Readers THEN 1 ELSE 0
      BY <2>1 DEF TokenHeld, HasItem, At
    <2> QED BY <2>2, MVarAssumption
  <1> QED BY <1>1, Invariant, PTL

=============================================================================
