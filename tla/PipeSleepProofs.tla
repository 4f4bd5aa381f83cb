--------------------------- MODULE PipeSleepProofs ---------------------------
(***************************************************************************)
(* Nobody sleeps at the pipe while there is something to do for it, for    *)
(* any number of readers, any size of the ring and any number of bytes     *)
(* (ReadersAreWoken, SleepersAreWoken).                                    *)
(***************************************************************************)
EXTENDS PipeProofs

\* S has n elements or more.
AtLeast(n, S) == \E f : Numbers(f, n, S)

\* A new element adds one ...
LEMMA AtLeastAdd ==
  ASSUME NEW n \in Int, NEW S, AtLeast(n, S), NEW p, p \notin S
  PROVE  AtLeast(n + 1, S \cup {p})
  <1>1. CASE n \in Nat
    <2>1. PICK f : Numbers(f, n, S)
      BY DEF AtLeast
    <2> QED BY <1>1, <2>1, WithLastIs DEF AtLeast
  <1>2. CASE n \notin Nat
    <2>1. 1..(n + 1) = {}
      BY <1>2
    <2>2. [i \in 1..(n + 1) |-> 0] \in [1..(n + 1) -> S \cup {p}]
      BY <2>1
    <2> QED BY <2>1, <2>2 DEF AtLeast, Numbers, OneToOne
  <1> QED BY <1>1, <1>2

\* ... and one that leaves takes at most one away.
LEMMA AtLeastRemove ==
  ASSUME NEW n \in Int, NEW S, AtLeast(n, S), NEW p
  PROVE  AtLeast(n - 1, S \ {p})
  <1>1. PICK f : Numbers(f, n, S)
    BY DEF AtLeast
  <1>2. CASE \E k \in 1..n : f[k] = p
    <2>1. PICK k \in 1..n : f[k] = p
      BY <1>2
    <2>2. n \in Nat
      BY <2>1
    <2>3. Numbers(Without(f, n, k), n - 1, S \ {p})
      BY <1>1, <2>1, <2>2, WithoutIs
    <2> QED BY <2>3 DEF AtLeast
  <1>3. CASE \A k \in 1..n : f[k] # p
    <2> DEFINE g == [i \in 1..(n - 1) |-> f[i]]
    <2>1. 1..(n - 1) \subseteq 1..n
      OBVIOUS
    <2>2. Numbers(g, n - 1, S \ {p})
      BY <1>1, <1>3, <2>1 DEF Numbers, OneToOne
    <2> QED BY <2>2 DEF AtLeast
  <1> QED BY <1>2, <1>3

\* A larger set has at least as many, and where there is one to count the set
\* is not empty.
LEMMA AtLeastIs ==
  ASSUME NEW n \in Int, NEW S, AtLeast(n, S)
  PROVE  /\ \A T : S \subseteq T => AtLeast(n, T)
         /\ n > 0 => S # {}
  <1>1. PICK f : Numbers(f, n, S)
    BY DEF AtLeast
  <1>2. \A T : S \subseteq T => Numbers(f, n, T)
    BY <1>1 DEF Numbers
  <1>3. n > 0 => 1 \in 1..n
    OBVIOUS
  <1>4. n > 0 => S # {}
    BY <1>1, <1>3 DEF Numbers
  <1>5. ASSUME NEW T, S \subseteq T PROVE AtLeast(n, T)
    BY <1>2, <1>5 DEF AtLeast
  <1> QED BY <1>4, <1>5

\* Nothing is no more than there is.
LEMMA AtLeastNone ==
  ASSUME NEW S
  PROVE  AtLeast(0, S)
  <1>1. [i \in 1..0 |-> 0] \in [1..0 -> S]
    OBVIOUS
  <1>2. Numbers([i \in 1..0 |-> 0], 0, S)
    BY <1>1 DEF Numbers, OneToOne
  <1> QED BY <1>2 DEF AtLeast

(***************************************************************************)
(* Who sleeps in the queues of the semaphores s, when the processes are as *)
(* in P and the shell as in sh, and n bytes are in the ring.               *)
(***************************************************************************)
PcOf == [items |-> "wait_item", spaces |-> "wait_space", mutex |-> "wait_mutex"]

\* p sleeps on i, or is about to, and will look at the pipe again.
WaitsIn(s, P, sh, i, p) ==
  IF p = Shell THEN i = "mutex" /\ sh.pc \in {"opening", "killing"} /\ Shell \in s.blocked
  ELSE \/ P[p].pc = PcOf[i] /\ p \in s.blocked
       \/ /\ i = "mutex" /\ P[p].pc = "closing"
          /\ P[p].todo = ThenCount("block") \/ (P[p].todo = OnlyCount /\ p \in s.blocked)

Member(q, p) == \E j \in DOMAIN q : q[j] = p

QueuesOk(s, P, sh) ==
  \A i \in Sem :
    /\ \A j \in DOMAIN s[i].queue : WaitsIn(s, P, sh, i, s[i].queue[j])
    /\ \A j, k \in DOMAIN s[i].queue : s[i].queue[j] = s[i].queue[k] => j = k

\* A process that has an item, or will have the mutex.
WokenIn(s, P, p) ==
  \/ P[p].pc \in {"loop", "held", "wait_mutex"}
  \/ P[p].pc \in {"wait_item", "wait_space"} /\ p \notin s.blocked

WokenReaders(s, P) == {r \in Readers : WokenIn(s, P, r)}

ItemsOk(s, P, n) ==
  s["items"].queue # <<>> => AtLeast(n, WokenReaders(s, P))

\* Readers wait for items, writers for spaces.
Sides(P) ==
  \A p \in Process : /\ P[p].pc = "wait_item" => p \in Readers
                     /\ P[p].pc = "wait_space" => p \in Writers

SleepInv ==
  /\ Sides(proc)
  /\ pipe.used => QueuesOk(sem, proc, shell) /\ ItemsOk(sem, proc, pipe.count)

-----------------------------------------------------------------------------
\* Where a process sleeps tells which semaphore it waits for.
LEMMA PcIs ==
  /\ PcOf["items"] = "wait_item" /\ PcOf["spaces"] = "wait_space"
  /\ PcOf["mutex"] = "wait_mutex"
  /\ \A i, j \in Sem : PcOf[i] = PcOf[j] => i = j
  /\ \A i \in Sem : PcOf[i] \in {"wait_item", "wait_space", "wait_mutex"}
  BY DEF PcOf, Sem

\* More woken readers are no fewer.
LEMMA WokenGrows ==
  ASSUME NEW s, NEW P, NEW t, NEW Q, WokenReaders(s, P) \subseteq WokenReaders(t, Q),
         NEW n \in Int, t["items"].queue # <<>> => s["items"].queue # <<>>, ItemsOk(s, P, n)
  PROVE  ItemsOk(t, Q, n)
  BY AtLeastIs DEF ItemsOk

\* With an empty ring there is nothing to be woken for.
LEMMA NothingToRead ==
  ASSUME NEW s, NEW P
  PROVE  ItemsOk(s, P, 0)
  BY AtLeastNone DEF ItemsOk

\* A process that runs is in no queue.
LEMMA RunsUnqueued ==
  ASSUME NEW s, NEW P, NEW sh, QueuesOk(s, P, sh), NEW p, p # Shell,
         P[p].pc \notin {"wait_item", "wait_space", "wait_mutex", "closing"} \/ p \notin s.blocked,
         P[p].pc = "closing" => p \notin s.blocked /\ P[p].todo # ThenCount("block")
  PROVE  \A i \in Sem : ~Member(s[i].queue, p)
  <1> SUFFICES ASSUME NEW i \in Sem, NEW j \in DOMAIN s[i].queue, s[i].queue[j] = p
               PROVE  FALSE
    BY DEF Member
  <1>1. WaitsIn(s, P, sh, i, p)
    BY DEF QueuesOk
  <1> QED BY <1>1, PcIs DEF WaitsIn

\* Nor is the shell, when it runs.
LEMMA ShellUnqueued ==
  ASSUME NEW s, NEW P, NEW sh, QueuesOk(s, P, sh),
         sh.pc \notin {"opening", "killing"} \/ Shell \notin s.blocked
  PROVE  \A i \in Sem : ~Member(s[i].queue, Shell)
  <1> SUFFICES ASSUME NEW i \in Sem, NEW j \in DOMAIN s[i].queue, s[i].queue[j] = Shell
               PROVE  FALSE
    BY DEF Member
  <1>1. WaitsIn(s, P, sh, i, Shell)
    BY DEF QueuesOk
  <1> QED BY <1>1 DEF WaitsIn

\* Whoever is in no queue may go on ...
LEMMA MoveQueues ==
  ASSUME NEW s, NEW P, NEW sh, QueuesOk(s, P, sh), SemType(s), NEW p,
         \A i \in Sem : ~Member(s[i].queue, p), NEW Q, NEW th,
         \A q \in Process : q # p => Q[q] = P[q], p # Shell => th = sh
  PROVE  QueuesOk(s, Q, th)
  <1> SUFFICES ASSUME NEW i \in Sem, NEW j \in DOMAIN s[i].queue
               PROVE  WaitsIn(s, Q, th, i, s[i].queue[j])
    BY DEF QueuesOk
  <1> DEFINE q == s[i].queue[j]
  <1>1. WaitsIn(s, P, sh, i, q) /\ q # p
    BY DEF QueuesOk, Member
  <1>2. q \in Process \cup {Shell}
    <2>1. s[i].queue \in Seq(Process \cup {Shell})
      BY DEF SemType, semaphore_t, Sleeper
    <2> QED BY <2>1
  <1> HIDE DEF q
  <1>3. q # Shell => Q[q] = P[q]
    BY <1>1, <1>2
  <1>4. q = Shell => th = sh
    BY <1>1
  <1>5. WaitsIn(s, Q, th, i, q)
    BY <1>1, <1>3, <1>4 DEF WaitsIn
  <1> QED BY <1>5 DEF q

\* ... queues that stay do so while more processes sleep ...
LEMMA SameQueues ==
  ASSUME NEW s, NEW P, NEW sh, QueuesOk(s, P, sh), NEW t,
         \A i \in Sem : t[i].queue = s[i].queue, s.blocked \subseteq t.blocked
  PROVE  QueuesOk(t, P, sh)
  <1> SUFFICES ASSUME NEW i \in Sem
               PROVE  /\ \A j \in DOMAIN t[i].queue : WaitsIn(t, P, sh, i, t[i].queue[j])
                      /\ \A j, k \in DOMAIN t[i].queue : t[i].queue[j] = t[i].queue[k] => j = k
    BY DEF QueuesOk
  <1>1. \A p : WaitsIn(s, P, sh, i, p) => WaitsIn(t, P, sh, i, p)
    BY DEF WaitsIn
  <1> QED BY <1>1 DEF QueuesOk

\* ... a process may go to sleep ...
LEMMA AppendQueues ==
  ASSUME NEW s, NEW P, NEW sh, QueuesOk(s, P, sh), SemType(s), NEW i \in Sem, NEW p \in Sleeper,
         ~Member(s[i].queue, p), NEW t, s.blocked \subseteq t.blocked,
         Queues(s, t, i, Append(s[i].queue, p), t.blocked), WaitsIn(t, P, sh, i, p)
  PROVE  QueuesOk(t, P, sh)
  <1>1. \A j \in Sem : \A q : WaitsIn(s, P, sh, j, q) => WaitsIn(t, P, sh, j, q)
    BY DEF WaitsIn
  <1> SUFFICES ASSUME NEW k \in Sem
               PROVE  /\ \A j \in DOMAIN t[k].queue : WaitsIn(t, P, sh, k, t[k].queue[j])
                      /\ \A j, l \in DOMAIN t[k].queue : t[k].queue[j] = t[k].queue[l] => j = l
    BY DEF QueuesOk
  <1>2. CASE k # i
    <2>1. t[k].queue = s[k].queue
      BY <1>2 DEF Queues
    <2> QED BY <1>1, <2>1 DEF QueuesOk
  <1>3. CASE k = i
    <2> DEFINE q == s[i].queue
               r == Append(q, p)
    <2>1. q \in Seq(Sleeper) /\ t[k].queue = r
      BY <1>3 DEF SemType, semaphore_t, Queues
    <2>2. /\ DOMAIN q = 1..Len(q) /\ DOMAIN r = 1..(Len(q) + 1) /\ Len(q) \in Nat
          /\ r[Len(q) + 1] = p /\ \A j \in 1..Len(q) : r[j] = q[j]
      BY <2>1
    <2>3. /\ \A j \in DOMAIN q : q[j] # p /\ WaitsIn(t, P, sh, i, q[j])
          /\ \A j, l \in DOMAIN q : q[j] = q[l] => j = l
      BY <1>1 DEF QueuesOk, Member
    <2> HIDE DEF q, r
    <2>4. \A j \in DOMAIN r : j = Len(q) + 1 \/ j \in DOMAIN q
      BY <2>2
    <2>5. \A j \in DOMAIN r : WaitsIn(t, P, sh, i, r[j])
      BY <2>2, <2>3, <2>4
    <2>6. ASSUME NEW j \in DOMAIN r, NEW l \in DOMAIN r, r[j] = r[l] PROVE j = l
      <3>1. CASE j = Len(q) + 1 /\ l = Len(q) + 1
        BY <3>1
      <3>2. CASE j = Len(q) + 1 /\ l \in DOMAIN q
        BY <2>2, <2>3, <2>6, <3>2
      <3>3. CASE j \in DOMAIN q /\ l = Len(q) + 1
        BY <2>2, <2>3, <2>6, <3>3
      <3>4. CASE j \in DOMAIN q /\ l \in DOMAIN q
        BY <2>2, <2>3, <2>6, <3>4
      <3> QED BY <2>4, <3>1, <3>2, <3>3, <3>4
    <2> QED BY <1>3, <2>1, <2>5, <2>6
  <1> QED BY <1>2, <1>3

\* ... and the first of a queue may be woken.
LEMMA SignalQueues ==
  ASSUME NEW s, NEW P, NEW sh, QueuesOk(s, P, sh), SemType(s), NEW i \in Sem
  PROVE  LET t == sem_signal_by_id(s, i)
         IN  /\ QueuesOk(t, P, sh) /\ Kept(s, t) /\ t.blocked \subseteq s.blocked
             /\ \A j \in Sem : \A p : Member(t[j].queue, p) => Member(s[j].queue, p)
             /\ \A j \in Sem : t[j].queue # <<>> => s[j].queue # <<>>
             /\ \A j \in Sem : j # i => t[j].queue = s[j].queue
  <1> DEFINE t == sem_signal_by_id(s, i)
             q == s[i].queue
  <1>0. q \in Seq(Sleeper)
    BY DEF SemType, semaphore_t
  <1>1. /\ Kept(s, t)
        /\ IF ~s[i].used \/ q = <<>> THEN Queues(s, t, i, q, s.blocked)
           ELSE Queues(s, t, i, Tail(q), s.blocked \ {Head(q)})
    BY SignalEffect
  <1> HIDE DEF t
  <1>2. CASE ~s[i].used \/ q = <<>>
    <2>1. t.blocked = s.blocked /\ \A j \in Sem : t[j].queue = s[j].queue
      BY <1>1, <1>2 DEF Queues
    <2>2. QueuesOk(t, P, sh)
      BY <2>1, SameQueues
    <2> QED BY <1>1, <2>1, <2>2 DEF t
  <1>3. CASE s[i].used /\ q # <<>>
    <2> DEFINE h == Head(q)
    <2>1. /\ t.blocked = s.blocked \ {h} /\ t[i].queue = Tail(q)
          /\ \A j \in Sem : j # i => t[j].queue = s[j].queue
      BY <1>1, <1>3 DEF Queues
    <2>2. /\ DOMAIN q = 1..Len(q) /\ Len(q) \in Nat /\ Len(q) > 0 /\ h = q[1]
          /\ DOMAIN Tail(q) = 1..(Len(q) - 1)
          /\ \A j \in 1..(Len(q) - 1) : Tail(q)[j] = q[j + 1]
      BY <1>0, <1>3
    <2> HIDE DEF h
    <2>3. ASSUME NEW j \in DOMAIN Tail(q)
          PROVE  j + 1 \in DOMAIN q /\ Tail(q)[j] = q[j + 1] /\ q[j + 1] # h
      <3>1. j + 1 \in DOMAIN q /\ Tail(q)[j] = q[j + 1] /\ 1 \in DOMAIN q /\ j + 1 # 1
        BY <2>2
      <3> QED BY <2>2, <3>1 DEF QueuesOk
    <2>4. WaitsIn(s, P, sh, i, h)
      <3>1. 1 \in DOMAIN q
        BY <2>2
      <3> QED BY <2>2, <3>1 DEF QueuesOk
    <2>5. \A j \in Sem : j # i => ~WaitsIn(s, P, sh, j, h)
      BY <2>4, PcIs DEF WaitsIn
    <2>6. \A j \in Sem : \A p : p # h /\ WaitsIn(s, P, sh, j, p) => WaitsIn(t, P, sh, j, p)
      BY <2>1 DEF WaitsIn
    <2>7. QueuesOk(t, P, sh)
      <3> SUFFICES ASSUME NEW k \in Sem
                   PROVE  /\ \A j \in DOMAIN t[k].queue : WaitsIn(t, P, sh, k, t[k].queue[j])
                          /\ \A j, l \in DOMAIN t[k].queue : t[k].queue[j] = t[k].queue[l] => j = l
        BY DEF QueuesOk
      <3>1. CASE k # i
        <4>1. t[k].queue = s[k].queue
          BY <2>1, <3>1
        <4> QED BY <2>5, <2>6, <3>1, <4>1 DEF QueuesOk
      <3>2. CASE k = i
        <4>1. \A j \in DOMAIN Tail(q) : WaitsIn(t, P, sh, i, Tail(q)[j])
          BY <2>3, <2>6 DEF QueuesOk
        <4>2. ASSUME NEW j \in DOMAIN Tail(q), NEW l \in DOMAIN Tail(q), Tail(q)[j] = Tail(q)[l]
              PROVE  j = l
          <5>1. j + 1 = l + 1
            BY <2>3, <4>2 DEF QueuesOk
          <5> QED BY <2>2, <5>1
        <4> QED BY <2>1, <3>2, <4>1, <4>2, ZenonT(30)
      <3> QED BY <3>1, <3>2
    <2>8. \A j \in Sem : \A p : Member(t[j].queue, p) => Member(s[j].queue, p)
      BY <2>1, <2>3, ZenonT(30) DEF Member
    <2>9. \A j \in Sem : t[j].queue # <<>> => s[j].queue # <<>>
      BY <1>3, <2>1
    <2> QED BY <1>1, <2>1, <2>7, <2>8, <2>9 DEF t
  <1> QED BY <1>2, <1>3

\* A signal wakes readers if anything, ...
LEMMA SignalItems ==
  ASSUME NEW s, NEW P, NEW sh, QueuesOk(s, P, sh), SemType(s), NEW i \in Sem,
         NEW n \in Int, ItemsOk(s, P, n)
  PROVE  ItemsOk(sem_signal_by_id(s, i), P, n)
  <1> DEFINE t == sem_signal_by_id(s, i)
  <1>1. t.blocked \subseteq s.blocked /\ (t["items"].queue # <<>> => s["items"].queue # <<>>)
    BY SignalQueues, ZenonT(30) DEF Sem
  <1> HIDE DEF t
  <1>2. WokenReaders(s, P) \subseteq WokenReaders(t, P)
    BY <1>1 DEF WokenReaders, WokenIn
  <1>3. ItemsOk(t, P, n)
    BY <1>1, <1>2, WokenGrows
  <1> QED BY <1>3 DEF t

\* ... and the one for a byte wakes a reader for it.
LEMMA ByteItems ==
  ASSUME NEW s, NEW P, NEW sh, QueuesOk(s, P, sh), SemType(s), s["items"].used, Sides(P),
         NEW n \in Int, ItemsOk(s, P, n)
  PROVE  ItemsOk(sem_signal_by_id(s, "items"), P, n + 1)
  <1> DEFINE t == sem_signal_by_id(s, "items")
             q == s["items"].queue
             h == Head(q)
  <1>0. "items" \in Sem /\ q \in Seq(Sleeper)
    BY DEF SemType, semaphore_t, Sem
  <1>1. IF q = <<>> THEN Queues(s, t, "items", q, s.blocked)
        ELSE Queues(s, t, "items", Tail(q), s.blocked \ {h})
    BY <1>0, SignalEffect
  <1> HIDE DEF t
  <1>2. CASE q = <<>>
    <2>1. t["items"].queue = <<>>
      BY <1>0, <1>1, <1>2 DEF Queues
    <2> QED BY <2>1 DEF ItemsOk, t
  <1>3. CASE q # <<>>
    <2>1. t.blocked = s.blocked \ {h}
      BY <1>1, <1>3 DEF Queues
    <2>2. 1 \in DOMAIN q /\ h = q[1] /\ h \in Sleeper
      BY <1>0, <1>3
    <2> HIDE DEF h, q
    <2>3. WaitsIn(s, P, sh, "items", h)
      BY <1>0, <2>2 DEF QueuesOk, q
    <2>4. h \in Process /\ P[h].pc = "wait_item" /\ h \in s.blocked
      BY <2>2, <2>3, PcIs DEF WaitsIn, Sleeper
    <2>5. h \in Readers
      BY <2>4 DEF Sides
    <2>6. h \notin WokenReaders(s, P)
      BY <2>4 DEF WokenReaders, WokenIn
    <2>7. WokenReaders(s, P) \cup {h} \subseteq WokenReaders(t, P)
      BY <2>1, <2>4, <2>5 DEF WokenReaders, WokenIn
    <2>8. AtLeast(n, WokenReaders(s, P))
      BY <1>3 DEF ItemsOk, q
    <2>9. AtLeast(n + 1, WokenReaders(s, P) \cup {h})
      BY <2>6, <2>8, AtLeastAdd
    <2>10. AtLeast(n + 1, WokenReaders(t, P))
      BY <2>7, <2>9, AtLeastIs
    <2> QED BY <2>10 DEF ItemsOk, t
  <1> QED BY <1>2, <1>3

\* A process may go on: a reader that was woken takes a byte with it when it
\* is no longer on its way.
LEMMA MoveItems ==
  ASSUME NEW s, NEW P, NEW Q, NEW p, \A q \in Process : q # p => Q[q] = P[q],
         NEW n \in Int, ItemsOk(s, P, n)
  PROVE  /\ ItemsOk(s, Q, n - 1)
         /\ (p \in Readers /\ WokenIn(s, P, p) => WokenIn(s, Q, p)) => ItemsOk(s, Q, n)
  <1>0. Readers \subseteq Process
    BY DEF Process
  <1>1. WokenReaders(s, P) \ {p} \subseteq WokenReaders(s, Q)
    BY <1>0 DEF WokenReaders, WokenIn
  <1>2. ASSUME AtLeast(n, WokenReaders(s, P)) PROVE AtLeast(n - 1, WokenReaders(s, Q))
    <2>1. AtLeast(n - 1, WokenReaders(s, P) \ {p})
      BY <1>2, AtLeastRemove
    <2> QED BY <1>1, <2>1, AtLeastIs
  <1>3. ItemsOk(s, Q, n - 1)
    BY <1>2 DEF ItemsOk
  <1>4. ASSUME p \in Readers /\ WokenIn(s, P, p) => WokenIn(s, Q, p) PROVE ItemsOk(s, Q, n)
    <2>1. WokenReaders(s, P) \subseteq WokenReaders(s, Q)
      BY <1>1, <1>4 DEF WokenReaders
    <2> QED BY <2>1, WokenGrows
  <1> QED BY <1>3, <1>4

\* sem_wait_by_id keeps the queues in order.
LEMMA WaitQueues ==
  ASSUME NEW s, NEW P, NEW sh, QueuesOk(s, P, sh), SemType(s), NEW i \in Sem, NEW p \in Sleeper,
         ~Member(s[i].queue, p),
         Sleeps(s, i) => IF p = Shell THEN i = "mutex" /\ sh.pc \in {"opening", "killing"}
                         ELSE P[p].pc = PcOf[i]
  PROVE  QueuesOk(sem_wait_by_id(s, i, p), P, sh)
  <1> DEFINE t == sem_wait_by_id(s, i, p)
             q == s[i].queue
  <1>1. IF Sleeps(s, i) THEN Queues(s, t, i, Append(q, p), s.blocked \cup {p})
        ELSE Queues(s, t, i, q, s.blocked)
    BY WaitEffect
  <1> HIDE DEF t
  <1>2. CASE Sleeps(s, i)
    <2>1. t.blocked = s.blocked \cup {p} /\ Queues(s, t, i, Append(q, p), t.blocked)
      BY <1>1, <1>2 DEF Queues
    <2>2. WaitsIn(t, P, sh, i, p)
      BY <1>2, <2>1 DEF WaitsIn
    <2>3. QueuesOk(t, P, sh)
      BY <2>1, <2>2, AppendQueues, SMTT(30)
    <2> QED BY <2>3 DEF t
  <1>3. CASE ~Sleeps(s, i)
    <2>1. t.blocked = s.blocked /\ \A j \in Sem : t[j].queue = s[j].queue
      BY <1>1, <1>3 DEF Queues
    <2>2. QueuesOk(t, P, sh)
      BY <2>1, SameQueues
    <2> QED BY <2>2 DEF t
  <1> QED BY <1>2, <1>3

\* The readers are as they were, although more processes sleep.
LEMMA SameItems ==
  ASSUME NEW s, NEW P, NEW t, t["items"].queue = s["items"].queue,
         \A r \in Readers : r \in t.blocked /\ r \notin s.blocked =>
                              P[r].pc \notin {"wait_item", "wait_space"},
         NEW n \in Int, ItemsOk(s, P, n)
  PROVE  ItemsOk(t, P, n)
  <1>1. WokenReaders(s, P) \subseteq WokenReaders(t, P)
    BY DEF WokenReaders, WokenIn
  <1> QED BY <1>1, WokenGrows

\* Waiting for another semaphore takes no woken reader away.
LEMMA WaitItems ==
  ASSUME NEW s, NEW P, SemType(s), NEW i \in Sem, i # "items", NEW p \in Sleeper,
         p \in Readers => P[p].pc \notin {"wait_item", "wait_space"},
         NEW n \in Int, ItemsOk(s, P, n)
  PROVE  ItemsOk(sem_wait_by_id(s, i, p), P, n)
  <1> DEFINE t == sem_wait_by_id(s, i, p)
             q == s[i].queue
  <1>1. IF Sleeps(s, i) THEN Queues(s, t, i, Append(q, p), s.blocked \cup {p})
        ELSE Queues(s, t, i, q, s.blocked)
    BY WaitEffect
  <1> HIDE DEF t
  <1>2. t["items"].queue = s["items"].queue /\ t.blocked \subseteq s.blocked \cup {p}
    BY <1>1 DEF Queues, Sem
  <1>3. ItemsOk(t, P, n)
    BY <1>2, SameItems
  <1> QED BY <1>3 DEF t

\* While the pipe is open: the process sleeps or goes on.
LEMMA WaitForIs ==
  ASSUME EndsInv, pipe.used, NEW p \in Process, NEW s, Kept(sem, s), NEW i \in Sem,
         NEW next \in PC, NEW asleep \in PC, WaitFor(s, i, p, next, asleep)
  PROVE  /\ sem' = sem_wait_by_id(s, i, p) /\ Only(p) /\ proc' \in [Process -> process_t]
         /\ proc'[p].pc = IF Sleeps(s, i) THEN asleep ELSE next
  <1>1. Exists(s, i)
    BY DEF EndsInv, Held, Kept, Exists
  <1>2. IF Sleeps(s, i) THEN Go(p, asleep) ELSE Go(p, next)
    BY <1>1 DEF WaitFor
  <1>3. sem' = sem_wait_by_id(s, i, p)
    BY DEF WaitFor
  <1>4. CASE Sleeps(s, i)
    BY <1>2, <1>3, <1>4, GoIs
  <1>5. CASE ~Sleeps(s, i)
    BY <1>2, <1>3, <1>5, GoIs
  <1> QED BY <1>4, <1>5

\* A wait in a call, and the queues ...
LEMMA WaitForQueues ==
  ASSUME EndsInv, pipe.used, NEW p \in Process, NEW s, Kept(sem, s), NEW i \in Sem,
         NEW next \in PC, WaitFor(s, i, p, next, PcOf[i]), QueuesOk(s, proc, shell),
         \A j \in Sem : ~Member(s[j].queue, p), shell' = shell
  PROVE  QueuesOk(sem', proc', shell')
  <1>0. PcOf[i] \in PC /\ SemType(s) /\ p \in Sleeper /\ p # Shell
    BY PcIs, Names DEF PC, InCall, Kept, Sleeper
  <1>1. /\ sem' = sem_wait_by_id(s, i, p) /\ Only(p)
        /\ proc'[p].pc = IF Sleeps(s, i) THEN PcOf[i] ELSE next
    BY <1>0, WaitForIs
  <1>2. \A q \in Process : q # p => proc'[q] = proc[q]
    BY <1>1 DEF Only
  <1>3. QueuesOk(s, proc', shell')
    BY <1>0, <1>2, MoveQueues
  <1> QED BY <1>0, <1>1, <1>3, WaitQueues

\* ... and the readers that were woken.
LEMMA WaitForItems ==
  ASSUME EndsInv, pipe.used, NEW p \in Process, NEW s, Kept(sem, s), NEW i \in Sem, i # "items",
         NEW next \in PC, WaitFor(s, i, p, next, PcOf[i]), NEW n \in Int, ItemsOk(s, proc, n),
         p \in Readers => i = "mutex" /\ next \in {"loop", "held"}
  PROVE  ItemsOk(sem', proc', n)
  <1>0. PcOf[i] \in PC /\ SemType(s) /\ p \in Sleeper
    BY PcIs DEF PC, InCall, Kept, Sleeper
  <1>1. /\ sem' = sem_wait_by_id(s, i, p) /\ Only(p)
        /\ proc'[p].pc = IF Sleeps(s, i) THEN PcOf[i] ELSE next
    BY <1>0, WaitForIs
  <1>2. \A q \in Process : q # p => proc'[q] = proc[q]
    BY <1>1 DEF Only
  <1>3. p \in Readers => proc'[p].pc \in {"loop", "held", "wait_mutex"}
    BY <1>1, PcIs
  <1>4. p \in Readers => WokenIn(s, proc', p)
    BY <1>3 DEF WokenIn
  <1>5. ItemsOk(s, proc', n)
    BY <1>2, <1>4, MoveItems
  <1>6. p \in Readers => proc'[p].pc \notin {"wait_item", "wait_space"}
    BY <1>3
  <1>7. ItemsOk(sem_wait_by_id(s, i, p), proc', n)
    BY <1>0, <1>5, <1>6, WaitItems
  <1> QED BY <1>1, <1>7

-----------------------------------------------------------------------------
\* The mutex is given on before anything else.
LEMMA UnlockedSleep ==
  ASSUME EndsInv, pipe.used, QueuesOk(sem, proc, shell), NEW n \in Int, ItemsOk(sem, proc, n)
  PROVE  /\ Kept(sem, Unlocked) /\ SemType(Unlocked) /\ QueuesOk(Unlocked, proc, shell)
         /\ ItemsOk(Unlocked, proc, n)
         /\ Unlocked.blocked \subseteq sem.blocked
         /\ \A j \in Sem : \A p : Member(Unlocked[j].queue, p) => Member(sem[j].queue, p)
         /\ \A j \in Sem : j # "mutex" => Unlocked[j].queue = sem[j].queue
  <1>1. SemType(sem) /\ "mutex" \in Sem /\ Unlocked = sem_signal_by_id(sem, "mutex")
    BY KeptIs DEF Sem, Unlocked
  <1>2. ItemsOk(Unlocked, proc, n)
    BY <1>1, SignalItems
  <1>3. /\ QueuesOk(Unlocked, proc, shell) /\ Kept(sem, Unlocked)
        /\ Unlocked.blocked \subseteq sem.blocked
        /\ \A j \in Sem : \A p : Member(Unlocked[j].queue, p) => Member(sem[j].queue, p)
        /\ \A j \in Sem : j # "mutex" => Unlocked[j].queue = sem[j].queue
    BY <1>1, SignalQueues
  <1> QED BY <1>2, <1>3 DEF Kept

\* The process in a system call is in no queue.
LEMMA HeldSleep ==
  ASSUME EndsInv, PipeType, SleepInv, pipe.used, NEW p \in Process, cpu = p
  PROVE  /\ QueuesOk(sem, proc, shell) /\ ItemsOk(sem, proc, pipe.count) /\ pipe.count \in Int
         /\ \A i \in Sem : ~Member(sem[i].queue, p) /\ ~Member(Unlocked[i].queue, p)
         /\ WokenIn(sem, proc, p) /\ p # Shell
  <1>1. QueuesOk(sem, proc, shell) /\ ItemsOk(sem, proc, pipe.count) /\ pipe.count \in Int
    BY NIsPositive DEF SleepInv, PipeType, pipe_t, Count
  <1>2. proc[p].pc \in {"loop", "held"} /\ p # Shell
    BY Names DEF EndsInv, EndsType
  <1>3. \A i \in Sem : ~Member(sem[i].queue, p)
    BY <1>1, <1>2, RunsUnqueued
  <1>4. \A i \in Sem : ~Member(Unlocked[i].queue, p)
    BY <1>1, <1>3, UnlockedSleep
  <1> QED BY <1>1, <1>2, <1>3, <1>4 DEF WokenIn

\* A process stays on its side.
LEMMA SidesMove ==
  ASSUME Sides(proc), NEW p, Only(p), proc'[p].pc = "wait_item" => p \in Readers,
         proc'[p].pc = "wait_space" => p \in Writers
  PROVE  Sides(proc')
  BY DEF Sides, Only

\* A process that is in no queue goes on; semaphores keep their queues.
LEMMA MoveSleep ==
  ASSUME EndsInv, PipeType, SleepInv, NEW p \in Process, Only(p),
         proc'[p].pc \notin {"wait_item", "wait_space"}, pipe'.used => pipe.used,
         pipe.used => /\ pipe'.used => pipe'.count = pipe.count
                      /\ \A i \in Sem : ~Member(sem[i].queue, p)
                      /\ WokenIn(sem, proc, p) => WokenIn(sem, proc', p)
                      /\ sem.blocked = sem'.blocked
                      /\ \A i \in Sem : sem'[i].queue = sem[i].queue,
         shell' = shell
  PROVE  SleepInv'
  <1>1. Sides(proc')
    BY SidesMove DEF SleepInv
  <1>2. ASSUME pipe'.used
        PROVE  QueuesOk(sem', proc', shell') /\ ItemsOk(sem', proc', pipe'.count)
    <2>1. /\ QueuesOk(sem, proc, shell) /\ ItemsOk(sem, proc, pipe.count) /\ pipe.count \in Int
          /\ SemType(sem) /\ p # Shell
      BY <1>2, NIsPositive, KeptIs, Names DEF SleepInv, PipeType, pipe_t, Count
    <2>2. \A q \in Process : q # p => proc'[q] = proc[q]
      BY DEF Only
    <2>3. QueuesOk(sem, proc', shell')
      BY <1>2, <2>1, <2>2, MoveQueues
    <2>4. ItemsOk(sem, proc', pipe'.count)
      BY <1>2, <2>1, <2>2, MoveItems
    <2>5. QueuesOk(sem', proc', shell')
      BY <1>2, <2>3, SameQueues
    <2>6. "items" \in Sem
      BY DEF Sem
    <2>7. ItemsOk(sem', proc', pipe'.count)
      BY <1>2, <2>1, <2>4, <2>6, SameItems
    <2> QED BY <2>5, <2>7
  <1> QED BY <1>1, <1>2 DEF SleepInv

\* Nothing changes that this invariant is about.
LEMMA NothingSleep ==
  ASSUME SleepInv, UNCHANGED <<pipe, sem, proc, shell>>
  PROVE  SleepInv'
  BY DEF SleepInv

\* A call asks for the mutex.
LEMMA EnterSleep ==
  ASSUME EndsInv, PipeType, SleepInv, NEW p \in Process, enter(p)
  PROVE  SleepInv'
  <1>1. cpu = p /\ proc[p].pc = "loop"
    BY DEF enter
  <1>2. CASE ~pipe.used
    <2>1. Returns(p) /\ pipe' = pipe
      BY <1>2 DEF enter
    <2>2. Sides(proc')
      BY <2>1, ReturnsIs, SidesMove DEF SleepInv
    <2> QED BY <1>2, <2>1, <2>2 DEF SleepInv
  <1>3. CASE pipe.used /\ Locked("mutex")
    <2>1. UNCHANGED <<pipe, sem, proc, shell>>
      BY <1>3 DEF enter, Hangs
    <2> QED BY <2>1, NothingSleep
  <1>4. CASE pipe.used /\ ~Locked("mutex")
    <2>1. WaitFor(sem, "mutex", p, "held", PcOf["mutex"]) /\ UNCHANGED <<pipe, shell>>
      BY <1>4, PcIs DEF enter
    <2>2. "mutex" \in Sem /\ "mutex" # "items" /\ "held" \in PC /\ "wait_mutex" \in PC
          /\ Kept(sem, sem)
      BY KeptIs DEF Sem, PC, InCall
    <2>3. /\ QueuesOk(sem, proc, shell) /\ ItemsOk(sem, proc, pipe.count) /\ pipe.count \in Int
          /\ \A i \in Sem : ~Member(sem[i].queue, p)
      BY <1>1, <1>4, HeldSleep
    <2>4. QueuesOk(sem', proc', shell')
      BY <1>4, <2>1, <2>2, <2>3, WaitForQueues
    <2>5. ItemsOk(sem', proc', pipe.count)
      BY <1>4, <2>1, <2>2, <2>3, WaitForItems
    <2>6. Only(p) /\ proc'[p].pc \in {"wait_mutex", "held"}
      BY <1>4, <2>1, <2>2, WaitForIs, PcIs
    <2>7. Sides(proc')
      BY <2>6, SidesMove DEF SleepInv
    <2> QED BY <2>1, <2>4, <2>5, <2>7 DEF SleepInv
  <1> QED BY <1>2, <1>3, <1>4

\* pipe_read with the mutex.
LEMMA ReadSleep ==
  ASSUME EndsInv, PipeType, SleepInv, NEW p \in Process, pipe_read(p)
  PROVE  SleepInv'
  <1>1. cpu = p /\ proc[p].pc = "held" /\ p \in Readers
    BY DEF pipe_read
  <1>2. CASE ~pipe'.used
    <2>1. \/ Hangs \/ Returns(p) \/ Moved(p)
          \/ WaitFor(Unlocked, "items", p, "loop", "wait_item")
      BY DEF pipe_read
    <2>2. CASE Hangs
      BY <2>2, NothingSleep DEF Hangs
    <2>3. CASE Returns(p) \/ Moved(p)
      <3>1. Sides(proc')
        BY <1>1, <2>3, ReturnsIs, MovedIs, SidesMove DEF SleepInv
      <3> QED BY <1>2, <3>1 DEF SleepInv
    <2>4. CASE WaitFor(Unlocked, "items", p, "loop", "wait_item")
      <3>1. Returns(p) \/ Go(p, "wait_item") \/ Go(p, "loop")
        BY <2>4 DEF WaitFor
      <3>2. "wait_item" \in PC /\ "loop" \in PC
        BY DEF PC, InCall
      <3>3. Sides(proc')
        BY <1>1, <3>1, <3>2, ReturnsIs, GoIs, SidesMove DEF SleepInv
      <3> QED BY <1>2, <3>3 DEF SleepInv
    <2> QED BY <2>1, <2>2, <2>3, <2>4
  <1>3. CASE pipe'.used
    <2>1. pipe.used /\ shell' = shell
      <3>1. [pipe EXCEPT !.read_pos = Ahead(@), !.count = @ - 1].used = pipe.used
        BY DEF PipeType, pipe_t
      <3> QED BY <1>3, <3>1 DEF pipe_read, Hangs
    <2>2. /\ QueuesOk(sem, proc, shell) /\ ItemsOk(sem, proc, pipe.count) /\ pipe.count \in Int
          /\ \A i \in Sem : ~Member(Unlocked[i].queue, p)
          /\ p # Shell
      BY <1>1, <2>1, HeldSleep
    <2>3. /\ Kept(sem, Unlocked) /\ SemType(Unlocked) /\ QueuesOk(Unlocked, proc, shell)
          /\ ItemsOk(Unlocked, proc, pipe.count)
      BY <2>1, <2>2, UnlockedSleep
    <2>4. CASE Hangs
      BY <2>4, NothingSleep DEF Hangs
    <2>5. CASE pipe.count = 0 /\ sem' = Unlocked /\ Returns(p) /\ pipe' = pipe
      <3>1. Only(p) /\ proc'[p].pc = "user"
        BY <2>5, ReturnsIs
      <3>2. QueuesOk(sem', proc', shell')
        BY <2>1, <2>2, <2>3, <2>5, <3>1, MoveQueues DEF Only
      <3>3. Sides(proc')
        BY <3>1, SidesMove DEF SleepInv
      <3> QED BY <2>5, <3>2, <3>3, NothingToRead DEF SleepInv, EndsInv
    <2>6. CASE /\ pipe' = [pipe EXCEPT !.read_pos = Ahead(@), !.count = @ - 1]
               /\ sem' = sem_signal_by_id(Unlocked, "spaces") /\ Moved(p)
      <3>0. "spaces" \in Sem
        BY DEF Sem
      <3>1. /\ QueuesOk(sem', proc, shell) /\ SemType(sem')
            /\ \A i \in Sem : ~Member(sem'[i].queue, p)
        BY <2>2, <2>3, <2>6, <3>0, SignalQueues DEF Kept
      <3>2. ItemsOk(sem', proc, pipe.count)
        BY <2>2, <2>3, <2>6, <3>0, SignalItems
      <3>3. Only(p) /\ proc'[p].pc \in {"user", "loop"}
        BY <1>1, <2>6, MovedIs
      <3>4. \A q \in Process : q # p => proc'[q] = proc[q]
        BY <3>3 DEF Only
      <3>5. QueuesOk(sem', proc', shell')
        BY <2>1, <2>2, <3>1, <3>4, MoveQueues
      <3>6. ItemsOk(sem', proc', pipe.count - 1)
        BY <2>2, <3>2, <3>4, MoveItems
      <3>7. pipe'.count = pipe.count - 1
        <4> DEFINE pos == Ahead(pipe.read_pos)
                   n == pipe.count - 1
        <4>1. pipe' = [pipe EXCEPT !.read_pos = pos, !.count = n]
          BY <2>6
        <4> HIDE DEF pos, n
        <4>2. pipe'.count = n
          BY <4>1 DEF PipeType, pipe_t
        <4> QED BY <4>2 DEF n
      <3>8. Sides(proc')
        BY <3>3, SidesMove DEF SleepInv
      <3> QED BY <3>5, <3>6, <3>7, <3>8 DEF SleepInv
    <2>7. CASE pipe.count = 0 /\ pipe' = pipe /\ WaitFor(Unlocked, "items", p, "loop", "wait_item")
      <3>0. "items" \in Sem /\ "loop" \in PC /\ "wait_item" \in PC /\ PcOf["items"] = "wait_item"
        BY PcIs DEF Sem, PC, InCall
      <3>1. QueuesOk(sem', proc', shell')
        BY <2>1, <2>2, <2>3, <2>7, <3>0, WaitForQueues
      <3>2. Only(p)
        BY <2>1, <2>3, <2>7, <3>0, WaitForIs
      <3>3. proc'[p].pc \in {"loop", "wait_item"}
        BY <2>1, <2>3, <2>7, <3>0, WaitForIs
      <3>4. Sides(proc')
        BY <1>1, <3>2, <3>3, SidesMove DEF SleepInv
      <3> QED BY <2>7, <3>1, <3>4, NothingToRead DEF SleepInv, EndsInv
    <2> QED BY <2>4, <2>5, <2>6, <2>7 DEF pipe_read, AtEnd
  <1> QED BY <1>2, <1>3

\* pipe_write with the mutex.
LEMMA WriteSleep ==
  ASSUME EndsInv, PipeType, SleepInv, NEW p \in Process, pipe_write(p)
  PROVE  SleepInv'
  <1>1. cpu = p /\ proc[p].pc = "held" /\ p \in Writers /\ p \notin Readers
    BY Names DEF pipe_write
  <1>2. CASE ~pipe'.used
    <2>1. \/ Hangs \/ Returns(p) \/ Moved(p)
          \/ WaitFor(Unlocked, "spaces", p, "loop", "wait_space")
      BY DEF pipe_write
    <2>2. CASE Hangs
      BY <2>2, NothingSleep DEF Hangs
    <2>3. CASE Returns(p) \/ Moved(p)
      <3>1. Sides(proc')
        BY <1>1, <2>3, ReturnsIs, MovedIs, SidesMove DEF SleepInv
      <3> QED BY <1>2, <3>1 DEF SleepInv
    <2>4. CASE WaitFor(Unlocked, "spaces", p, "loop", "wait_space")
      <3>1. Returns(p) \/ Go(p, "wait_space") \/ Go(p, "loop")
        BY <2>4 DEF WaitFor
      <3>2. "wait_space" \in PC /\ "loop" \in PC
        BY DEF PC, InCall
      <3>3. Sides(proc')
        BY <1>1, <3>1, <3>2, ReturnsIs, GoIs, SidesMove DEF SleepInv
      <3> QED BY <1>2, <3>3 DEF SleepInv
    <2> QED BY <2>1, <2>2, <2>3, <2>4
  <1>3. CASE pipe'.used
    <2> DEFINE wrote == [pipe EXCEPT !.buffer[pipe.write_pos] = sent + 1,
                                     !.write_pos = Ahead(@), !.count = @ + 1]
    <2>0. wrote.used = pipe.used /\ wrote.count = pipe.count + 1
      BY DEF PipeType, pipe_t
    <2> HIDE DEF wrote
    <2>1. pipe.used /\ shell' = shell
      BY <1>3, <2>0 DEF pipe_write, Hangs, wrote
    <2>2. /\ QueuesOk(sem, proc, shell) /\ ItemsOk(sem, proc, pipe.count) /\ pipe.count \in Int
          /\ \A i \in Sem : ~Member(Unlocked[i].queue, p)
          /\ p # Shell
      BY <1>1, <2>1, HeldSleep
    <2>3. /\ Kept(sem, Unlocked) /\ SemType(Unlocked) /\ QueuesOk(Unlocked, proc, shell)
          /\ ItemsOk(Unlocked, proc, pipe.count)
      BY <2>1, <2>2, UnlockedSleep
    <2>4. CASE Hangs
      BY <2>4, NothingSleep DEF Hangs
    <2>5. CASE sem' = Unlocked /\ Returns(p) /\ pipe' = pipe
      <3>1. Only(p) /\ proc'[p].pc = "user"
        BY <2>5, ReturnsIs
      <3>2. \A q \in Process : q # p => proc'[q] = proc[q]
        BY <3>1 DEF Only
      <3>3. QueuesOk(sem', proc', shell')
        BY <2>1, <2>2, <2>3, <2>5, <3>2, MoveQueues
      <3>4. ItemsOk(sem', proc', pipe'.count)
        BY <1>1, <2>2, <2>3, <2>5, <3>2, MoveItems
      <3>5. Sides(proc')
        BY <3>1, SidesMove DEF SleepInv
      <3> QED BY <3>3, <3>4, <3>5 DEF SleepInv
    <2>6. CASE pipe' = wrote /\ sem' = WroteByte /\ Moved(p)
      <3>0. "items" \in Sem /\ Unlocked["items"].used /\ Sides(proc)
        BY <2>1, <2>3 DEF Sem, EndsInv, Held, Kept, SleepInv
      <3>1. /\ QueuesOk(sem', proc, shell) /\ SemType(sem')
            /\ \A i \in Sem : ~Member(sem'[i].queue, p)
        BY <2>2, <2>3, <2>6, <3>0, SignalQueues DEF Kept, WroteByte
      <3>2. ItemsOk(sem', proc, pipe.count + 1)
        BY <2>2, <2>3, <2>6, <3>0, ByteItems DEF WroteByte
      <3>3. Only(p) /\ proc'[p].pc \in {"user", "loop"}
        BY <1>1, <2>6, MovedIs
      <3>4. \A q \in Process : q # p => proc'[q] = proc[q]
        BY <3>3 DEF Only
      <3>5. QueuesOk(sem', proc', shell')
        BY <2>1, <2>2, <3>1, <3>4, MoveQueues
      <3>6. pipe.count + 1 \in Int
        BY <2>2
      <3>7. ItemsOk(sem', proc', pipe.count + 1)
        BY <1>1, <3>2, <3>4, <3>6, MoveItems
      <3>8. Sides(proc')
        BY <3>3, SidesMove DEF SleepInv
      <3> QED BY <2>0, <2>6, <3>5, <3>7, <3>8 DEF SleepInv
    <2>7. CASE pipe' = pipe /\ WaitFor(Unlocked, "spaces", p, "loop", "wait_space")
      <3>0. /\ "spaces" \in Sem /\ "loop" \in PC /\ "wait_space" \in PC
            /\ PcOf["spaces"] = "wait_space" /\ "spaces" # "items"
        BY PcIs DEF Sem, PC, InCall
      <3>1. QueuesOk(sem', proc', shell')
        BY <2>1, <2>2, <2>3, <2>7, <3>0, WaitForQueues
      <3>2. ItemsOk(sem', proc', pipe.count)
        BY <1>1, <2>1, <2>2, <2>3, <2>7, <3>0, WaitForItems
      <3>3. Only(p)
        BY <2>1, <2>3, <2>7, <3>0, WaitForIs
      <3>4. proc'[p].pc \in {"loop", "wait_space"}
        BY <2>1, <2>3, <2>7, <3>0, WaitForIs
      <3>5. Sides(proc')
        BY <1>1, <3>3, <3>4, SidesMove DEF SleepInv
      <3> QED BY <2>7, <3>1, <3>2, <3>5 DEF SleepInv
    <2> QED BY <2>4, <2>5, <2>6, <2>7 DEF pipe_write, wrote
  <1> QED BY <1>2, <1>3

\* The shell waits for the mutex.
LEMMA ShellSleep ==
  ASSUME EndsInv, PipeType, SleepInv, pipe.used, shell.pc = "idle",
         sem' = sem_wait_by_id(sem, "mutex", Shell), UNCHANGED <<pipe, proc>>,
         shell'.pc \in {"opening", "killing"}
  PROVE  SleepInv'
  <1>0. "mutex" \in Sem /\ "mutex" # "items" /\ Shell \in Sleeper /\ SemType(sem)
        /\ Shell \notin Readers
    BY KeptIs, Names DEF Sem, Sleeper
  <1>1. QueuesOk(sem, proc, shell) /\ ItemsOk(sem, proc, pipe.count) /\ pipe.count \in Int
    BY NIsPositive DEF SleepInv, PipeType, pipe_t, Count
  <1>2. \A i \in Sem : ~Member(sem[i].queue, Shell)
    BY <1>1, ShellUnqueued
  <1>3. QueuesOk(sem, proc', shell')
    BY <1>0, <1>1, <1>2, MoveQueues
  <1>4. QueuesOk(sem', proc', shell')
    BY <1>0, <1>2, <1>3, WaitQueues
  <1>5. ItemsOk(sem', proc, pipe.count)
    BY <1>0, <1>1, WaitItems
  <1> QED BY <1>4, <1>5 DEF SleepInv

\* ... and counts a process.
LEMMA OpenedSleep ==
  ASSUME EndsInv, PipeType, SleepInv, NEW p \in Process, proc[p].pc = "new", Opened(p),
         \/ shell.pc = "idle" /\ sem' = sem
         \/ Shell \notin sem.blocked /\ sem' = Unlocked
  PROVE  SleepInv'
  <1>1. Only(p) /\ proc'[p].pc = "user" /\ p # Shell
    <2>1. "user" \in PC /\ Go(p, "user")
      BY DEF PC, InCall, Opened
    <2> QED BY <2>1, GoIs, Names
  <1>2. Sides(proc')
    BY <1>1, SidesMove DEF SleepInv
  <1>3. ASSUME pipe'.used
        PROVE  QueuesOk(sem', proc', shell') /\ ItemsOk(sem', proc', pipe'.count)
    <2>1. pipe.used /\ pipe'.count = pipe.count
      BY <1>3 DEF Opened, PipeType, pipe_t
    <2>2. QueuesOk(sem, proc, shell) /\ ItemsOk(sem, proc, pipe.count) /\ pipe.count \in Int
      BY <2>1, NIsPositive DEF SleepInv, PipeType, pipe_t, Count
    <2>3. \A i \in Sem : ~Member(sem[i].queue, Shell) /\ ~Member(sem[i].queue, p)
      BY <1>1, <2>2, ShellUnqueued, RunsUnqueued
    <2>4. /\ SemType(sem') /\ QueuesOk(sem', proc, shell) /\ ItemsOk(sem', proc, pipe.count)
          /\ \A i \in Sem : ~Member(sem'[i].queue, Shell) /\ ~Member(sem'[i].queue, p)
      BY <2>1, <2>2, <2>3, KeptIs, UnlockedSleep
    <2>5. \A q \in Process : q # p => proc'[q] = proc[q]
      BY <1>1 DEF Only
    <2>6. QueuesOk(sem', proc', shell)
      BY <1>1, <2>4, <2>5, MoveQueues, SMTT(30)
    <2>7. QueuesOk(sem', proc', shell')
      BY <2>4, <2>6, MoveQueues
    <2>8. p \in Readers /\ WokenIn(sem', proc, p) => WokenIn(sem', proc', p)
      BY DEF WokenIn
    <2>9. ItemsOk(sem', proc', pipe.count)
      BY <2>2, <2>4, <2>5, <2>8, MoveItems
    <2> QED BY <2>1, <2>7, <2>9
  <1> QED BY <1>2, <1>3 DEF SleepInv

\* After a kill nobody can sleep on the pipe.
LEMMA KilledSleep ==
  ASSUME EndsInv, PipeType, SleepInv, NEW p, Writers = {p},
         \A r \in Readers : proc[r].pc \in {"new", "terminal", "finished"},
         proc[p].pc \notin {"new", "terminal"}, NEW s, Killed(p, s)
  PROVE  SleepInv'
  <1>1. ~pipe'.used
    <2>1. CASE pipe.used
      BY <2>1, KilledFrees
    <2>2. CASE ~pipe.used
      <3>1. Dropped(p).used = pipe.used /\ Freed(Dropped(p)).used = FALSE
        BY DEF Dropped, Freed, PipeType, pipe_t
      <3> QED BY <2>2, <3>1 DEF Killed
    <2> QED BY <2>1, <2>2
  <1>2. Sides(proc')
    <2>1. p \in Process
      BY Names
    <2> DEFINE pc == IF proc[p].pc = "finished" THEN "finished" ELSE "killed"
               todo == IF pipe.used THEN <<>> ELSE proc[p].todo
    <2>2. proc' = [proc EXCEPT ![p] = [proc[p] EXCEPT !.pc = pc, !.todo = todo]]
      BY DEF Killed
    <2>3. pc \notin {"wait_item", "wait_space"}
      OBVIOUS
    <2> HIDE DEF pc, todo
    <2>4. Only(p) /\ proc'[p].pc = pc
      BY <2>1, <2>2 DEF Only, EndsInv, EndsType, process_t
    <2> QED BY <2>3, <2>4, SidesMove DEF SleepInv
  <1> QED BY <1>1, <1>2 DEF SleepInv

(* The end of a process *)

\* A process that is ending and runs is in no queue.
LEMMA EndingUnqueued ==
  ASSUME EndsInv, PipeType, SleepInv, pipe.used, NEW p \in Process, ~Asleep(p),
         proc[p].pc = "closing" => proc[p].todo # ThenCount("block")
  PROVE  \A i \in Sem : ~Member(sem[i].queue, p)
  <1>1. QueuesOk(sem, proc, shell) /\ p # Shell
    BY Names DEF SleepInv
  <1> QED BY <1>1, RunsUnqueued DEF Asleep

\* A process is no longer counted; the bytes stay.
LEMMA CountsSleep ==
  ASSUME EndsInv, PipeType, SleepInv, NEW p \in Process, close_counts(p)
  PROVE  SleepInv'
  <1>1. /\ proc[p].pc = "closing" /\ Head(proc[p].todo).name = "count" /\ ~Asleep(p)
        /\ UNCHANGED <<shell, sem>>
    BY DEF close_counts, Closing, CanRun
  <1>2. Only(p) /\ proc'[p].pc = "closing"
    <2>1. \E todo : proc' = [proc EXCEPT ![p].todo = todo]
      BY DEF close_counts
    <2> QED BY <1>1, <2>1 DEF Only, EndsInv, EndsType, process_t
  <1>3. (pipe'.used => pipe.used) /\ (pipe'.used => pipe'.count = pipe.count)
    <2>1. /\ Dropped(p).used = pipe.used /\ Dropped(p).count = pipe.count
          /\ Freed(Dropped(p)).used = FALSE
      BY DEF Dropped, Freed, PipeType, pipe_t
    <2> QED BY <2>1 DEF close_counts
  <1>4. proc[p].todo # ThenCount("block")
    <2>1. Head(ThenCount("block")) = Op("block", "mutex") /\ Op("block", "mutex").name = "block"
      BY Ops, Short DEF ThenCount
    <2> QED BY <1>1, <2>1
  <1>5. pipe.used => \A i \in Sem : ~Member(sem[i].queue, p)
    BY <1>1, <1>4, EndingUnqueued
  <1>6. ~WokenIn(sem, proc, p)
    BY <1>1 DEF WokenIn
  <1> QED BY <1>1, <1>2, <1>3, <1>5, <1>6, MoveSleep

\* Queues and sleeping processes stay as they are.
LEMMA StaySleep ==
  ASSUME EndsInv, PipeType, SleepInv, UNCHANGED <<pipe, shell, proc>>,
         \A i \in Sem : sem'[i].queue = sem[i].queue, sem'.blocked = sem.blocked
  PROVE  SleepInv'
  <1>0. "items" \in Sem
    BY DEF Sem
  <1>1. ASSUME pipe.used
        PROVE  QueuesOk(sem', proc, shell) /\ ItemsOk(sem', proc, pipe.count)
    <2>1. QueuesOk(sem, proc, shell) /\ ItemsOk(sem, proc, pipe.count) /\ pipe.count \in Int
      BY <1>1, NIsPositive DEF SleepInv, PipeType, pipe_t, Count
    <2> QED BY <1>0, <2>1, SameQueues, SameItems
  <1> QED BY <1>1 DEF SleepInv

\* A lock changes no queue.
LEMMA LocksSleep ==
  ASSUME EndsInv, PipeType, SleepInv, NEW p \in Process, close_locks(p)
  PROVE  SleepInv'
  <1> DEFINE i == Head(proc[p].todo).sem
  <1>1. UNCHANGED <<pipe, shell, proc>> /\ sem' = [sem EXCEPT ![i].lock = p]
    BY DEF close_locks
  <1>2. SemType(sem)
    BY KeptIs
  <1> HIDE DEF i
  <1>3. ASSUME NEW j \in Sem PROVE sem'[j].queue = sem[j].queue
    <2>1. j \in DOMAIN sem /\ sem[j] \in semaphore_t
      BY <1>2 DEF SemType, Sem
    <2>2. CASE j = i
      BY <1>1, <2>1, <2>2 DEF semaphore_t
    <2>3. CASE j # i
      BY <1>1, <2>1, <2>3
    <2> QED BY <2>2, <2>3
  <1>4. i # "blocked"
    <2>1. proc[p].pc = "closing"
      BY DEF close_locks, Closing
    <2>2. CASE proc[p].todo \in Before
      <3>1. \A n : Op(n, "mutex").sem = "mutex"
        BY Ops
      <3> QED BY <2>2, <3>1, BeforeIs DEF i
    <2>3. CASE proc[p].todo \notin Before
      BY <2>1, <2>3, Ending DEF i, Sem
    <2> QED BY <2>2, <2>3
  <1>5. sem'.blocked = sem.blocked
    BY <1>1, <1>2, <1>4 DEF SemType
  <1> QED BY <1>1, <1>3, <1>5, StaySleep

\* A process that is in the queue for the mutex, or was, goes to sleep.
LEMMA BlocksSleep ==
  ASSUME EndsInv, PipeType, SleepInv, NEW p \in Process, close_blocks(p)
  PROVE  SleepInv'
  <1> DEFINE todo == proc[p].todo
  <1>1. /\ proc[p].pc = "closing" /\ todo # <<>> /\ UNCHANGED <<shell, pipe>>
        /\ Head(todo).name = "block"
        /\ sem' = [sem EXCEPT !.blocked = @ \cup {p}]
        /\ proc' = [proc EXCEPT ![p].todo = Tail(@)]
    BY DEF close_blocks, Closing, scheduler_block_current
  <1>2. todo \in Before /\ pipe.used
    BY <1>1, Ending
  <1>3. todo = ThenCount("block") /\ Tail(todo) = OnlyCount
    <2>1. Op("wait", "mutex").name = "wait" /\ Op("count", "mutex").name = "count"
      BY Ops
    <2> QED BY <1>1, <1>2, <2>1, BeforeIs
  <1>4. Only(p) /\ proc'[p].pc = "closing" /\ proc'[p].todo = OnlyCount
    BY <1>1, <1>3 DEF Only, EndsInv, EndsType, process_t
  <1>5. Sides(proc')
    BY <1>4, SidesMove DEF SleepInv
  <1>6. sem'.blocked = sem.blocked \cup {p} /\ \A i \in Sem : sem'[i].queue = sem[i].queue
    <2>1. SemType(sem)
      BY KeptIs
    <2> QED BY <1>1, <2>1 DEF SemType, Sem
  <1>7. QueuesOk(sem, proc, shell) /\ ItemsOk(sem, proc, pipe.count) /\ pipe.count \in Int
    BY <1>2, NIsPositive DEF SleepInv, PipeType, pipe_t, Count
  <1>8. QueuesOk(sem', proc', shell')
    <2> SUFFICES ASSUME NEW i \in Sem, NEW j \in DOMAIN sem[i].queue
                 PROVE  WaitsIn(sem', proc', shell, i, sem[i].queue[j])
      <3>1. shell' = shell
        BY <1>1
      <3> QED BY <1>6, <1>7, <3>1 DEF QueuesOk
    <2> DEFINE q == sem[i].queue[j]
    <2>1. WaitsIn(sem, proc, shell, i, q)
      BY <1>7 DEF QueuesOk
    <2>2. q \in Process \cup {Shell} /\ p # Shell
      <3>1. sem[i].queue \in Seq(Process \cup {Shell})
        BY KeptIs DEF SemType, semaphore_t, Sleeper
      <3> QED BY <3>1, Names
    <2> HIDE DEF q
    <2>3. CASE q # p
      <3>1. q # Shell => proc'[q] = proc[q]
        BY <1>4, <2>2, <2>3 DEF Only
      <3>2. WaitsIn(sem', proc', shell, i, q)
        BY <1>6, <2>1, <3>1 DEF WaitsIn
      <3> QED BY <3>2 DEF q
    <2>4. CASE q = p
      <3>1. i = "mutex"
        BY <1>1, <2>1, <2>2, <2>4, PcIs DEF WaitsIn
      <3>2. WaitsIn(sem', proc', shell, i, q)
        BY <1>4, <1>6, <2>2, <2>4, <3>1 DEF WaitsIn
      <3> QED BY <3>2 DEF q
    <2> QED BY <2>3, <2>4
  <1>9. ItemsOk(sem', proc', pipe'.count)
    <2>0. "items" \in Sem
      BY DEF Sem
    <2>1. \A q \in Process : q # p => proc'[q] = proc[q]
      BY <1>4 DEF Only
    <2>2. ~WokenIn(sem, proc, p)
      BY <1>1 DEF WokenIn
    <2>3. ItemsOk(sem, proc', pipe.count)
      BY <1>7, <2>1, <2>2, MoveItems
    <2>4. \A r \in Readers : r \in sem'.blocked /\ r \notin sem.blocked =>
                               proc'[r].pc \notin {"wait_item", "wait_space"}
      BY <1>4, <1>6
    <2>5. ItemsOk(sem', proc', pipe.count)
      BY <1>6, <1>7, <2>0, <2>3, <2>4, SameItems
    <2> QED BY <1>1, <2>5
  <1> QED BY <1>5, <1>8, <1>9 DEF SleepInv

\* A process begins to close its end.
LEMMA ExitSleep ==
  ASSUME EndsInv, PipeType, SleepInv, NEW p \in Process, exit(p)
  PROVE  SleepInv'
  <1>1. proc[p].pc = "user" /\ ~Asleep(p) /\ UNCHANGED <<shell, pipe, sem>>
    BY DEF exit, CanRun
  <1>2. Only(p) /\ proc'[p].pc \in {"finished", "closing"}
    <2>1. CASE ~pipe.used
      <3>1. Go(p, "finished") /\ "finished" \in PC
        BY <2>1 DEF exit, PC
      <3> QED BY <3>1, GoIs
    <2>2. CASE pipe.used
      <3>1. \E todo : proc' = [proc EXCEPT ![p] = [proc[p] EXCEPT !.pc = "closing", !.todo = todo]]
        BY <2>2 DEF exit
      <3> QED BY <3>1 DEF Only, EndsInv, EndsType, process_t
    <2> QED BY <2>1, <2>2
  <1>3. pipe.used => \A i \in Sem : ~Member(sem[i].queue, p)
    BY <1>1, EndingUnqueued
  <1>4. ~WokenIn(sem, proc, p)
    BY <1>1 DEF WokenIn
  <1> QED BY <1>1, <1>2, <1>3, <1>4, MoveSleep

\* A process begins a call, or goes on with it.
LEMMA CallSleep ==
  ASSUME EndsInv, PipeType, SleepInv, NEW p \in Process, resume(p) \/ \E n : call(p, n)
  PROVE  SleepInv'
  <1>1. ~Asleep(p) /\ proc[p].pc # "closing" /\ UNCHANGED <<shell, pipe, sem>>
    BY DEF resume, call, CanRun
  <1>2. Only(p) /\ proc'[p].pc \in {"loop", "held"}
    <2>1. CASE resume(p)
      <3>1. {"loop", "held"} \subseteq PC /\ \E pc \in {"loop", "held"} : Go(p, pc)
        BY <2>1 DEF resume, PC, InCall
      <3> QED BY <3>1, GoIs
    <2>2. CASE \E n : call(p, n)
      <3>1. \E n :
              proc' = [proc EXCEPT ![p] = [proc[p] EXCEPT !.pc = "loop", !.left = n, !.done = 0]]
        BY <2>2 DEF call
      <3> QED BY <3>1 DEF Only, EndsInv, EndsType, process_t
    <2> QED BY <2>1, <2>2
  <1>3. pipe.used => \A i \in Sem : ~Member(sem[i].queue, p)
    BY <1>1, EndingUnqueued
  <1>4. WokenIn(sem, proc', p)
    BY <1>2 DEF WokenIn
  <1> QED BY <1>1, <1>2, <1>3, <1>4, MoveSleep

\* A process that is ending waits, signals or closes.
LEMMA DoesSleep ==
  ASSUME EndsInv, PipeType, SleepInv, NEW p \in Process, close_does(p)
  PROVE  SleepInv'
  <1> DEFINE todo == proc[p].todo
             op == Head(todo)
             i == op.sem
             s == CASE op.name = "wait"   -> Enlist(sem, i, p)
                    [] op.name = "signal" -> sem_signal_by_id(sem, i)
                    [] op.name = "close"  -> sem_close_by_id(sem, i)
             rest == (IF op.name = "wait" /\ Sleeps(sem, i) THEN <<Op("block", i)>> ELSE <<>>)
                       \o Tail(todo)
             pc == IF Len(todo) = 1 THEN "finished" ELSE proc[p].pc
  <1>1. /\ proc[p].pc = "closing" /\ ~Asleep(p) /\ UNCHANGED <<shell, pipe>>
        /\ op.name \in {"wait", "signal", "close"}
        /\ sem' = [s EXCEPT ![i].lock = Nobody]
        /\ proc' = [proc EXCEPT ![p].todo = rest, ![p].pc = pc]
    BY DEF close_does, Closing, CanRun
  <1>2. pc \in {"finished", "closing"}
    BY <1>1
  <1> HIDE DEF pc, rest
  <1>3. Only(p) /\ proc'[p].pc = pc /\ proc'[p].todo = rest
    BY <1>1 DEF Only, EndsInv, EndsType, process_t
  <1>4. Sides(proc')
    BY <1>2, <1>3, SidesMove DEF SleepInv
  <1>5. ASSUME pipe'.used
        PROVE  QueuesOk(sem', proc', shell') /\ ItemsOk(sem', proc', pipe'.count)
    <2>1. /\ QueuesOk(sem, proc, shell) /\ ItemsOk(sem, proc, pipe.count) /\ pipe.count \in Int
          /\ pipe.used /\ SemType(sem) /\ p # Shell /\ p \in Sleeper
          /\ pipe' = pipe /\ shell' = shell
          /\ "items" \in Sem
      <3>1. pipe' = pipe /\ shell' = shell /\ pipe.used
        BY <1>1, <1>5
      <3>2. QueuesOk(sem, proc, shell) /\ ItemsOk(sem, proc, pipe.count) /\ pipe.count \in Int
        BY <3>1, NIsPositive DEF SleepInv, PipeType, pipe_t, Count
      <3> QED BY <3>1, <3>2, KeptIs, Names DEF Sleeper, Sem
    <2>2. /\ todo # ThenCount("block") /\ i \in Sem
          /\ op.name = "wait" => i = "mutex" /\ Tail(todo) = OnlyCount /\ todo = ThenCount("wait")
      <3>1. CASE todo \in Before
        <4>1. /\ \A n : Op(n, "mutex").name = n /\ Op(n, "mutex").sem = "mutex"
              /\ "mutex" \in Sem
          BY Ops DEF Sem
        <4>2. todo # ThenCount("block")
          <5>1. Head(ThenCount("block")) = Op("block", "mutex")
            BY Short DEF ThenCount
          <5> QED BY <1>1, <4>1, <5>1
        <4> QED BY <1>1, <3>1, <4>1, <4>2, BeforeIs, ZenonT(30)
      <3>2. CASE todo \notin Before
        <4>1. ThenCount("block") \in Before
          BY DEF Before
        <4>2. op.name \in {"signal", "close"} /\ i \in Sem
          BY <1>1, <3>2, Ending
        <4> QED BY <3>2, <4>1, <4>2
      <3> QED BY <3>1, <3>2
    <2>3. \A j \in Sem : ~Member(sem[j].queue, p)
      BY <1>1, <2>1, <2>2, EndingUnqueued
    <2>4. \A q \in Process : q # p => proc'[q] = proc[q]
      BY <1>3 DEF Only
    <2>5. QueuesOk(sem, proc', shell)
      BY <2>1, <2>3, <2>4, MoveQueues
    <2>6. ~WokenIn(sem, proc, p)
      BY <1>1 DEF WokenIn
    <2>7. ItemsOk(sem, proc', pipe.count)
      BY <2>1, <2>4, <2>6, MoveItems
    <2>8. QueuesOk(s, proc', shell) /\ ItemsOk(s, proc', pipe.count) /\ SemType(s)
      <3>1. CASE op.name = "wait"
        <4>1. s = Enlist(sem, "mutex", p) /\ "mutex" \in Sem /\ "mutex" # "items"
          BY <2>2, <3>1
        <4> HIDE DEF s
        <4>2. /\ Kept(sem, s)
              /\ Queues(sem, s, "mutex", IF Sleeps(sem, "mutex") THEN Append(sem["mutex"].queue, p)
                                         ELSE sem["mutex"].queue, sem.blocked)
          BY <2>1, <4>1, EnlistEffect
        <4>3. s.blocked = sem.blocked /\ s["items"].queue = sem["items"].queue /\ SemType(s)
          BY <2>1, <4>1, <4>2 DEF Queues, Kept
        <4>4. ItemsOk(s, proc', pipe.count)
          BY <2>1, <2>7, <4>3, SameItems
        <4>5. CASE Sleeps(sem, "mutex")
          <5>1. rest = ThenCount("block") /\ pc = "closing"
            <6>1. ASSUME NEW a, NEW b PROVE <<a>> \o <<b>> = <<a, b>>
              BY Joined
            <6>2. Len(todo) = 2
              BY <2>2, <3>1, Short DEF ThenCount
            <6>3. rest = <<Op("block", "mutex")>> \o OnlyCount
              BY <2>2, <3>1, <4>5 DEF rest
            <6> QED BY <1>1, <6>1, <6>2, <6>3 DEF pc, ThenCount, OnlyCount
          <5>2. WaitsIn(s, proc', shell, "mutex", p)
            BY <1>3, <2>1, <5>1 DEF WaitsIn
          <5>3. Queues(sem, s, "mutex", Append(sem["mutex"].queue, p), s.blocked)
            BY <4>2, <4>3, <4>5
          <5>4. QueuesOk(s, proc', shell)
            BY <2>1, <2>3, <2>5, <4>1, <4>3, <5>2, <5>3, AppendQueues
          <5> QED BY <4>3, <4>4, <5>4
        <4>6. CASE ~Sleeps(sem, "mutex")
          <5>1. \A j \in Sem : s[j].queue = sem[j].queue
            BY <4>2, <4>6 DEF Queues
          <5>2. QueuesOk(s, proc', shell)
            BY <2>5, <4>3, <5>1, SameQueues
          <5> QED BY <4>3, <4>4, <5>2
        <4> QED BY <4>5, <4>6
      <3>2. CASE op.name = "signal"
        <4>1. s = sem_signal_by_id(sem, i)
          BY <3>2
        <4> HIDE DEF s, i, op, todo
        <4>2. /\ QueuesOk(sem_signal_by_id(sem, i), proc', shell)
              /\ Kept(sem, sem_signal_by_id(sem, i))
          <5>1. SemType(sem) /\ i \in Sem
            BY <2>1, <2>2
          <5> QED BY <2>5, <5>1, SignalQueues
        <4>3. ItemsOk(sem_signal_by_id(sem, i), proc', pipe.count)
          BY <2>1, <2>2, <2>5, <2>7, SignalItems
        <4> QED BY <4>1, <4>2, <4>3 DEF Kept
      <3>3. CASE op.name = "close"
        <4>1. s = sem_close_by_id(sem, i)
          BY <3>3
        <4> HIDE DEF s
        <4>2. /\ SemType(s) /\ s.blocked = sem.blocked
              /\ \A j \in Sem : s[j].queue = sem[j].queue
          BY <2>1, <2>2, <4>1, CloseEffect, SMTT(30)
        <4> QED BY <2>1, <2>5, <2>7, <4>2, SameQueues, SameItems
      <3> QED BY <1>1, <3>1, <3>2, <3>3
    <2> HIDE DEF s
    <2>9. /\ SemType(sem') /\ sem'.blocked = s.blocked
          /\ \A j \in Sem : sem'[j].queue = s[j].queue
      <3>1. sem' = WithLock(s, i, Nobody) /\ Nobody \in Process \cup {Nobody}
        BY <1>1 DEF WithLock
      <3>2. i \in Sem /\ SemType(s)
        BY <2>2, <2>8
      <3> HIDE DEF i
      <3>3. LockIs(s, WithLock(s, i, Nobody), i, Nobody)
        BY <3>1, <3>2, LockEffect
      <3> QED BY <3>1, <3>3 DEF LockIs
    <2>10. QueuesOk(sem', proc', shell)
      BY <2>8, <2>9, SameQueues
    <2>11. ItemsOk(sem', proc', pipe.count)
      BY <2>1, <2>8, <2>9, SameItems
    <2> QED BY <2>1, <2>10, <2>11
  <1> QED BY <1>4, <1>5 DEF SleepInv

\* Every step keeps the account of the sleeping processes.
LEMMA NextSleep ==
  ASSUME EndsInv, PipeType, SleepInv, [Next]_vars
  PROVE  SleepInv'
  <1>1. CASE UNCHANGED vars
    BY <1>1, NothingSleep DEF vars
  <1>2. ASSUME NEW p \in Process, pipe_open_by_id(p) PROVE SleepInv'
    <2>1. shell.pc = "idle" /\ proc[p].pc = "new"
      BY <1>2 DEF pipe_open_by_id, ShellRuns
    <2>2. CASE ~pipe.used /\ Go(p, "terminal") /\ pipe' = pipe
      <3>1. Only(p) /\ proc'[p].pc = "terminal"
        BY <2>2, GoIs DEF PC
      <3>2. Sides(proc')
        BY <3>1, SidesMove DEF SleepInv
      <3> QED BY <2>2, <3>2 DEF SleepInv
    <2>3. CASE UNCHANGED <<pipe, sem, proc, shell>>
      BY <2>3, NothingSleep
    <2>4. CASE /\ pipe.used /\ sem' = sem_wait_by_id(sem, "mutex", Shell)
               /\ ShellGoes("opening", p) /\ UNCHANGED <<pipe, proc>>
      <3>1. shell'.pc \in {"opening", "killing"}
        BY <2>4 DEF ShellGoes
      <3> QED BY <2>1, <2>4, <3>1, ShellSleep
    <2>5. CASE Opened(p) /\ sem' = sem
      BY <2>1, <2>5, OpenedSleep
    <2> QED BY <1>2, <2>2, <2>3, <2>4, <2>5 DEF pipe_open_by_id
  <1>3. ASSUME NEW p \in Process, kill(p) PROVE SleepInv'
    <2>1. /\ shell.pc = "idle" /\ Writers = {p} /\ proc[p].pc \notin {"new", "terminal"}
          /\ \A r \in Readers : proc[r].pc \in {"new", "terminal", "finished"}
      BY <1>3 DEF kill, ShellRuns
    <2>2. CASE ~pipe.used /\ Go(p, "killed") /\ pipe' = pipe
      <3>1. Only(p) /\ proc'[p].pc = "killed"
        BY <2>2, GoIs DEF PC
      <3>2. Sides(proc')
        BY <3>1, SidesMove DEF SleepInv
      <3> QED BY <2>2, <3>2 DEF SleepInv
    <2>3. CASE UNCHANGED <<pipe, sem, proc, shell>>
      BY <2>3, NothingSleep
    <2>4. CASE /\ pipe.used /\ sem' = sem_wait_by_id(sem, "mutex", Shell)
               /\ ShellGoes("killing", p) /\ UNCHANGED <<pipe, proc>>
      <3>1. shell'.pc \in {"opening", "killing"}
        BY <2>4 DEF ShellGoes
      <3> QED BY <2>1, <2>4, <3>1, ShellSleep
    <2>5. CASE Killed(p, sem)
      BY <2>1, <2>5, KilledSleep
    <2> QED BY <1>3, <2>2, <2>3, <2>4, <2>5 DEF kill
  <1>4. CASE open_resumes
    <2>1. shell.p \in Process /\ proc[shell.p].pc = "new" /\ Shell \notin sem.blocked
      BY <1>4 DEF open_resumes, ShellRuns, EndsInv, ShellKnows
    <2>2. CASE UNCHANGED <<pipe, sem, proc, shell>>
      BY <2>2, NothingSleep
    <2>3. CASE Opened(shell.p) /\ sem' = Unlocked
      BY <2>1, <2>3, OpenedSleep
    <2> QED BY <1>4, <2>2, <2>3 DEF open_resumes
  <1>5. CASE kill_resumes
    <2>1. /\ Writers = {shell.p} /\ proc[shell.p].pc \notin {"new", "terminal"}
          /\ \A r \in Readers : proc[r].pc \in {"new", "terminal", "finished"}
      BY <1>5 DEF kill_resumes, ShellRuns, EndsInv, ShellKnows
    <2>2. CASE UNCHANGED <<pipe, sem, proc, shell>>
      BY <2>2, NothingSleep
    <2>3. CASE Killed(shell.p, Unlocked)
      BY <2>1, <2>3, KilledSleep
    <2> QED BY <1>5, <2>2, <2>3 DEF kill_resumes
  <1>6. ASSUME NEW p \in Process, Step(p) \/ exit(p) \/ \E n : call(p, n) PROVE SleepInv'
    BY <1>6, CallSleep, EnterSleep, ReadSleep, WriteSleep, ExitSleep, CountsSleep, LocksSleep,
       DoesSleep, BlocksSleep DEF Step
  <1> QED BY <1>1, <1>2, <1>3, <1>4, <1>5, <1>6 DEF Next, ShellStep

(* One writer *)

\* It sleeps for spaces only while the ring is full.
SpacesInv == pipe.used /\ sem["spaces"].queue # <<>> => pipe.count = N

\* Nothing changes for the writer, or it is spared the wait.
Quiet ==
  pipe'.used => /\ pipe.used /\ pipe'.count = pipe.count
                /\ sem'["spaces"].queue # <<>> => sem["spaces"].queue # <<>>

\* Such a step keeps the invariant.
LEMMA QuietSpaces ==
  ASSUME SpacesInv, Quiet
  PROVE  SpacesInv'
  BY DEF SpacesInv, Quiet

\* The queue for spaces holds the writer, once.
LEMMA OneInQueue ==
  ASSUME EndsInv, SleepInv, pipe.used, NEW w, Writers = {w}
  PROVE  LET q == sem["spaces"].queue
         IN  /\ q \in Seq(Sleeper) /\ \A j \in DOMAIN q : q[j] = w
             /\ q # <<>> => Tail(q) = <<>> /\ Member(q, w)
  <1> DEFINE q == sem["spaces"].queue
  <1>0. "spaces" \in Sem /\ q \in Seq(Sleeper)
    BY KeptIs DEF Sem, SemType, semaphore_t
  <1>1. ASSUME NEW j \in DOMAIN q PROVE q[j] = w
    <2>1. WaitsIn(sem, proc, shell, "spaces", q[j]) /\ q[j] \in Sleeper
      BY <1>0 DEF SleepInv, QueuesOk
    <2>2. q[j] \in Process /\ proc[q[j]].pc = "wait_space"
      BY <2>1, PcIs DEF WaitsIn, Sleeper
    <2> QED BY <2>2 DEF SleepInv, Sides
  <1>2. \A j, k \in DOMAIN q : j = k
    BY <1>0, <1>1 DEF SleepInv, QueuesOk
  <1> HIDE DEF q
  <1>3. ASSUME q # <<>> PROVE Tail(q) = <<>> /\ Member(q, w)
    <2>1. Len(q) \in Nat /\ Len(q) > 0 /\ DOMAIN q = 1..Len(q)
      BY <1>0, <1>3, Shorter
    <2>2. 1 \in DOMAIN q /\ Len(q) \in DOMAIN q
      BY <2>1
    <2>3. Len(q) = 1
      BY <1>2, <2>2
    <2>4. Tail(q) \in Seq(Sleeper) /\ Len(Tail(q)) = 0
      BY <1>0, <1>3, <2>3, Shorter
    <2>5. Tail(q) = <<>>
      BY <2>4, Shorter
    <2> QED BY <1>1, <2>2, <2>5 DEF Member
  <1> QED BY <1>0, <1>1, <1>3 DEF q

\* Giving the mutex on has nothing to do with the spaces ...
LEMMA UnlockedQuiet ==
  ASSUME EndsInv, PipeType, SleepInv, pipe.used
  PROVE  Unlocked["spaces"].queue = sem["spaces"].queue
  <1>1. "spaces" \in Sem /\ pipe.count \in Int
    BY NIsPositive DEF Sem, PipeType, pipe_t, Count
  <1> QED BY <1>1, UnlockedSleep DEF SleepInv

\* ... nor has a wait for another semaphore.
LEMMA WaitQuiet ==
  ASSUME NEW s, SemType(s), NEW i \in Sem, i # "spaces", NEW p \in Sleeper
  PROVE  sem_wait_by_id(s, i, p)["spaces"].queue = s["spaces"].queue
  <1> DEFINE t == sem_wait_by_id(s, i, p)
  <1>1. \/ Queues(s, t, i, Append(s[i].queue, p), s.blocked \cup {p})
        \/ Queues(s, t, i, s[i].queue, s.blocked)
    BY WaitEffect
  <1> QED BY <1>1 DEF Queues, Sem

\* A write puts a byte only when the writer is awake ...
LEMMA WriteSpaces ==
  ASSUME EndsInv, PipeType, SleepInv, SpacesInv, NEW w, Writers = {w}, pipe_write(w)
  PROVE  SpacesInv'
  <1>0. w \in Process /\ cpu = w /\ "spaces" \in Sem /\ "items" \in Sem /\ "items" # "spaces"
    BY DEF Process, pipe_write, Sem
  <1> DEFINE wrote == [pipe EXCEPT !.buffer[pipe.write_pos] = sent + 1,
                                   !.write_pos = Ahead(@), !.count = @ + 1]
  <1>1. wrote.used = pipe.used
    BY DEF PipeType, pipe_t
  <1> HIDE DEF wrote
  <1>2. CASE ~pipe.used
    BY <1>1, <1>2 DEF pipe_write, Hangs, wrote, SpacesInv
  <1>3. CASE pipe.used
    <2>1. Unlocked["spaces"].queue = sem["spaces"].queue
      BY <1>3, UnlockedQuiet
    <2>2. CASE Hangs
      BY <2>2 DEF Hangs, SpacesInv
    <2>3. CASE sem' = Unlocked /\ pipe' = pipe
      BY <2>1, <2>3 DEF SpacesInv
    <2>4. CASE pipe' = wrote /\ sem' = WroteByte
      <3>1. ~Member(sem["spaces"].queue, w)
        BY <1>0, <1>3, HeldSleep
      <3>2. sem["spaces"].queue = <<>>
        BY <1>3, <3>1, OneInQueue
      <3>3. /\ QueuesOk(sem, proc, shell) /\ ItemsOk(sem, proc, pipe.count) /\ pipe.count \in Int
        BY <1>0, <1>3, HeldSleep
      <3>4. QueuesOk(Unlocked, proc, shell) /\ SemType(Unlocked)
        BY <1>3, <3>3, UnlockedSleep
      <3>5. sem'["spaces"].queue = Unlocked["spaces"].queue
        BY <1>0, <2>4, <3>4, SignalQueues DEF WroteByte
      <3> QED BY <2>1, <3>2, <3>5 DEF SpacesInv
    <2>5. CASE pipe.count = PIPE_BUFFER_SIZE /\ pipe' = pipe
      BY <2>5 DEF SpacesInv, N
    <2> QED BY <2>2, <2>3, <2>4, <2>5 DEF pipe_write, wrote
  <1> QED BY <1>2, <1>3

\* ... and a read that takes one wakes it.
LEMMA ReadSpaces ==
  ASSUME EndsInv, PipeType, SleepInv, SpacesInv, NEW w, Writers = {w},
         NEW p \in Process, pipe_read(p)
  PROVE  SpacesInv'
  <1>0. cpu = p /\ "spaces" \in Sem /\ "items" \in Sem /\ "items" # "spaces" /\ p \in Sleeper
    BY DEF pipe_read, Sem, Sleeper
  <1> DEFINE c == [pipe EXCEPT !.read_pos = Ahead(@), !.count = @ - 1]
  <1>1. c.used = pipe.used
    BY DEF PipeType, pipe_t
  <1> HIDE DEF c
  <1>2. CASE ~pipe.used
    BY <1>1, <1>2 DEF pipe_read, Hangs, c, SpacesInv
  <1>3. CASE pipe.used
    <2>1. Unlocked["spaces"].queue = sem["spaces"].queue
      BY <1>3, UnlockedQuiet
    <2>2. QueuesOk(sem, proc, shell) /\ ItemsOk(sem, proc, pipe.count) /\ pipe.count \in Int
      BY <1>0, <1>3, HeldSleep
    <2>3. SemType(Unlocked)
      BY <1>3, <2>2, UnlockedSleep
    <2>4. CASE Hangs
      BY <2>4 DEF Hangs, SpacesInv
    <2>5. CASE sem' = Unlocked /\ pipe' = pipe
      BY <2>1, <2>5 DEF SpacesInv
    <2>6. CASE pipe' = c /\ sem' = sem_signal_by_id(Unlocked, "spaces")
      <3> DEFINE q == sem["spaces"].queue
      <3>1. q # <<>> => Tail(q) = <<>>
        BY <1>3, OneInQueue
      <3>2. Unlocked["spaces"].used
        BY <1>0, <1>3, <2>2, UnlockedSleep DEF EndsInv, Held, Kept
      <3>3. sem'["spaces"].queue = IF q = <<>> THEN q ELSE Tail(q)
        BY <1>0, <2>1, <2>3, <2>6, <3>2, SignalEffect DEF Queues
      <3>4. sem'["spaces"].queue = <<>>
        BY <3>1, <3>3
      <3> QED BY <3>4 DEF SpacesInv
    <2>7. CASE pipe' = pipe /\ WaitFor(Unlocked, "items", p, "loop", "wait_item")
      <3>1. sem'["spaces"].queue = Unlocked["spaces"].queue
        BY <1>0, <2>3, <2>7, WaitQuiet DEF WaitFor
      <3> QED BY <2>1, <2>7, <3>1 DEF SpacesInv
    <2> QED BY <2>4, <2>5, <2>6, <2>7 DEF pipe_read, c
  <1> QED BY <1>2, <1>3

\* Everything else leaves the writer alone.
LEMMA OthersQuiet ==
  ASSUME EndsInv, PipeType, SleepInv, NEW p \in Process,
         \/ pipe_open_by_id(p) \/ kill(p) \/ exit(p) \/ resume(p) \/ enter(p)
         \/ \E n : call(p, n)
         \/ close_counts(p) \/ close_locks(p) \/ close_does(p) \/ close_blocks(p)
  PROVE  Quiet
  <1>0. /\ "mutex" \in Sem /\ "spaces" \in Sem /\ "mutex" # "spaces" /\ SemType(sem)
        /\ Shell \in Sleeper /\ p \in Sleeper
    BY KeptIs DEF Sem, Sleeper
  <1>1. CASE UNCHANGED <<pipe, sem>>
    BY <1>1 DEF Quiet
  <1>2. CASE \E q \in Sleeper : sem' = sem_wait_by_id(sem, "mutex", q) /\ pipe' = pipe
    <2>1. sem'["spaces"].queue = sem["spaces"].queue
      <3>1. PICK q \in Sleeper : sem' = sem_wait_by_id(sem, "mutex", q)
        BY <1>2
      <3> QED BY <1>0, <3>1, WaitQuiet
    <2> QED BY <1>2, <2>1 DEF Quiet
  <1>3. CASE pipe_open_by_id(p)
    <2>1. CASE Opened(p) /\ sem' = sem
      <3>1. pipe'.used = pipe.used /\ pipe'.count = pipe.count
        BY <2>1 DEF Opened, PipeType, pipe_t
      <3> QED BY <2>1, <3>1 DEF Quiet
    <2> QED BY <1>0, <1>1, <1>2, <1>3, <2>1 DEF pipe_open_by_id
  <1>4. CASE kill(p)
    <2>1. CASE pipe.used /\ Killed(p, sem)
      <3>1. ~pipe'.used
        BY <1>4, <2>1, KilledFrees DEF kill
      <3> QED BY <3>1 DEF Quiet
    <2> QED BY <1>0, <1>1, <1>2, <1>4, <2>1 DEF kill
  <1>5. CASE exit(p) \/ resume(p) \/ \E n : call(p, n)
    BY <1>1, <1>5 DEF exit, resume, call
  <1>6. CASE enter(p)
    BY <1>0, <1>1, <1>2, <1>6 DEF enter, Hangs, WaitFor
  <1>7. CASE close_counts(p)
    <2>1. /\ Dropped(p).used = pipe.used /\ Dropped(p).count = pipe.count
          /\ Freed(Dropped(p)).used = FALSE
      BY DEF Dropped, Freed, PipeType, pipe_t
    <2> QED BY <1>7, <2>1 DEF close_counts, Quiet
  <1>8. CASE close_blocks(p)
    <2>1. sem'["spaces"] = sem["spaces"] /\ pipe' = pipe
      BY <1>0, <1>8 DEF close_blocks, scheduler_block_current, SemType
    <2> QED BY <2>1 DEF Quiet
  <1>9. CASE close_locks(p)
    <2> DEFINE i == Head(proc[p].todo).sem
    <2>1. pipe' = pipe /\ sem' = [sem EXCEPT ![i].lock = p]
      BY <1>9 DEF close_locks
    <2> HIDE DEF i
    <2>2. "spaces" \in DOMAIN sem /\ sem["spaces"] \in semaphore_t
      BY <1>0 DEF SemType
    <2>3. sem'["spaces"].queue = sem["spaces"].queue
      BY <2>1, <2>2 DEF semaphore_t
    <2> QED BY <2>1, <2>3 DEF Quiet
  <1>10. CASE close_does(p)
    <2> DEFINE todo == proc[p].todo
               op == Head(todo)
               i == op.sem
               s == CASE op.name = "wait"   -> Enlist(sem, i, p)
                      [] op.name = "signal" -> sem_signal_by_id(sem, i)
                      [] op.name = "close"  -> sem_close_by_id(sem, i)
    <2>1. /\ proc[p].pc = "closing" /\ pipe' = pipe /\ op.name \in {"wait", "signal", "close"}
          /\ sem' = WithLock(s, i, Nobody)
      BY <1>10 DEF close_does, Closing, WithLock
    <2>2. i \in Sem /\ (op.name = "wait" => i = "mutex")
      <3>1. CASE todo \in Before
        <4>1. \A n : Op(n, "mutex").sem = "mutex"
          BY Ops
        <4> QED BY <1>0, <3>1, <4>1, BeforeIs
      <3>2. CASE todo \notin Before
        BY <2>1, <3>2, Ending
      <3> QED BY <3>1, <3>2
    <2>3. ASSUME pipe.used
          PROVE  SemType(s) /\ (s["spaces"].queue # <<>> => sem["spaces"].queue # <<>>)
      <3>1. QueuesOk(sem, proc, shell)
        BY <2>3 DEF SleepInv
      <3>2. CASE op.name = "wait"
        <4>1. s = Enlist(sem, "mutex", p)
          BY <2>2, <3>2
        <4> HIDE DEF s
        <4>2. /\ Kept(sem, Enlist(sem, "mutex", p))
              /\ Enlist(sem, "mutex", p)["spaces"].queue = sem["spaces"].queue
          BY <1>0, EnlistEffect DEF Queues
        <4> QED BY <4>1, <4>2 DEF Kept
      <3>3. CASE op.name = "signal"
        <4>1. s = sem_signal_by_id(sem, i)
          BY <3>3
        <4> HIDE DEF s
        <4>2. /\ Kept(sem, sem_signal_by_id(sem, i))
              /\ \A j \in Sem : sem_signal_by_id(sem, i)[j].queue # <<>> => sem[j].queue # <<>>
          BY <1>0, <2>2, <3>1, SignalQueues
        <4> QED BY <1>0, <4>1, <4>2 DEF Kept
      <3>4. CASE op.name = "close"
        <4>1. s = sem_close_by_id(sem, i)
          BY <3>4
        <4>2. SemType(sem) /\ i \in Sem
          BY <1>0, <2>2
        <4> HIDE DEF s, i
        <4>3. \A j \in Sem : sem_close_by_id(sem, i)[j].queue = sem[j].queue
          BY <4>2, CloseEffect
        <4>4. SemType(sem_close_by_id(sem, i))
          BY <4>2, CloseEffect
        <4> QED BY <1>0, <4>1, <4>3, <4>4
      <3> QED BY <2>1, <3>2, <3>3, <3>4
    <2> HIDE DEF s
    <2>4. pipe.used => sem'["spaces"].queue = s["spaces"].queue
      <3>1. Nobody \in Process \cup {Nobody}
        OBVIOUS
      <3>2. pipe.used => LockIs(s, WithLock(s, i, Nobody), i, Nobody)
        BY <2>2, <2>3, <3>1, LockEffect
      <3> QED BY <1>0, <2>1, <3>2 DEF LockIs
    <2> QED BY <2>1, <2>3, <2>4 DEF Quiet
  <1> QED BY <1>3, <1>4, <1>5, <1>6, <1>7, <1>8, <1>9, <1>10

\* Every step keeps the account of the spaces.
LEMMA NextSpaces ==
  ASSUME EndsInv, PipeType, SleepInv, SpacesInv, [Next]_vars, NEW w, Writers = {w}
  PROVE  SpacesInv'
  <1>1. CASE UNCHANGED vars
    BY <1>1 DEF vars, SpacesInv
  <1>2. CASE open_resumes
    <2>1. CASE UNCHANGED <<pipe, sem>>
      BY <2>1 DEF SpacesInv
    <2>2. CASE Opened(shell.p) /\ sem' = Unlocked
      <3>1. pipe'.used = pipe.used /\ pipe'.count = pipe.count
        BY <2>2 DEF Opened, PipeType, pipe_t
      <3>2. pipe.used => sem'["spaces"].queue = sem["spaces"].queue
        BY <2>2, UnlockedQuiet
      <3> QED BY <3>1, <3>2 DEF SpacesInv
    <2> QED BY <1>2, <2>1, <2>2 DEF open_resumes
  <1>3. CASE kill_resumes
    <2>1. /\ Writers = {shell.p} /\ proc[shell.p].pc \notin {"new", "terminal"}
          /\ \A r \in Readers : proc[r].pc \in {"new", "terminal", "finished"}
      BY <1>3 DEF kill_resumes, ShellRuns, EndsInv, ShellKnows
    <2>2. CASE UNCHANGED <<pipe, sem>>
      BY <2>2 DEF SpacesInv
    <2>3. CASE Killed(shell.p, Unlocked)
      <3>1. CASE pipe.used
        <4>1. ~pipe'.used
          BY <2>1, <2>3, <3>1, KilledFrees
        <4> QED BY <4>1 DEF SpacesInv
      <3>2. CASE ~pipe.used
        <4>1. Dropped(shell.p).used = pipe.used /\ Freed(Dropped(shell.p)).used = FALSE
          BY DEF Dropped, Freed, PipeType, pipe_t
        <4> QED BY <2>3, <3>2, <4>1 DEF Killed, SpacesInv
      <3> QED BY <3>1, <3>2
    <2> QED BY <1>3, <2>2, <2>3 DEF kill_resumes
  <1>4. ASSUME NEW p \in Process, pipe_write(p) PROVE SpacesInv'
    <2>1. p = w
      BY <1>4 DEF pipe_write
    <2> QED BY <1>4, <2>1, WriteSpaces
  <1>5. ASSUME NEW p \in Process, pipe_read(p) PROVE SpacesInv'
    BY <1>5, ReadSpaces
  <1>6. ASSUME NEW p \in Process,
               \/ pipe_open_by_id(p) \/ kill(p) \/ exit(p) \/ resume(p) \/ enter(p)
               \/ \E n : call(p, n)
               \/ close_counts(p) \/ close_locks(p) \/ close_does(p) \/ close_blocks(p)
        PROVE  SpacesInv'
    BY <1>6, OthersQuiet, QuietSpaces
  <1> QED BY <1>1, <1>2, <1>3, <1>4, <1>5, <1>6 DEF Next, ShellStep, Step

-----------------------------------------------------------------------------
\* Nobody sleeps at the start.
LEMMA InitSleep == Init => SleepInv /\ SpacesInv
  <1> SUFFICES ASSUME Init PROVE SleepInv /\ SpacesInv
    OBVIOUS
  <1>1. \A i \in Sem : sem[i].queue = <<>>
    <2>1. /\ sem["items"] = Semaphore(0) /\ sem["spaces"] = Semaphore(PIPE_BUFFER_SIZE)
          /\ sem["mutex"] = Semaphore(1)
      BY DEF Init
    <2>2. \A v : Semaphore(v).queue = <<>>
      BY DEF Semaphore
    <2> QED BY <2>1, <2>2 DEF Sem
  <1>2. Sides(proc)
    BY DEF Init, Sides
  <1>3. QueuesOk(sem, proc, shell)
    BY <1>1 DEF QueuesOk
  <1>4. ItemsOk(sem, proc, pipe.count) /\ SpacesInv
    BY <1>1 DEF ItemsOk, SpacesInv, Sem
  <1> QED BY <1>2, <1>3, <1>4 DEF SleepInv

\* There are as many woken readers as bytes.
LEMMA ReadersWoken ==
  ASSUME EndsInv, PipeType, SleepInv, pipe.used, pipe.count > 0, sem.items.queue # <<>>
  PROVE  OnItsWay(Readers)
  <1>1. pipe.count \in Int
    BY NIsPositive DEF PipeType, pipe_t, Count
  <1>2. AtLeast(pipe.count, WokenReaders(sem, proc))
    BY DEF SleepInv, ItemsOk
  <1>4. WokenReaders(sem, proc) # {}
    BY <1>1, <1>2, AtLeastIs
  <1> QED BY <1>4 DEF WokenReaders, WokenIn, OnItsWay, Asleep

\* The three accounts hold in every state.
LEMMA SleepHolds == Spec => [](IInv /\ EndsInv /\ SleepInv)
  <1>1. IInv => PipeType
    BY DEF IInv
  <1>2. SleepInv /\ IInv /\ EndsInv /\ [Next]_vars => SleepInv'
    BY <1>1, NextSleep
  <1> QED BY <1>2, InitSleep, EndsHold, PTL DEF Spec

\* While there are bytes in an open pipe, the readers are not all asleep on
\* sem_items: one of them has been woken or is reading, however many readers
\* and writers there are and although the value of sem_items drifts away from
\* the number of bytes.
THEOREM ReadersAreWoken ==
  Spec => [](pipe.used /\ pipe.count > 0 /\ sem.items.queue # <<>> => OnItsWay(Readers))
  <1>1. IInv /\ EndsInv /\ SleepInv =>
          (pipe.used /\ pipe.count > 0 /\ sem.items.queue # <<>> => OnItsWay(Readers))
    BY ReadersWoken DEF IInv
  <1> QED BY <1>1, SleepHolds, PTL

\* With a single writer, as in the shell's pipelines, nobody sleeps for
\* nothing at either end: readers as above, and the writer sleeps on
\* sem_spaces only while the ring is full.
THEOREM SleepersAreWoken ==
  ASSUME NEW w, Writers = {w}
  PROVE  Spec => []NobodySleepsForNothing
  <1>1. IInv => PipeType
    BY DEF IInv
  <1>2. SpacesInv /\ SleepInv /\ IInv /\ EndsInv /\ [Next]_vars => SpacesInv'
    BY <1>1, NextSpaces
  <1>3. SleepInv /\ SpacesInv /\ IInv /\ EndsInv => NobodySleepsForNothing
    <2> SUFFICES ASSUME SleepInv, SpacesInv, IInv, EndsInv, pipe.used
                 PROVE  /\ pipe.count > 0 /\ sem.items.queue # <<>> => OnItsWay(Readers)
                        /\ pipe.count < PIPE_BUFFER_SIZE => sem.spaces.queue = <<>>
      BY DEF NobodySleepsForNothing
    <2>1. pipe.count < PIPE_BUFFER_SIZE => sem.spaces.queue = <<>>
      BY NIsPositive DEF SpacesInv, N
    <2> QED BY <1>1, <2>1, ReadersWoken
  <1> QED BY <1>2, <1>3, InitSleep, SleepHolds, PTL DEF Spec

=============================================================================
