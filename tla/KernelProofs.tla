---------------------------- MODULE KernelProofs ----------------------------
(***************************************************************************)
(* What holds of the kernel for every number of processes, semaphores and  *)
(* keys and every choice of the constants: TypeOK, IdleIsAvailable and     *)
(* NoTokenWithWaiters.                                                     *)
(*                                                                         *)
(* None of the three is inductive.  The set Safe strengthens them: every   *)
(* link the kernel follows (queues, waiters of processes, waiters of       *)
(* semaphores) leads to a user process or is NULL, so that no walk and no  *)
(* wake-up reaches the idle process, whose state and context therefore     *)
(* never change.  Every operator of the model maps Safe to Safe; loops do  *)
(* so by the rules of DataProofs.                                          *)
(***************************************************************************)
EXTENDS KernelProperties, DataProofs

\* The links that lead to a user process, or nowhere.
UserLink == User \cup {NULL}

\* KState with UserLink for Link, except that a parent may be any process.
SafeRec ==
  [head : [Queue -> UserLink], tail : [Queue -> UserLink],
   queue_next : [Proc -> UserLink], queue_prev : [Proc -> UserLink],
   hung : BOOLEAN,
   state : [Proc -> State],
   priority : [Proc -> Priority], base_priority : [Proc -> Priority],
   wait_ticks : [Proc -> 0..AGING_THRESHOLD],
   is_foreground : [Proc -> BOOLEAN],
   parent : [Proc -> Link],
   waiters_head : [Proc -> UserLink], waiter_next : [Proc -> UserLink],
   context : [Proc -> Context],
   heap : SUBSET Proc,
   current : Proc, need_resched : BOOLEAN,
   elapsed : 0..QUANTUM_TICKS,
   sem_used : [SemId -> BOOLEAN], sem_value : [SemId -> Nat],
   sem_refcount : [SemId -> Int],
   wait_head : [SemId -> UserLink], wait_tail : [SemId -> UserLink],
   sem_waiter_next : [Proc -> UserLink],
   next_sem_id : Nat \ {0},
   buffer : Seq(Key)]

\* The inductive invariant is k \in Safe.
Safe ==
  {m \in SafeRec :
     /\ idle_p \in m.heap
     /\ m.state[idle_p] = "RUNNING"
     /\ m.context[idle_p] = UserMode
     /\ \A id \in SemId : m.sem_value[id] > 0 => m.wait_head[id] = NULL}

-----------------------------------------------------------------------------
(* Queues *)

\* The sets of processes, links and queues and the constants in them.
LEMMA Basics ==
  /\ idle_p \in Proc /\ shell \in User /\ User \subseteq Proc /\ NULL \notin Proc
  /\ UserLink \subseteq Link /\ NULL \in UserLink /\ User \subseteq UserLink
  /\ \A p \in UserLink : p # NULL => p \in User
  /\ Priority \subseteq Queue /\ blocked_q \in Queue /\ finished_q \in Queue
  /\ 0 \in Queue
BY MaxProcAssumption, KernelAssumption
   DEF idle_p, shell, User, Proc, NULL, UserLink, Link, Priority, Queue, blocked_q,
       finished_q, PROCESS_PRIORITY_MIN, PROCESS_PRIORITY_MAX

\* Following links from a user process never leads to the idle process.
LEMMA WalkType ==
  ASSUME NEW next \in [Proc -> UserLink], NEW h \in UserLink, NEW i \in Nat
  PROVE  Walk(next, h)[i] \in UserLink
<1> DEFINE F == [p \in Link |-> IF p = NULL THEN NULL ELSE next[p]]
<1>1. \A p \in UserLink : F[p] \in UserLink
  BY Basics DEF Link
<1> HIDE DEF F
<1>2. Iterate(F, h, i) \in UserLink
  BY <1>1, IterateStays
<1> QED BY <1>2 DEF Walk, F

\* No walk along a queue (find_in_queue, detach_from_queue) meets the idle process.
LEMMA IdleNotOnWalk ==
  ASSUME NEW m \in SafeRec, NEW h \in UserLink
  PROVE  ~OnWalk(m, h, idle_p)
<1>1. \A i \in 0..MaxProc : Walk(m.queue_next, h)[i] \in UserLink
  <2>1. m.queue_next \in [Proc -> UserLink] BY DEF SafeRec
  <2> QED BY <2>1, WalkType, MaxProcAssumption
<1>2. idle_p \notin UserLink BY DEF UserLink, User, NULL, idle_p
<1> QED BY <1>1, <1>2 DEF OnWalk, FirstOnWalk

\* Relinking the queues keeps a safe memory safe.
LEMMA QueueUpdate ==
  ASSUME NEW m \in Safe, NEW h \in [Queue -> UserLink], NEW t \in [Queue -> UserLink],
         NEW n \in [Proc -> UserLink], NEW r \in [Proc -> UserLink]
  PROVE  [m EXCEPT !.head = h, !.tail = t, !.queue_next = n, !.queue_prev = r] \in Safe
BY Zenon DEF Safe, SafeRec

\* detach_from_queue only ever moves links that are already there.
LEMMA DetachSafe ==
  ASSUME NEW m \in Safe, NEW q \in Queue, NEW p \in Proc
  PROVE  detach_from_queue(m, q, p) \in Safe
<1> DEFINE n == m.queue_next[p]
           r == m.queue_prev[p]
           h == [m.head EXCEPT ![q] = IF r = NULL THEN n ELSE @]
           t == [m.tail EXCEPT ![q] = IF n = NULL THEN r ELSE @]
           qn == [x \in Proc |-> CASE x = p -> NULL
                                   [] x # p /\ x = r -> n
                                   [] OTHER -> m.queue_next[x]]
           qp == [x \in Proc |-> CASE x = p -> NULL
                                   [] x # p /\ x = n -> r
                                   [] OTHER -> m.queue_prev[x]]
<1>1. CASE ~OnWalk(m, m.head[q], p)
  <2>1. (m.hung \/ Endless(m, m.head[q])) \in BOOLEAN OBVIOUS
  <2>2. ASSUME NEW b \in BOOLEAN PROVE [m EXCEPT !.hung = b] \in Safe
    BY Zenon, <2>2 DEF Safe, SafeRec
  <2> QED BY Zenon, <1>1, <2>1, <2>2 DEF detach_from_queue
<1>2. CASE OnWalk(m, m.head[q], p)
  <2>1. /\ m.head \in [Queue -> UserLink] /\ m.tail \in [Queue -> UserLink]
        /\ m.queue_next \in [Proc -> UserLink] /\ m.queue_prev \in [Proc -> UserLink]
    BY DEF Safe, SafeRec
  <2>2. n \in UserLink /\ r \in UserLink BY <2>1
  <2>3. h \in [Queue -> UserLink] /\ t \in [Queue -> UserLink] BY <2>1, <2>2
  <2>4. qn \in [Proc -> UserLink] BY <2>1, <2>2, Basics
  <2>5. qp \in [Proc -> UserLink] BY <2>1, <2>2, Basics
  <2>6. detach_from_queue(m, q, p) =
          [m EXCEPT !.head = h, !.tail = t, !.queue_next = qn, !.queue_prev = qp]
    BY <1>2 DEF detach_from_queue, Safe, SafeRec
  <2> HIDE DEF h, t, qn, qp
  <2>7. [m EXCEPT !.head = h, !.tail = t, !.queue_next = qn, !.queue_prev = qp] \in Safe
    BY Zenon, <2>3, <2>4, <2>5, QueueUpdate
  <2> QED BY <2>6, <2>7
<1> QED BY <1>1, <1>2

\* process_queue_remove keeps the memory safe.
LEMMA RemoveSafe ==
  ASSUME NEW m \in Safe, NEW q \in Queue, NEW p \in Proc
  PROVE  process_queue_remove(m, q, p) \in Safe
BY DetachSafe DEF process_queue_remove

\* process_queue_push keeps the memory safe when it is given a user process.
LEMMA PushSafe ==
  ASSUME NEW m \in Safe, NEW q \in Queue, NEW p \in User
  PROVE  process_queue_push(m, q, p) \in Safe
<1> DEFINE d == IF \/ m.queue_next[p] # NULL
                   \/ m.queue_prev[p] # NULL
                   \/ m.head[q] = p
                THEN detach_from_queue(m, q, p) ELSE m
           t == d.tail[q]
           qn == [x \in Proc |-> CASE x = t -> p
                                   [] x # t /\ x = p -> NULL
                                   [] OTHER -> d.queue_next[x]]
<1>1. d \in Safe BY DetachSafe, Basics
<1>2. process_queue_push(m, q, p) =
        IF d.head[q] = NULL
        THEN [d EXCEPT !.head[q] = p, !.tail[q] = p,
                       !.queue_next[p] = NULL, !.queue_prev[p] = NULL]
        ELSE [d EXCEPT !.tail[q] = p, !.queue_prev[p] = t, !.queue_next = qn]
  BY DEF process_queue_push, AppendTo
<1> HIDE DEF d
<1>3. /\ d.head \in [Queue -> UserLink] /\ d.tail \in [Queue -> UserLink]
      /\ d.queue_next \in [Proc -> UserLink] /\ d.queue_prev \in [Proc -> UserLink]
  BY <1>1 DEF Safe, SafeRec
<1>4. CASE d.head[q] = NULL
  <2> DEFINE h1 == [d.head EXCEPT ![q] = p]
             t1 == [d.tail EXCEPT ![q] = p]
             n1 == [d.queue_next EXCEPT ![p] = NULL]
             r1 == [d.queue_prev EXCEPT ![p] = NULL]
  <2>1. /\ h1 \in [Queue -> UserLink] /\ t1 \in [Queue -> UserLink]
        /\ n1 \in [Proc -> UserLink] /\ r1 \in [Proc -> UserLink]
    BY <1>3, Basics
  <2>2. process_queue_push(m, q, p) =
          [d EXCEPT !.head = h1, !.tail = t1, !.queue_next = n1, !.queue_prev = r1]
    BY <1>1, <1>2, <1>4 DEF Safe, SafeRec
  <2> HIDE DEF h1, t1, n1, r1
  <2>3. [d EXCEPT !.head = h1, !.tail = t1, !.queue_next = n1, !.queue_prev = r1] \in Safe
    BY Zenon, <1>1, <2>1, QueueUpdate
  <2> QED BY <2>2, <2>3
<1>5. CASE d.head[q] # NULL
  <2> DEFINE t1 == [d.tail EXCEPT ![q] = p]
             r1 == [d.queue_prev EXCEPT ![p] = t]
  <2>1. t1 \in [Queue -> UserLink] /\ r1 \in [Proc -> UserLink]
    BY <1>3, Basics
  <2>2. qn \in [Proc -> UserLink]
    BY <1>3, Basics
  <2>3. process_queue_push(m, q, p) =
          [d EXCEPT !.tail = t1, !.queue_prev = r1, !.queue_next = qn]
    BY <1>2, <1>5
  <2> HIDE DEF t1, r1, qn
  <2>4. [d EXCEPT !.tail = t1, !.queue_prev = r1, !.queue_next = qn] \in Safe
    BY Zenon, <1>1, <2>1, <2>2 DEF Safe, SafeRec
  <2> QED BY <2>3, <2>4
<1> QED BY <1>4, <1>5

\* process_queue_pop keeps the memory safe.
LEMMA PopSafe ==
  ASSUME NEW m \in Safe, NEW q \in Queue
  PROVE  process_queue_pop(m, q) \in Safe
<1>1. m.head[q] \in UserLink BY DEF Safe, SafeRec
<1> QED BY <1>1, DetachSafe, Basics DEF process_queue_pop

-----------------------------------------------------------------------------
(* Scheduler *)

\* clamp_priority yields a priority for every argument.
LEMMA ClampType ==
  ASSUME NEW pr \in Nat PROVE clamp_priority(pr) \in Priority
BY DEF clamp_priority, Priority, PROCESS_PRIORITY_MIN, PROCESS_PRIORITY_MAX

\* The updates of one process that the operations below are made of.
LEMMA ProcessUpdate ==
  ASSUME NEW m \in Safe, NEW p \in Proc
  PROVE  /\ \A pr \in Priority : [m EXCEPT !.priority[p] = pr] \in Safe
         /\ \A w \in 0..AGING_THRESHOLD : [m EXCEPT !.wait_ticks[p] = w] \in Safe
         /\ \A s \in State : s = "RUNNING" \/ p \in User =>
              [m EXCEPT !.state[p] = s] \in Safe
         /\ \A b \in BOOLEAN : [m EXCEPT !.is_foreground[p] = b] \in Safe
         /\ \A b \in BOOLEAN : [m EXCEPT !.need_resched = b] \in Safe
         /\ \A b \in BOOLEAN : [m EXCEPT !.hung = b] \in Safe
         /\ \A c \in Context : p \in User => [m EXCEPT !.context[p] = c] \in Safe
         /\ \A s \in State, b \in BOOLEAN : p \in User =>
              [m EXCEPT !.state[p] = s, !.need_resched = b] \in Safe
<1>1. \A pr \in Priority : [m EXCEPT !.priority[p] = pr] \in Safe
  BY Zenon DEF Safe, SafeRec
<1>2. \A w \in 0..AGING_THRESHOLD : [m EXCEPT !.wait_ticks[p] = w] \in Safe
  BY Zenon DEF Safe, SafeRec
<1>3. \A s \in State : s = "RUNNING" \/ p \in User => [m EXCEPT !.state[p] = s] \in Safe
  BY Zenon DEF Safe, SafeRec, User
<1>4. \A b \in BOOLEAN : [m EXCEPT !.is_foreground[p] = b] \in Safe
  BY Zenon DEF Safe, SafeRec
<1>5. \A b \in BOOLEAN : [m EXCEPT !.need_resched = b] \in Safe
  BY Zenon DEF Safe, SafeRec
<1>6. \A b \in BOOLEAN : [m EXCEPT !.hung = b] \in Safe
  BY Zenon DEF Safe, SafeRec
<1>7. \A c \in Context : p \in User => [m EXCEPT !.context[p] = c] \in Safe
  BY ZenonT(30) DEF Safe, SafeRec, User
<1>8. \A s \in State, b \in BOOLEAN : p \in User =>
        [m EXCEPT !.state[p] = s, !.need_resched = b] \in Safe
  BY ZenonT(30) DEF Safe, SafeRec, User
<1> QED BY Zenon, <1>1, <1>2, <1>3, <1>4, <1>5, <1>6, <1>7, <1>8

\* The types of the fields the scheduler uses.
LEMMA Fields ==
  ASSUME NEW m \in Safe
  PROVE  /\ m.priority \in [Proc -> Priority] /\ m.base_priority \in [Proc -> Priority]
         /\ m.wait_ticks \in [Proc -> 0..AGING_THRESHOLD]
         /\ m.head \in [Queue -> UserLink] /\ m.queue_next \in [Proc -> UserLink]
         /\ m.state \in [Proc -> State] /\ m.parent \in [Proc -> Link]
         /\ m.is_foreground \in [Proc -> BOOLEAN] /\ m.need_resched \in BOOLEAN
         /\ m.current \in Proc /\ m.context \in [Proc -> Context]
         /\ m.waiters_head \in [Proc -> UserLink] /\ m.waiter_next \in [Proc -> UserLink]
         /\ m.hung \in BOOLEAN /\ m.elapsed \in 0..QUANTUM_TICKS
BY DEF Safe, SafeRec

\* Priorities are natural numbers.
LEMMA PriorityIsNat == Priority \subseteq Nat
BY DEF Priority, PROCESS_PRIORITY_MIN, PROCESS_PRIORITY_MAX

\* The process states of process.h.
LEMMA StateValues ==
  {"NONE", "READY", "RUNNING", "BLOCKED", "FINISHED"} \subseteq State
BY DEF State

\* ready_queue_push keeps the memory safe.
LEMMA ReadyPushSafe ==
  ASSUME NEW m \in Safe, NEW p \in User
  PROVE  ready_queue_push(m, p) \in Safe
<1> DEFINE pr == clamp_priority(m.priority[p])
<1>1. pr \in Priority BY Zenon, Fields, ClampType, PriorityIsNat, Basics
<1>2. ready_queue_push(m, p) = process_queue_push([m EXCEPT !.priority[p] = pr], pr, p)
  BY DEF ready_queue_push
<1> HIDE DEF pr
<1>3. [m EXCEPT !.priority[p] = pr] \in Safe BY Zenon, <1>1, ProcessUpdate, Basics
<1> QED BY <1>1, <1>2, <1>3, PushSafe, Basics

\* A boost of apply_aging keeps the memory safe.
LEMMA BoostSafe ==
  ASSUME NEW m \in Safe, NEW pr \in Priority, NEW p \in User
  PROVE  Boost(m, pr, p) \in Safe
<1> DEFINE removed == process_queue_remove(m, pr, p)
           to == clamp_priority(m.priority[p] + AGING_BOOST)
           raised == [removed EXCEPT !.priority[p] = to]
           pushed == process_queue_push(raised, to, p)
<1>1. removed \in Safe BY RemoveSafe, Basics
<1>2. to \in Priority
  <2>1. m.priority[p] \in Nat BY Zenon, Fields, PriorityIsNat, Basics
  <2>2. m.priority[p] + AGING_BOOST \in Nat BY <2>1 DEF AGING_BOOST
  <2> QED BY <2>2, ClampType
<1>3. Boost(m, pr, p) = [pushed EXCEPT !.wait_ticks[p] = 0]
  BY DEF Boost
<1> HIDE DEF removed, to
<1>4. raised \in Safe BY Zenon, <1>1, <1>2, ProcessUpdate, Basics
<1> HIDE DEF raised
<1>5. pushed \in Safe BY <1>2, <1>4, PushSafe, Basics
<1> HIDE DEF pushed
<1>6. 0 \in 0..AGING_THRESHOLD BY KernelAssumption
<1>7. [pushed EXCEPT !.wait_ticks[p] = 0] \in Safe
  BY Zenon, <1>5, <1>6 DEF Safe, SafeRec
<1> QED BY <1>3, <1>7

\* The loop invariant of apply_aging.
SafeAging == [k : Safe, pr : 0..PROCESS_PRIORITY_MAX + 1, p : UserLink]

\* A safe memory is a well-typed one.
LEMMA SafeIsType == Safe \subseteq KState
BY Basics DEF Safe, SafeRec, KState

\* Every turn of the loops of apply_aging preserves their invariant.
LEMMA AgingTurnSafe ==
  ASSUME NEW s \in SafeAging PROVE AgingTurn(s) \in SafeAging
<1> DEFINE w == SmallerOf(s.k.wait_ticks[s.p] + 1, AGING_THRESHOLD)
           waited == [s.k EXCEPT !.wait_ticks[s.p] = w]
           boosted == Boost(waited, s.pr, s.p)
           next == IF s.pr < PROCESS_PRIORITY_MAX THEN s.k.head[s.pr + 1] ELSE NULL
<1>0. s.k \in Safe /\ s.pr \in 0..3 /\ s.p \in UserLink
  BY DEF SafeAging, PROCESS_PRIORITY_MAX
<1>1. CASE s.pr > PROCESS_PRIORITY_MAX
  BY <1>1 DEF AgingTurn
<1>2. CASE ~(s.pr > PROCESS_PRIORITY_MAX) /\ s.p = NULL
  <2>1. next \in UserLink
    <3>1. s.pr < PROCESS_PRIORITY_MAX => s.pr + 1 \in Queue
      BY <1>0 DEF PROCESS_PRIORITY_MAX, PROCESS_PRIORITY_MIN, Queue, Priority
    <3> QED BY <1>0, <3>1, Fields, Basics
  <2>2. AgingTurn(s) = [s EXCEPT !.pr = @ + 1, !.p = next]
    BY <1>2 DEF AgingTurn
  <2> HIDE DEF next
  <2>3. s.pr + 1 \in 0..PROCESS_PRIORITY_MAX + 1
    BY <1>0, <1>2 DEF PROCESS_PRIORITY_MAX
  <2> QED BY Zenon, <2>1, <2>2, <2>3 DEF SafeAging
<1>3. CASE ~(s.pr > PROCESS_PRIORITY_MAX) /\ s.p # NULL
  <2>1. s.p \in User /\ s.pr \in Priority
    BY <1>0, <1>3, Basics DEF Priority, PROCESS_PRIORITY_MIN, PROCESS_PRIORITY_MAX
  <2>2. w \in 0..AGING_THRESHOLD
    <3>1. s.k.wait_ticks[s.p] \in 0..AGING_THRESHOLD BY <1>0, <2>1, Fields, Basics
    <3> QED BY <3>1, KernelAssumption DEF SmallerOf
  <2>3. waited \in Safe
    <3> HIDE DEF w
    <3> QED BY Zenon, <1>0, <2>1, <2>2, ProcessUpdate, Basics
  <2>4. AgingTurn(s) = IF Aged(waited, s.p)
                       THEN [s EXCEPT !.k = boosted, !.p = boosted.head[s.pr]]
                       ELSE [s EXCEPT !.k = waited, !.p = waited.queue_next[s.p]]
    BY <1>3 DEF AgingTurn
  <2> HIDE DEF waited
  <2>5. boosted \in Safe BY <2>1, <2>3, BoostSafe
  <2> HIDE DEF boosted
  <2>6. boosted.head[s.pr] \in UserLink /\ waited.queue_next[s.p] \in UserLink
    BY <2>1, <2>3, <2>5, Fields, Basics
  <2> QED BY Zenon, <2>3, <2>4, <2>5, <2>6 DEF SafeAging
<1> QED BY <1>1, <1>2, <1>3

\* apply_aging keeps the memory safe, however many turns it takes.
LEMMA AgingSafe ==
  ASSUME NEW m \in Safe PROVE apply_aging(m) \in Safe
<1> DEFINE F == [s \in AgingState |-> AgingTurn(s)]
           x == [k |-> m, pr |-> 0, p |-> m.head[0]]
           r == Iterate(F, x, AgingTurns)
<1>1. x \in SafeAging
  BY Fields, Basics DEF SafeAging, PROCESS_PRIORITY_MAX
<1>2. SafeAging \subseteq AgingState
  BY SafeIsType, Basics DEF SafeAging, AgingState
<1>3. \A s \in SafeAging : F[s] \in SafeAging
  BY <1>2, AgingTurnSafe
<1>4. AgingTurns \in Nat
  BY MaxProcAssumption, KernelAssumption DEF AgingTurns
<1>5. apply_aging(m) = [r.k EXCEPT !.hung = @ \/ r.pr <= PROCESS_PRIORITY_MAX]
  BY DEF apply_aging, AfterAging
<1> HIDE DEF F, x
<1>6. r \in SafeAging BY <1>1, <1>3, <1>4, IterateStays
<1> HIDE DEF r
<1>7. r.k \in Safe BY <1>6 DEF SafeAging
<1>8. (r.k.hung \/ r.pr <= PROCESS_PRIORITY_MAX) \in BOOLEAN OBVIOUS
<1> QED BY Zenon, <1>5, <1>7, <1>8, ProcessUpdate, Basics

\* scheduler_block_current never blocks the idle process.
LEMMA BlockCurrentSafe ==
  ASSUME NEW m \in Safe PROVE scheduler_block_current(m) \in Safe
<1>1. CASE m.current = idle_p BY <1>1 DEF scheduler_block_current
<1>2. CASE m.current # idle_p
  <2>1. m.current \in User BY <1>2, Fields DEF User
  <2> QED BY Zenon, <1>2, <2>1, ProcessUpdate, StateValues, Basics DEF scheduler_block_current
<1> QED BY <1>1, <1>2

\* scheduler_unblock_process keeps the memory safe.
LEMMA UnblockSafe ==
  ASSUME NEW m \in Safe, NEW p \in User
  PROVE  scheduler_unblock_process(m, p) \in Safe
<1> DEFINE removed == IF m.state[p] = "BLOCKED"
                      THEN process_queue_remove(m, blocked_q, p) ELSE m
           readied == [removed EXCEPT !.state[p] = "READY"]
           pushed  == ready_queue_push(readied, p)
           resched == pushed.need_resched
                        \/ pushed.priority[p] > pushed.priority[pushed.current]
<1>1. removed \in Safe BY RemoveSafe, Basics
<1>2. scheduler_unblock_process(m, p) = [pushed EXCEPT !.need_resched = resched]
  BY DEF scheduler_unblock_process
<1> HIDE DEF removed
<1>3. readied \in Safe BY Zenon, <1>1, ProcessUpdate, StateValues, Basics
<1> HIDE DEF readied
<1>4. pushed \in Safe BY <1>3, ReadyPushSafe
<1>5. resched \in BOOLEAN OBVIOUS
<1> HIDE DEF pushed, resched
<1> QED BY Zenon, <1>2, <1>4, <1>5, ProcessUpdate, Basics

\* A kernel that stops keeps its memory.
LEMMA HangSafe ==
  ASSUME NEW m \in Safe PROVE Hang(m) \in Safe
BY Zenon, ProcessUpdate, Basics DEF Hang

\* No operation by pid ever finds the idle process.
LEMMA IdleNotFound ==
  ASSUME NEW m \in Safe, m.current # idle_p
  PROVE  scheduler_find_by_pid(m, idle_p) = NULL
<1>1. \A q \in Queue : ~InQueue(m, q, idle_p)
  BY IdleNotOnWalk, Fields DEF InQueue, Safe
<1> QED BY <1>1 DEF scheduler_find_by_pid

\* An operation by pid keeps the memory safe if it does so for user processes.
LEMMA WhenFoundSafe ==
  ASSUME NEW m \in Safe, NEW p \in Proc, NEW done,
         p \in User \/ m.current # idle_p,
         p \in User => done \in Safe
  PROVE  WhenFound(m, p, done) \in Safe
<1>1. CASE p \in User BY <1>1, HangSafe DEF WhenFound
<1>2. CASE p = idle_p
  <2>1. m.current # idle_p BY <1>2 DEF User
  <2> QED BY <1>2, <2>1, IdleNotFound, HangSafe DEF WhenFound
<1> QED BY <1>1, <1>2 DEF User

\* scheduler_set_priority keeps the memory safe.
LEMMA SetPrioritySafe ==
  ASSUME NEW m \in Safe, NEW p \in Proc, m.current # idle_p, NEW pr \in Nat
  PROVE  scheduler_set_priority(m, p, pr) \in Safe
<1> DEFINE clamped == clamp_priority(pr)
           oldp    == m.priority[p]
           removed == IF m.state[p] = "READY"
                      THEN process_queue_remove(m, oldp, p) ELSE m
           changed == [removed EXCEPT !.priority[p] = clamped,
                                      !.base_priority[p] = clamped,
                                      !.wait_ticks[p] = 0]
           pushed  == IF changed.state[p] = "READY"
                      THEN ready_queue_push(changed, p) ELSE changed
           resched == pushed.need_resched
                        \/ pushed.priority[p] > pushed.priority[pushed.current]
           done    == [pushed EXCEPT !.need_resched = resched]
<1>1. scheduler_set_priority(m, p, pr) =
        WhenFound(m, p, IF p = idle_p \/ oldp = clamped THEN m ELSE done)
  BY DEF scheduler_set_priority
<1>2. ASSUME p \in User PROVE done \in Safe
  <2>1. clamped \in Priority BY ClampType
  <2>2. oldp \in Queue BY Fields, Basics
  <2>3. removed \in Safe BY <2>2, RemoveSafe
  <2> HIDE DEF clamped, removed
  <2>4. 0 \in 0..AGING_THRESHOLD BY KernelAssumption
  <2>5. changed \in Safe BY <2>1, <2>3, <2>4, ZenonT(30) DEF Safe, SafeRec
  <2> HIDE DEF changed
  <2>6. pushed \in Safe BY <1>2, <2>5, ReadyPushSafe
  <2>7. resched \in BOOLEAN OBVIOUS
  <2> HIDE DEF pushed, resched
  <2> QED BY Zenon, <2>6, <2>7, ProcessUpdate
<1> HIDE DEF done, clamped
<1> QED BY <1>1, <1>2, WhenFoundSafe

\* scheduler_block_by_pid keeps the memory safe.
LEMMA BlockByPidSafe ==
  ASSUME NEW m \in Safe, NEW p \in Proc, m.current # idle_p
  PROVE  scheduler_block_by_pid(m, p) \in Safe
<1> DEFINE removed == process_queue_remove(m, m.priority[p], p)
           blocked == [removed EXCEPT !.state[p] = "BLOCKED"]
           pushed  == process_queue_push(blocked, blocked_q, p)
           done    == IF p = m.current
                      THEN [m EXCEPT !.state[p] = "BLOCKED", !.need_resched = TRUE]
                      ELSE IF m.state[p] = "READY"
                      THEN [pushed EXCEPT !.need_resched = TRUE] ELSE m
<1>1. scheduler_block_by_pid(m, p) = WhenFound(m, p, IF p = idle_p THEN m ELSE done)
  BY DEF scheduler_block_by_pid
<1>2. ASSUME p \in User PROVE done \in Safe
  <2>1. m.priority[p] \in Queue BY Fields, Basics
  <2>2. removed \in Safe BY <2>1, RemoveSafe
  <2> HIDE DEF removed
  <2>3. blocked \in Safe BY Zenon, <1>2, <2>2, ProcessUpdate, StateValues
  <2> HIDE DEF blocked
  <2>4. pushed \in Safe BY <1>2, <2>3, PushSafe, Basics
  <2> HIDE DEF pushed
  <2>5. [m EXCEPT !.state[p] = "BLOCKED", !.need_resched = TRUE] \in Safe
    BY Zenon, <1>2, ProcessUpdate, StateValues
  <2>6. [pushed EXCEPT !.need_resched = TRUE] \in Safe BY Zenon, <2>4, ProcessUpdate
  <2> QED BY <2>5, <2>6
<1> HIDE DEF done
<1> QED BY <1>1, <1>2, WhenFoundSafe

\* scheduler_unblock_by_pid keeps the memory safe.
LEMMA UnblockByPidSafe ==
  ASSUME NEW m \in Safe, NEW p \in Proc, m.current # idle_p
  PROVE  scheduler_unblock_by_pid(m, p) \in Safe
BY UnblockSafe, WhenFoundSafe DEF scheduler_unblock_by_pid

\* What a search along a queue finds is a user process.
LEMMA FirstOnWalkType ==
  ASSUME NEW m \in Safe, NEW h \in UserLink, NEW S \in SUBSET Proc
  PROVE  FirstOnWalk(m, h, S) \in UserLink
<1> DEFINE w == Walk(m.queue_next, h)
           I == {i \in 0..MaxProc : w[i] \in S}
<1>1. \A i \in 0..MaxProc : w[i] \in UserLink
  BY Fields, WalkType, MaxProcAssumption
<1>2. CASE I = {} BY <1>2, Basics DEF FirstOnWalk
<1>3. CASE I # {}
  <2>1. I \in SUBSET Nat BY MaxProcAssumption
  <2>2. PICK i \in I : \A j \in I : i <= j
    <3> HIDE DEF I
    <3> QED BY <1>3, <2>1, NatMinimum
  <2>3. \E p \in S : \E n \in I : w[n] = p /\ \A j \in I : n <= j
    BY <2>2
  <2>4. FirstOnWalk(m, h, S) = CHOOSE p \in S : \E n \in I : w[n] = p /\ \A j \in I : n <= j
    BY <1>3 DEF FirstOnWalk
  <2>5. \E n \in I : w[n] = FirstOnWalk(m, h, S) BY <2>3, <2>4
  <2> QED BY <1>1, <2>5
<1> QED BY <1>2, <1>3

\* scheduler_get_foreground_pid never returns the idle process.
LEMMA ForegroundPidType ==
  ASSUME NEW m \in Safe
  PROVE  scheduler_get_foreground_pid(m) \in UserLink
<1> DEFINE Q == {q \in 0..blocked_q : FirstForeground(m, q) # NULL}
<1>1. \A q \in 0..blocked_q : FirstForeground(m, q) \in UserLink
  <2>1. 0..blocked_q \subseteq Queue
    BY DEF blocked_q, Queue, Priority, PROCESS_PRIORITY_MIN, PROCESS_PRIORITY_MAX
  <2>2. Foreground(m) \in SUBSET Proc BY DEF Foreground
  <2> QED BY <2>1, <2>2, Fields, FirstOnWalkType DEF FirstForeground
<1>2. CASE m.current # idle_p /\ m.is_foreground[m.current]
  BY <1>2, Fields, Basics DEF scheduler_get_foreground_pid, User
<1>3. CASE ~(m.current # idle_p /\ m.is_foreground[m.current]) /\ Q = {}
  BY <1>3, Basics DEF scheduler_get_foreground_pid
<1>4. CASE ~(m.current # idle_p /\ m.is_foreground[m.current]) /\ Q # {}
  <2>1. Q \in SUBSET Nat BY DEF blocked_q, PROCESS_PRIORITY_MAX
  <2>2. scheduler_get_foreground_pid(m) =
          FirstForeground(m, CHOOSE q \in Q : \A r \in Q : q <= r)
    BY <1>4 DEF scheduler_get_foreground_pid
  <2>3. Q \subseteq 0..blocked_q OBVIOUS
  <2> HIDE DEF Q
  <2>4. (CHOOSE q \in Q : \A r \in Q : q <= r) \in Q
    BY Zenon, <1>4, <2>1, NatMinimum
  <2> QED BY Zenon, <1>1, <2>2, <2>3, <2>4
<1> QED BY <1>2, <1>3, <1>4

-----------------------------------------------------------------------------
(* Semaphores and the keyboard *)

\* The types of the fields of semaphores and of the keyboard.
LEMMA SemFields ==
  ASSUME NEW m \in Safe
  PROVE  /\ m.sem_value \in [SemId -> Nat] /\ m.sem_refcount \in [SemId -> Int]
         /\ m.wait_head \in [SemId -> UserLink] /\ m.wait_tail \in [SemId -> UserLink]
         /\ m.sem_waiter_next \in [Proc -> UserLink] /\ m.buffer \in Seq(Key)
         /\ \A id \in SemId : m.sem_value[id] > 0 => m.wait_head[id] = NULL
BY DEF Safe, SafeRec

\* A new semaphore table is safe if no semaphore in it has a token and a waiter.
LEMMA SemUpdate ==
  ASSUME NEW m \in Safe, NEW u \in [SemId -> BOOLEAN], NEW v \in [SemId -> Nat],
         NEW c \in [SemId -> Int], NEW h \in [SemId -> UserLink],
         NEW t \in [SemId -> UserLink], NEW n \in Nat \ {0},
         \A id \in SemId : v[id] > 0 => h[id] = NULL
  PROVE  [m EXCEPT !.sem_used = u, !.sem_value = v, !.sem_refcount = c,
                   !.wait_head = h, !.wait_tail = t, !.next_sem_id = n] \in Safe
BY Zenon DEF Safe, SafeRec

\* sem_alloc keeps the memory safe.
LEMMA AllocSafe ==
  ASSUME NEW m \in Safe, NEW val \in Nat, m.next_sem_id <= MaxSemId
  PROVE  sem_alloc(m, val) \in Safe
<1> DEFINE id == m.next_sem_id
           u == [m.sem_used EXCEPT ![id] = TRUE]
           v == [m.sem_value EXCEPT ![id] = val]
           c == [m.sem_refcount EXCEPT ![id] = 1]
           h == [m.wait_head EXCEPT ![id] = NULL]
           t == [m.wait_tail EXCEPT ![id] = NULL]
           n == id + 1
<1>0. m.sem_used \in [SemId -> BOOLEAN] /\ m.next_sem_id \in Nat \ {0} /\ id \in SemId
  BY KernelAssumption DEF Safe, SafeRec, SemId
<1>1. u \in [SemId -> BOOLEAN] /\ v \in [SemId -> Nat] /\ c \in [SemId -> Int]
  BY <1>0, SemFields
<1>2. h \in [SemId -> UserLink] /\ t \in [SemId -> UserLink] /\ n \in Nat \ {0}
  BY <1>0, SemFields, Basics
<1>3. \A i \in SemId : v[i] > 0 => h[i] = NULL BY SemFields
<1>4. sem_alloc(m, val) =
        [m EXCEPT !.sem_used = u, !.sem_value = v, !.sem_refcount = c,
                  !.wait_head = h, !.wait_tail = t, !.next_sem_id = n]
  BY DEF sem_alloc
<1> HIDE DEF u, v, c, h, t, n
<1>5. [m EXCEPT !.sem_used = u, !.sem_value = v, !.sem_refcount = c,
                !.wait_head = h, !.wait_tail = t, !.next_sem_id = n] \in Safe
  BY Zenon, <1>1, <1>2, <1>3, SemUpdate
<1> QED BY <1>4, <1>5

\* Counting references keeps the memory safe.
LEMMA RefcountSafe ==
  ASSUME NEW m \in Safe, NEW id \in SemId, NEW n \in Int
  PROVE  [m EXCEPT !.sem_refcount[id] = n] \in Safe
BY Zenon DEF Safe, SafeRec

\* sem_open_by_id keeps the memory safe.
LEMMA OpenSafe ==
  ASSUME NEW m \in Safe, NEW id \in SemId
  PROVE  sem_open_by_id(m, id) \in Safe
<1> DEFINE n == m.sem_refcount[id] + 1
<1>1. n \in Int BY SemFields
<1>2. sem_open_by_id(m, id) = [m EXCEPT !.sem_refcount[id] = n] BY DEF sem_open_by_id
<1> HIDE DEF n
<1> QED BY <1>1, <1>2, RefcountSafe

\* sem_close_by_id keeps the memory safe.
LEMMA CloseSafe ==
  ASSUME NEW m \in Safe, NEW id \in SemId
  PROVE  sem_close_by_id(m, id) \in Safe
<1> DEFINE n == m.sem_refcount[id] - 1
           c == [m.sem_refcount EXCEPT ![id] = n]
           u == [m.sem_used EXCEPT ![id] = FALSE]
           h == [m.wait_head EXCEPT ![id] = NULL]
           t == [m.wait_tail EXCEPT ![id] = NULL]
<1>1. n \in Int BY SemFields
<1>2. CASE n <= 0
  <2>1. c \in [SemId -> Int] /\ u \in [SemId -> BOOLEAN]
    BY <1>1 DEF Safe, SafeRec
  <2>2. h \in [SemId -> UserLink] /\ t \in [SemId -> UserLink] BY SemFields, Basics
  <2>3. \A i \in SemId : m.sem_value[i] > 0 => h[i] = NULL BY SemFields
  <2>4. sem_close_by_id(m, id) = [m EXCEPT !.sem_refcount = c, !.sem_used = u,
                                           !.wait_head = h, !.wait_tail = t]
    BY <1>2 DEF sem_close_by_id
  <2> HIDE DEF c, u, h, t
  <2>5. [m EXCEPT !.sem_refcount = c, !.sem_used = u,
                  !.wait_head = h, !.wait_tail = t] \in Safe
    BY Zenon, <2>1, <2>2, <2>3 DEF Safe, SafeRec
  <2> QED BY <2>4, <2>5
<1>3. CASE ~(n <= 0)
  <2>1. sem_close_by_id(m, id) = [m EXCEPT !.sem_refcount[id] = n]
    BY <1>3 DEF sem_close_by_id
  <2> HIDE DEF n
  <2> QED BY <1>1, <2>1, RefcountSafe
<1> QED BY <1>2, <1>3

\* enqueue_waiter keeps the memory safe when the semaphore has no token.
LEMMA EnqueueSafe ==
  ASSUME NEW m \in Safe, NEW id \in SemId, NEW p \in User, m.sem_value[id] <= 0
  PROVE  enqueue_waiter(m, id, p) \in Safe
<1> DEFINE n1 == [m.sem_waiter_next EXCEPT ![p] = NULL]
           n2 == [n1 EXCEPT ![m.wait_tail[id]] = p]
           h1 == [m.wait_head EXCEPT ![id] = p]
           t1 == [m.wait_tail EXCEPT ![id] = p]
<1>1. /\ n1 \in [Proc -> UserLink] /\ n2 \in [Proc -> UserLink]
      /\ h1 \in [SemId -> UserLink] /\ t1 \in [SemId -> UserLink]
  BY Zenon, SemFields, Basics
<1>2. \A i \in SemId : m.sem_value[i] > 0 => h1[i] = NULL
  BY SemFields
<1>3. enqueue_waiter(m, id, p) =
        IF m.wait_head[id] = NULL
        THEN [m EXCEPT !.sem_waiter_next = n1, !.wait_head = h1, !.wait_tail = t1]
        ELSE [m EXCEPT !.sem_waiter_next = n2, !.wait_tail = t1]
  BY Zenon DEF enqueue_waiter, Safe, SafeRec
<1> HIDE DEF n1, n2, h1, t1
<1>4. [m EXCEPT !.sem_waiter_next = n1, !.wait_head = h1, !.wait_tail = t1] \in Safe
  BY Zenon, <1>1, <1>2 DEF Safe, SafeRec
<1>5. [m EXCEPT !.sem_waiter_next = n2, !.wait_tail = t1] \in Safe
  BY Zenon, <1>1 DEF Safe, SafeRec
<1> QED BY <1>3, <1>4, <1>5

\* dequeue_waiter keeps the memory safe.
LEMMA DequeueSafe ==
  ASSUME NEW m \in Safe, NEW id \in SemId, m.wait_head[id] # NULL
  PROVE  dequeue_waiter(m, id) \in Safe
<1> DEFINE w == m.wait_head[id]
           n == m.sem_waiter_next[w]
           h1 == [m.wait_head EXCEPT ![id] = n]
           t1 == [m.wait_tail EXCEPT ![id] = IF n = NULL THEN NULL ELSE @]
           n1 == [m.sem_waiter_next EXCEPT ![w] = NULL]
<1>1. w \in Proc /\ n \in UserLink BY SemFields, Basics
<1>2. /\ n1 \in [Proc -> UserLink]
      /\ h1 \in [SemId -> UserLink] /\ t1 \in [SemId -> UserLink]
  BY <1>1, SemFields, Basics
<1>3. \A i \in SemId : m.sem_value[i] > 0 => h1[i] = NULL
  BY SemFields
<1>4. dequeue_waiter(m, id) =
        [m EXCEPT !.wait_head = h1, !.wait_tail = t1, !.sem_waiter_next = n1]
  BY DEF dequeue_waiter
<1> HIDE DEF n1, h1, t1
<1>5. [m EXCEPT !.wait_head = h1, !.wait_tail = t1, !.sem_waiter_next = n1] \in Safe
  BY Zenon, <1>2, <1>3 DEF Safe, SafeRec
<1> QED BY <1>4, <1>5

\* sem_wait_by_id takes only a token that is there.
LEMMA TakeSafe ==
  ASSUME NEW m \in Safe, NEW id \in SemId, ~SemWouldBlock(m, id)
  PROVE  SemTake(m, id) \in Safe
<1>1. CASE ~sem_get_by_id(m, id) BY <1>1 DEF SemTake
<1>2. CASE sem_get_by_id(m, id)
  <2> DEFINE v == [m.sem_value EXCEPT ![id] = @ - 1]
  <2>1. v \in [SemId -> Nat] /\ \A i \in SemId : v[i] > 0 => m.wait_head[i] = NULL
    BY <1>2, SemFields DEF SemWouldBlock
  <2>2. SemTake(m, id) = [m EXCEPT !.sem_value = v] BY <1>2 DEF SemTake
  <2> HIDE DEF v
  <2>3. [m EXCEPT !.sem_value = v] \in Safe BY Zenon, <2>1 DEF Safe, SafeRec
  <2> QED BY <2>2, <2>3
<1> QED BY <1>1, <1>2

\* sem_wait_by_id enlists the caller only when there is no token.
LEMMA SemBlockSafe ==
  ASSUME NEW m \in Safe, NEW id \in SemId, m.current # idle_p, SemWouldBlock(m, id)
  PROVE  SemBlock(m, id) \in Safe
<1>1. m.current \in User BY Fields DEF User
<1>2. enqueue_waiter(m, id, m.current) \in Safe
  BY <1>1, EnqueueSafe DEF SemWouldBlock
<1> QED BY <1>2, BlockCurrentSafe DEF SemBlock

\* Waking the first waiter keeps the memory safe.
LEMMA WakeFirstSafe ==
  ASSUME NEW m \in Safe, NEW id \in SemId, m.wait_head[id] # NULL
  PROVE  WakeFirst(m, id) \in Safe
<1>1. m.wait_head[id] \in User BY SemFields, Basics
<1>2. dequeue_waiter(m, id) \in Safe BY DequeueSafe
<1> QED BY <1>1, <1>2, UnblockSafe DEF WakeFirst

\* A semaphore may be given tokens when nobody waits.
LEMMA SetValueSafe ==
  ASSUME NEW m \in Safe, NEW id \in SemId, NEW v \in Nat,
         v > 0 => m.wait_head[id] = NULL
  PROVE  [m EXCEPT !.sem_value[id] = v] \in Safe
<1> DEFINE vs == [m.sem_value EXCEPT ![id] = v]
<1>1. vs \in [SemId -> Nat] /\ \A i \in SemId : vs[i] > 0 => m.wait_head[i] = NULL
  BY SemFields
<1> HIDE DEF vs
<1>2. [m EXCEPT !.sem_value = vs] \in Safe BY Zenon, <1>1 DEF Safe, SafeRec
<1> QED BY <1>2 DEF vs

\* sem_signal_by_id wakes a waiter or leaves a token, never both.
LEMMA SignalSafe ==
  ASSUME NEW m \in Safe, NEW id \in SemId
  PROVE  sem_signal_by_id(m, id) \in Safe
<1>1. CASE m.wait_head[id] # NULL BY <1>1, WakeFirstSafe DEF sem_signal_by_id
<1>2. CASE m.wait_head[id] = NULL
  <2> DEFINE v == m.sem_value[id] + 1
  <2>1. v \in Nat BY SemFields
  <2>2. sem_signal_by_id(m, id) = [m EXCEPT !.sem_value[id] = v]
    BY <1>2 DEF sem_signal_by_id
  <2> HIDE DEF v
  <2> QED BY <1>2, <2>1, <2>2, SetValueSafe
<1> QED BY <1>1, <1>2

\* After i turns sem_set_by_id has woken i waiters, or all there were: the
\* tokens that are left over find nobody to take them.
SafeSet(id, newval) ==
  [i \in Nat |->
     {s \in [k : Safe, awaken : 0..newval] :
        s.awaken >= i \/ s.awaken = newval \/ s.k.wait_head[id] = NULL}]

\* sem_set_by_id leaves tokens only when it has woken everybody.
LEMMA SetSafe ==
  ASSUME NEW m \in Safe, NEW id \in SemId, NEW newval \in Nat
  PROVE  sem_set_by_id(m, id, newval) \in Safe
<1> DEFINE F == [s \in SetState |-> SetTurn(s, id, newval)]
           x == [k |-> m, awaken |-> 0]
           S == SafeSet(id, newval)
           r == Iterate(F, x, newval)
<1>1. x \in S[0] BY DEF SafeSet
<1>2. ASSUME NEW i \in Nat, NEW s \in S[i] PROVE F[s] \in S[i + 1]
  <2>1. s \in [k : Safe, awaken : 0..newval] /\ s.k \in Safe /\ s.awaken \in 0..newval
    BY DEF SafeSet
  <2>2. F[s] = SetTurn(s, id, newval)
    <3>1. s \in SetState BY <2>1, SafeIsType DEF SetState
    <3> QED BY <3>1
  <2>3. CASE s.awaken < newval /\ s.k.wait_head[id] # NULL
    <3>1. s.awaken >= i BY <2>1, <2>3 DEF SafeSet
    <3>2. WakeFirst(s.k, id) \in Safe BY <2>1, <2>3, WakeFirstSafe
    <3>3. F[s] = [k |-> WakeFirst(s.k, id), awaken |-> s.awaken + 1]
      BY <2>2, <2>3 DEF SetTurn
    <3>4. s.awaken + 1 \in 0..newval /\ s.awaken + 1 >= i + 1 BY <2>1, <2>3, <3>1
    <3> HIDE DEF F
    <3> QED BY <3>2, <3>3, <3>4 DEF SafeSet
  <2>4. CASE ~(s.awaken < newval /\ s.k.wait_head[id] # NULL)
    <3>1. F[s] = s BY <2>2, <2>4 DEF SetTurn
    <3>2. s.awaken = newval \/ s.k.wait_head[id] = NULL BY <2>1, <2>4
    <3> QED BY <2>1, <3>1, <3>2 DEF SafeSet
  <2> QED BY <2>3, <2>4
<1>3. sem_set_by_id(m, id, newval) = [r.k EXCEPT !.sem_value[id] = newval - r.awaken]
  BY DEF sem_set_by_id
<1> HIDE DEF F, x, S
<1>4. r \in S[newval] BY <1>1, <1>2, IterateInvariant, SMTT(30)
<1> HIDE DEF r
<1>5. /\ r.k \in Safe /\ r.awaken \in 0..newval
      /\ r.awaken >= newval \/ r.k.wait_head[id] = NULL
  BY <1>4 DEF S, SafeSet
<1> DEFINE v == newval - r.awaken
<1>6. v \in Nat /\ (v > 0 => r.k.wait_head[id] = NULL) BY <1>5
<1>7. sem_set_by_id(m, id, newval) = [r.k EXCEPT !.sem_value[id] = v] BY <1>3
<1> HIDE DEF v
<1> QED BY <1>5, <1>6, <1>7, SetValueSafe

\* The bytes in the keyboard buffer do not matter to the rest.
LEMMA BufferUpdate ==
  ASSUME NEW m \in Safe, NEW b \in Seq(Key)
  PROVE  [m EXCEPT !.buffer = b] \in Safe
BY Zenon DEF Safe, SafeRec

\* The keyboard's semaphore is in the table.
LEMMA KbdSem == kbd_sem_id \in SemId
BY KernelAssumption DEF kbd_sem_id, SemId

\* keyboard_clear_buffer keeps the memory safe.
LEMMA ClearBufferSafe ==
  ASSUME NEW m \in Safe PROVE keyboard_clear_buffer(m) \in Safe
<1> DEFINE cleared == [m EXCEPT !.buffer = <<>>]
<1>1. cleared \in Safe
  <2>1. <<>> \in Seq(Key) OBVIOUS
  <2> QED BY Zenon, <2>1, BufferUpdate
<1>2. keyboard_clear_buffer(m) = IF sem_get_by_id(m, kbd_sem_id)
                                 THEN sem_set_by_id(cleared, kbd_sem_id, 0) ELSE cleared
  BY DEF keyboard_clear_buffer
<1> HIDE DEF cleared
<1> QED BY <1>1, <1>2, SetSafe, KbdSem

\* The keyboard interrupt keeps the memory safe.
LEMMA KeyArrivesSafe ==
  ASSUME NEW m \in Safe, NEW c \in Key PROVE KeyArrives(m, c) \in Safe
<1>1. buffer_push(m, c) \in Safe
  <2> DEFINE b == Append(m.buffer, c)
  <2>1. b \in Seq(Key) BY SemFields
  <2>2. buffer_push(m, c) = [m EXCEPT !.buffer = b] BY DEF buffer_push
  <2> HIDE DEF b
  <2> QED BY <2>1, <2>2, BufferUpdate
<1> QED BY <1>1, SignalSafe, KbdSem DEF KeyArrives

-----------------------------------------------------------------------------
(* The dispatcher *)

\* Waking one process that is in wait keeps the memory safe.
LEMMA WakeTurnSafe ==
  ASSUME NEW m \in Safe, NEW p \in Proc PROVE WakeTurn(m, p) \in Safe
<1> DEFINE w == m.waiters_head[p]
           x == [m EXCEPT !.waiters_head[p] = m.waiter_next[w],
                          !.waiter_next[w] = NULL, !.state[w] = "READY"]
<1>1. CASE w = NULL BY <1>1 DEF WakeTurn
<1>2. CASE w # NULL
  <2> DEFINE h == [m.waiters_head EXCEPT ![p] = m.waiter_next[w]]
             n == [m.waiter_next EXCEPT ![w] = NULL]
             s == [m.state EXCEPT ![w] = "READY"]
  <2>1. w \in User BY <1>2, Fields, Basics
  <2>2. h \in [Proc -> UserLink] /\ n \in [Proc -> UserLink] /\ s \in [Proc -> State]
    BY <2>1, Fields, Basics, StateValues
  <2>3. s[idle_p] = "RUNNING" BY <2>1, Fields DEF User, Safe
  <2>4. x = [m EXCEPT !.waiters_head = h, !.waiter_next = n, !.state = s] OBVIOUS
  <2>5. WakeTurn(m, p) = ready_queue_push(x, w) BY <1>2 DEF WakeTurn
  <2> HIDE DEF h, n, s, x
  <2>6. [m EXCEPT !.waiters_head = h, !.waiter_next = n, !.state = s] \in Safe
    BY Zenon, <2>2, <2>3 DEF Safe, SafeRec
  <2> QED BY <2>1, <2>4, <2>5, <2>6, ReadyPushSafe
<1> QED BY <1>1, <1>2

\* The loop that wakes all of them keeps the memory safe.
LEMMA WakeWaitersSafe ==
  ASSUME NEW m \in Safe, NEW p \in Proc PROVE WakeWaiters(m, p) \in Safe
<1> DEFINE F == [x \in KState |-> WakeTurn(x, p)]
<1>1. \A x \in Safe : F[x] \in Safe BY SafeIsType, WakeTurnSafe
<1>2. 2 * MaxProc \in Nat BY MaxProcAssumption
<1> HIDE DEF F
<1>3. Iterate(F, m, 2 * MaxProc) \in Safe BY Zenon, <1>1, <1>2, IterateStays
<1> QED BY <1>3 DEF WakeWaiters, F

\* Giving the foreground to the parent keeps the memory safe.
LEMMA ReturnForegroundSafe ==
  ASSUME NEW m \in Safe, NEW p \in Proc PROVE ReturnForeground(m, p) \in Safe
<1>1. CASE m.is_foreground[p] /\ HasLiveParent(m, p)
  <2>1. m.parent[p] \in Proc BY <1>1, Fields DEF HasLiveParent, Link
  <2> QED BY Zenon, <1>1, <2>1, ProcessUpdate DEF ReturnForeground
<1>2. CASE ~(m.is_foreground[p] /\ HasLiveParent(m, p))
  BY <1>2 DEF ReturnForeground
<1> QED BY <1>1, <1>2

\* save_context of a process that has ended keeps the memory safe.
LEMMA FinishedSafe ==
  ASSUME NEW m \in Safe, NEW p \in User PROVE Finished(m, p) \in Safe
<1> DEFINE cleared == IF m.is_foreground[p] /\ HasLiveParent(m, p)
                      THEN keyboard_clear_buffer(ReturnForeground(m, p)) ELSE m
<1>1. cleared \in Safe BY ReturnForegroundSafe, ClearBufferSafe, Basics
<1>2. Finished(m, p) = process_queue_push(WakeWaiters(cleared, p), finished_q, p)
  BY DEF Finished
<1> HIDE DEF cleared
<1>3. WakeWaiters(cleared, p) \in Safe BY <1>1, WakeWaitersSafe, Basics
<1> QED BY <1>2, <1>3, PushSafe, Basics

\* save_context keeps the memory safe; it does not touch the idle process.
LEMMA SaveContextSafe ==
  ASSUME NEW m \in Safe, NEW p \in Proc PROVE save_context(m, p) \in Safe
<1>1. CASE p = idle_p
  <2>1. m.state[p] = "RUNNING" BY <1>1 DEF Safe
  <2>2. save_context(m, p) = Preempted(m, p) BY <2>1 DEF save_context
  <2> QED BY <1>1, <2>2 DEF Preempted
<1>2. CASE p \in User
  <2>1. Preempted(m, p) \in Safe
    <3>1. [m EXCEPT !.state[p] = "READY"] \in Safe
      BY Zenon, <1>2, ProcessUpdate, StateValues
    <3> QED BY <1>2, <3>1, ReadyPushSafe DEF Preempted, User
  <2>2. process_queue_push(m, blocked_q, p) \in Safe BY <1>2, PushSafe, Basics
  <2>3. Finished(m, p) \in Safe BY <1>2, FinishedSafe
  <2> QED BY <2>1, <2>2, <2>3 DEF save_context
<1> QED BY <1>1, <1>2 DEF User

\* process_destroy of a user process keeps the memory safe.
LEMMA DestroySafe ==
  ASSUME NEW m \in Safe, NEW p \in User PROVE process_destroy(m, p) \in Safe
<1> DEFINE r == [m.parent EXCEPT ![p] = NULL]
           h == m.heap \ {p}
<1>1. r \in [Proc -> Link] BY Zenon, Fields DEF Link
<1>2. h \in SUBSET Proc /\ idle_p \in h BY DEF Safe, SafeRec, User
<1>3. process_destroy(m, p) = [m EXCEPT !.parent = r, !.heap = h]
  BY DEF process_destroy
<1> HIDE DEF r, h
<1>4. [m EXCEPT !.parent = r, !.heap = h] \in Safe BY Zenon, <1>1, <1>2 DEF Safe, SafeRec
<1> QED BY <1>3, <1>4

\* The loop of schedule that collects finished processes keeps the memory safe.
LEMMA CollectSafe ==
  ASSUME NEW m \in Safe PROVE CollectFinished(m) \in Safe
<1> DEFINE F == [x \in KState |-> CollectTurn(x)]
<1>1. ASSUME NEW x \in Safe PROVE CollectTurn(x) \in Safe
  <2>1. CASE x.head[finished_q] = NULL BY <2>1 DEF CollectTurn
  <2>2. CASE x.head[finished_q] # NULL
    <3>1. x.head[finished_q] \in User BY <2>2, Fields, Basics
    <3>2. process_queue_pop(x, finished_q) \in Safe BY PopSafe, Basics
    <3> QED BY <2>2, <3>1, <3>2, DestroySafe DEF CollectTurn
  <2> QED BY <2>1, <2>2
<1>2. \A x \in Safe : F[x] \in Safe BY <1>1, SafeIsType
<1>3. MAX_FINISHED_COLLECT \in Nat BY KernelAssumption
<1> HIDE DEF F
<1>4. Iterate(F, m, MAX_FINISHED_COLLECT) \in Safe BY <1>2, <1>3, IterateStays
<1> QED BY <1>4 DEF CollectFinished, F

\* ready_queue_pop_highest finds a user process.
LEMMA HighestReadyType ==
  ASSUME NEW m \in Safe, HighestReady(m) # -1
  PROVE  HighestReady(m) \in Priority /\ m.head[HighestReady(m)] \in User
<1> DEFINE R == ReadyPriorities(m)
<1>1. R # {} BY DEF HighestReady
<1>2. R \subseteq Priority /\ \A pr \in R : m.head[pr] # NULL
  BY DEF ReadyPriorities
<1>3. Priority = 0..2 BY DEF Priority, PROCESS_PRIORITY_MIN, PROCESS_PRIORITY_MAX
<1>4. HighestReady(m) = CHOOSE pr \in R : \A r \in R : r <= pr
  BY <1>1 DEF HighestReady
<1> HIDE DEF R
<1>5. \E pr \in R : \A r \in R : r <= pr
  <2>1. 2 \in R => \A r \in R : r <= 2 BY <1>2, <1>3
  <2>2. 2 \notin R /\ 1 \in R => \A r \in R : r <= 1 BY <1>2, <1>3
  <2>3. ASSUME 2 \notin R, 1 \notin R PROVE 0 \in R /\ \A r \in R : r <= 0
    <3>1. \A r \in R : r = 0 BY <1>2, <1>3, <2>3
    <3> QED BY <1>1, <3>1
  <2> QED BY <2>1, <2>2, <2>3
<1>6. HighestReady(m) \in R BY <1>4, <1>5
<1> QED BY <1>2, <1>6, Fields, Basics

\* schedule keeps the memory safe when it switches.
LEMMA SwitchSafe ==
  ASSUME NEW m \in Safe PROVE Switch(m) \in Safe
<1> DEFINE saved == save_context([m EXCEPT !.need_resched = FALSE], m.current)
           pr    == HighestReady(saved)
           next  == IF pr = -1 THEN idle_p ELSE saved.head[pr]
           taken == IF pr = -1 THEN saved ELSE process_queue_pop(saved, pr)
           reset == IF next # idle_p /\ taken.priority[next] > taken.base_priority[next]
                    THEN [taken EXCEPT !.priority[next] = taken.base_priority[next]]
                    ELSE taken
           last  == [reset EXCEPT !.state[next] = "RUNNING", !.wait_ticks[next] = 0,
                                  !.current = next, !.elapsed = 0]
<1>1. saved \in Safe
  <2>1. [m EXCEPT !.need_resched = FALSE] \in Safe BY Zenon, ProcessUpdate, Basics
  <2> QED BY <2>1, SaveContextSafe, Fields
<1>2. Switch(m) = CollectFinished(last) BY DEF Switch, Dispatch
<1> HIDE DEF saved
<1>3. next \in Proc BY <1>1, HighestReadyType, Basics
<1>4. taken \in Safe BY <1>1, HighestReadyType, PopSafe, Basics
<1> HIDE DEF next, taken
<1>5. reset \in Safe
  <2>1. taken.base_priority[next] \in Priority BY <1>3, <1>4, Fields
  <2>2. [taken EXCEPT !.priority[next] = taken.base_priority[next]] \in Safe
    BY Zenon, <1>3, <1>4, <2>1, ProcessUpdate
  <2> QED BY <1>4, <2>2
<1> HIDE DEF reset
<1>6. last \in Safe
  <2> DEFINE s == [reset.state EXCEPT ![next] = "RUNNING"]
             w == [reset.wait_ticks EXCEPT ![next] = 0]
  <2>1. s \in [Proc -> State] /\ s[idle_p] = "RUNNING"
    BY <1>3, <1>5, Fields, StateValues, Basics DEF Safe
  <2>2. w \in [Proc -> 0..AGING_THRESHOLD]
    BY <1>3, <1>5, Fields, KernelAssumption
  <2>3. 0 \in 0..QUANTUM_TICKS BY KernelAssumption
  <2>4. last = [reset EXCEPT !.state = s, !.wait_ticks = w, !.current = next, !.elapsed = 0]
    OBVIOUS
  <2> HIDE DEF s, w, last
  <2>5. [reset EXCEPT !.state = s, !.wait_ticks = w, !.current = next, !.elapsed = 0]
          \in Safe
    BY Zenon, <1>3, <1>5, <2>1, <2>2, <2>3 DEF Safe, SafeRec
  <2> QED BY <2>4, <2>5
<1> HIDE DEF last
<1> QED BY <1>2, <1>6, CollectSafe

\* schedule keeps the memory safe.
LEMMA ScheduleSafe ==
  ASSUME NEW m \in Safe PROVE schedule(m) \in Safe
BY AgingSafe, SwitchSafe DEF schedule, SwitchIfDue

\* The clock does not matter to the rest.
LEMMA ElapsedSafe ==
  ASSUME NEW m \in Safe, NEW e \in 0..QUANTUM_TICKS
  PROVE  [m EXCEPT !.elapsed = e] \in Safe
BY Zenon DEF Safe, SafeRec

\* The timer interrupt keeps the memory safe.
LEMMA TimerSafe ==
  ASSUME NEW m \in Safe PROVE TimerInterrupt(m) \in Safe
<1> DEFINE e == SmallerOf(m.elapsed + 1, QUANTUM_TICKS)
<1>1. e \in 0..QUANTUM_TICKS BY Fields, KernelAssumption DEF SmallerOf
<1>2. TimerInterrupt(m) = schedule([m EXCEPT !.elapsed = e]) BY DEF TimerInterrupt
<1> HIDE DEF e
<1> QED BY <1>1, <1>2, ElapsedSafe, ScheduleSafe

\* scheduler_yield_current keeps the memory safe.
LEMMA YieldSafe ==
  ASSUME NEW m \in Safe PROVE scheduler_yield_current(m) \in Safe
<1>1. QUANTUM_TICKS \in 0..QUANTUM_TICKS BY KernelAssumption
<1> QED BY <1>1, ElapsedSafe, TimerSafe DEF scheduler_yield_current

\* scheduler_kill_by_pid keeps the memory safe.
LEMMA KillSafe ==
  ASSUME NEW m \in Safe, NEW p \in Proc, p \in User \/ m.current # idle_p
  PROVE  scheduler_kill_by_pid(m, p) \in Safe
<1> DEFINE given   == ReturnForeground(m, p)
           removed == CASE m.state[p] = "READY" ->
                             process_queue_remove(given, m.priority[p], p)
                        [] m.state[p] = "BLOCKED" ->
                             process_queue_remove(given, blocked_q, p)
                        [] OTHER -> given
           ended   == [removed EXCEPT !.state[p] = "FINISHED"]
           woken   == WakeWaiters(ended, p)
           queued  == process_queue_push(woken, finished_q, p)
           resched == queued.need_resched \/ p = m.current
           done    == [queued EXCEPT !.need_resched = resched]
<1>1. scheduler_kill_by_pid(m, p) = WhenFound(m, p, done)
  BY DEF scheduler_kill_by_pid
<1>2. ASSUME p \in User PROVE done \in Safe
  <2>1. given \in Safe BY ReturnForegroundSafe
  <2> HIDE DEF given
  <2>2. removed \in Safe
    <3>1. m.priority[p] \in Queue BY Fields, Basics
    <3>2. process_queue_remove(given, m.priority[p], p) \in Safe BY <2>1, <3>1, RemoveSafe
    <3>3. process_queue_remove(given, blocked_q, p) \in Safe BY <2>1, RemoveSafe, Basics
    <3> QED BY <2>1, <3>2, <3>3
  <2> HIDE DEF removed
  <2>3. ended \in Safe BY Zenon, <1>2, <2>2, ProcessUpdate, StateValues
  <2> HIDE DEF ended
  <2>4. woken \in Safe BY <2>3, WakeWaitersSafe
  <2> HIDE DEF woken
  <2>5. queued \in Safe BY <1>2, <2>4, PushSafe, Basics
  <2>6. resched \in BOOLEAN OBVIOUS
  <2> HIDE DEF queued, resched
  <2> QED BY Zenon, <2>5, <2>6, ProcessUpdate
<1> HIDE DEF done
<1> QED BY <1>1, <1>2, WhenFoundSafe

-----------------------------------------------------------------------------
(* Every step *)

\* The contexts the system calls store.
LEMMA ContextValues ==
  /\ UserMode \in Context
  /\ [op |-> "exited", arg |-> 0] \in Context
  /\ \A p \in Proc : [op |-> "wait", arg |-> p] \in Context
  /\ \A n \in 1..MaxRead : [op |-> "read", arg |-> n] \in Context
BY DEF Context, UserMode

\* process_create keeps the memory safe.
LEMMA SpawnedSafe ==
  ASSUME NEW m \in Safe, NEW p \in User, NEW parent \in Link, NEW pr \in Nat,
         NEW fg \in BOOLEAN
  PROVE  Spawned(m, p, parent, pr, fg) \in Safe
<1> DEFINE c == clamp_priority(pr)
           a == Unlinked(m, p)
           b == Fresh(a, p, pr)
           d == [b EXCEPT !.is_foreground[p] = fg, !.parent[p] = parent,
                          !.context[p] = UserMode]
<1>1. Spawned(m, p, parent, pr, fg) = ready_queue_push(d, p)
  BY DEF Spawned
<1>2. c \in Priority /\ 0 \in 0..AGING_THRESHOLD BY ClampType, KernelAssumption
<1>3. a \in Safe BY Zenon, Basics DEF Safe, SafeRec, Unlinked
<1> HIDE DEF a
<1>4. b \in Safe
  <2> DEFINE h == a.heap \cup {p}
             s == [a.state EXCEPT ![p] = "READY"]
  <2>1. h \in SUBSET Proc /\ idle_p \in h BY <1>3, Basics DEF Safe, SafeRec
  <2>2. s \in [Proc -> State] /\ s[idle_p] = "RUNNING"
    BY <1>3, StateValues, Fields DEF Safe, User
  <2>3. b = [a EXCEPT !.heap = h, !.state = s, !.wait_ticks[p] = 0,
                      !.priority[p] = c, !.base_priority[p] = c]
    BY DEF Fresh
  <2> HIDE DEF h, s, b, c
  <2>4. [a EXCEPT !.heap = h, !.state = s, !.wait_ticks[p] = 0,
                  !.priority[p] = c, !.base_priority[p] = c] \in Safe
    BY Zenon, <1>2, <1>3, <2>1, <2>2 DEF Safe, SafeRec
  <2> QED BY <2>3, <2>4
<1> HIDE DEF b
<1>5. UserMode \in Context /\ idle_p # p BY ContextValues DEF User
<1>6. d \in Safe BY Zenon, <1>4, <1>5, Basics DEF Safe, SafeRec
<1> HIDE DEF d
<1> QED BY <1>1, <1>6, ReadyPushSafe

\* main leaves a safe memory.
LEMMA InitSafe == Init => k \in Safe
<1>1. Booted \in Safe
  <2>1. /\ PROCESS_PRIORITY_DEFAULT \in Priority
        /\ 0 \in 0..AGING_THRESHOLD /\ 0 \in 0..QUANTUM_TICKS /\ 2 \in Nat \ {0}
        /\ NULL \in Link /\ <<>> \in Seq(Key)
    BY KernelAssumption DEF Priority, PROCESS_PRIORITY_DEFAULT,
         PROCESS_PRIORITY_MIN, PROCESS_PRIORITY_MAX, Link
  <2> DEFINE noQueue == [q \in Queue |-> NULL]
             noLink  == [p \in Proc |-> NULL]
             noSem   == [id \in SemId |-> NULL]
             st      == [p \in Proc |-> IF p = idle_p THEN "RUNNING" ELSE "NONE"]
             deflt   == [p \in Proc |-> PROCESS_PRIORITY_DEFAULT]
             ticks   == [p \in Proc |-> 0]
             fg      == [p \in Proc |-> FALSE]
             ctx     == [p \in Proc |-> UserMode]
             used    == [id \in SemId |-> id = kbd_sem_id]
             val     == [id \in SemId |-> 0]
             ref     == [id \in SemId |-> IF id = kbd_sem_id THEN 1 ELSE 0]
  <2>2. /\ noQueue \in [Queue -> UserLink] /\ noLink \in [Proc -> UserLink]
        /\ noLink \in [Proc -> Link] /\ noSem \in [SemId -> UserLink]
    BY <2>1, Basics
  <2>3. st \in [Proc -> State] /\ ctx \in [Proc -> Context] BY StateValues, ContextValues
  <2>4. deflt \in [Proc -> Priority] /\ ticks \in [Proc -> 0..AGING_THRESHOLD]
    BY <2>1
  <2>5. fg \in [Proc -> BOOLEAN] /\ val \in [SemId -> Nat] /\ ref \in [SemId -> Int]
    OBVIOUS
  <2>6. used \in [SemId -> BOOLEAN] OBVIOUS
  <2>7. /\ st[idle_p] = "RUNNING" /\ ctx[idle_p] = UserMode
        /\ \A id \in SemId : ~(val[id] > 0)
    BY Basics
  <2>8. Booted =
          [head |-> noQueue, tail |-> noQueue, queue_next |-> noLink,
           queue_prev |-> noLink, hung |-> FALSE, state |-> st, priority |-> deflt,
           base_priority |-> deflt, wait_ticks |-> ticks, is_foreground |-> fg,
           parent |-> noLink, waiters_head |-> noLink, waiter_next |-> noLink,
           context |-> ctx, heap |-> {idle_p}, current |-> idle_p,
           need_resched |-> FALSE, elapsed |-> 0, sem_used |-> used,
           sem_value |-> val, sem_refcount |-> ref, wait_head |-> noSem,
           wait_tail |-> noSem, sem_waiter_next |-> noLink, next_sem_id |-> 2,
           buffer |-> <<>>]
    BY DEF Booted
  <2> HIDE DEF noQueue, noLink, noSem, st, deflt, ticks, fg, ctx, used, val, ref
  <2>9. Booted \in SafeRec
    BY <2>1, <2>2, <2>3, <2>4, <2>5, <2>6, <2>8, Basics DEF SafeRec
  <2>10. /\ Booted.heap = {idle_p} /\ Booted.state = st /\ Booted.context = ctx
         /\ Booted.sem_value = val
    BY <2>8
  <2> HIDE DEF Booted
  <2> QED BY <2>7, <2>9, <2>10 DEF Safe
<1>2. NULL \in Link /\ PROCESS_PRIORITY_MAX \in Nat
  BY DEF Link, PROCESS_PRIORITY_MAX
<1> QED BY Zenon, <1>1, <1>2, SpawnedSafe, Basics DEF Init

\* A step to a safe memory, or into an endless loop, is safe.
LEMMA BecomesSafe ==
  ASSUME k \in Safe, NEW m \in Safe, Becomes(m) PROVE k' \in Safe
BY HangSafe DEF Becomes

\* syscall_wait keeps the memory safe.
LEMMA WaitOnSafe ==
  ASSUME NEW m \in Safe, NEW p \in Proc, m.current # idle_p
  PROVE  WaitOn(m, p) \in Safe
<1> DEFINE c == m.current
           enlisted == [m EXCEPT !.waiter_next[c] = m.waiters_head[p],
                                 !.waiters_head[p] = c,
                                 !.context[c] = [op |-> "wait", arg |-> p]]
           blocked  == scheduler_yield_current(scheduler_block_current(enlisted))
           finished == [m EXCEPT !.is_foreground[c] = @ \/ m.is_foreground[p]]
           done == IF m.state[p] = "FINISHED" THEN finished
                   ELSE IF p = c THEN m ELSE blocked
<1>1. WaitOn(m, p) = WhenFound(m, p, done) BY DEF WaitOn
<1>2. c \in User BY Fields DEF User
<1>3. enlisted \in Safe
  <2> DEFINE n == [m.waiter_next EXCEPT ![c] = m.waiters_head[p]]
             h == [m.waiters_head EXCEPT ![p] = c]
             x == [m.context EXCEPT ![c] = [op |-> "wait", arg |-> p]]
  <2>1. n \in [Proc -> UserLink] /\ h \in [Proc -> UserLink] BY <1>2, Fields, Basics
  <2>2. x \in [Proc -> Context] BY <1>2, Fields, ContextValues, Basics
  <2>3. x[idle_p] = UserMode BY Fields, Basics DEF Safe
  <2>4. enlisted = [m EXCEPT !.waiter_next = n, !.waiters_head = h, !.context = x]
    OBVIOUS
  <2> HIDE DEF n, h, x, enlisted
  <2>5. [m EXCEPT !.waiter_next = n, !.waiters_head = h, !.context = x] \in Safe
    BY Zenon, <2>1, <2>2, <2>3 DEF Safe, SafeRec
  <2> QED BY <2>4, <2>5
<1> HIDE DEF enlisted
<1>4. blocked \in Safe BY <1>3, BlockCurrentSafe, YieldSafe
<1>5. finished \in Safe
  <2> DEFINE b == m.is_foreground[c] \/ m.is_foreground[p]
  <2>1. b \in BOOLEAN OBVIOUS
  <2>2. finished = [m EXCEPT !.is_foreground[c] = b] OBVIOUS
  <2> HIDE DEF b, finished
  <2> QED BY Zenon, <1>2, <2>1, <2>2, ProcessUpdate, Basics
<1>6. done \in Safe BY <1>4, <1>5
<1> HIDE DEF done
<1> QED BY <1>1, <1>6, WhenFoundSafe

\* sem_wait_by_id keeps the memory safe.
LEMMA SemWaitSafe ==
  ASSUME NEW m \in Safe, NEW id \in SemId, m.current # idle_p
  PROVE  sem_wait_by_id(m, id) \in Safe
BY SemBlockSafe, YieldSafe, TakeSafe DEF sem_wait_by_id

\* A turn of the loop of syscall_read keeps the memory safe.
LEMMA ReadTurnSafe ==
  ASSUME NEW m \in Safe, m.current # idle_p, m.context[m.current].op = "read"
  PROVE  ReadTurn(m) \in Safe
<1> DEFINE p == m.current
           n == m.context[p].arg
           popped == buffer_pop(m)
<1>1. p \in User /\ n \in 1..MaxRead BY Fields DEF User, Context
<1>2. CASE buffer_empty(m) BY <1>2, SemWaitSafe, KbdSem DEF ReadTurn
<1>3. CASE ~buffer_empty(m)
  <2>1. popped \in Safe
    <3> DEFINE b == Tail(m.buffer)
    <3>1. b \in Seq(Key) BY <1>3, SemFields DEF buffer_empty
    <3>2. popped = [m EXCEPT !.buffer = b] BY DEF buffer_pop
    <3> HIDE DEF b
    <3> QED BY <3>1, <3>2, BufferUpdate
  <2>2. popped.context = m.context BY DEF buffer_pop, Safe, SafeRec
  <2>3. [popped EXCEPT !.context[p] = UserMode] \in Safe
    <3> HIDE DEF popped
    <3> QED BY Zenon, <1>1, <2>1, ProcessUpdate, ContextValues, Basics
  <2>4. ASSUME n # 1 PROVE [popped EXCEPT !.context[p].arg = n - 1] \in Safe
    <3> DEFINE c == [op |-> "read", arg |-> n - 1]
    <3>1. c \in Context
      <4>1. n - 1 \in 1..MaxRead BY <1>1, <2>4, KernelAssumption
      <4> QED BY <4>1, ContextValues
    <3>2. [popped.context[p] EXCEPT !.arg = n - 1] = c
      BY <1>1, <2>2, Fields, Basics DEF Context
    <3> HIDE DEF c, popped
    <3>3. [popped EXCEPT !.context[p] = c] \in Safe
      BY Zenon, <1>1, <2>1, <3>1, ProcessUpdate, Basics
    <3> QED BY <3>2, <3>3
  <2> QED BY <1>3, <2>3, <2>4 DEF ReadTurn
<1> QED BY <1>2, <1>3

\* Ctrl+C keeps the memory safe.
LEMMA CtrlCSafe ==
  ASSUME NEW m \in Safe PROVE CtrlC(m) \in Safe
<1> DEFINE fg == scheduler_get_foreground_pid(m)
<1>1. fg # NULL => scheduler_kill_by_pid(m, fg) \in Safe
  BY ForegroundPidType, KillSafe, Basics
<1> QED BY <1>1, HangSafe, ClearBufferSafe DEF CtrlC

\* Every system call and every interrupt keeps the memory safe.
LEMMA NextSafe ==
  ASSUME k \in Safe, [Next]_k PROVE k' \in Safe
<1>0. /\ me \in Proc /\ k.context[idle_p] = UserMode
      /\ \A op \in {"wait", "read"} : Resumes(op) => me \in User
      /\ \A op : InUserCode(op) => me \in User
  BY Fields DEF me, Resumes, InUserCode, User, Safe, UserMode
<1>1. CASE Tick BY <1>1, TimerSafe, BecomesSafe DEF Tick
<1>2. CASE Yield BY <1>2, YieldSafe, BecomesSafe DEF Yield
<1>3. ASSUME NEW p \in Proc, NEW pr \in Priorities, NEW fg \in Foregrounds,
             create_process(p, pr, fg)
      PROVE  k' \in Safe
  <2> DEFINE b == k.is_foreground[me] /\ ~fg
             m == [k EXCEPT !.is_foreground[me] = b]
  <2>1. p \in User BY <1>3 DEF create_process, User, Safe
  <2>2. pr \in Nat /\ fg \in BOOLEAN /\ me \in Link
    BY <1>0, OpsAssumption DEF Link
  <2>3. Becomes(Spawned(m, p, me, pr, fg)) BY <1>3 DEF create_process
  <2>4. b \in BOOLEAN OBVIOUS
  <2> HIDE DEF b
  <2>5. m \in Safe BY Zenon, <1>0, <2>4, ProcessUpdate
  <2> HIDE DEF m
  <2> QED BY <2>1, <2>2, <2>3, <2>5, SpawnedSafe, BecomesSafe
<1>4. ASSUME NEW fg \in Foregrounds, create_process_fails(fg) PROVE k' \in Safe
  <2> DEFINE b == k.is_foreground[me] \/ fg
  <2>1. Becomes([k EXCEPT !.is_foreground[me] = b]) BY <1>4 DEF create_process_fails
  <2>2. b \in BOOLEAN OBVIOUS
  <2> HIDE DEF b
  <2>3. [k EXCEPT !.is_foreground[me] = b] \in Safe BY Zenon, <1>0, <2>2, ProcessUpdate
  <2> QED BY <2>1, <2>3, BecomesSafe
<1>5. CASE exit
  <2> DEFINE c == [op |-> "exited", arg |-> 0]
             m == [k EXCEPT !.state[me] = "FINISHED", !.need_resched = TRUE]
  <2>1. me \in User BY <1>0, <1>5 DEF exit
  <2>2. m \in Safe BY Zenon, <2>1, ProcessUpdate, StateValues, Basics
  <2>3. c \in Context BY ContextValues
  <2>4. Becomes([m EXCEPT !.context[me] = c]) BY <1>5 DEF exit
  <2> HIDE DEF m, c
  <2>5. [m EXCEPT !.context[me] = c] \in Safe BY Zenon, <2>1, <2>2, <2>3, ProcessUpdate, Basics
  <2> QED BY <2>4, <2>5, BecomesSafe
<1>6. ASSUME NEW p \in Proc, kill(p) PROVE k' \in Safe
  BY <1>0, <1>6, KillSafe, BecomesSafe DEF kill, me, User
<1>7. ASSUME NEW p \in Proc, block(p) PROVE k' \in Safe
  BY <1>0, <1>7, BlockByPidSafe, BecomesSafe DEF block, me, User
<1>8. ASSUME NEW p \in Proc, unblock(p) PROVE k' \in Safe
  BY <1>0, <1>8, UnblockByPidSafe, BecomesSafe DEF unblock, me, User
<1>9. ASSUME NEW p \in Proc, NEW pr \in Priorities, set_priority(p, pr) PROVE k' \in Safe
  BY <1>0, <1>9, OpsAssumption, SetPrioritySafe, BecomesSafe DEF set_priority, me, User
<1>10. ASSUME NEW p \in Proc, wait(p) PROVE k' \in Safe
  BY <1>0, <1>10, WaitOnSafe, BecomesSafe DEF wait, me, User
<1>11. CASE wait_returns
  <2> DEFINE b == k.is_foreground[me] \/ k.is_foreground[k.context[me].arg]
             m == [k EXCEPT !.context[me] = UserMode]
  <2>1. me \in User BY <1>0, <1>11 DEF wait_returns
  <2>2. m \in Safe BY Zenon, <2>1, ProcessUpdate, ContextValues, Basics
  <2>3. b \in BOOLEAN OBVIOUS
  <2>4. Becomes([m EXCEPT !.is_foreground[me] = b]) BY <1>11 DEF wait_returns, Safe, SafeRec
  <2> HIDE DEF m, b
  <2>5. [m EXCEPT !.is_foreground[me] = b] \in Safe BY Zenon, <1>0, <2>2, <2>3, ProcessUpdate
  <2> QED BY <2>4, <2>5, BecomesSafe
<1>12. ASSUME NEW v \in 0..1, sem_create(v) PROVE k' \in Safe
  BY <1>12, AllocSafe, BecomesSafe DEF sem_create
<1>13. ASSUME NEW id \in UserSem,
              \/ sem_open(id) \/ sem_close(id) \/ sem_wait(id) \/ sem_signal(id)
              \/ \E v \in 0..MaxSemValue : sem_set(id, v)
       PROVE  k' \in Safe
  <2>0. id \in SemId BY DEF UserSem
  <2>1. CASE sem_open(id) BY <2>0, <2>1, OpenSafe, BecomesSafe DEF sem_open
  <2>2. CASE sem_close(id) BY <2>0, <2>2, CloseSafe, BecomesSafe DEF sem_close
  <2>3. CASE sem_wait(id)
    BY <1>0, <2>0, <2>3, SemWaitSafe, BecomesSafe DEF sem_wait, me, User
  <2>4. CASE sem_signal(id) BY <2>0, <2>4, SignalSafe, BecomesSafe DEF sem_signal
  <2>5. ASSUME NEW v \in 0..MaxSemValue, sem_set(id, v) PROVE k' \in Safe
    BY <2>0, <2>5, KernelAssumption, SetSafe, BecomesSafe DEF sem_set
  <2> QED BY <1>13, <2>1, <2>2, <2>3, <2>4, <2>5
<1>14. ASSUME NEW n \in 1..MaxRead, read(n) PROVE k' \in Safe
  <2>1. me \in User BY <1>0, <1>14 DEF read
  <2>2. [k EXCEPT !.context[me] = [op |-> "read", arg |-> n]] \in Safe
    BY Zenon, <2>1, ProcessUpdate, ContextValues, Basics
  <2>3. scheduler_block_by_pid(k, me) \in Safe
    BY <2>1, BlockByPidSafe DEF me, User
  <2> QED BY <1>14, <2>2, <2>3, BecomesSafe DEF read
<1>15. CASE read_continues
  BY <1>0, <1>15, ReadTurnSafe, BecomesSafe DEF read_continues, Resumes, me, User
<1>16. ASSUME NEW c \in Key, key(c) PROVE k' \in Safe
  BY <1>16, KeyArrivesSafe, BecomesSafe DEF key
<1>17. CASE ctrl_c BY <1>17, CtrlCSafe, BecomesSafe DEF ctrl_c
<1>18. CASE UNCHANGED k BY <1>18
<1> QED
  BY <1>1, <1>2, <1>3, <1>4, <1>5, <1>6, <1>7, <1>8, <1>9, <1>10, <1>11, <1>12,
     <1>13, <1>14, <1>15, <1>16, <1>17, <1>18 DEF Next

-----------------------------------------------------------------------------
\* The inductive invariant holds: no sequence of system calls and interrupts,
\* with any number of processes and semaphores, leaves the set Safe.
THEOREM SafeInvariant == Spec => [](k \in Safe)
<1>1. Init => k \in Safe BY InitSafe
<1>2. k \in Safe /\ [Next]_k => (k \in Safe)' BY NextSafe
<1> QED BY <1>1, <1>2, PTL DEF Spec

\* Every field of the kernel's memory keeps its type: priorities stay within
\* the three queues (clamp_priority), no semaphore goes below zero, and no link
\* points outside the PCBs.
THEOREM TypeCorrect == Spec => []TypeOK
<1>1. k \in Safe => TypeOK BY SafeIsType DEF TypeOK
<1> QED BY <1>1, SafeInvariant, PTL

\* The idle process is never queued, never waits and never changes state, so
\* that schedule always has something to dispatch: every operation by pid,
\* aging, Ctrl+C and the semaphores leave it alone.
THEOREM IdleStaysAvailable == Spec => []IdleIsAvailable
<1>1. ASSUME k \in Safe PROVE IdleIsAvailable
  <2>1. idle_p \notin UserLink BY DEF UserLink, User, idle_p, NULL
  <2>2. /\ k.head \in [Queue -> UserLink] /\ k.tail \in [Queue -> UserLink]
        /\ k.queue_next \in [Proc -> UserLink] /\ k.queue_prev \in [Proc -> UserLink]
        /\ k.waiters_head \in [Proc -> UserLink] /\ k.waiter_next \in [Proc -> UserLink]
        /\ k.sem_waiter_next \in [Proc -> UserLink]
        /\ k.wait_head \in [SemId -> UserLink] /\ k.wait_tail \in [SemId -> UserLink]
    BY <1>1 DEF Safe, SafeRec
  <2>3. idle_p \in k.heap /\ k.state[idle_p] = "RUNNING" BY <1>1 DEF Safe
  <2> QED BY <2>1, <2>2, <2>3 DEF IdleIsAvailable
<1> QED BY <1>1, SafeInvariant, PTL

\* No semaphore ever has a token and a waiter at the same time, whatever the
\* order of wait, signal, set, close, kill and Ctrl+C.
THEOREM NoTokenIsIgnored == Spec => []NoTokenWithWaiters
<1>1. k \in Safe => NoTokenWithWaiters BY DEF Safe, NoTokenWithWaiters
<1> QED BY <1>1, SafeInvariant, PTL

=============================================================================
