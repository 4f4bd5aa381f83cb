-------------------------- MODULE KernelProperties --------------------------
(***************************************************************************)
(* What the kernel should guarantee, and under which scheduling.           *)
(***************************************************************************)
EXTENDS Kernel

Processes == k.heap \ {idle_p}

\* The queue a process that is not running belongs to.
HomeQueue(p) ==
  CASE k.state[p] = "BLOCKED"  -> blocked_q
    [] k.state[p] = "FINISHED" -> finished_q
    [] OTHER                   -> k.priority[p]

(***************************************************************************)
(* Fairness.  The timer's interrupt stays pending in the PIC while         *)
(* interrupts are disabled, so it is taken sooner or later even if a       *)
(* process keeps entering the kernel: strong fairness of Tick.  A system   *)
(* call that is resumed runs on by itself: weak fairness of the two        *)
(* resumptions.  Nothing is assumed of the processes and of the keyboard.  *)
(* The formulas are SF_k(Tick) and WF_k(...) with the enabling conditions  *)
(* written out, which TLC evaluates far faster than ENABLED.               *)
(***************************************************************************)
TickDoesSomething == InterruptsEnabled /\ TimerInterrupt(k) # k

TimerFair == []<>TickDoesSomething => []<><<Tick>>_k

SyscallsFair ==
  /\ <>[]Resumes("wait") => []<><<wait_returns>>_k
  /\ <>[]Resumes("read") => []<><<read_continues>>_k

FairSpec == Spec /\ TimerFair /\ SyscallsFair

\* Every queue is a doubly linked list from its head to its tail: backward
\* links mirror the forward ones, and no walk along it runs for ever.  The
\* links are what process_queue_push and detach_from_queue maintain.
QueuesLinked ==
  /\ ~k.hung
  /\ \A q \in Queue :
       LET h == k.head[q]
           t == k.tail[q]
       IN  IF h = NULL THEN t = NULL
           ELSE /\ ~Endless(k, h)
                /\ k.queue_prev[h] = NULL /\ k.queue_next[t] = NULL
                /\ \A p \in Visited(k.queue_next, h) \ {t} :
                     /\ k.queue_next[p] # NULL
                     /\ k.queue_prev[k.queue_next[p]] = p

\* A process that exists and is not running is in exactly one queue, the one
\* its state and priority name, and the others are in none: nothing is lost
\* and nothing is queued twice by any sequence of create, exit, kill, block,
\* unblock, nice, yield and ticks.
QueuedByState ==
  \A q \in Queue :
    Visited(k.queue_next, k.head[q]) = {p \in Processes \ {me} : q = HomeQueue(p)}

\* No process waits in a ready queue below the top for AGING_THRESHOLD ticks:
\* apply_aging has boosted it before.
AgingBoosts ==
  \A pr \in Priority \ {PROCESS_PRIORITY_MAX} :
    \A p \in Visited(k.queue_next, k.head[pr]) : k.wait_ticks[p] < AGING_THRESHOLD

\* A process that is still running after a tick has no ready process of a
\* higher priority behind it (schedule's higher_pr_ready).  The larger number
\* is the higher priority, although src/README.md:101 calls 0 the highest.
HigherPriorityPreempts ==
  [][k'.current = me /\ (\E pr \in ReadyPriorities(k') : pr > k'.priority[me])
       => ~Tick]_k

\* Every ready process gets the processor (or is killed or blocked first),
\* whatever its priority and whatever the others do: aging works.
StarvationFree ==
  \A p \in User : (k.state[p] = "READY" /\ p \in k.heap) ~> (k.state[p] # "READY")

\* The memory of every process that ends is given back: schedule collects a
\* few finished processes whenever it switches.
FinishedAreCollected ==
  \A p \in User : (k.state[p] = "FINISHED") ~> (p \notin k.heap)

-----------------------------------------------------------------------------
(* Semaphores *)

Waiters(m, id) == Visited(m.sem_waiter_next, m.wait_head[id])

\* p was enlisted before r on the semaphore id.
Before(m, id, p, r) ==
  p # r /\ p \in Waiters(m, id) /\ r \in Visited(m.sem_waiter_next, p)

\* sem_wait blocks a process exactly as long as one semaphore lists it, and
\* the list ends at wait_tail: no waiter is forgotten, listed twice or listed
\* after it was woken.  (A background process is also blocked by its own read
\* of the terminal, and is then in no list.)
BlockedAreListed ==
  /\ \A id \in SemId :
       IF k.wait_head[id] = NULL THEN k.wait_tail[id] = NULL
       ELSE /\ k.wait_tail[id] \in Waiters(k, id)
            /\ k.sem_waiter_next[k.wait_tail[id]] = NULL
  /\ \A p \in Proc :
       LET n == Cardinality({id \in SemId : p \in Waiters(k, id)})
           blocked == p \in k.heap /\ k.state[p] = "BLOCKED"
       IN  IF blocked /\ k.is_foreground[p] THEN n = 1
           ELSE n = 0 \/ (blocked /\ n = 1)

\* sem_wait, sem_signal and sem_set never leave a token beside a waiter.
NoTokenWithWaiters ==
  \A id \in SemId : k.sem_value[id] > 0 => k.wait_head[id] = NULL

\* A semaphore serves its waiters in the order of their calls: whoever stays
\* in the list stays ahead of those who were behind it, none of whom leaves
\* first, and ahead of those who come now (enqueue_waiter, dequeue_waiter).
SemaphoresAreFifo ==
  [][\A id \in SemId : \A p \in Waiters(k, id) \cap Waiters(k', id), r \in User :
       Before(k, id, p, r) \/ r \in Waiters(k', id) \ Waiters(k, id)
         => Before(k', id, p, r)]_k

-----------------------------------------------------------------------------
(* The keyboard *)

Reading(p) == p \in Processes /\ k.context[p].op = "read"

\* While a byte is in the buffer, the readers are not all asleep: the one
\* that sem_signal_by_id woke for it is still on its way.
NoLostKey ==
  k.buffer # <<>> /\ (\E p \in User : Reading(p)) =>
    \E p \in User : Reading(p) /\ (k.state[p] = "READY" \/ p = me)

\* ... so that the bytes that have arrived are read as long as somebody reads.
KeysAreRead ==
  (k.buffer # <<>> /\ \E p \in User : Reading(p))
     ~> (k.buffer = <<>> \/ ~\E p \in User : Reading(p))

-----------------------------------------------------------------------------
(* wait, kill and the foreground *)

Ended(p) == p \notin k.heap \/ k.state[p] = "FINISHED"

\* A process that waits for another is woken when the other ends.
WaitReturns ==
  \A p \in User :
    (k.context[p].op = "wait" /\ Ended(k.context[p].arg))
       ~> (k.context[p].op # "wait")

\* Somebody who has not ended is in the foreground, so that the keyboard has
\* a reader: create_process, save_context, kill and wait hand it on.
SomeoneInForeground ==
  \E p \in Processes : k.is_foreground[p] /\ (~Ended(p) \/ p = me)

\* `ps' lists every process: all of them are reached from the queues.
PsListsAll == Processes \subseteq Listed(k)

\* A process that was terminated stays so until its memory is given back,
\* and memory that was given back is not scheduled.
KillIsFinal ==
  [][\A p \in User : k.state[p] = "FINISHED" /\ p \in k.heap =>
       k'.state[p] = "FINISHED"]_k

-----------------------------------------------------------------------------
\* The idle process is always there to be dispatched: it is never queued,
\* never waits for anything, and nothing changes its state.
IdleIsAvailable ==
  /\ idle_p \in k.heap /\ k.state[idle_p] = "RUNNING"
  /\ \A q \in Queue : k.head[q] # idle_p /\ k.tail[q] # idle_p
  /\ \A p \in Proc : /\ k.queue_next[p] # idle_p /\ k.queue_prev[p] # idle_p
                     /\ k.waiters_head[p] # idle_p /\ k.waiter_next[p] # idle_p
                     /\ k.sem_waiter_next[p] # idle_p
  /\ \A id \in SemId : k.wait_head[id] # idle_p /\ k.wait_tail[id] # idle_p

=============================================================================
