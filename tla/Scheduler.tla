------------------------------ MODULE Scheduler ------------------------------
(***************************************************************************)
(* Kernel/proc/scheduler.c: the ready queues, aging, lookup by pid and the *)
(* operations that change the state of one process.  The dispatcher itself *)
(* (schedule) and kill are in module Kernel: they reach the keyboard.      *)
(***************************************************************************)
EXTENDS KernelState

SmallerOf(a, b) == IF a <= b THEN a ELSE b

\* Mutant: no upper bound.
clamp_priority_Missing(pr) == pr

clamp_priority(pr) ==
  IF pr > PROCESS_PRIORITY_MAX THEN PROCESS_PRIORITY_MAX ELSE pr

ready_queue_push(k, p) ==
  process_queue_push([k EXCEPT !.priority[p] = clamp_priority(@)],
                     clamp_priority(k.priority[p]), p)

\* The highest priority with a ready process; -1 when every queue is empty.
ReadyPriorities(k) == {pr \in Priority : k.head[pr] # NULL}

HighestReady(k) ==
  IF ReadyPriorities(k) = {} THEN -1
  ELSE CHOOSE pr \in ReadyPriorities(k) : \A r \in ReadyPriorities(k) : r <= pr

(***************************************************************************)
(* apply_aging: one turn of its two nested loops.  s.pr is the outer loop  *)
(* variable, s.p the inner one; a boost restarts the inner loop at the     *)
(* head of the queue.  wait_ticks saturates at the threshold: it is only   *)
(* ever compared with it.                                                  *)
(***************************************************************************)
AgingState == [k : KState, pr : 0..PROCESS_PRIORITY_MAX + 1, p : Link]

Boost(k, pr, p) ==
  LET removed == process_queue_remove(k, pr, p)
      to      == clamp_priority(k.priority[p] + AGING_BOOST)
      pushed  == process_queue_push([removed EXCEPT !.priority[p] = to], to, p)
  IN  [pushed EXCEPT !.wait_ticks[p] = 0]

\* Mutant: off by one.
Aged_Late(k, p) ==
  k.wait_ticks[p] > AGING_THRESHOLD /\ k.priority[p] < PROCESS_PRIORITY_MAX

Aged(k, p) ==
  k.wait_ticks[p] >= AGING_THRESHOLD /\ k.priority[p] < PROCESS_PRIORITY_MAX

AgingTurn(s) ==
  LET waited == [s.k EXCEPT !.wait_ticks[s.p] =
                              SmallerOf(@ + 1, AGING_THRESHOLD)]
      boosted == Boost(waited, s.pr, s.p)
      next   == IF s.pr < PROCESS_PRIORITY_MAX THEN s.k.head[s.pr + 1]
                ELSE NULL
  IN  IF s.pr > PROCESS_PRIORITY_MAX THEN s
      ELSE IF s.p = NULL THEN [s EXCEPT !.pr = @ + 1, !.p = next]
      ELSE IF Aged(waited, s.p)
      THEN [s EXCEPT !.k = boosted, !.p = boosted.head[s.pr]]
      ELSE [s EXCEPT !.k = waited,  !.p = waited.queue_next[s.p]]

\* No terminating run of the loops is longer: there are at most 2 * MaxProc
\* boosts, at most MaxProc * AGING_THRESHOLD turns between two of them, and
\* one last turn for each queue.
AgingTurns == (2 * MaxProc + 1) * MaxProc * AGING_THRESHOLD + 3

\* Mutant: no aging.
apply_aging_Missing(k) == k

AfterAging(s) == [s.k EXCEPT !.hung = @ \/ s.pr <= PROCESS_PRIORITY_MAX]

apply_aging(k) ==
  AfterAging(Iterate([s \in AgingState |-> AgingTurn(s)],
                     [k |-> k, pr |-> 0, p |-> k.head[0]], AgingTurns))

scheduler_block_current(k) ==
  IF k.current = idle_p THEN k
  ELSE [k EXCEPT !.state[k.current] = "BLOCKED", !.need_resched = TRUE]

\* Mutant: the entry in blocked_q is left behind.
scheduler_unblock_process_Stays(k, p) ==
  LET pushed == ready_queue_push([k EXCEPT !.state[p] = "READY"], p)
  IN  [pushed EXCEPT !.need_resched =
         @ \/ pushed.priority[p] > pushed.priority[pushed.current]]

\* Mutant: the process is not put into a ready queue.
scheduler_unblock_process_NoPush(k, p) ==
  IF k.state[p] = "BLOCKED"
  THEN [process_queue_remove(k, blocked_q, p) EXCEPT !.state[p] = "READY"]
  ELSE [k EXCEPT !.state[p] = "READY"]

scheduler_unblock_process(k, p) ==
  LET removed == IF k.state[p] = "BLOCKED"
                 THEN process_queue_remove(k, blocked_q, p) ELSE k
      pushed  == ready_queue_push([removed EXCEPT !.state[p] = "READY"], p)
  IN  [pushed EXCEPT !.need_resched =
         @ \/ pushed.priority[p] > pushed.priority[pushed.current]]

(***************************************************************************)
(* scheduler_find_by_pid searches the ready queues from the lowest, then   *)
(* blocked_q, then finished_q, then looks at current.  FindHangs: one of   *)
(* the walks it makes before it finds the process never ends.              *)
(***************************************************************************)
InQueue(k, q, p) == OnWalk(k, k.head[q], p)

scheduler_find_by_pid(k, p) ==
  IF (\E q \in Queue : InQueue(k, q, p)) \/ k.current = p THEN p ELSE NULL

FindHangs(k, p) ==
  \E q \in Queue : /\ \A r \in 0..q : ~InQueue(k, r, p)
                   /\ Endless(k, k.head[q])

Hang(k) == [k EXCEPT !.hung = TRUE]

\* What `ps' shows: scheduler_list_all_processes walks the same queues.
Listed(k) ==
  {p \in User : p = k.current \/ \E q \in Queue : InQueue(k, q, p)}

\* The common start of the by-pid operations: look p up, return if it is not
\* there, otherwise go on to `done'.
WhenFound(k, p, done) ==
  IF FindHangs(k, p) THEN Hang(k)
  ELSE IF scheduler_find_by_pid(k, p) = NULL THEN k ELSE done

scheduler_unblock_by_pid(k, p) ==
  WhenFound(k, p, scheduler_unblock_process(k, p))

scheduler_set_priority(k, p, new_priority) ==
  LET clamped == clamp_priority(new_priority)
      oldp    == k.priority[p]
      removed == IF k.state[p] = "READY"
                 THEN process_queue_remove(k, oldp, p) ELSE k
      changed == [removed EXCEPT !.priority[p] = clamped,
                                 !.base_priority[p] = clamped,
                                 !.wait_ticks[p] = 0]
      pushed  == IF changed.state[p] = "READY"
                 THEN ready_queue_push(changed, p) ELSE changed
      done    == [pushed EXCEPT !.need_resched =
                    @ \/ pushed.priority[p] > pushed.priority[pushed.current]]
  IN  WhenFound(k, p, IF p = idle_p \/ oldp = clamped THEN k ELSE done)

scheduler_block_by_pid(k, p) ==
  LET removed == process_queue_remove(k, k.priority[p], p)
      pushed  == process_queue_push([removed EXCEPT !.state[p] = "BLOCKED"],
                                    blocked_q, p)
      done    == IF p = k.current
                 THEN [k EXCEPT !.state[p] = "BLOCKED", !.need_resched = TRUE]
                 ELSE IF k.state[p] = "READY"
                 THEN [pushed EXCEPT !.need_resched = TRUE] ELSE k
  IN  WhenFound(k, p, IF p = idle_p THEN k ELSE done)

(***************************************************************************)
(* scheduler_get_foreground_pid: current if it is in the foreground, else  *)
(* the first foreground process of the ready queues, lowest first, then of *)
(* blocked_q; NULL (pid 0) if there is none.                               *)
(***************************************************************************)
Foreground(k) == {p \in Proc : k.is_foreground[p]}

FirstForeground(k, q) == FirstOnWalk(k, k.head[q], Foreground(k))

ForegroundHangs(k) ==
  /\ ~(k.current # idle_p /\ k.is_foreground[k.current])
  /\ \E q \in 0..blocked_q : /\ \A r \in 0..q : FirstForeground(k, r) = NULL
                             /\ Endless(k, k.head[q])

scheduler_get_foreground_pid(k) ==
  LET Q == {q \in 0..blocked_q : FirstForeground(k, q) # NULL}
  IN  IF k.current # idle_p /\ k.is_foreground[k.current] THEN k.current
      ELSE IF Q = {} THEN NULL
      ELSE FirstForeground(k, CHOOSE q \in Q : \A r \in Q : q <= r)

=============================================================================
