------------------------------ MODULE Semaphore ------------------------------
(***************************************************************************)
(* Kernel/ipc/semaphore.c.  The table is indexed by the id, which is never *)
(* reused (next_sem_id), rather than by the slot; MAX_SEMAPHORES still     *)
(* bounds how many are in use.  The spinlock of a semaphore is left out:   *)
(* the system calls run with interrupts disabled and release it before     *)
(* they switch, so none of them ever finds it taken.                       *)
(***************************************************************************)
EXTENDS Scheduler

sem_get_by_id(k, id) == id \in SemId /\ k.sem_used[id]

SemInUse(k) == {id \in SemId : k.sem_used[id]}

SemAllocFails(k) == Cardinality(SemInUse(k)) >= MAX_SEMAPHORES

sem_alloc(k, initial_value) ==
  LET id == k.next_sem_id
  IN  [k EXCEPT !.sem_used[id] = TRUE, !.sem_value[id] = initial_value,
                !.sem_refcount[id] = 1,
                !.wait_head[id] = NULL, !.wait_tail[id] = NULL,
                !.next_sem_id = @ + 1]

sem_open_by_id(k, id) == [k EXCEPT !.sem_refcount[id] = @ + 1]

\* The last close frees the slot and forgets whoever was waiting.
sem_close_by_id(k, id) ==
  IF k.sem_refcount[id] - 1 <= 0
  THEN [k EXCEPT !.sem_refcount[id] = @ - 1, !.sem_used[id] = FALSE,
                 !.wait_head[id] = NULL, !.wait_tail[id] = NULL]
  ELSE [k EXCEPT !.sem_refcount[id] = @ - 1]

\* Mutants: the tail is not moved; a new waiter goes to the head.
enqueue_waiter_KeepsTail(k, id, p) ==
  LET alone == [k EXCEPT !.sem_waiter_next[p] = NULL]
  IN  IF k.wait_head[id] = NULL
      THEN [alone EXCEPT !.wait_head[id] = p, !.wait_tail[id] = p]
      ELSE [alone EXCEPT !.sem_waiter_next[k.wait_tail[id]] = p]

enqueue_waiter_AtHead(k, id, p) ==
  [k EXCEPT !.sem_waiter_next[p] = k.wait_head[id], !.wait_head[id] = p,
            !.wait_tail[id] = IF @ = NULL THEN p ELSE @]

enqueue_waiter(k, id, p) ==
  LET alone == [k EXCEPT !.sem_waiter_next[p] = NULL]
  IN  IF k.wait_head[id] = NULL
      THEN [alone EXCEPT !.wait_head[id] = p, !.wait_tail[id] = p]
      ELSE [alone EXCEPT !.sem_waiter_next[k.wait_tail[id]] = p,
                         !.wait_tail[id] = p]

\* dequeue_waiter returns wait_head, here k.wait_head[id] # NULL.
dequeue_waiter(k, id) ==
  LET w == k.wait_head[id]
      n == k.sem_waiter_next[w]
  IN  [k EXCEPT !.wait_head[id] = n,
                !.wait_tail[id] = IF n = NULL THEN NULL ELSE @,
                !.sem_waiter_next[w] = NULL]

\* sem_wait_by_id either takes a token or enlists the caller, which then
\* gives up the processor (scheduler_yield_current, in module Kernel).
SemWouldBlock(k, id) == sem_get_by_id(k, id) /\ k.sem_value[id] <= 0

SemTake(k, id) ==
  IF sem_get_by_id(k, id) THEN [k EXCEPT !.sem_value[id] = @ - 1] ELSE k

SemBlock(k, id) == scheduler_block_current(enqueue_waiter(k, id, k.current))

WakeFirst(k, id) ==
  scheduler_unblock_process(dequeue_waiter(k, id), k.wait_head[id])

\* Mutant: a token is left even though a waiter was woken.
sem_signal_by_id_Twice(k, id) ==
  IF k.wait_head[id] # NULL
  THEN [WakeFirst(k, id) EXCEPT !.sem_value[id] = @ + 1]
  ELSE [k EXCEPT !.sem_value[id] = @ + 1]

sem_signal_by_id(k, id) ==
  IF k.wait_head[id] # NULL THEN WakeFirst(k, id)
  ELSE [k EXCEPT !.sem_value[id] = @ + 1]

\* sem_set_by_id: one turn of the loop that wakes at most newval waiters.
SetState == [k : KState, awaken : Nat]

SetTurn(s, id, newval) ==
  IF s.awaken < newval /\ s.k.wait_head[id] # NULL
  THEN [k |-> WakeFirst(s.k, id), awaken |-> s.awaken + 1]
  ELSE s

sem_set_by_id(k, id, newval) ==
  LET s == Iterate([s \in SetState |-> SetTurn(s, id, newval)],
                   [k |-> k, awaken |-> 0], newval)
  IN  [s.k EXCEPT !.sem_value[id] = newval - s.awaken]

=============================================================================
