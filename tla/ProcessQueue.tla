---------------------------- MODULE ProcessQueue ----------------------------
(***************************************************************************)
(* process_queue_t (Kernel/proc/process.c): doubly linked queues threaded  *)
(* through the process control blocks themselves.  A PCB owns a single     *)
(* pair of links, queue_next and queue_prev, whichever queue it is in, so  *)
(* a PCB linked into two queues at a time corrupts both; the model keeps   *)
(* the links, not sequences, because the kernel does get there.            *)
(*                                                                         *)
(* Every operator maps a memory m to the memory the C function leaves.  m  *)
(* is a record with (at least) the fields                                  *)
(*   head, tail             the two ends of every queue                    *)
(*   queue_next, queue_prev the links of every PCB                         *)
(*   hung                   a walk along the links has no end: the kernel  *)
(*                          loops for ever with interrupts disabled        *)
(* The counter q->size is left out: nothing in the kernel reads it.        *)
(***************************************************************************)
EXTENDS Iteration

CONSTANT MaxProc       \* bound: number of PCBs the kernel's heap has room for

ASSUME MaxProcAssumption == MaxProc \in Nat \ {0}

NULL == 0
Proc == 1..MaxProc     \* the addresses of the PCBs
Link == Proc \cup {NULL}

(***************************************************************************)
(* The nodes `for (it = h; it; it = it->next)' visits: Walk(next, h)[i] is *)
(* the value of it after i turns.  A walk of more than MaxProc turns       *)
(* visits some node twice, and so never ends.                              *)
(***************************************************************************)
Walk(next, h) ==
  [i \in Nat |->
     Iterate([p \in Link |-> IF p = NULL THEN NULL ELSE next[p]], h, i)]

Visited(next, h) == {Walk(next, h)[i] : i \in 0..MaxProc} \ {NULL}

Endless(m, h) == Walk(m.queue_next, h)[MaxProc] # NULL

\* The first node in S on the walk from h, NULL if there is none.
FirstOnWalk(m, h, S) ==
  LET w == Walk(m.queue_next, h)
      I == {i \in 0..MaxProc : w[i] \in S}
  IN  IF I = {} THEN NULL
      ELSE CHOOSE p \in S : \E i \in I : w[i] = p /\ \A j \in I : i <= j

OnWalk(m, h, p) == FirstOnWalk(m, h, {p}) # NULL

\* Mutant: the tail is not updated when the last node leaves.
detach_from_queue_KeepsTail(m, q, p) ==
  IF ~OnWalk(m, m.head[q], p)
  THEN [m EXCEPT !.hung = @ \/ Endless(m, m.head[q])]
  ELSE LET n == m.queue_next[p]
           r == m.queue_prev[p]
       IN  [m EXCEPT
              !.head[q]    = IF r = NULL THEN n ELSE @,
              !.queue_next = [x \in Proc |-> CASE x = p -> NULL
                                               [] x # p /\ x = r -> n
                                               [] OTHER -> @[x]],
              !.queue_prev = [x \in Proc |-> CASE x = p -> NULL
                                               [] x # p /\ x = n -> r
                                               [] OTHER -> @[x]]]

(***************************************************************************)
(* detach_from_queue looks p up from the head and, if it is there, links   *)
(* its neighbours to each other; otherwise it changes nothing.             *)
(***************************************************************************)
detach_from_queue(m, q, p) ==
  IF ~OnWalk(m, m.head[q], p)
  THEN [m EXCEPT !.hung = @ \/ Endless(m, m.head[q])]
  ELSE LET n == m.queue_next[p]
           r == m.queue_prev[p]
       IN  [m EXCEPT
              !.head[q]    = IF r = NULL THEN n ELSE @,
              !.tail[q]    = IF n = NULL THEN r ELSE @,
              !.queue_next = [x \in Proc |-> CASE x = p -> NULL
                                               [] x # p /\ x = r -> n
                                               [] OTHER -> @[x]],
              !.queue_prev = [x \in Proc |-> CASE x = p -> NULL
                                               [] x # p /\ x = n -> r
                                               [] OTHER -> @[x]]]

process_queue_remove(m, q, p) == detach_from_queue(m, q, p)

(***************************************************************************)
(* process_queue_push first detaches p from q itself (only from q) when    *)
(* its links or q->head say that it may be queued, then appends it.        *)
(***************************************************************************)
AppendTo(d, q, p) ==
  LET t == d.tail[q]
  IN  IF d.head[q] = NULL
      THEN [d EXCEPT !.head[q] = p, !.tail[q] = p,
                     !.queue_next[p] = NULL, !.queue_prev[p] = NULL]
      ELSE [d EXCEPT !.tail[q] = p,
                     !.queue_prev[p] = t,
                     !.queue_next = [x \in Proc |-> CASE x = t -> p
                                                      [] x # t /\ x = p -> NULL
                                                      [] OTHER -> @[x]]]

process_queue_push(m, q, p) ==
  AppendTo(IF \/ m.queue_next[p] # NULL
              \/ m.queue_prev[p] # NULL
              \/ m.head[q] = p
           THEN detach_from_queue(m, q, p) ELSE m, q, p)

\* process_queue_pop returns the head and detaches it; m.head[q] is NULL in
\* the memory of an empty queue, and then nothing changes.
process_queue_pop(m, q) ==
  IF m.head[q] = NULL THEN m ELSE detach_from_queue(m, q, m.head[q])

=============================================================================
