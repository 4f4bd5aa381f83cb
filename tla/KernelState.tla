----------------------------- MODULE KernelState -----------------------------
(***************************************************************************)
(* The kernel's memory as one record, k: the fields of the process control *)
(* blocks (process.h), the statics of scheduler.c, the semaphore table and *)
(* the keyboard's buffer.  The C functions are modelled as operators from  *)
(* k to k, so that a handler which calls several of them is the            *)
(* composition of their models, in the order of the calls.                 *)
(*                                                                         *)
(* Field by field: a PCB field f of process p is k.f[p], where p is the    *)
(* address of the PCB.  A freed PCB (p \notin k.heap) keeps its contents,  *)
(* as the allocator leaves them, until process_create gets the block       *)
(* again; the pointers to it that are still around then point to the new   *)
(* process.  pids are left out: a pid that is in use names one PCB, and    *)
(* the by-pid operations take that PCB, p, where the code takes p->pid.    *)
(* Also left out are waiting_on_pid and waiting_on_sem (written, never     *)
(* read), the sibling lists, names, stacks and file descriptors.           *)
(***************************************************************************)
EXTENDS ProcessQueue, Integers, Sequences, FiniteSets

CONSTANTS
  QUANTUM_TICKS,         \* 8 in scheduler.c
  AGING_THRESHOLD,       \* 200 in scheduler.c
  MAX_FINISHED_COLLECT,  \* 4 in scheduler.c
  MAX_SEMAPHORES,        \* 64 in semaphore.c
  MaxSemId,              \* bound: number of semaphores ever created
  MaxSemValue,           \* bound: largest semaphore value explored
  BUFFER_SIZE,           \* 256 in keyboardDriver.h
  MaxRead                \* bound: largest count passed to read

ASSUME KernelAssumption ==
  /\ MaxProc >= 2
  /\ {QUANTUM_TICKS, AGING_THRESHOLD, MAX_FINISHED_COLLECT, MAX_SEMAPHORES,
      MaxSemId, BUFFER_SIZE, MaxRead} \subseteq Nat \ {0}
  /\ MaxSemValue \in Nat

PROCESS_PRIORITY_MIN     == 0
PROCESS_PRIORITY_MAX     == 2
PROCESS_PRIORITY_DEFAULT == 1
AGING_BOOST              == 1

\* The queues: ready_queues[0..2] are numbered by their priority.
Priority   == PROCESS_PRIORITY_MIN..PROCESS_PRIORITY_MAX
blocked_q  == PROCESS_PRIORITY_MAX + 1
finished_q == PROCESS_PRIORITY_MAX + 2
Queue      == Priority \cup {blocked_q, finished_q}

\* init_scheduler creates the idle process, main the shell, in this order.
idle_p == 1
shell  == 2
User   == Proc \ {idle_p}

SemId  == 1..MaxSemId
kbd_sem_id == 1          \* keyboard_init makes the first sem_alloc

\* Bytes of the keyboard's buffer: what syscall_read tells apart.
Key == {"char", "newline", "eof"}

\* What a process does next: "user" code, the hlt loop it ends in ("exited",
\* process_start), or the rest of a system call it was switched out of: wait
\* for the process arg, or read up to arg more bytes.
Context == [op : {"user", "exited"}, arg : {0}] \cup [op : {"wait"}, arg : Proc]
             \cup [op : {"read"}, arg : 1..MaxRead]
UserMode == [op |-> "user", arg |-> 0]

State == {"NONE", "READY", "RUNNING", "BLOCKED", "FINISHED"}

KState ==
  [head : [Queue -> Link], tail : [Queue -> Link],
   queue_next : [Proc -> Link], queue_prev : [Proc -> Link],
   hung : BOOLEAN,
   state : [Proc -> State],
   priority : [Proc -> Priority], base_priority : [Proc -> Priority],
   wait_ticks : [Proc -> 0..AGING_THRESHOLD],
   is_foreground : [Proc -> BOOLEAN],
   parent : [Proc -> Link],
   waiters_head : [Proc -> Link], waiter_next : [Proc -> Link],
   context : [Proc -> Context],
   heap : SUBSET Proc,
   current : Proc, need_resched : BOOLEAN,
   elapsed : 0..QUANTUM_TICKS,
   sem_used : [SemId -> BOOLEAN], sem_value : [SemId -> Nat],
   sem_refcount : [SemId -> Int],
   wait_head : [SemId -> Link], wait_tail : [SemId -> Link],
   sem_waiter_next : [Proc -> Link],
   next_sem_id : Nat,
   buffer : Seq(Key)]

=============================================================================
