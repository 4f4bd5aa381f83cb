------------------------------- MODULE Kernel -------------------------------
(***************************************************************************)
(* The running kernel: the dispatcher, the system calls on processes and   *)
(* semaphores, the read of the keyboard, and the two interrupts.           *)
(*                                                                         *)
(* There is one processor.  The IDT holds interrupt gates only, so a       *)
(* system call (int 80h) and an interrupt handler run with interrupts      *)
(* disabled: each is one step, up to the point where the system call gives *)
(* up the processor (scheduler_yield_current executes int 20h, the timer's *)
(* handler).  A process switched out inside a system call has the rest of  *)
(* the call in k.context, and runs it, still with interrupts disabled, as  *)
(* soon as it is dispatched again.  Interrupts arrive in user code, in the *)
(* idle loop and in the hlt loop of a process that has ended.              *)
(*                                                                         *)
(* The processes are the most general clients: in user code the shell may  *)
(* make any system call named in ShellOps and every other process any      *)
(* system call named in UserOps, with any argument, at any time.  What the *)
(* keyboard does is in Keys.                                               *)
(***************************************************************************)
EXTENDS Keyboard

CONSTANTS
  ShellOps,     \* the system calls the shell makes
  UserOps,      \* the system calls the other processes make
  Priorities,   \* the priorities processes ask for, valid or too large
  Foregrounds,  \* whether processes are created in the foreground
  Keys,         \* the keys that are pressed: some of Key, and "ctrl_c"
  MaxSemRefs    \* bound: largest reference count of a semaphore

ASSUME OpsAssumption ==
  /\ Priorities \subseteq Nat
  /\ Foregrounds \subseteq BOOLEAN
  /\ MaxSemRefs \in Nat

VARIABLE k      \* the kernel's memory, a record in KState

-----------------------------------------------------------------------------
(* The dispatcher *)

\* Mutant: a process in wait is marked ready but not queued.
WakeTurn_NoPush(m, p) ==
  LET w == m.waiters_head[p]
  IN  IF w = NULL THEN m
      ELSE [m EXCEPT !.waiters_head[p] = m.waiter_next[w],
                     !.waiter_next[w] = NULL, !.state[w] = "READY"]

\* `while (p->waiters_head)': every process in wait(p) becomes ready.  Its
\* entry in blocked_q stays where it is.
WakeTurn(m, p) ==
  LET w == m.waiters_head[p]
  IN  IF w = NULL THEN m
      ELSE ready_queue_push(
             [m EXCEPT !.waiters_head[p] = m.waiter_next[w],
                       !.waiter_next[w] = NULL,
                       !.state[w] = "READY"], w)

\* A turn clears one waiter_next, so the loop ends within 2 * MaxProc turns.
WakeWaiters(m, p) ==
  Iterate([x \in KState |-> WakeTurn(x, p)], m, 2 * MaxProc)

HasLiveParent(m, p) ==
  m.parent[p] # NULL /\ m.state[m.parent[p]] # "FINISHED"

\* Mutant: the foreground is lost with the process.
ReturnForeground_Missing(m, p) == m

\* The foreground goes back to the parent of a foreground process that ends.
ReturnForeground(m, p) ==
  IF m.is_foreground[p] /\ HasLiveParent(m, p)
  THEN [m EXCEPT !.is_foreground[m.parent[p]] = TRUE] ELSE m

\* Mutant: the idle process is queued like any other.
Preempted_IdleToo(m, p) == ready_queue_push([m EXCEPT !.state[p] = "READY"], p)

\* save_context, by the state of the process that gives up the processor.
Preempted(m, p) ==
  IF p = idle_p THEN m
  ELSE ready_queue_push([m EXCEPT !.state[p] = "READY"], p)

Finished(m, p) ==
  LET cleared == IF m.is_foreground[p] /\ HasLiveParent(m, p)
                 THEN keyboard_clear_buffer(ReturnForeground(m, p)) ELSE m
  IN  process_queue_push(WakeWaiters(cleared, p), finished_q, p)

save_context(m, p) ==
  CASE m.state[p] = "RUNNING"  -> Preempted(m, p)
    [] m.state[p] = "BLOCKED"  -> process_queue_push(m, blocked_q, p)
    [] m.state[p] = "FINISHED" -> Finished(m, p)
    [] OTHER -> m

\* process_destroy: unlink from the parent, give the memory back.
process_destroy(m, p) ==
  [m EXCEPT !.parent[p] = NULL, !.heap = @ \ {p}]

\* Mutant: the process is taken from finished_q and forgotten.
CollectTurn_Leaks(m) ==
  IF m.head[finished_q] = NULL THEN m ELSE process_queue_pop(m, finished_q)

CollectTurn(m) ==
  IF m.head[finished_q] = NULL THEN m
  ELSE process_destroy(process_queue_pop(m, finished_q), m.head[finished_q])

CollectFinished(m) ==
  Iterate([x \in KState |-> CollectTurn(x)], m, MAX_FINISHED_COLLECT)

\* schedule after it has decided to switch: save_context, then Dispatch.
Dispatch(saved) ==
  LET pr    == HighestReady(saved)
      next  == IF pr = -1 THEN idle_p ELSE saved.head[pr]
      taken == IF pr = -1 THEN saved ELSE process_queue_pop(saved, pr)
      reset == IF next # idle_p /\ taken.priority[next] > taken.base_priority[next]
               THEN [taken EXCEPT !.priority[next] = taken.base_priority[next]]
               ELSE taken
  IN  CollectFinished([reset EXCEPT !.state[next] = "RUNNING",
                                    !.wait_ticks[next] = 0,
                                    !.current = next, !.elapsed = 0])

Switch(m) ==
  Dispatch(save_context([m EXCEPT !.need_resched = FALSE], m.current))

\* Mutant: the priority of the ready processes is not looked at.
must_switch_NoPreempt(m) ==
  \/ m.state[m.current] # "RUNNING"
  \/ m.elapsed >= QUANTUM_TICKS
  \/ m.need_resched

\* elapsed is ticks_elapsed() - last_switch_tick, up to the quantum.
must_switch(m) ==
  LET pr == HighestReady(m)
  IN  \/ m.state[m.current] # "RUNNING"
      \/ pr # -1 /\ m.priority[m.head[pr]] > m.priority[m.current]
      \/ m.elapsed >= QUANTUM_TICKS
      \/ m.need_resched

SwitchIfDue(aged) == IF must_switch(aged) THEN Switch(aged) ELSE aged

schedule(m) == SwitchIfDue(apply_aging(m))

\* _irq00Handler: ticks++, then schedule.
TimerInterrupt(m) ==
  schedule([m EXCEPT !.elapsed = SmallerOf(@ + 1, QUANTUM_TICKS)])

scheduler_yield_current(m) ==
  IF m.current = idle_p THEN m
  ELSE TimerInterrupt([m EXCEPT !.elapsed = QUANTUM_TICKS])

scheduler_kill_by_pid(m, p) ==
  LET given   == ReturnForeground(m, p)
      removed == CASE m.state[p] = "READY" ->
                        process_queue_remove(given, m.priority[p], p)
                   [] m.state[p] = "BLOCKED" ->
                        process_queue_remove(given, blocked_q, p)
                   [] OTHER -> given
      woken   == WakeWaiters([removed EXCEPT !.state[p] = "FINISHED"], p)
      queued  == process_queue_push(woken, finished_q, p)
  IN  WhenFound(m, p, [queued EXCEPT !.need_resched = @ \/ p = m.current])

-----------------------------------------------------------------------------
(* Steps *)

\* A kernel that loops for ever takes no further step.
Becomes(m) == k' = IF m.hung THEN Hang(k) ELSE m

me == k.current

Ops == IF me = shell THEN ShellOps ELSE UserOps

InUserCode(op) ==
  ~k.hung /\ me # idle_p /\ op \in Ops /\ k.context[me].op = "user"

InterruptsEnabled == ~k.hung /\ k.context[me].op \in {"user", "exited"}

Resumes(op) == ~k.hung /\ k.context[me].op = op

Tick == InterruptsEnabled /\ Becomes(TimerInterrupt(k))

Yield == InUserCode("yield") /\ Becomes(scheduler_yield_current(k))

\* process_create in the block p: the PCB in no list, ...
Unlinked(m, p) ==
  [m EXCEPT !.queue_next[p] = NULL, !.queue_prev[p] = NULL,
            !.waiters_head[p] = NULL, !.waiter_next[p] = NULL,
            !.sem_waiter_next[p] = NULL]

\* ... ready to run, ...
Fresh(m, p, pr) ==
  [m EXCEPT !.heap = @ \cup {p}, !.state[p] = "READY", !.wait_ticks[p] = 0,
            !.priority[p] = clamp_priority(pr),
            !.base_priority[p] = clamp_priority(pr)]

\* ... and the rest of it, as scheduler_spawn_process calls it.
Spawned(m, p, parent, pr, fg) ==
  ready_queue_push([Fresh(Unlinked(m, p), p, pr) EXCEPT
                      !.is_foreground[p] = fg, !.parent[p] = parent,
                      !.context[p] = UserMode], p)

\* The allocator may return any free block.
create_process(p, pr, fg) ==
  /\ InUserCode("create")
  /\ p \notin k.heap
  /\ Becomes(Spawned([k EXCEPT !.is_foreground[me] = @ /\ ~fg], p, me, pr, fg))

\* Out of memory: the caller takes the foreground (back).
create_process_fails(fg) ==
  /\ InUserCode("create") /\ k.heap = Proc
  /\ Becomes([k EXCEPT !.is_foreground[me] = @ \/ fg])

\* The entry function returns into process_start: scheduler_finish_current,
\* then hlt until the timer takes the process away.
exit ==
  /\ InUserCode("exit")
  /\ Becomes([k EXCEPT !.state[me] = "FINISHED", !.need_resched = TRUE,
                       !.context[me] = [op |-> "exited", arg |-> 0]])

kill(p) ==
  /\ InUserCode("kill")
  /\ p # me \/ "kill_self" \in Ops
  /\ Becomes(scheduler_kill_by_pid(k, p))

block(p) ==
  /\ InUserCode("block")
  /\ Becomes(scheduler_block_by_pid(k, p))

\* The block command and test_processes unblock only what they have seen
\* blocked; "unblock_any" is the bare system call.
unblock(p) ==
  /\ InUserCode("unblock")
  /\ (k.state[p] = "BLOCKED" /\ p # me) \/ "unblock_any" \in Ops
  /\ Becomes(scheduler_unblock_by_pid(k, p))

set_priority(p, pr) ==
  /\ InUserCode("nice")
  /\ Becomes(scheduler_set_priority(k, p, pr))

\* syscall_wait up to the switch ...
WaitOn(m, p) ==
  LET enlisted == [m EXCEPT !.waiter_next[m.current] = m.waiters_head[p],
                            !.waiters_head[p] = m.current,
                            !.context[m.current] = [op |-> "wait", arg |-> p]]
      blocked  == scheduler_yield_current(scheduler_block_current(enlisted))
      finished == [m EXCEPT !.is_foreground[m.current] = @ \/ m.is_foreground[p]]
  IN  WhenFound(m, p, IF m.state[p] = "FINISHED" THEN finished
                      ELSE IF p = m.current THEN m ELSE blocked)

wait(p) == InUserCode("wait") /\ Becomes(WaitOn(k, p))

\* ... and after it: target->is_foreground is read through a pointer to a
\* PCB that schedule may have freed by now.
wait_returns ==
  /\ Resumes("wait")
  /\ Becomes([k EXCEPT !.context[me] = UserMode,
                       !.is_foreground[me] =
                          @ \/ k.is_foreground[k.context[me].arg]])

-----------------------------------------------------------------------------
(* Semaphores.  User code uses the ids sem_create gave it. *)

UserSem == {id \in SemId \ {kbd_sem_id} : k.sem_used[id]}

sem_create(v) ==
  /\ InUserCode("sem_create")
  /\ k.next_sem_id <= MaxSemId
  /\ ~SemAllocFails(k)
  /\ Becomes(sem_alloc(k, v))

sem_open(id) ==
  /\ InUserCode("sem_open")
  /\ k.sem_refcount[id] < MaxSemRefs
  /\ Becomes(sem_open_by_id(k, id))

sem_close(id) == InUserCode("sem_close") /\ Becomes(sem_close_by_id(k, id))

sem_wait_by_id(m, id) ==
  IF SemWouldBlock(m, id) THEN scheduler_yield_current(SemBlock(m, id))
  ELSE SemTake(m, id)

sem_wait(id) == InUserCode("sem_wait") /\ Becomes(sem_wait_by_id(k, id))

sem_signal(id) ==
  /\ InUserCode("sem_signal")
  /\ k.sem_value[id] < MaxSemValue
  /\ Becomes(sem_signal_by_id(k, id))

sem_set(id, v) ==
  /\ InUserCode("sem_set")
  /\ Becomes(sem_set_by_id(k, id, v))

-----------------------------------------------------------------------------
(* The keyboard *)

\* syscall_read(STDIN, n) of a process whose stdin is the terminal: a process
\* in the background blocks itself and returns 0, the others start the loop.
read(n) ==
  /\ InUserCode("read")
  /\ Becomes(IF k.is_foreground[me]
             THEN [k EXCEPT !.context[me] = [op |-> "read", arg |-> n]]
             ELSE scheduler_block_by_pid(k, me))

\* One turn of the loop: take a byte, or wait for one.
ReadTurn(m) ==
  LET p == m.current
      n == m.context[p].arg
      popped == buffer_pop(m)
      done == Head(m.buffer) # "char" \/ n = 1
  IN  IF buffer_empty(m) THEN sem_wait_by_id(m, kbd_sem_id)
      ELSE IF done THEN [popped EXCEPT !.context[p] = UserMode]
      ELSE [popped EXCEPT !.context[p].arg = n - 1]

read_continues == Resumes("read") /\ Becomes(ReadTurn(k))

\* keyboard_interrupt_handler for a key that yields a byte, and for Ctrl+C.
key(c) ==
  /\ InterruptsEnabled /\ c \in Keys
  /\ k.sem_value[kbd_sem_id] < MaxSemValue
  /\ Becomes(KeyArrives(k, c))

CtrlC(m) ==
  LET fg_pid == scheduler_get_foreground_pid(m)
  IN  IF ForegroundHangs(m) THEN Hang(m)
      ELSE IF fg_pid = NULL THEN m
      ELSE keyboard_clear_buffer(scheduler_kill_by_pid(m, fg_pid))

ctrl_c == InterruptsEnabled /\ "ctrl_c" \in Keys /\ Becomes(CtrlC(k))

-----------------------------------------------------------------------------
\* main: init_scheduler, keyboard_init, spawn the shell, enable interrupts.
Booted ==
  [head |-> [q \in Queue |-> NULL], tail |-> [q \in Queue |-> NULL],
   queue_next |-> [p \in Proc |-> NULL], queue_prev |-> [p \in Proc |-> NULL],
   hung |-> FALSE,
   state |-> [p \in Proc |-> IF p = idle_p THEN "RUNNING" ELSE "NONE"],
   priority |-> [p \in Proc |-> PROCESS_PRIORITY_DEFAULT],
   base_priority |-> [p \in Proc |-> PROCESS_PRIORITY_DEFAULT],
   wait_ticks |-> [p \in Proc |-> 0],
   is_foreground |-> [p \in Proc |-> FALSE],
   parent |-> [p \in Proc |-> NULL],
   waiters_head |-> [p \in Proc |-> NULL], waiter_next |-> [p \in Proc |-> NULL],
   context |-> [p \in Proc |-> UserMode],
   heap |-> {idle_p},
   current |-> idle_p, need_resched |-> FALSE, elapsed |-> 0,
   sem_used |-> [id \in SemId |-> id = kbd_sem_id],
   sem_value |-> [id \in SemId |-> 0],
   sem_refcount |-> [id \in SemId |-> IF id = kbd_sem_id THEN 1 ELSE 0],
   wait_head |-> [id \in SemId |-> NULL], wait_tail |-> [id \in SemId |-> NULL],
   sem_waiter_next |-> [p \in Proc |-> NULL],
   next_sem_id |-> 2,
   buffer |-> <<>>]

Init == k = Spawned(Booted, shell, NULL, PROCESS_PRIORITY_MAX, TRUE)

Next ==
  \/ Tick
  \/ Yield
  \/ \E p \in Proc, pr \in Priorities, fg \in Foregrounds :
        create_process(p, pr, fg)
  \/ \E fg \in Foregrounds : create_process_fails(fg)
  \/ exit
  \/ \E p \in Proc : kill(p)
  \/ \E p \in Proc : block(p)
  \/ \E p \in Proc : unblock(p)
  \/ \E p \in Proc, pr \in Priorities : set_priority(p, pr)
  \/ \E p \in Proc : wait(p)
  \/ wait_returns
  \/ \E v \in 0..1 : sem_create(v)
  \/ \E id \in UserSem : sem_open(id)
  \/ \E id \in UserSem : sem_close(id)
  \/ \E id \in UserSem : sem_wait(id)
  \/ \E id \in UserSem : sem_signal(id)
  \/ \E id \in UserSem, v \in 0..MaxSemValue : sem_set(id, v)
  \/ \E n \in 1..MaxRead : read(n)
  \/ read_continues
  \/ \E c \in Key : key(c)
  \/ ctrl_c

Spec == Init /\ [][Next]_k

TypeOK == k \in KState

=============================================================================
