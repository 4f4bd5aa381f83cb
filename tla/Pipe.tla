-------------------------------- MODULE Pipe --------------------------------
(***************************************************************************)
(* Kernel/ipc/pipe.c: one pipe, from its creation by the shell to its      *)
(* destruction, with the processes that read and write it and the shell,   *)
(* which starts them and kills the left side of a pipeline at its end.     *)
(*                                                                         *)
(* A system call runs with interrupts disabled: the process that makes it  *)
(* has the processor (cpu) until it returns or sleeps on a semaphore.  The *)
(* end of a process is different.  process_start calls                     *)
(* scheduler_finish_current with interrupts enabled, so that closing the   *)
(* pipe can be interrupted anywhere, also between the acquire and the      *)
(* release of a semaphore's spin lock, and between that release and the    *)
(* moment the process marks itself BLOCKED.  A system call that meets such *)
(* a lock spins for ever with interrupts disabled: the kernel is hung.     *)
(*                                                                         *)
(* The semaphores are those of module Semaphore seen from outside: a value *)
(* and the queue of the sleeping processes.  The order in which runnable   *)
(* processes are dispatched is left open.  A byte of the pipe is its       *)
(* number in the order of the writes.                                      *)
(***************************************************************************)
EXTENDS Integers, Sequences, FiniteSets

CONSTANTS
  Readers, Writers,   \* the processes at the two ends
  PIPE_BUFFER_SIZE,   \* 4096 in the code
  MaxWakes,           \* 100 in the code: signals sent when the last writer leaves
  MaxChunk,           \* bound: largest count passed to read and write
  MaxBytes            \* bound: number of bytes written

ASSUME PipeAssumption ==
  /\ {PIPE_BUFFER_SIZE, MaxWakes, MaxChunk} \subseteq Nat \ {0} /\ MaxBytes \in Nat
  /\ Readers # {} /\ Writers # {} /\ Readers \cap Writers = {}
  /\ {"shell", "nobody"} \cap (Readers \cup Writers) = {}

VARIABLES
  pipe,     \* the pipe_t
  sem,      \* its three semaphores, and the processes that are BLOCKED
  proc,     \* what each process is doing
  shell,    \* what the shell is doing, and for which process
  cpu,      \* the process in a system call, or Nobody
  hung,     \* a system call spins on a lock that nobody will release
  sent,     \* number of bytes accepted by pipe_write
  got       \* the last byte pipe_read returned

vars == <<pipe, sem, proc, shell, cpu, hung, sent, got>>

Process == Readers \cup Writers
Nobody  == "nobody"
Shell   == "shell"
Sem     == {"items", "spaces", "mutex"}

-----------------------------------------------------------------------------
(* Semaphores.  s is the table, i one of them. *)

Exists(s, i) == s[i].used

\* Would a process that calls sem_wait_by_id sleep?
Sleeps(s, i) == s[i].used /\ s[i].value = 0

\* sem_wait_by_id up to the release of the lock ...
Enlist(s, i, p) ==
  IF ~Exists(s, i) THEN s
  ELSE IF Sleeps(s, i) THEN [s EXCEPT ![i].queue = Append(@, p)]
  ELSE [s EXCEPT ![i].value = @ - 1]

\* ... and scheduler_block_current after it.
scheduler_block_current(s, p) == [s EXCEPT !.blocked = @ \cup {p}]

sem_wait_by_id(s, i, p) ==
  IF Sleeps(s, i) THEN scheduler_block_current(Enlist(s, i, p), p)
  ELSE Enlist(s, i, p)

sem_signal_by_id(s, i) ==
  IF ~Exists(s, i) THEN s
  ELSE IF s[i].queue = <<>> THEN [s EXCEPT ![i].value = @ + 1]
  ELSE [s EXCEPT !.blocked = @ \ {Head(s[i].queue)}, ![i].queue = Tail(@)]

\* The pipe holds the only reference.  Those who wait are forgotten.
sem_close_by_id(s, i) == [s EXCEPT ![i].used = FALSE]

Asleep(p) == p \in sem.blocked

Locked(i) == sem[i].lock # Nobody

InQueue(i, p) == \E j \in DOMAIN sem[i].queue : sem[i].queue[j] = p

-----------------------------------------------------------------------------
(* Processes *)

CanRun(p) == ~hung /\ cpu = Nobody /\ ~Asleep(p)

Go(p, pc) == proc' = [proc EXCEPT ![p].pc = pc]

(***************************************************************************)
(* The shell.  Both of its calls look the pipe up, wait for its mutex and  *)
(* then go on with the slot they found, although the pipe may be gone:     *)
(* the ids of its semaphores are 0 then, and signals to them do nothing.   *)
(***************************************************************************)
ShellRuns(pcs) == ~hung /\ cpu = Nobody /\ shell.pc \in pcs /\ Shell \notin sem.blocked

ShellGoes(pc, p) == shell' = [pc |-> pc, p |-> p]

Unlocked == IF pipe.used THEN sem_signal_by_id(sem, "mutex") ELSE sem

Opened(p) ==
  /\ pipe' = IF p \in Writers THEN [pipe EXCEPT !.writers = @ + 1]
             ELSE [pipe EXCEPT !.readers = @ + 1]
  /\ Go(p, "user") /\ ShellGoes("idle", Nobody)

\* process_create for a process at one end.  A pipe that is gone by then
\* leaves the process with the terminal.
pipe_open_by_id(p) ==
  /\ ShellRuns({"idle"}) /\ proc[p].pc = "new"
  /\ \/ /\ ~pipe.used
        /\ Go(p, "terminal") /\ UNCHANGED <<pipe, sem, shell, hung>>
     \/ /\ pipe.used /\ Locked("mutex")
        /\ hung' = TRUE /\ UNCHANGED <<pipe, sem, proc, shell>>
     \/ /\ pipe.used /\ ~Locked("mutex") /\ Sleeps(sem, "mutex")
        /\ sem' = sem_wait_by_id(sem, "mutex", Shell)
        /\ ShellGoes("opening", p) /\ UNCHANGED <<pipe, proc, hung>>
     \/ /\ pipe.used /\ ~Locked("mutex") /\ ~Sleeps(sem, "mutex")
        /\ Opened(p) /\ UNCHANGED <<sem, hung>>
  /\ UNCHANGED <<cpu, sent, got>>

\* ... and the rest of it, once the shell has been woken with the mutex.
open_resumes ==
  /\ ShellRuns({"opening"})
  /\ IF pipe.used /\ Locked("mutex")
     THEN hung' = TRUE /\ UNCHANGED <<pipe, sem, proc, shell>>
     ELSE Opened(shell.p) /\ sem' = Unlocked /\ UNCHANGED hung
  /\ UNCHANGED <<cpu, sent, got>>

\* The counts after p's end is closed.
Dropped(p) ==
  IF p \in Writers THEN [pipe EXCEPT !.writers = IF @ > 0 THEN @ - 1 ELSE @]
  ELSE [pipe EXCEPT !.readers = IF @ > 0 THEN @ - 1 ELSE @]

\* The slot of a pipe that both sides have left.
Freed(c) == [c EXCEPT !.used = FALSE, !.read_pos = 0, !.write_pos = 0, !.count = 0]

NobodyAtEnds(c) == c.readers = 0 /\ c.writers = 0

AllClosed(s) == sem_close_by_id(sem_close_by_id(sem_close_by_id(s, "items"), "spaces"), "mutex")

\* The shell has closed p's end in one go, and p is FINISHED.
Killed(p, s) ==
  LET c == Dropped(p)
      last == NobodyAtEnds(c)
  IN  /\ pipe' = IF last THEN Freed(c) ELSE c
      /\ sem' = IF last /\ pipe.used THEN AllClosed(s) ELSE s
      /\ proc' = [proc EXCEPT ![p] = [@ EXCEPT
                   !.pc = IF proc[p].pc = "finished" THEN "finished" ELSE "killed",
                   !.todo = IF pipe.used THEN <<>> ELSE proc[p].todo]]
      /\ ShellGoes("done", Nobody)

\* my_kill(left_pid) in execute_pipeline, for a left side without children:
\* the right side has ended, or could not be created.  A process that has
\* freed the pipe itself is only marked FINISHED, wherever it is.
kill(p) ==
  /\ ShellRuns({"idle"}) /\ Writers = {p}
  /\ \A r \in Readers : proc[r].pc \in {"new", "terminal", "finished"}
  /\ proc[p].pc \notin {"new", "terminal", "finished", "killed"}
  /\ \/ /\ ~pipe.used
        /\ Go(p, "killed") /\ ShellGoes("done", Nobody) /\ UNCHANGED <<pipe, sem, hung>>
     \/ /\ pipe.used /\ Locked("mutex")
        /\ hung' = TRUE /\ UNCHANGED <<pipe, sem, proc, shell>>
     \/ /\ pipe.used /\ ~Locked("mutex") /\ Sleeps(sem, "mutex")
        /\ sem' = sem_wait_by_id(sem, "mutex", Shell)
        /\ ShellGoes("killing", p) /\ UNCHANGED <<pipe, proc, hung>>
     \/ /\ pipe.used /\ ~Locked("mutex") /\ ~Sleeps(sem, "mutex")
        /\ Killed(p, sem) /\ UNCHANGED hung
  /\ UNCHANGED <<cpu, sent, got>>

kill_resumes ==
  /\ ShellRuns({"killing"})
  /\ IF pipe.used /\ Locked("mutex")
     THEN hung' = TRUE /\ UNCHANGED <<pipe, sem, proc, shell>>
     ELSE Killed(shell.p, Unlocked) /\ UNCHANGED hung
  /\ UNCHANGED <<cpu, sent, got>>

-----------------------------------------------------------------------------
(* Reading and writing *)

\* syscall_read and syscall_write on the pipe.
call(p, n) ==
  /\ CanRun(p) /\ proc[p].pc = "user"
  /\ proc' = [proc EXCEPT ![p] = [@ EXCEPT !.pc = "loop", !.left = n, !.done = 0]]
  /\ cpu' = p
  /\ UNCHANGED <<shell, pipe, sem, hung, sent, got>>

\* Back to the caller; the locals of the call are gone.
Returns(p) ==
  /\ proc' = [proc EXCEPT ![p] = [@ EXCEPT !.pc = "user", !.left = 0, !.done = 0]]
  /\ cpu' = Nobody

\* sem_wait_by_id(i) in a system call, with what happens next if the process
\* does not sleep, if it does, and if the semaphore is gone.
WaitFor(s, i, p, next, asleep) ==
  /\ sem' = sem_wait_by_id(s, i, p)
  /\ IF ~Exists(s, i) THEN Returns(p)
     ELSE IF Sleeps(s, i) THEN Go(p, asleep) /\ cpu' = Nobody
     ELSE Go(p, next) /\ UNCHANGED cpu

Hangs == hung' = TRUE /\ UNCHANGED <<shell, pipe, sem, proc, cpu, sent, got>>

\* The head of the loops: sem_wait_by_id(p->mutex), 0 in a slot that is free.
enter(p) ==
  /\ ~hung /\ cpu = p /\ proc[p].pc = "loop"
  /\ IF ~pipe.used THEN Returns(p) /\ UNCHANGED <<pipe, sem, shell, hung, sent, got>>
     ELSE IF Locked("mutex") THEN Hangs
     ELSE /\ WaitFor(sem, "mutex", p, "held", "wait_mutex")
          /\ UNCHANGED <<shell, pipe, hung, sent, got>>

\* The process has been woken with the mutex, with an item or with a space.
resume(p) ==
  /\ CanRun(p) /\ proc[p].pc \in {"wait_mutex", "wait_item", "wait_space"}
  /\ Go(p, IF proc[p].pc = "wait_mutex" THEN "held" ELSE "loop")
  /\ cpu' = p
  /\ UNCHANGED <<shell, pipe, sem, hung, sent, got>>

\* A byte was moved: on with the loop, or back to the caller.
Moved(p) ==
  IF proc[p].left = 1 THEN Returns(p)
  ELSE /\ proc' = [proc EXCEPT ![p].pc = "loop", ![p].left = @ - 1, ![p].done = @ + 1]
       /\ UNCHANGED cpu

\* Mutant: an empty pipe counts as the end of the data.
AtEnd_WhenEmpty == pipe.count = 0

AtEnd == pipe.count = 0 /\ pipe.writers = 0

\* Mutant: the position runs past the end of the ring.
Ahead_NoWrap(i) == IF i + 1 > PIPE_BUFFER_SIZE - 1 THEN PIPE_BUFFER_SIZE - 1 ELSE i + 1

Ahead(i) == (i + 1) % PIPE_BUFFER_SIZE

\* The body of pipe_read's loop, with the mutex.
pipe_read(p) ==
  /\ ~hung /\ cpu = p /\ proc[p].pc = "held" /\ p \in Readers
  /\ \/ /\ AtEnd \/ (pipe.count = 0 /\ proc[p].done > 0)
        /\ ~Locked("mutex")
        /\ sem' = Unlocked /\ Returns(p) /\ UNCHANGED <<shell, pipe, hung, sent, got>>
     \/ /\ pipe.count > 0 /\ ~Locked("mutex") /\ ~Locked("spaces")
        /\ got' = pipe.buffer[pipe.read_pos]
        /\ pipe' = [pipe EXCEPT !.read_pos = Ahead(@), !.count = @ - 1]
        /\ sem' = sem_signal_by_id(Unlocked, "spaces")
        /\ Moved(p) /\ UNCHANGED <<shell, hung, sent>>
     \/ /\ pipe.count = 0 /\ ~AtEnd /\ proc[p].done = 0
        /\ ~Locked("mutex") /\ ~Locked("items")
        /\ WaitFor(Unlocked, "items", p, "loop", "wait_item")
        /\ UNCHANGED <<shell, pipe, hung, sent, got>>
     \/ /\ \/ Locked("mutex")
           \/ pipe.count > 0 /\ Locked("spaces")
           \/ pipe.count = 0 /\ ~AtEnd /\ proc[p].done = 0 /\ Locked("items")
        /\ Hangs

\* Mutant: the readers are not told of the byte.
WroteByte_Silent == Unlocked

WroteByte == sem_signal_by_id(Unlocked, "items")

\* The body of pipe_write's loop, with the mutex.
pipe_write(p) ==
  /\ ~hung /\ cpu = p /\ proc[p].pc = "held" /\ p \in Writers
  /\ \/ /\ pipe.readers = 0 /\ ~Locked("mutex")
        /\ sem' = Unlocked /\ Returns(p) /\ UNCHANGED <<shell, pipe, hung, sent, got>>
     \/ /\ pipe.readers > 0 /\ pipe.count < PIPE_BUFFER_SIZE
        /\ ~Locked("mutex") /\ ~Locked("items")
        /\ pipe' = [pipe EXCEPT !.buffer[pipe.write_pos] = sent + 1,
                                !.write_pos = Ahead(@), !.count = @ + 1]
        /\ sent' = sent + 1
        /\ sem' = WroteByte
        /\ Moved(p) /\ UNCHANGED <<shell, hung, got>>
     \/ /\ pipe.readers > 0 /\ pipe.count = PIPE_BUFFER_SIZE
        /\ ~Locked("mutex") /\ ~Locked("spaces")
        /\ WaitFor(Unlocked, "spaces", p, "loop", "wait_space")
        /\ UNCHANGED <<shell, pipe, hung, sent, got>>
     \/ /\ \/ Locked("mutex")
           \/ /\ pipe.readers > 0
              /\ Locked(IF pipe.count < PIPE_BUFFER_SIZE THEN "items" ELSE "spaces")
        /\ Hangs

-----------------------------------------------------------------------------
(* The end of a process: process_close_fds, then FINISHED.  todo holds the   *)
(* calls that pipe_close_by_id has still to make.                            *)

Op(name, i) == [name |-> name, sem |-> i]

exit(p) ==
  /\ CanRun(p) /\ proc[p].pc = "user"
  /\ IF ~pipe.used THEN Go(p, "finished")
     ELSE proc' = [proc EXCEPT ![p] = [@ EXCEPT !.pc = "closing",
                     !.todo = <<Op("wait", "mutex"), Op("count", "mutex")>>]]
  /\ UNCHANGED <<shell, pipe, sem, cpu, hung, sent, got>>

Closing(p) == CanRun(p) /\ proc[p].pc = "closing" /\ proc[p].todo # <<>>

\* Mutant: one reader is woken, however many there are.
WakeReaders_One(c) == <<Op("signal", "items")>>

\* One signal for every reader when the last writer leaves, up to MaxWakes.
WakeReaders(c) ==
  LET n == IF c.readers <= MaxWakes THEN c.readers ELSE MaxWakes
  IN  [i \in 1..n |-> Op("signal", "items")]

\* Mutant: the semaphores outlive the pipe.
CloseAll_Leaks == <<Op("signal", "mutex"), Op("close", "items"), Op("close", "spaces")>>

\* Mutant: the mutex is not given on before it is closed.
CloseAll_KeepsMutex == <<Op("close", "items"), Op("close", "spaces"), Op("close", "mutex")>>

CloseAll == <<Op("signal", "mutex"), Op("close", "items"), Op("close", "spaces"),
              Op("close", "mutex")>>

\* pipe_close_by_id with the mutex.
close_counts(p) ==
  LET c == Dropped(p)
      last_writer == p \in Writers /\ pipe.writers > 0 /\ c.writers = 0
  IN  /\ Closing(p) /\ Head(proc[p].todo).name = "count"
      /\ IF NobodyAtEnds(c)
         THEN /\ pipe' = Freed(c)
              /\ proc' = [proc EXCEPT ![p].todo = CloseAll]
         ELSE /\ pipe' = c
              /\ proc' = [proc EXCEPT ![p].todo =
                            (IF last_writer THEN WakeReaders(c) ELSE <<>>)
                              \o <<Op("signal", "mutex")>>]
      /\ UNCHANGED <<shell, sem, cpu, hung, sent, got>>

\* acquire(&s->lock), spinning with interrupts enabled while it is taken ...
close_locks(p) ==
  /\ Closing(p) /\ Head(proc[p].todo).name \in {"wait", "signal", "close"}
  /\ LET i == Head(proc[p].todo).sem
     IN  ~Locked(i) /\ sem' = [sem EXCEPT ![i].lock = p]
  /\ UNCHANGED <<shell, pipe, proc, cpu, hung, sent, got>>

\* ... and the rest of the semaphore's operation.
close_does(p) ==
  LET op == Head(proc[p].todo)
      s  == CASE op.name = "wait"   -> Enlist(sem, op.sem, p)
              [] op.name = "signal" -> sem_signal_by_id(sem, op.sem)
              [] op.name = "close"  -> sem_close_by_id(sem, op.sem)
      sleeps == op.name = "wait" /\ Sleeps(sem, op.sem)
  IN  /\ Closing(p) /\ op.name \in {"wait", "signal", "close"}
      /\ sem[op.sem].lock = p
      /\ sem' = [s EXCEPT ![op.sem].lock = Nobody]
      /\ proc' = [proc EXCEPT ![p].todo =
                                (IF sleeps THEN <<Op("block", op.sem)>> ELSE <<>>) \o Tail(@),
                              ![p].pc = IF Len(proc[p].todo) = 1 THEN "finished" ELSE @]
      /\ UNCHANGED <<shell, pipe, cpu, hung, sent, got>>

\* The process blocks itself, even if it has been woken meanwhile.
close_blocks(p) ==
  /\ Closing(p) /\ Head(proc[p].todo).name = "block"
  /\ sem' = scheduler_block_current(sem, p)
  /\ proc' = [proc EXCEPT ![p].todo = Tail(@)]
  /\ UNCHANGED <<shell, pipe, cpu, hung, sent, got>>

-----------------------------------------------------------------------------
Semaphore(v) == [used |-> TRUE, value |-> v, queue |-> <<>>, lock |-> Nobody]

\* pipe_create
Init ==
  /\ pipe = [used |-> TRUE, buffer |-> [i \in 0..(PIPE_BUFFER_SIZE - 1) |-> 0],
             read_pos |-> 0, write_pos |-> 0, count |-> 0,
             readers |-> 0, writers |-> 0]
  /\ sem = [items |-> Semaphore(0), spaces |-> Semaphore(PIPE_BUFFER_SIZE),
            mutex |-> Semaphore(1), blocked |-> {}]
  /\ proc = [p \in Process |-> [pc |-> "new", left |-> 0, done |-> 0, todo |-> <<>>]]
  /\ shell = [pc |-> "idle", p |-> Nobody]
  /\ cpu = Nobody /\ hung = FALSE /\ sent = 0 /\ got = 0

Step(p) == resume(p) \/ enter(p) \/ pipe_read(p) \/ pipe_write(p)
             \/ close_counts(p) \/ close_locks(p) \/ close_does(p) \/ close_blocks(p)

ShellStep == open_resumes \/ kill_resumes

Next ==
  \/ \E p \in Process :
       \/ pipe_open_by_id(p)
       \/ kill(p)
       \/ \E n \in 1..MaxChunk : (p \in Writers => sent + n <= MaxBytes) /\ call(p, n)
       \/ exit(p)
       \/ Step(p)
  \/ ShellStep

Spec == Init /\ [][Next]_vars

\* The condition under which Step(p) is enabled: p has the processor, was
\* woken, or is closing and need not spin.
CanStep(p) ==
  \/ ~hung /\ cpu = p
  \/ CanRun(p) /\ proc[p].pc \in {"wait_mutex", "wait_item", "wait_space"}
  \/ /\ Closing(p)
     /\ \/ Head(proc[p].todo).name \in {"count", "block"}
        \/ sem[Head(proc[p].todo).sem].lock \in {Nobody, p}

\* A process that can run is dispatched sooner or later (StarvationFree in
\* KernelProperties); nothing is assumed of the calls it makes.  This is weak
\* fairness of Step(p), written out since TLC is slow with ENABLED.
FairSpec ==
  /\ Spec
  /\ \A p \in Process : <>[]CanStep(p) => []<><<Step(p)>>_vars
  /\ <>[]ShellRuns({"opening", "killing"}) => []<><<ShellStep>>_vars

-----------------------------------------------------------------------------
(* Properties *)

\* The ring delivers the bytes in the order in which pipe_write accepted
\* them, each of them once, whoever reads and writes: the bytes between
\* read_pos and write_pos are the last ones sent, and the last one read is
\* the one before them.
RingIsFifo ==
  LET at(i) == (pipe.read_pos + i) % PIPE_BUFFER_SIZE
  IN  pipe.used =>
        /\ got = sent - pipe.count
        /\ at(pipe.count) = pipe.write_pos
        /\ \A i \in 0..(pipe.count - 1) : pipe.buffer[at(i)] = got + 1 + i

\* A process that was woken, or has the mutex or waits for it, in a call.
OnItsWay(S) ==
  \E p \in S : \/ proc[p].pc \in {"loop", "held", "wait_mutex"}
               \/ proc[p].pc \in {"wait_item", "wait_space"} /\ ~Asleep(p)

\* While there are bytes, the readers are not all asleep on sem_items, and
\* while there is room (and a reader) the writers are not all asleep on
\* sem_spaces, although both counters drift away from the number of bytes.
NobodySleepsForNothing ==
  pipe.used /\ cpu = Nobody =>
    /\ pipe.count > 0 /\ sem.items.queue # <<>> => OnItsWay(Readers)
    /\ /\ pipe.count < PIPE_BUFFER_SIZE /\ pipe.readers > 0
       /\ sem.spaces.queue # <<>>
       => OnItsWay(Writers)

\* A process without an end of the pipe.  One that was killed while it was
\* closing the semaphores itself (todo) never comes to the rest of them.
Gone(p) ==
  \/ proc[p].pc \in {"finished", "terminal"}
  \/ proc[p].pc = "killed" /\ proc[p].todo = <<>>
  \/ proc[p].pc = "new" /\ shell.pc = "done"

\* When both sides of the pipeline are gone, whether they ended or the shell
\* killed the left one wherever it was, the pipe and its semaphores are free.
NothingIsLeaked ==
  (\A p \in Process : Gone(p)) =>
    ~pipe.used /\ \A i \in Sem : ~sem[i].used /\ ~Locked(i)

\* A step in which read returns 0 to p.
ReturnsZero(p) ==
  cpu = p /\ proc[p].done = 0 /\ proc'[p].pc = "user" /\ UNCHANGED pipe

\* read returns 0 only at the end of the data: every byte that was written
\* has been read, and every process that was started at the writers' end has
\* left it for good.  (Not in a slot that is free, see open_resumes.)
EndIsFinal ==
  [][\A r \in Readers : pipe.used /\ ReturnsZero(r) =>
       /\ got = sent
       /\ \A w \in Writers :
            proc[w].pc \in {"new", "terminal", "closing", "finished", "killed"}]_vars

\* A process that was woken between the release of the lock and its block: it
\* sleeps with the mutex, and nobody will wake it.
Stranded == \E p \in Process : Asleep(p) /\ proc[p].pc = "closing" /\ ~InQueue("mutex", p)

\* The shell comes back from every process_create and kill in which it had to
\* sleep, also when the pipe is destroyed in the meantime, unless the kernel
\* hangs or an ending process is stranded with the mutex.
ShellReturns ==
  shell.pc \in {"opening", "killing"}
    ~> (shell.pc \in {"idle", "done"} \/ hung \/ Stranded)

\* Every reader that sleeps when the last writer leaves is woken to see the
\* end of the data (unless the kernel hangs), for a pipe with no more readers
\* than the signals that pipe_close_by_id sends: 100.  It leaves the others
\* asleep.
EndIsSeen ==
  Cardinality(Readers) <= MaxWakes =>
    \A p \in Readers :
      (InQueue("items", p) /\ pipe.writers = 0) ~> (~InQueue("items", p) \/ hung)

=============================================================================
