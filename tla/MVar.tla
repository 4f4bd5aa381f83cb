--------------------------------- MODULE MVar ---------------------------------
(***************************************************************************)
(* The command `mvar': Userland shell/commands_pipe.c (mvarCmd) and        *)
(* shell/process_wrappers.c (mvar_writer_entry, mvar_reader_entry).  The   *)
(* shell opens three semaphores by name and creates a pipe and the         *)
(* processes.  A writer puts its letter into the pipe when it gets the     *)
(* slot, a reader shows it when it gets the item.                          *)
(*                                                                         *)
(* A system call is one step.  The pipe is what module Pipe implements: a  *)
(* queue of bytes whose readers sleep while it is empty and has writers.   *)
(***************************************************************************)
EXTENDS UserSem

CONSTANTS
  num_writers, num_readers,   \* the arguments of the command
  PIPE_BUFFER_SIZE            \* bytes the pipe holds

ASSUME MVarAssumption ==
  /\ num_writers \in Nat /\ num_readers \in Nat /\ PIPE_BUFFER_SIZE \in Nat \ {0}
  /\ MAX_USER_SEMS \in Nat /\ MAX_USER_SEMS >= 3
  /\ MAX_SEMAPHORES \in Nat /\ MAX_SEMAPHORES >= 3 /\ MaxId \in Nat

Writers == 1..num_writers
Readers == num_writers + 1..num_writers + num_readers
Process == Writers \cup Readers

VARIABLES
  shell,   \* what mvarCmd does: "idle", "creating" or "done"
  u,       \* the semaphores
  pipe,    \* its bytes, and whether it has ever been opened by a reader and
           \* by a writer: it is never closed
  proc,    \* where each process is, and whether its last transfer was made
  shown    \* the letter shown last, and the reader that showed it

vars == <<shell, u, pipe, proc, shown>>

At(p, pc) == proc[p].pc = pc /\ p \notin u.asleep
Go(p, pc) == proc' = [proc EXCEPT ![p].pc = pc]

-----------------------------------------------------------------------------
(* mvarCmd *)

\* Mutant: the items semaphore starts with a token.
OpenAll_ItemsAtOne(m) ==
  my_sem_open(my_sem_open(my_sem_open(m, "slots", 1), "items", 1), "mutex", 1)

OpenAll(m) ==
  my_sem_open(my_sem_open(my_sem_open(m, "slots", 1), "items", 0), "mutex", 1)

CloseAll(m) ==
  my_sem_close(my_sem_close(my_sem_close(m, "slots"), "items"), "mutex")

mvarCmd ==
  /\ shell = "idle" /\ u.next_sem_id + 2 <= MaxId
  /\ u' = OpenAll(u)
  /\ shell' = "creating" /\ UNCHANGED <<pipe, proc, shown>>

\* pipe_create returns 0: the semaphores are closed.
pipe_create_fails ==
  /\ shell = "idle" /\ u.next_sem_id + 2 <= MaxId
  /\ u' = CloseAll(OpenAll(u))
  /\ UNCHANGED <<shell, pipe, proc, shown>>

\* The processes are created in order, the writers first.  One for which
\* there is no memory is left out.
MayCreate(p) ==
  /\ shell = "creating" /\ proc[p].pc = "none"
  /\ \A q \in Process : q < p => proc[q].pc # "none"

create(p) == MayCreate(p) /\ Go(p, "open") /\ UNCHANGED <<shell, u, pipe, shown>>

skip(p) == MayCreate(p) /\ Go(p, "absent") /\ UNCHANGED <<shell, u, pipe, shown>>

all_created ==
  /\ shell = "creating" /\ \A p \in Process : proc[p].pc # "none"
  /\ shell' = "done" /\ UNCHANGED <<u, pipe, proc, shown>>

-----------------------------------------------------------------------------
(* mvar_writer_entry and mvar_reader_entry: the same steps with the roles of *)
(* the two semaphores exchanged                                              *)

Own(p)   == IF p \in Writers THEN "slots" ELSE "items"
Other(p) == IF p \in Writers THEN "items" ELSE "slots"

Opened(as_writer) ==
  IF as_writer THEN [pipe EXCEPT !.writers = TRUE] ELSE [pipe EXCEPT !.readers = TRUE]

\* pipe_open passes the id alone; the kernel takes the role from a register
\* that holds anything.
pipe_open(p) ==
  /\ At(p, "open")
  /\ \E as_writer \in BOOLEAN : pipe' = Opened(as_writer)
  /\ Go(p, "dup") /\ UNCHANGED <<shell, u, shown>>

pipe_dup(p) ==
  /\ At(p, "dup")
  /\ pipe' = Opened(p \in Writers)
  /\ Go(p, "loop") /\ UNCHANGED <<shell, u, shown>>

waits_own(p) ==
  /\ At(p, "loop")
  /\ u' = my_sem_wait(u, Own(p), p)
  /\ Go(p, "mutex") /\ UNCHANGED <<shell, pipe, shown>>

waits_mutex(p) ==
  /\ At(p, "mutex")
  /\ u' = my_sem_wait(u, "mutex", p)
  /\ Go(p, "transfer") /\ UNCHANGED <<shell, pipe, shown>>

\* sys_write of one byte: 0 without readers; it sleeps while the pipe is full.
writes(w) ==
  /\ At(w, "transfer") /\ w \in Writers
  /\ ~pipe.readers \/ Len(pipe.bytes) < PIPE_BUFFER_SIZE
  /\ IF ~pipe.readers THEN UNCHANGED pipe
     ELSE pipe' = [pipe EXCEPT !.bytes = Append(@, w)]
  /\ proc' = [proc EXCEPT ![w] = [pc |-> "post", ok |-> pipe.readers]]
  /\ UNCHANGED <<shell, u, shown>>

\* sys_read of one byte: 0 without bytes and writers; it sleeps while there
\* are writers but no bytes.
reads(r) ==
  /\ At(r, "transfer") /\ r \in Readers
  /\ pipe.bytes # <<>> \/ ~pipe.writers
  /\ IF pipe.bytes = <<>> THEN UNCHANGED <<pipe, shown>>
     ELSE /\ pipe' = [pipe EXCEPT !.bytes = Tail(@)]
          /\ shown' = [letter |-> Head(pipe.bytes), by |-> r]
  /\ proc' = [proc EXCEPT ![r] = [pc |-> "post", ok |-> pipe.bytes # <<>>]]
  /\ UNCHANGED <<shell, u>>

posts_mutex(p) ==
  /\ At(p, "post")
  /\ u' = my_sem_post(u, "mutex")
  /\ Go(p, "pass") /\ UNCHANGED <<shell, pipe, shown>>

\* Mutant: the result of the transfer is ignored.
Passed_Unchecked(p, ok) == Other(p)

\* The token goes to the other side, or back if nothing was transferred.
Passed(p, ok) == IF ok THEN Other(p) ELSE Own(p)

posts_token(p) ==
  /\ At(p, "pass")
  /\ u' = my_sem_post(u, Passed(p, proc[p].ok))
  /\ Go(p, "loop") /\ UNCHANGED <<shell, pipe, shown>>

-----------------------------------------------------------------------------
Nobody == 0

Init ==
  /\ shell = "idle" /\ u = NoSemaphores
  /\ pipe = [bytes |-> <<>>, readers |-> FALSE, writers |-> FALSE]
  /\ proc = [p \in Process |-> [pc |-> "none", ok |-> FALSE]]
  /\ shown = [letter |-> Nobody, by |-> Nobody]

Step(p) ==
  \/ pipe_open(p) \/ pipe_dup(p) \/ waits_own(p) \/ waits_mutex(p)
  \/ writes(p) \/ reads(p) \/ posts_mutex(p) \/ posts_token(p)

Next ==
  \/ mvarCmd \/ pipe_create_fails \/ all_created
  \/ \E p \in Process : create(p) \/ skip(p) \/ Step(p)

Spec == Init /\ [][Next]_vars

\* A process that can go on does so: the scheduler is free of starvation.
\* Nothing is assumed of the shell.
FairSpec == Spec /\ \A p \in Process : WF_vars(Step(p))

-----------------------------------------------------------------------------
Value(name) == IF IdOf(u, name) = 0 THEN 0 ELSE u.sem[IdOf(u, name)].value

\* Processes that have taken the token of their own semaphore and not passed
\* it on: whoever sleeps before the mutex has not got it yet.
Holding ==
  {p \in Process : \/ proc[p].pc \in {"transfer", "post", "pass"}
                   \/ At(p, "mutex")}

\* The token a process holds stands for a value in the pipe.
WithItem ==
  {p \in Holding : IF proc[p].pc \in {"post", "pass"}
                   THEN Passed(p, proc[p].ok) = "items" ELSE p \in Readers}

\* An MVar is empty or holds one value.  The slots and the items semaphore
\* share one token, which somebody may be holding, and the pipe has a byte
\* exactly while that token is on the items' side (the posts at the end of
\* the loops, whether the transfer was made or not).
OneValueAtMost ==
  shell # "idle" =>
    /\ Value("slots") + Value("items") + Cardinality(Holding) = 1
    /\ Len(pipe.bytes) = Value("items") + Cardinality(WithItem)

\* Nobody goes to sleep inside the pipe with the mutex in hand, which would
\* stop all the others: a reader in sys_read finds a byte, a writer in
\* sys_write finds room.
NobodySleepsInThePipe ==
  \A p \in Process : At(p, "transfer") =>
    IF p \in Readers THEN pipe.bytes # <<>> \/ ~pipe.writers
    ELSE ~pipe.readers \/ Len(pipe.bytes) < PIPE_BUFFER_SIZE

Running(p) == proc[p].pc \notin {"none", "absent", "open", "dup"}

\* As soon as there is a reader, the letter of every writer is shown again
\* and again, and every reader takes its turn as soon as there is a writer:
\* the semaphores serve their waiters in order.
EveryoneTakesPart ==
  /\ \A w \in Writers :
       (Running(w) /\ \E r \in Readers : Running(r)) ~> (shown.letter = w)
  /\ \A r \in Readers :
       (Running(r) /\ \E w \in Writers : Running(w)) ~> (shown.by = r)

=============================================================================
