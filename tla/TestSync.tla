------------------------------ MODULE TestSync ------------------------------
(***************************************************************************)
(* Userland tests/test_sync.c: processes that add 1 to and subtract 1 from *)
(* a shared variable, one after the other if they use a semaphore.  The    *)
(* timer may preempt user code anywhere, so every access to shared memory  *)
(* is a step; a call of wait, post or close is one step as well, which     *)
(* only leaves out behaviours.                                             *)
(***************************************************************************)
EXTENDS UserSem

CONSTANTS
  Process,   \* the processes that test_sync creates
  Inc,       \* those that add, the others subtract
  Repeat     \* argument: how often each process does it

VARIABLES
  u,         \* semaphores
  global,    \* the shared variable
  proc,      \* what each process does
  parent     \* the process that runs test_sync: creating, waiting or done

vars == <<u, global, proc, parent>>

SEM_ID == "sem"

At(p, pc) == proc[p].pc = pc /\ p \notin u.asleep
Go(p, pc) == proc' = [proc EXCEPT ![p].pc = pc]

\* test_sync: the processes are created one by one ...
create(p) ==
  /\ parent = "creating" /\ proc[p].pc = "none"
  /\ Go(p, "find") /\ UNCHANGED <<u, global, parent>>

\* ... waited for, and the result is printed.
waits ==
  /\ parent = "creating" /\ \A p \in Process : proc[p].pc # "none"
  /\ parent' = "waiting" /\ UNCHANGED <<u, global, proc>>

prints ==
  /\ parent = "waiting" /\ \A p \in Process : proc[p].pc = "finished"
  /\ parent' = "done" /\ UNCHANGED <<u, global, proc>>

-----------------------------------------------------------------------------
(* my_process_inc: my_sem_open, step by step *)

open_finds(p) ==
  /\ At(p, "find")
  /\ LET i == find_sem_index(u, SEM_ID)
     IN  IF i # 0 THEN proc' = [proc EXCEPT ![p].pc = "open", ![p].index = i]
         ELSE proc' = [proc EXCEPT ![p].index = find_free_sem_slot(u),
                                   ![p].pc = IF find_free_sem_slot(u) = 0
                                             THEN "finished" ELSE "create"]
  /\ UNCHANGED <<u, global, parent>>

opens(p) ==
  /\ At(p, "open")
  /\ u' = sem_open_by_id(u, u.user_sem_ids[proc[p].index])
  /\ Go(p, "loop") /\ UNCHANGED <<global, parent>>

creates(p) ==
  /\ At(p, "create")
  /\ u' = sem_alloc(u, 1)
  /\ proc' = [proc EXCEPT ![p].id = NewId(u),
                          ![p].pc = IF Full(u) THEN "finished" ELSE "name"]
  /\ UNCHANGED <<global, parent>>

names(p) ==
  /\ At(p, "name")
  /\ u' = Named(u, proc[p].index, SEM_ID)
  /\ Go(p, "number") /\ UNCHANGED <<global, parent>>

numbers(p) ==
  /\ At(p, "number")
  /\ u' = Numbered(u, proc[p].index, proc[p].id)
  /\ Go(p, "loop") /\ UNCHANGED <<global, parent>>

-----------------------------------------------------------------------------
(* The loop, with slowInc in the middle *)

sem_waits(p) ==
  /\ At(p, "loop") /\ proc[p].left > 0
  /\ u' = my_sem_wait(u, SEM_ID, p)
  /\ Go(p, "load") /\ UNCHANGED <<global, parent>>

loads(p) ==
  /\ At(p, "load")
  /\ proc' = [proc EXCEPT ![p].aux = global, ![p].pc = "store"]
  /\ UNCHANGED <<u, global, parent>>

stores(p) ==
  /\ At(p, "store")
  /\ global' = proc[p].aux + (IF p \in Inc THEN 1 ELSE -1)
  /\ Go(p, "post") /\ UNCHANGED <<u, parent>>

posts(p) ==
  /\ At(p, "post")
  /\ u' = my_sem_post(u, SEM_ID)
  /\ proc' = [proc EXCEPT ![p].pc = "loop", ![p].left = @ - 1]
  /\ UNCHANGED <<global, parent>>

closes(p) ==
  /\ At(p, "loop") /\ proc[p].left = 0
  /\ u' = my_sem_close(u, SEM_ID)
  /\ Go(p, "finished") /\ UNCHANGED <<global, parent>>

-----------------------------------------------------------------------------
Init ==
  /\ u = NoSemaphores /\ global = 0 /\ parent = "creating"
  /\ proc = [p \in Process |-> [pc |-> "none", index |-> 0, id |-> 0, aux |-> 0,
                                left |-> Repeat]]

Step(p) ==
  \/ open_finds(p) \/ opens(p) \/ creates(p) \/ names(p) \/ numbers(p)
  \/ sem_waits(p) \/ loads(p) \/ stores(p) \/ posts(p) \/ closes(p)

Next == waits \/ prints \/ \E p \in Process : create(p) \/ Step(p)

Spec == Init /\ [][Next]_vars

\* README.md says of test_synchro that its final result must always be 0.
ResultIsZero == parent = "done" => global = 0

=============================================================================
