------------------------------- MODULE UserSem -------------------------------
(***************************************************************************)
(* Userland lib/process/lib_process.c: semaphores by name.  The names and  *)
(* the kernel's ids are two static arrays, and since all processes share   *)
(* one address space all of them use the same arrays.  A function of the   *)
(* library maps the memory u to u; the kernel's semaphores are those of    *)
(* module Semaphore seen from outside: a value, a reference count and the  *)
(* queue of the sleepers.                                                  *)
(***************************************************************************)
EXTENDS Integers, Sequences, FiniteSets

CONSTANTS
  MAX_USER_SEMS,   \* names (8)
  MAX_SEMAPHORES,  \* semaphores of the kernel (64)
  MaxId            \* bound: ids the kernel hands out

NoName == "no name"

Index == 1..MAX_USER_SEMS
Id == 1..MaxId

FreeSemaphore == [used |-> FALSE, value |-> 0, refcount |-> 0, queue |-> <<>>]

NoSemaphores ==
  [user_sem_names |-> [i \in Index |-> NoName], user_sem_ids |-> [i \in Index |-> 0],
   sem |-> [id \in Id |-> FreeSemaphore], next_sem_id |-> 1, asleep |-> {}]

-----------------------------------------------------------------------------
(* The kernel *)

Exists(u, id) == id \in Id /\ u.sem[id].used

Full(u) == Cardinality({id \in Id : u.sem[id].used}) >= MAX_SEMAPHORES

\* sem_alloc returns next_sem_id, or 0 when the table is full.
NewId(u) == IF Full(u) THEN 0 ELSE u.next_sem_id

sem_alloc(u, v) ==
  IF Full(u) THEN u
  ELSE [u EXCEPT !.sem[u.next_sem_id] = [used |-> TRUE, value |-> v, refcount |-> 1,
                                         queue |-> <<>>],
                 !.next_sem_id = @ + 1]

sem_open_by_id(u, id) ==
  IF Exists(u, id) THEN [u EXCEPT !.sem[id].refcount = @ + 1] ELSE u

sem_close_by_id(u, id) ==
  IF ~Exists(u, id) THEN u
  ELSE IF u.sem[id].refcount <= 1 THEN [u EXCEPT !.sem[id] = FreeSemaphore]
  ELSE [u EXCEPT !.sem[id].refcount = @ - 1]

sem_wait_by_id(u, id, p) ==
  IF ~Exists(u, id) THEN u
  ELSE IF u.sem[id].value > 0 THEN [u EXCEPT !.sem[id].value = @ - 1]
  ELSE [u EXCEPT !.sem[id].queue = Append(@, p), !.asleep = @ \cup {p}]

\* Mutant: the process that came last is woken.
sem_signal_by_id_Lifo(u, id) ==
  IF ~Exists(u, id) THEN u
  ELSE IF u.sem[id].queue = <<>> THEN [u EXCEPT !.sem[id].value = @ + 1]
  ELSE LET q == u.sem[id].queue
       IN  [u EXCEPT !.asleep = @ \ {q[Len(q)]}, !.sem[id].queue = SubSeq(q, 1, Len(q) - 1)]

sem_signal_by_id(u, id) ==
  IF ~Exists(u, id) THEN u
  ELSE IF u.sem[id].queue = <<>> THEN [u EXCEPT !.sem[id].value = @ + 1]
  ELSE [u EXCEPT !.asleep = @ \ {Head(u.sem[id].queue)}, !.sem[id].queue = Tail(@)]

-----------------------------------------------------------------------------
(* The library *)

\* find_sem_index and find_free_sem_slot: the first index with that name, or
\* without a name; 0 if there is none.
FirstWith(u, name) ==
  LET S == {i \in Index : u.user_sem_names[i] = name}
  IN  IF S = {} THEN 0 ELSE CHOOSE i \in S : \A j \in S : i <= j

find_sem_index(u, name) == FirstWith(u, name)
find_free_sem_slot(u) == FirstWith(u, NoName)

\* The id behind a name; 0 is no semaphore.
IdOf(u, name) ==
  IF find_sem_index(u, name) = 0 THEN 0 ELSE u.user_sem_ids[find_sem_index(u, name)]

my_sem_wait(u, name, p) == sem_wait_by_id(u, IdOf(u, name), p)
my_sem_post(u, name) == sem_signal_by_id(u, IdOf(u, name))

\* The name is removed whoever else has the semaphore open.
my_sem_close(u, name) ==
  LET i == find_sem_index(u, name)
  IN  IF i = 0 THEN u
      ELSE [sem_close_by_id(u, u.user_sem_ids[i]) EXCEPT
              !.user_sem_names[i] = NoName, !.user_sem_ids[i] = 0]

\* my_sem_open, its two assignments to the arrays apart.
Named(u, i, name) == [u EXCEPT !.user_sem_names[i] = name]
Numbered(u, i, id) == [u EXCEPT !.user_sem_ids[i] = id]

my_sem_open(u, name, v) ==
  LET i    == find_sem_index(u, name)
      slot == find_free_sem_slot(u)
  IN  IF i # 0 THEN sem_open_by_id(u, u.user_sem_ids[i])
      ELSE IF slot = 0 \/ Full(u) THEN u
      ELSE Numbered(Named(sem_alloc(u, v), slot, name), slot, NewId(u))

=============================================================================
