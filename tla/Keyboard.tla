------------------------------ MODULE Keyboard ------------------------------
(***************************************************************************)
(* Kernel/drivers/keyBoardDriver.c: the buffer between the interrupt       *)
(* handler and the readers, and the semaphore that announces its bytes.    *)
(* The ring (readIndex, writeIndex, size) is abstracted to the sequence of *)
(* bytes it holds.                                                         *)
(***************************************************************************)
EXTENDS Semaphore

buffer_full(k) == Len(k.buffer) = BUFFER_SIZE

buffer_empty(k) == k.buffer = <<>>

buffer_push(k, c) == [k EXCEPT !.buffer = Append(@, c)]

buffer_pop(k) == [k EXCEPT !.buffer = Tail(@)]

\* buffer_clear, then sem_set_by_id(kbd_sem_id, 0), which wakes nobody.
keyboard_clear_buffer(k) ==
  LET cleared == [k EXCEPT !.buffer = <<>>]
  IN  IF sem_get_by_id(k, kbd_sem_id)
      THEN sem_set_by_id(cleared, kbd_sem_id, 0) ELSE cleared

\* Mutant: only the first byte in the buffer is announced.
KeyArrives_FirstOnly(k, c) ==
  IF buffer_full(k) THEN k
  ELSE IF sem_get_by_id(k, kbd_sem_id) /\ buffer_empty(k)
  THEN sem_signal_by_id(buffer_push(k, c), kbd_sem_id)
  ELSE buffer_push(k, c)

\* The handler's branch for a byte c: a byte that does not fit is dropped,
\* and is not announced.
KeyArrives(k, c) ==
  IF buffer_full(k) THEN k
  ELSE IF sem_get_by_id(k, kbd_sem_id)
  THEN sem_signal_by_id(buffer_push(k, c), kbd_sem_id)
  ELSE buffer_push(k, c)

=============================================================================
