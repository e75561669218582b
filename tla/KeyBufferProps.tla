--------------------------- MODULE KeyBufferProps ---------------------------
(***************************************************************************)
(* The ring of scan codes is a bounded queue.                              *)
(***************************************************************************)
EXTENDS KeyBuffer, Sequences

(* The types of the ring's variables.                                      *)
BufferTypeOK ==
  /\ kbd_buffer \in [Slots -> Codes \union {Zero}]
  /\ kbd_head \in Slots
  /\ kbd_tail \in Slots
  /\ code \in Codes \union {Zero}

Waiting == (kbd_head - kbd_tail) % Size

(* The codes that wait, oldest first.                                      *)
Queue == [i \in 1 .. Waiting |-> kbd_buffer[(kbd_tail + i - 1) % Size]]

Q == INSTANCE KeyQueue WITH Capacity <- Size - 1, queue <- Queue, taken <- code

(* The ring implements a queue for Size - 1 codes: none is lost before it  *)
(* holds that many, none comes twice, and none overtakes another, wherever *)
(* head and tail wrap (keyboard.c 30-36, 46-47).                           *)
ImplementsQueue == Q!Spec

=============================================================================
