------------------------------ MODULE KeyBuffer ------------------------------
(***************************************************************************)
(* The ring of scan codes between the keyboard interrupt, which puts them, *)
(* and get_scancode (drivers/keyboard/keyboard.c 26-51).  The interrupt    *)
(* handler runs with interrupts off and get_scancode turns them off, so    *)
(* each is one step.                                                       *)
(***************************************************************************)
EXTENDS Integers

CONSTANTS
  Size,    (* KBD_BUFFER_SIZE                                              *)
  Codes,   (* the codes a keyboard sends                                   *)
  Zero     (* no code: what the ring is full of at first, and what         *)
           (* get_scancode returns when no code waits                      *)

ASSUME BufferAssumption == Size \in Nat /\ Size >= 2 /\ Zero \notin Codes

VARIABLES kbd_buffer, kbd_head, kbd_tail,
          code     (* what get_scancode returned last                      *)

bufferVars == <<kbd_buffer, kbd_head, kbd_tail, code>>

Slots == 0 .. Size - 1

BufferInit ==
  /\ kbd_buffer = [i \in Slots |-> Zero]
  /\ kbd_head = 0
  /\ kbd_tail = 0
  /\ code = Zero

Following(i) == (i + 1) % Size

IsFull == Following(kbd_head) = kbd_tail
IsEmpty == kbd_head = kbd_tail

(* Mutant: the put does not look whether the ring is full.                 *)
PutUnchecked(c) ==
  /\ kbd_buffer' = [kbd_buffer EXCEPT ![kbd_head] = c]
  /\ kbd_head' = Following(kbd_head)
  /\ UNCHANGED <<kbd_tail, code>>

(* kbd_put_scancode: a code that finds the ring full is dropped.           *)
Put(c) ==
  /\ IF IsFull
     THEN UNCHANGED <<kbd_buffer, kbd_head>>
     ELSE /\ kbd_buffer' = [kbd_buffer EXCEPT ![kbd_head] = c]
          /\ kbd_head' = Following(kbd_head)
  /\ UNCHANGED <<kbd_tail, code>>

(* get_scancode                                                            *)
Get ==
  /\ IF IsEmpty
     THEN code' = Zero /\ UNCHANGED kbd_tail
     ELSE code' = kbd_buffer[kbd_tail] /\ kbd_tail' = Following(kbd_tail)
  /\ UNCHANGED <<kbd_buffer, kbd_head>>

BufferNext == (\E c \in Codes : Put(c)) \/ Get

BufferSpec == BufferInit /\ [][BufferNext]_bufferVars

=============================================================================
