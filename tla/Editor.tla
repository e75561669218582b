------------------------------- MODULE Editor -------------------------------
(***************************************************************************)
(* The editor of the touch command (drivers/keyboard/multiline.c), which   *)
(* takes codes from the ring, the file it makes of what was typed, and     *)
(* what the assembler makes of such a text.                                *)
(*                                                                         *)
(* A key that types stands for the piece of text it types.                 *)
(***************************************************************************)
EXTENDS KeyBuffer, Casm

CONSTANTS
  Pieces,      (* the pieces there are keys for                            *)
  TextEnd      (* pieces that fit in the text (255)                        *)

NUL == "NUL"          (* '\0'                                           *)

OtherKeys == {"enter", "back", "shift", "unshift", "esc", "break"}

ASSUME EditorAssumption ==
  /\ TextEnd \in Nat
  /\ Codes = Pieces \union OtherKeys
  /\ Pieces \intersect (OtherKeys \union {NUL}) = {}

VARIABLES
  file_buffer, i, shift_pressed,
  pc,          (* "edit" until Escape, then "saved"                        *)
  meant,       (* history: the text of the keys that were struck, whether  *)
               (* Shift is held, and whether Escape was struck             *)
  dropped      (* history: whether the ring was full for a key             *)

typed == <<file_buffer, i, shift_pressed, pc>>
editorVars == <<bufferVars, typed, meant, dropped>>

(* With Shift a key types another piece, which casm does not know.         *)
Typed(piece, shift) == IF shift THEN "other" ELSE piece

EditorInit ==
  /\ BufferInit
  /\ file_buffer = [k \in 1 .. TextEnd + 1 |-> NUL] /\ i = 0
  /\ shift_pressed = FALSE /\ pc = "edit"
  /\ meant = [text |-> <<>>, shift |-> FALSE, over |-> FALSE]
  /\ dropped = FALSE

(***************************************************************************)
(* What a person at the keyboard means: Enter, Escape, backspace and Shift *)
(* as everywhere, and a text that is full takes no more.  Shift is the     *)
(* last press or release of either Shift key since the editor began: one   *)
(* that was held before, or is still held when the other is released, does *)
(* not count, here as in the code (multiline.c 24, 34-42).                 *)
(***************************************************************************)
Meaning(m, key) ==
  IF m.over THEN m
  ELSE CASE key = "shift" -> [m EXCEPT !.shift = TRUE]
         [] key = "unshift" -> [m EXCEPT !.shift = FALSE]
         [] key = "esc" -> [m EXCEPT !.over = TRUE]
         [] key = "back" /\ m.text # <<>> -> [m EXCEPT !.text = Front(@)]
         [] key \in Pieces \union {"enter"} /\ Len(m.text) < TextEnd ->
              [m EXCEPT !.text = Append(@, IF key = "enter" THEN "\n"
                                           ELSE Typed(key, m.shift))]
         [] OTHER -> m

(* The keyboard's interrupt.                                               *)
Strike(key) ==
  /\ Put(key)
  /\ meant' = Meaning(meant, key)
  /\ dropped' = (dropped \/ IsFull)
  /\ UNCHANGED typed

(***************************************************************************)
(* input_wait_multiline: one turn of its loop.                             *)
(***************************************************************************)
Enter(letter) ==
  IF i < TextEnd
  THEN /\ file_buffer' = [file_buffer EXCEPT ![i + 1] = letter]
       /\ i' = i + 1
  ELSE UNCHANGED <<file_buffer, i>>

(* Mutated: Escape does not end the text.                                  *)
HeedUnended(key) ==
  \/ /\ key \in {Zero, "break"}
     /\ UNCHANGED typed
  \/ /\ key \in {"shift", "unshift"}
     /\ shift_pressed' = (key = "shift")
     /\ UNCHANGED <<file_buffer, i, pc>>
  \/ /\ key = "esc"
     /\ pc' = "saved"
     /\ UNCHANGED <<file_buffer, i, shift_pressed>>
  \/ /\ key = "enter"
     /\ Enter("\n")
     /\ UNCHANGED <<shift_pressed, pc>>
  \/ /\ key = "back"
     /\ i' = IF i > 0 THEN i - 1 ELSE i
     /\ UNCHANGED <<file_buffer, shift_pressed, pc>>
  \/ /\ key \in Pieces
     /\ Enter(Typed(key, shift_pressed))
     /\ UNCHANGED <<shift_pressed, pc>>

Heed(key) ==
  \/ /\ key \in {Zero, "break"}
     /\ UNCHANGED typed
  \/ /\ key \in {"shift", "unshift"}
     /\ shift_pressed' = (key = "shift")
     /\ UNCHANGED <<file_buffer, i, pc>>
  \/ /\ key = "esc"
     /\ file_buffer' = [file_buffer EXCEPT ![i + 1] = NUL]
     /\ pc' = "saved"
     /\ UNCHANGED <<i, shift_pressed>>
  \/ /\ key = "enter"
     /\ Enter("\n")
     /\ UNCHANGED <<shift_pressed, pc>>
  \/ /\ key = "back"
     /\ i' = IF i > 0 THEN i - 1 ELSE i
     /\ UNCHANGED <<file_buffer, shift_pressed, pc>>
  \/ /\ key \in Pieces
     /\ Enter(Typed(key, shift_pressed))
     /\ UNCHANGED <<shift_pressed, pc>>

Turn ==
  /\ pc = "edit"
  /\ Get
  /\ Heed(code')
  /\ UNCHANGED <<meant, dropped>>

(* What touch saves: the buffer up to its first '\0'.                      *)
Saved ==
  LET ends == {k \in DOMAIN file_buffer : file_buffer[k] = NUL}
      end == CHOOSE k \in ends : \A j \in ends : k <= j
  IN  SubSeq(file_buffer, 1, end - 1)

EditorNext == (\E key \in Codes : Strike(key)) \/ Turn

EditorSpec == EditorInit /\ [][EditorNext]_editorVars
=============================================================================
