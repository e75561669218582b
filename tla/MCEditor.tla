------------------------------ MODULE MCEditor ------------------------------
(***************************************************************************)
(* Four keys that type, a ring for two codes, texts of at most three     *)
(* pieces, lines of at most two and programs of at most three bytes.       *)
(***************************************************************************)
EXTENDS EditorProps

SomePieces == {"int ", "cli", "3", ";"}
SomeCodes ==
  SomePieces \union {"enter", "back", "shift", "unshift", "esc", "break"}

(* A run ends when the text is saved or the ring drops a key; what was in  *)
(* the ring before is not looked at.                                       *)
Going == pc = "edit" /\ ~dropped

Present == <<Queue, kbd_tail, typed, meant, dropped>>
=============================================================================
