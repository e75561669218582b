----------------------------- MODULE EditorProps -----------------------------
(***************************************************************************)
(* What is typed is what is saved, and what the assembler makes of a text  *)
(* such as the editor saves.                                               *)
(***************************************************************************)
EXTENDS Editor, KeyBufferProps

(* The file that touch makes has the text that was meant when the keys     *)
(* were struck, however far the editor was behind: each key with the Shift *)
(* of its time, nothing of what was taken back (multiline.c 56-141,        *)
(* manual_x86.c 108-113); unless the ring dropped a key.                   *)
TypedText == pc = "saved" /\ ~dropped => Saved = meant.text

(* The assembler gives, for each line of a saved text in turn, its         *)
(* instruction, and nothing else: a line without an end, an empty one, one *)
(* too long and a program too long included (casm.c 15-125).  Whether casm *)
(* gets a saved text to assemble is a question for FilesProps.             *)
AssembledByLines == pc = "saved" => assemble_to_bin(Saved) = ByLines(Saved)
=============================================================================
