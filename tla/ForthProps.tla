------------------------------ MODULE ForthProps ------------------------------
(***************************************************************************)
(* What the interpreters keep, whether or not the heap has blocks for them.*)
(***************************************************************************)
EXTENDS Forth

running == {i \in Interpreters : state[i] = "run"}

(* An interpreter that runs has this stack.                                *)
stack == [i \in Interpreters |-> IF i \in running THEN Elements(i) ELSE <<>>]

Machine == INSTANCE StackMachine

(* Every word acts on its interpreter's stack as on one without an end:    *)
(* growing moves all elements (forth.c 41-60), numbers wrap, an empty      *)
(* stack gives zeros, and the other's stack stays, but for one element     *)
(* that a "!" hits (forth.c 121-126); unless two have address 0 in common, *)
(* or a struct Stack or the kernel has been written over.                  *)
ImplementsMachine == Machine!MachineSpec

(* A block belongs to one interpreter, each holds one at most, its last,   *)
(* and never writes behind its end, until something goes astray.  So       *)
(* growing gives the old block back (forth.c 54), and what an interpreter  *)
(* keeps for ever is that one.                                             *)
BlocksHeld ==
  ~astray =>
  /\ used = {data[i] : i \in Interpreters} \ {NULL}
  /\ \A i, j \in Interpreters : i # j /\ data[i] = data[j] => data[i] = NULL
  /\ \A i \in Interpreters : state[i] = "run" => sp[i] < size[i]

(* An interpreter that the forth command started carries out its own       *)
(* program, all of it, if the file ends in what the command reads of it,   *)
(* and content is not written, nor read by another interpreter, of the     *)
(* command, the start or a crash, before it ends; whatever was in content  *)
(* before (manual_x86.c 144, forth.c 176-207).                             *)
OwnProgram ==
  ~astray => \A i \in Interpreters :
    state[i] = "ended" /\ alone[i] /\ Len(program[i]) < Chunk =>
      done[i] = program[i]
=============================================================================
