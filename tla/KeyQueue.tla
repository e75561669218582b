------------------------------ MODULE KeyQueue ------------------------------
(***************************************************************************)
(* What the keyboard buffer promises: codes come out in the order they     *)
(* went in, each once, and a code is lost only when Capacity of them wait. *)
(* Console uses the buffer through this promise.                           *)
(***************************************************************************)
EXTENDS Sequences, Integers

CONSTANTS Capacity, Codes, Zero

VARIABLES queue, taken  (* the codes that wait, and the one taken last     *)

Init == queue = <<>> /\ taken = Zero

Full == Len(queue) = Capacity

Put(code) ==
  /\ queue' = IF Full THEN queue ELSE Append(queue, code)
  /\ UNCHANGED taken

Get ==
  \/ /\ queue # <<>>
     /\ taken' = Head(queue)
     /\ queue' = Tail(queue)
  \/ /\ queue = <<>>
     /\ taken' = Zero
     /\ UNCHANGED queue

Next == (\E code \in Codes : Put(code)) \/ Get

Spec == Init /\ [][Next]_<<queue, taken>>

=============================================================================
