---------------------------- MODULE StackMachine ----------------------------
(***************************************************************************)
(* What the interpreters promise: a word acts on a stack without an end,   *)
(* and no word acts on the stack of another, but for "!", which may change *)
(* one element of one stack to the value it pops.  Of an interpreter that  *)
(* has lost its memory nothing is promised.                                *)
(***************************************************************************)
EXTENDS Words

CONSTANTS Interpreters, Tokens

VARIABLES
  stack,
  done,      (* the tokens that each has carried out                       *)
  running,   (* the interpreters that run                                  *)
  lost       (* those that have lost their memory                          *)

MachineInit ==
  /\ stack = [i \in Interpreters |-> <<>>] /\ done = stack
  /\ running = {} /\ lost = {}

Starts(i) ==
  /\ i \notin running /\ running' = running \union {i}
  /\ stack'[i] = <<>> /\ done'[i] = done[i]

CarriesOut(i) ==
  /\ i \in running /\ running' = running
  /\ \E t \in Tokens :
       done'[i] = Append(done[i], t) /\ stack'[i] \in Results(stack[i], t)

Ends(i) ==
  /\ running' = running \ {i} /\ stack'[i] = <<>> /\ done'[i] = done[i]

(* An element of j's stack is written over.                                *)
StoresIn(i, j) ==
  LET s == IF j = i THEN Below(stack[i], 2) ELSE stack[j]
  IN  /\ i \in running /\ running' = running
      /\ \E t \in Tokens : t.word = "!" /\ done'[i] = Append(done[i], t)
      /\ j # i => stack'[i] = Below(stack[i], 2) /\ done'[j] = done[j]
      /\ \E k \in DOMAIN s : stack'[j] = [s EXCEPT ![k] = Top(stack[i], 2)]

Keeps(Others) ==
  \A j \in Others :
    /\ stack'[j] = stack[j] /\ done'[j] = done[j]
    /\ j \in running' <=> j \in running

Acts(i) ==
  /\ lost \subseteq lost'
  /\ \/ /\ Keeps(Interpreters \ (lost' \union {i}))
        /\ i \in lost' \/ Starts(i) \/ CarriesOut(i) \/ Ends(i)
     \/ \E j \in Interpreters :
          StoresIn(i, j) /\ Keeps(Interpreters \ (lost' \union {i, j}))

MachineSpec ==
  MachineInit /\ [][\E i \in Interpreters : Acts(i)]_<<stack, done, running, lost>>
=============================================================================
