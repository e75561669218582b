------------------------------- MODULE MCForth -------------------------------
(***************************************************************************)
(* Two interpreters with integers of three bits, stacks that begin with    *)
(* one element and grow by one, two blocks, and a text of five tokens of   *)
(* which three are read.                                                   *)
(***************************************************************************)
EXTENDS ForthProps, TLC

Word(w) == [word |-> w, value |-> 0]
Number(n) == [word |-> "number", value |-> n]

SomePrograms ==
  {<<Number(4), Number(7), Word("/")>>,
   <<Number(1), Number(3)>>,
   <<Number(2), Number(5), Number(1)>>,
   <<Number(2), Word("@")>>,
   <<Number(1), Word("!")>>,
   <<Number(2), Number(3), Word("!")>>,
   <<Number(3), Word("*"), Word("+"), Number(1)>>}

SomeLines == {<<Number(2), Word("="), Word("."), Word("<")>>,
              <<Word(">"), Word("unknown"), Word("/"), Word("CR")>>}

SomeScraps == {End, Number(1), Word("!")}

(* What can still matter: of a block, the elements; of what an interpreter *)
(* has done, only while no one disturbed it; once astray, who reads, since *)
(* the properties say nothing more.                                        *)
Present ==
  IF astray THEN <<state, {i \in Interpreters : AtEnd(i)}>> ELSE
  <<content, cut, state, data, used, lost, alone, stack,
    [i \in Interpreters |-> IF Reads(i) THEN <<ptr[i], size[i], sp[i]>> ELSE <<>>],
    [i \in Interpreters |-> IF alone[i] THEN <<program[i], done[i]>> ELSE <<>>]>>

Alike == Permutations(Interpreters) \union Permutations(Blocks)
===============================================================================
