------------------------------- MODULE Words -------------------------------
(***************************************************************************)
(* The words of usr/forth/forth.c as they act on a stack, which is a       *)
(* sequence with its top at the end.                                       *)
(***************************************************************************)
EXTENDS Integers, Sequences

CONSTANT Half     (* half the number of integers: 2^31                     *)

Ints == -Half .. Half - 1
Wrap(n) == ((n + Half) % (2 * Half)) - Half

Truth(b) == IF b THEN -1 ELSE 0

(* The quotient, rounded towards zero.                                     *)
Magnitude(n) == IF n < 0 THEN -n ELSE n
Quotient(a, b) ==
  IF b = 0 THEN 0
  ELSE LET q == Magnitude(a) \div Magnitude(b)
       IN  IF (a < 0) = (b < 0) THEN q ELSE -q

Binary(word, a, b) ==
  CASE word = "+" -> Wrap(a + b)
    [] word = "-" -> Wrap(a - b)
    [] word = "*" -> Wrap(a * b)
    [] word = "/" -> Quotient(a, b)
    [] word = "=" -> Truth(a = b)
    [] word = "<" -> Truth(a < b)
    [] word = ">" -> Truth(a > b)

(* The k-th element from the top, 0 where there is none, and what is below *)
(* the first k.                                                            *)
Top(s, k) == IF k <= Len(s) THEN s[Len(s) - k + 1] ELSE 0
Below(s, k) == SubSeq(s, 1, Len(s) - k)

Operators == {"+", "-", "*", "/", "=", "<", ">"}

(* The stacks that a word or number may leave.  What "@" finds in memory   *)
(* is anyone's.                                                            *)
Results(s, token) ==
  CASE token.word \in Operators ->
         {Append(Below(s, 2), Binary(token.word, Top(s, 2), Top(s, 1)))}
    [] token.word = "number" -> {Append(s, Wrap(token.value))}
    [] token.word = "@" -> {Append(Below(s, 1), n) : n \in Ints}
    [] token.word = "!" -> {Below(s, 2)}
    [] token.word = "." -> {Below(s, 1)}
    [] OTHER -> {s}

(* The processor stops the quotient that does not fit, and may stop an     *)
(* access to memory.                                                       *)
MayFault(s, token) ==
  \/ token.word = "/" /\ Top(s, 2) = -Half /\ Top(s, 1) = -1
  \/ token.word \in {"@", "!"}
=============================================================================
