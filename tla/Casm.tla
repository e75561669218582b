-------------------------------- MODULE Casm --------------------------------
(***************************************************************************)
(* The assembler, usr/casm/casm.c: a text is read character by character   *)
(* into a line, each line gives the bytes of one instruction, and the      *)
(* bytes are cut at the end of the buffer and followed by nop.             *)
(*                                                                         *)
(* A text is a sequence of pieces: the instructions' names, digits, the    *)
(* separators and "other".                                                 *)
(***************************************************************************)
EXTENDS Naturals, Sequences, SequencesExt

CONSTANTS
  LineEnd,     (* pieces that fit in line_buf (63 characters)              *)
  AsmEnd       (* bytes in asm_buffer (512)                                *)

ASSUME CasmAssumption == LineEnd \in Nat \ {0} /\ AsmEnd \in Nat

NOP == 144

(* What assemble_line looks for, in this order, the byte it gives and the  *)
(* number of bytes of the operand.                                         *)
Instruction(name, code, operand) ==
  [name |-> name, code |-> code, operand |-> operand]

Instructions ==
  <<Instruction("mov eax ", 184, 4), Instruction("mov ah ", 180, 1),
    Instruction("mov al ", 176, 1), Instruction("int ", 205, 1),
    Instruction("cli", 250, 0), Instruction("sti", 251, 0),
    Instruction("hlt", 244, 0), Instruction("pusha", 96, 0),
    Instruction("popa", 97, 0), Instruction("ret", 195, 0),
    Instruction("nop", NOP, 0)>>

Digits == <<"0", "1", "2", "3", "4", "5", "6", "7", "8", "9">>

IsDigit(piece) == piece \in {Digits[n] : n \in DOMAIN Digits}
DigitOf(piece) == (CHOOSE n \in DOMAIN Digits : Digits[n] = piece) - 1

(* atoi takes all digits to the end of the line, whatever is between them. *)
atoi(line) ==
  FoldLeft(LAMBDA value, piece :
             IF IsDigit(piece) THEN value * 10 + DigitOf(piece) ELSE value,
           0, line)

(* The lowest bytes of a value, the lowest first.                          *)
Bytes(value, n) == [k \in 1 .. n |-> (value \div 256 ^ (k - 1)) % 256]

(* The first instruction of the list, wherever it is in the line.          *)
assemble_line(line) ==
  LET found == {i \in DOMAIN Instructions :
                  Contains(line, Instructions[i].name)}
  IN  IF found = {} THEN <<>>
      ELSE LET first == CHOOSE i \in found : \A j \in found : i <= j
               place == CHOOSE p \in DOMAIN line :
                          /\ line[p] = Instructions[first].name
                          /\ \A q \in 1 .. p - 1 : line[q] # line[p]
               value == atoi(SubSeq(line, place + 1, Len(line)))
           IN  <<Instructions[first].code>>
                 \o Bytes(value, Instructions[first].operand)

emit_asm(out, bytes) ==
  SubSeq(out \o bytes, 1, IF Len(out \o bytes) < AsmEnd THEN Len(out \o bytes)
                          ELSE AsmEnd)

Separators == {"\n", ";"}

(* The loop's body, for one piece.                                         *)
Assembled(asm, piece) ==
  CASE piece \in Separators ->
         [line |-> <<>>, out |-> emit_asm(asm.out, assemble_line(asm.line))]
    [] piece \notin Separators /\ (piece = "\r" \/ Len(asm.line) = LineEnd) -> asm
    [] OTHER -> [asm EXCEPT !.line = Append(@, piece)]

Padded(out) ==
  [k \in 1 .. AsmEnd |-> IF k \in DOMAIN out THEN out[k] ELSE NOP]

(* Mutated: a last line without an end is not assembled.                   *)
assemble_to_binEnded(text) ==
  LET asm == FoldLeft(Assembled, [line |-> <<>>, out |-> <<>>], text)
  IN  Padded(asm.out)

assemble_to_bin(text) ==
  LET asm == FoldLeft(Assembled, [line |-> <<>>, out |-> <<>>], text)
  IN  Padded(emit_asm(asm.out, assemble_line(asm.line)))

-----------------------------------------------------------------------------
(* The definition of the same by lines: which line a piece is in, what of  *)
(* it the line keeps, and the lines' instructions one behind the other.    *)
Before(text, k) == Cardinality({j \in 1 .. k - 1 : text[j] \in Separators})

Places(text, line) ==
  {k \in DOMAIN text : /\ text[k] \notin Separators \union {"\r"}
                       /\ Before(text, k) + 1 = line}

Nth(places, n) ==
  CHOOSE k \in places : Cardinality({j \in places : j <= k}) = n

LineAt(text, places) ==
  [n \in 1 .. IF Cardinality(places) < LineEnd THEN Cardinality(places) ELSE LineEnd
     |-> text[Nth(places, n)]]

CodeOf(text, line) == assemble_line(LineAt(text, Places(text, line)))

ByLines(text) ==
  Padded(FlattenSeq([line \in 1 .. Before(text, Len(text) + 1) + 1 |->
                       CodeOf(text, line)]))
=============================================================================
