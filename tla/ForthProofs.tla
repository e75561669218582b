----------------------------- MODULE ForthProofs -----------------------------
(***************************************************************************)
(* The Forth interpreters, for every number of them, every width of the    *)
(* integers, every heap, and all programs: each acts on its stack as on    *)
(* one without an end that only "!" reaches from outside, holds one block, *)
(* and carries out its own program.                                        *)
(***************************************************************************)
EXTENDS ForthProps, FiniteSetTheorems, SequenceTheorems, TLAPS

-----------------------------------------------------------------------------
(* Integers of the machine.                                                *)

LEMMA ModRange ==
  ASSUME NEW a \in Int, NEW m \in Nat \ {0}
  PROVE  a % m \in 0 .. m - 1
OBVIOUS

LEMMA IntsAre ==
  /\ Half \in Nat \ {0} /\ Ints \subseteq Int /\ 0 \in Ints /\ -1 \in Ints
  /\ \A n : n \in Ints <=> n \in Int /\ -Half <= n /\ n < Half
BY ForthAssumption DEF Ints

LEMMA WrapIsInt ==
  ASSUME NEW n \in Int
  PROVE  Wrap(n) \in Ints
<1> DEFINE m == 2 * Half
           r == (n + Half) % m
<1>1. m \in Nat \ {0} /\ n + Half \in Int /\ Half \in Nat
  BY ForthAssumption
<1>2. r \in 0 .. m - 1
  <2> HIDE DEF m
  <2> QED
    BY <1>1, ModRange
<1>3. Wrap(n) = r - Half
  BY DEF Wrap
<1> HIDE DEF r
<1> QED
  BY <1>1, <1>2, <1>3, IntsAre

LEMMA DivIsLess ==
  ASSUME NEW a \in Nat, NEW d \in Nat \ {0}
  PROVE  /\ a \div d \in Nat /\ a \div d <= a
         /\ a \div d = a => a = 0 \/ d = 1
<1> DEFINE q == a \div d
           r == a % d
<1>1. a = d * q + r /\ q \in Int /\ r \in 0 .. d - 1
  OBVIOUS
<1> HIDE DEF q, r
<1>2. q >= 0
  <2>1. CASE q < 0
    <3>1. d * q <= -d
      BY <1>1, <2>1
    <3> QED
      BY <1>1, <3>1
  <2> QED
    BY <1>1, <2>1
<1>3. d * q >= q
  BY <1>1, <1>2
<1>4. q <= a
  BY <1>1, <1>2, <1>3
<1>5. ASSUME q = a, a # 0, d # 1
      PROVE  FALSE
  <2>1. d * q >= 2 * q
    BY <1>1, <1>2, <1>5
  <2> QED
    BY <1>1, <1>2, <1>5, <2>1
<1> QED
  BY <1>1, <1>2, <1>4, <1>5 DEF q

LEMMA QuotientIsInt ==
  ASSUME NEW a \in Ints, NEW b \in Ints, ~(a = -Half /\ b = -1)
  PROVE  Quotient(a, b) \in Ints
<1>1. /\ a \in Int /\ -Half <= a /\ a < Half /\ b \in Int /\ -Half <= b /\ b < Half
      /\ Half \in Nat \ {0}
  BY IntsAre
<1>2. CASE b = 0
  BY <1>2, IntsAre DEF Quotient
<1>3. CASE b # 0
  <2> DEFINE x == Magnitude(a)
             y == Magnitude(b)
             q == x \div y
  <2>1. x \in Nat /\ y \in Nat \ {0} /\ x <= Half
        /\ (x = Half => a = -Half) /\ (y = 1 => b = 1 \/ b = -1)
    BY <1>1, <1>3 DEF Magnitude
  <2> HIDE DEF x, y
  <2>2. q \in Nat /\ q <= x /\ (q = x => x = 0 \/ y = 1)
    BY <2>1, DivIsLess
  <2> HIDE DEF q
  <2>3. Quotient(a, b) = IF (a < 0) = (b < 0) THEN q ELSE -q
    BY <1>3 DEF Quotient, q, x, y
  <2>4. CASE q < Half
    BY <1>1, <2>2, <2>3, <2>4, IntsAre
  <2>5. CASE ~(q < Half)
    <3>1. q = Half /\ q = x
      BY <1>1, <2>1, <2>2, <2>5
    <3>2. a = -Half /\ b = 1
      BY <1>1, <2>1, <2>2, <3>1
    <3>3. a < 0 /\ ~(b < 0)
      BY <1>1, <3>2
    <3>4. Quotient(a, b) = -q
      BY <2>3, <3>3
    <3> QED
      BY <1>1, <3>1, <3>4, IntsAre
  <2> QED
    BY <2>4, <2>5
<1> QED
  BY <1>2, <1>3

(* What a word leaves is an integer of the machine, unless the processor   *)
(* stops it.                                                               *)
LEMMA BinaryIsInt ==
  ASSUME NEW word \in Operators, NEW a \in Ints, NEW b \in Ints,
         ~(word = "/" /\ a = -Half /\ b = -1)
  PROVE  Binary(word, a, b) \in Ints
<1>1. a \in Int /\ b \in Int
  BY IntsAre
<1>2. CASE word \in {"+", "-", "*"}
  <2>1. a + b \in Int /\ a - b \in Int /\ a * b \in Int
    BY <1>1
  <2>2. Wrap(a + b) \in Ints /\ Wrap(a - b) \in Ints /\ Wrap(a * b) \in Ints
    BY <2>1, WrapIsInt
  <2> QED
    BY <1>2, <2>2 DEF Binary
<1>3. CASE word = "/"
  <2>1. Quotient(a, b) \in Ints
    BY <1>3, QuotientIsInt
  <2> QED
    BY <1>3, <2>1 DEF Binary
<1>4. CASE word \in {"=", "<", ">"}
  BY <1>4, IntsAre DEF Binary, Truth
<1> QED
  BY <1>2, <1>3, <1>4 DEF Operators

-----------------------------------------------------------------------------
(* Rows of elements.                                                       *)

First(s, n) == [k \in 1 .. n |-> s[k]]

LEMMA FirstIs ==
  ASSUME NEW s \in Seq(Ints), NEW n \in Nat, n <= Len(s)
  PROVE  /\ First(s, n) \in Seq(Ints) /\ Len(First(s, n)) = n
         /\ \A k \in 1 .. n : First(s, n)[k] = s[k]
         /\ SubSeq(s, 1, n) = First(s, n)
<1>1. First(s, n) \in Seq(Ints) /\ Len(First(s, n)) = n
      /\ \A k \in 1 .. n : First(s, n)[k] = s[k]
  BY DEF First
<1>2. /\ SubSeq(s, 1, n) \in Seq(Ints) /\ Len(SubSeq(s, 1, n)) = n
      /\ \A k \in 1 .. n : SubSeq(s, 1, n)[k] = s[k]
  OBVIOUS
<1>3. SubSeq(s, 1, n) = First(s, n)
  BY <1>1, <1>2, SeqEqual
<1> QED
  BY <1>1, <1>3

LEMMA BelowIs ==
  ASSUME NEW s \in Seq(Ints), NEW n \in {1, 2}
  PROVE  Below(s, n) = First(s, IF Len(s) < n THEN 0 ELSE Len(s) - n)
<1>1. CASE Len(s) < n
  <2>1. SubSeq(s, 1, Len(s) - n) = <<>>
    BY <1>1 DEF SubSeq
  <2>2. First(s, 0) = <<>>
    BY DEF First
  <2> QED
    BY <1>1, <2>1, <2>2 DEF Below
<1>2. CASE ~(Len(s) < n)
  <2>1. Len(s) - n \in Nat /\ Len(s) - n <= Len(s)
    BY <1>2
  <2>2. SubSeq(s, 1, Len(s) - n) = First(s, Len(s) - n)
    BY <2>1, FirstIs
  <2> QED
    BY <1>2, <2>2 DEF Below
<1> QED
  BY <1>1, <1>2

LEMMA TopIsInt ==
  ASSUME NEW s \in Seq(Ints), NEW n \in {1, 2}
  PROVE  Top(s, n) \in Ints
<1>1. CASE n <= Len(s)
  <2>1. Len(s) - n + 1 \in 1 .. Len(s)
    BY <1>1
  <2>2. s[Len(s) - n + 1] \in Ints
    BY <2>1
  <2> QED
    BY <1>1, <2>2 DEF Top
<1>2. CASE ~(n <= Len(s))
  BY <1>2, IntsAre DEF Top
<1> QED
  BY <1>1, <1>2

(* A row that is written over another.                                     *)
LEMMA OverIs ==
  ASSUME NEW new \in Seq(Ints), NEW old \in Seq(Ints)
  PROVE  /\ Over(new, old) \in Seq(Ints)
         /\ Len(new) <= Len(Over(new, old)) /\ Len(old) <= Len(Over(new, old))
         /\ \A k \in 1 .. Len(new) : Over(new, old)[k] = new[k]
<1>1. /\ Longer(new, old) \in Nat /\ Len(new) <= Longer(new, old) /\ Len(old) <= Longer(new, old)
      /\ Longer(new, old) = Len(new) \/ Longer(new, old) = Len(old)
  BY DEF Longer
<1>2. \A k \in 1 .. Longer(new, old) :
        (IF k \in DOMAIN new THEN new[k] ELSE old[k]) \in Ints
  <2>1. DOMAIN new = 1 .. Len(new) /\ DOMAIN old = 1 .. Len(old)
    OBVIOUS
  <2>2. \A k \in 1 .. Longer(new, old) : k \in 1 .. Len(new) \/ k \in 1 .. Len(old)
    BY <1>1
  <2> QED
    BY <2>1, <2>2
<1>3. Over(new, old) \in Seq(Ints) /\ Len(Over(new, old)) = Longer(new, old)
  BY <1>1, <1>2 DEF Over
<1>4. \A k \in 1 .. Len(new) : Over(new, old)[k] = new[k]
  <2>1. \A k \in 1 .. Len(new) : k \in 1 .. Longer(new, old) /\ k \in DOMAIN new
    BY <1>1
  <2> QED
    BY <2>1 DEF Over
<1> QED
  BY <1>1, <1>3, <1>4

(* What a push leaves of a row.                                            *)
LEMMA PushedRow ==
  ASSUME NEW mem \in Seq(Ints), NEW old \in Seq(Ints), NEW n \in Nat, n <= Len(mem), NEW v \in Ints
  PROVE  LET row == Over(Append(SubSeq(mem, 1, n), v), old)
         IN  /\ row \in Seq(Ints) /\ n + 1 <= Len(row) /\ Len(old) <= Len(row)
             /\ First(row, n + 1) = Append(First(mem, n), v)
<1> DEFINE new == Append(First(mem, n), v)
           row == Over(new, old)
<1>1. SubSeq(mem, 1, n) = First(mem, n) /\ First(mem, n) \in Seq(Ints) /\ Len(First(mem, n)) = n
  BY FirstIs
<1>2. new \in Seq(Ints) /\ Len(new) = n + 1
  BY <1>1
<1> HIDE DEF new
<1>3. /\ row \in Seq(Ints) /\ n + 1 <= Len(row) /\ Len(old) <= Len(row)
      /\ \A k \in 1 .. n + 1 : row[k] = new[k]
  BY <1>2, OverIs
<1>4. First(row, n + 1) \in Seq(Ints) /\ Len(First(row, n + 1)) = n + 1
      /\ \A k \in 1 .. n + 1 : First(row, n + 1)[k] = row[k]
  <2> HIDE DEF row
  <2> QED
    BY <1>3, FirstIs
<1>5. First(row, n + 1) = new
  <2> HIDE DEF row
  <2> QED
    BY <1>2, <1>3, <1>4, SeqEqual
<1> QED
  BY <1>1, <1>3, <1>5 DEF new


-----------------------------------------------------------------------------
(* The stacks.                                                             *)

Addresses == Blocks \union {NULL}
States == {"none", "ready", "run", "ended", "killed", "wild"}

StacksTypeOK ==
  /\ state \in [Interpreters -> States]
  /\ data \in [Interpreters -> Addresses]
  /\ size \in [Interpreters -> Nat] /\ sp \in [Interpreters -> Int]
  /\ memory \in [Addresses -> Seq(Ints)]
  /\ used \subseteq Blocks /\ lost \subseteq Interpreters

(* Who has no stack yet holds no block.                                    *)
NoneYet ==
  \A i \in Interpreters : state[i] \in {"none", "ready"} => data[i] = NULL

(* A stack lies in its block, which has all of its elements.               *)
InBlock ==
  \A i \in running : -1 <= sp[i] /\ sp[i] < size[i] /\ sp[i] + 1 <= Len(memory[data[i]])

(* Who has address 0 in common with another is lost.                       *)
SharedAreLost ==
  \A i, j \in running : i # j /\ data[i] = NULL /\ data[j] = NULL => j \in lost

OneEach ==
  /\ used = {data[i] : i \in Interpreters} \ {NULL}
  /\ \A i, j \in Interpreters : i # j /\ data[i] = data[j] => data[i] = NULL

StacksInv == StacksTypeOK /\ NoneYet /\ InBlock /\ SharedAreLost /\ OneEach

LEMMA ElementsAre ==
  ASSUME StacksInv, NEW i \in running
  PROVE  /\ Elements(i) \in Seq(Ints) /\ Len(Elements(i)) = sp[i] + 1
         /\ Elements(i) = First(memory[data[i]], sp[i] + 1)
         /\ memory[data[i]] \in Seq(Ints) /\ sp[i] + 1 \in Nat
         /\ sp[i] + 1 <= Len(memory[data[i]])
         /\ i \in Interpreters /\ data[i] \in Addresses /\ data \in [Interpreters -> Addresses]
<1>1. i \in Interpreters /\ data[i] \in Addresses /\ memory[data[i]] \in Seq(Ints) /\ sp[i] \in Int
  BY DEF StacksInv, StacksTypeOK, running
<1>2. -1 <= sp[i] /\ sp[i] + 1 <= Len(memory[data[i]])
  BY DEF StacksInv, InBlock
<1>3. sp[i] + 1 \in Nat
  BY <1>1, <1>2
<1>4. Elements(i) = First(memory[data[i]], sp[i] + 1)
  BY DEF Elements, First
<1>5. data \in [Interpreters -> Addresses]
  BY DEF StacksInv, StacksTypeOK
<1> QED
  BY <1>1, <1>2, <1>3, <1>4, <1>5, FirstIs

(* Two of a finite set.                                                    *)
LEMMA TwoAre ==
  ASSUME NEW S, S \subseteq Interpreters, NEW i \in S, NEW j \in S, i # j
  PROVE  Cardinality(S) > 1
<1>1. IsFiniteSet(S)
  BY ForthAssumption, FS_Subset
<1>2. IsFiniteSet({i}) /\ Cardinality({i}) = 1
  BY FS_Singleton
<1>3. IsFiniteSet({i} \union {j}) /\ Cardinality({i} \union {j}) = 2
  <2>1. IsFiniteSet({i} \union {j}) /\ Cardinality({i} \union {j}) = IF j \in {i} THEN Cardinality({i}) ELSE Cardinality({i}) + 1
    BY <1>2, FS_AddElement
  <2>2. j \notin {i}
    OBVIOUS
  <2> QED
    BY <1>2, <2>1, <2>2
<1>4. Cardinality({i} \union {j}) <= Cardinality(S)
  <2>1. {i} \union {j} \subseteq S
    OBVIOUS
  <2> QED
    BY <1>1, <2>1, FS_Subset
<1>5. Cardinality(S) \in Nat
  BY <1>1, FS_CardinalityType
<1> QED
  BY <1>3, <1>4, <1>5

(* An interpreter that moves to address 0, where another is.               *)
LEMMA LosesBoth ==
  ASSUME StacksInv, NEW i \in Interpreters, NEW j \in Interpreters \ {i},
         state'[i] = "run", state'[j] = "run",
         data'[i] = NULL, data'[j] = NULL, Loses(data')
  PROVE  i \in lost' /\ j \in lost'
<1>1. i \in AtNull(data') /\ j \in AtNull(data') /\ AtNull(data') \subseteq Interpreters
  BY DEF AtNull
<1>2. Cardinality(AtNull(data')) > 1
  BY <1>1, TwoAre
<1>3. lost' = lost \union AtNull(data')
  BY <1>2 DEF Loses
<1> QED
  BY <1>1, <1>3

LEMMA LosesMore ==
  ASSUME StacksInv, Loses(data')
  PROVE  lost' \in SUBSET Interpreters /\ lost \subseteq lost'
<1>1. lost \subseteq Interpreters /\ AtNull(data') \subseteq Interpreters
  BY DEF StacksInv, StacksTypeOK, AtNull
<1> QED
  BY <1>1 DEF Loses

(* A push onto the stack that was popped down to top.                      *)
LEMMA PushActs ==
  ASSUME StacksInv, NEW i \in running, NEW top \in -1 .. sp[i], NEW v \in Ints,
         stack_push(i, top, v), UNCHANGED state
  PROVE  /\ StacksInv' /\ lost \subseteq lost'
         /\ Elements(i)' = Append(First(memory[data[i]], top + 1), v)
         /\ \A j \in running \ (lost' \union {i}) : Elements(j)' = Elements(j)
<1> DEFINE a == data[i]
           b == data'[i]
           row == Over(Append(SubSeq(memory[a], 1, top + 1), v), memory[b])
<1>1. /\ i \in Interpreters /\ a \in Addresses /\ memory[a] \in Seq(Ints)
      /\ sp[i] \in Int /\ size[i] \in Nat /\ running' = running /\ running \subseteq Interpreters
      /\ -1 <= sp[i] /\ sp[i] < size[i] /\ sp[i] + 1 <= Len(memory[a])
      /\ state[i] = "run"
  BY DEF StacksInv, StacksTypeOK, InBlock, running
<1>2. top \in Int /\ top + 1 \in Nat /\ top + 1 <= Len(memory[a]) /\ top < size[i]
  BY <1>1
<1>3. /\ StacksTypeOK /\ NoneYet /\ InBlock /\ SharedAreLost /\ OneEach
      /\ DOMAIN sp = Interpreters /\ DOMAIN data = Interpreters /\ DOMAIN size = Interpreters
      /\ DOMAIN memory = Addresses
  BY DEF StacksInv, StacksTypeOK
<1>4. sp' = [sp EXCEPT ![i] = top + 1]
  BY DEF stack_push
<1>5. CASE /\ top # size[i] - 1
           /\ memory' = [memory EXCEPT ![a] = Over(Append(Kept(i, top), v), memory[a])]
           /\ UNCHANGED <<data, size, used, lost>>
  <2>1. b = a /\ memory' = [memory EXCEPT ![a] = row]
    BY <1>5 DEF Kept
  <2>2. /\ row \in Seq(Ints) /\ (top + 1) + 1 <= Len(row) /\ Len(memory[a]) <= Len(row)
        /\ First(row, (top + 1) + 1) = Append(First(memory[a], top + 1), v)
    <3>1. memory[b] \in Seq(Ints) /\ memory[b] = memory[a]
      BY <1>1, <2>1
    <3>2. /\ row \in Seq(Ints) /\ (top + 1) + 1 <= Len(row) /\ Len(memory[b]) <= Len(row)
          /\ First(row, (top + 1) + 1) = Append(First(memory[a], top + 1), v)
      BY <1>1, <1>2, <3>1, PushedRow
    <3> QED
      BY <3>1, <3>2
  <2> HIDE DEF row
  <2>3. /\ memory'[a] = row /\ \A c \in Addresses \ {a} : memory'[c] = memory[c]
        /\ memory' \in [Addresses -> Seq(Ints)]
    BY <1>1, <1>3, <2>1, <2>2 DEF StacksTypeOK
  <2>4. sp'[i] = top + 1 /\ (\A j \in Interpreters \ {i} : sp'[j] = sp[j])
        /\ sp' \in [Interpreters -> Int]
    BY <1>1, <1>2, <1>3, <1>4 DEF StacksTypeOK
  <2>5. StacksTypeOK'
    BY <1>3, <1>5, <2>3, <2>4 DEF StacksTypeOK
  <2>6. NoneYet' /\ SharedAreLost' /\ OneEach'
    BY <1>1, <1>3, <1>5 DEF NoneYet, SharedAreLost, OneEach
  <2>7. InBlock'
    <3>1. SUFFICES ASSUME NEW j \in running
                   PROVE  -1 <= sp'[j] /\ sp'[j] < size[j] /\ sp'[j] + 1 <= Len(memory'[data[j]])
      BY <1>1, <1>5 DEF InBlock
    <3>2. CASE j = i
      <4>1. top + 1 < size[i]
        BY <1>1, <1>2, <1>5
      <4> QED
        BY <1>2, <2>2, <2>3, <2>4, <3>2, <4>1
    <3>3. CASE j # i
      <4>1. sp'[j] = sp[j] /\ data[j] \in Addresses
            /\ -1 <= sp[j] /\ sp[j] < size[j] /\ sp[j] + 1 <= Len(memory[data[j]])
            /\ sp[j] \in Int
        BY <1>1, <1>3, <2>4, <3>3 DEF InBlock, StacksTypeOK
      <4>2. CASE data[j] = a
        <5>1. Len(row) \in Nat /\ Len(memory[a]) \in Nat
          BY <1>1, <2>2
        <5> QED
          BY <2>2, <2>3, <4>1, <4>2, <5>1
      <4>3. CASE data[j] # a
        BY <2>3, <4>1, <4>3
      <4> QED
        BY <4>2, <4>3
    <3> QED
      BY <3>2, <3>3
  <2>8. Elements(i)' = Append(First(memory[a], top + 1), v)
    <3>1. Elements(i)' = [k \in 1 .. (top + 1) + 1 |-> row[k]]
      BY <1>5, <2>3, <2>4 DEF Elements
    <3> QED
      BY <2>2, <3>1 DEF First
  <2>9. ASSUME NEW j \in running \ (lost' \union {i})
        PROVE  Elements(j)' = Elements(j)
    <3>1. data[j] # a
      <4>1. SUFFICES ASSUME data[j] = a PROVE FALSE
        OBVIOUS
      <4>2. a = NULL
        BY <1>1, <1>3, <4>1 DEF OneEach
      <4>3. j \in lost
        BY <1>1, <1>3, <4>1, <4>2 DEF SharedAreLost
      <4> QED
        BY <1>5, <4>3
    <3>2. memory'[data[j]] = memory[data[j]] /\ sp'[j] = sp[j] /\ data'[j] = data[j]
      BY <1>1, <1>3, <1>5, <2>3, <2>4, <3>1 DEF StacksTypeOK
    <3> QED
      BY <3>2 DEF Elements
  <2> QED
    BY <1>5, <2>5, <2>6, <2>7, <2>8, <2>9 DEF StacksInv
<1>6. CASE /\ top = size[i] - 1
           /\ \E c \in Addresses :
                /\ kmalloc(c)
                /\ memory' = [memory EXCEPT ![c] = Over(Append(Kept(i, top), v), memory[c])]
                /\ used' = (used \ {a}) \union ({c} \ {NULL})
                /\ data' = [data EXCEPT ![i] = c] /\ Loses(data')
                /\ size' = [size EXCEPT ![i] = size[i] + Growth]
  <2>1. /\ kmalloc(b) /\ b \in Addresses
        /\ memory' = [memory EXCEPT ![b] = row]
        /\ used' = (used \ {a}) \union ({b} \ {NULL})
        /\ data' = [data EXCEPT ![i] = b] /\ Loses(data')
        /\ size' = [size EXCEPT ![i] = size[i] + Growth]
    BY <1>1, <1>3, <1>6 DEF Kept
  <2>2. /\ row \in Seq(Ints) /\ (top + 1) + 1 <= Len(row) /\ Len(memory[b]) <= Len(row)
        /\ First(row, (top + 1) + 1) = Append(First(memory[a], top + 1), v)
        /\ memory[b] \in Seq(Ints)
    <3>1. memory[b] \in Seq(Ints)
      BY <1>3, <2>1 DEF StacksTypeOK
    <3> QED
      BY <1>1, <1>2, <3>1, PushedRow
  <2> HIDE DEF row
  <2>3. /\ memory'[b] = row /\ \A c \in Addresses \ {b} : memory'[c] = memory[c]
        /\ memory' \in [Addresses -> Seq(Ints)]
    BY <1>3, <2>1, <2>2 DEF StacksTypeOK
  <2>4. sp'[i] = top + 1 /\ (\A j \in Interpreters \ {i} : sp'[j] = sp[j])
        /\ sp' \in [Interpreters -> Int]
    BY <1>1, <1>2, <1>3, <1>4 DEF StacksTypeOK
  <2>5. /\ \A j \in Interpreters \ {i} : data'[j] = data[j]
        /\ data' \in [Interpreters -> Addresses]
    BY <1>1, <1>3, <2>1 DEF StacksTypeOK
  <2>6. /\ size'[i] = size[i] + Growth /\ \A j \in Interpreters \ {i} : size'[j] = size[j]
        /\ size' \in [Interpreters -> Nat] /\ Growth \in Nat \ {0}
    BY <1>1, <1>3, <2>1, ForthAssumption DEF StacksTypeOK
  <2>7. lost' \in SUBSET Interpreters /\ lost \subseteq lost'
    BY <2>1, LosesMore
  <2>8. StacksTypeOK'
    <3>1. used' \subseteq Blocks
      BY <1>3, <2>1 DEF StacksTypeOK, Addresses
    <3> QED
      BY <1>3, <2>3, <2>4, <2>5, <2>6, <2>7, <3>1 DEF StacksTypeOK
  <2>9. NoneYet'
    BY <1>1, <1>3, <2>5 DEF NoneYet
  <2>10. \A j \in Interpreters \ {i} : data[j] = b => b = NULL
    BY <1>3, <2>1 DEF OneEach, kmalloc
  <2>11. OneEach'
    <3>1. \A j, l \in Interpreters : j # l /\ data'[j] = data'[l] => data'[j] = NULL
      BY <1>3, <2>5, <2>10 DEF OneEach
    <3>2. used' = {data'[j] : j \in Interpreters} \ {NULL}
      <4>1. used = {data[j] : j \in Interpreters} \ {NULL}
        BY <1>3 DEF OneEach
      <4>2. \A j \in Interpreters \ {i} : data[j] = a => a = NULL
        BY <1>1, <1>3 DEF OneEach
      <4>3. ASSUME NEW x \in used'
            PROVE  x \in {data'[j] : j \in Interpreters} \ {NULL}
        <5>1. CASE x = b
          BY <1>1, <2>1, <4>1, <4>3, <5>1
        <5>2. CASE x # b
          <6>1. x \in used /\ x # a
            BY <2>1, <4>3, <5>2
          <6>2. PICK j \in Interpreters : x = data[j] /\ x # NULL
            BY <4>1, <6>1
          <6>3. j # i
            BY <6>1, <6>2
          <6> QED
            BY <2>5, <6>2, <6>3
        <5> QED
          BY <5>1, <5>2
      <4>4. ASSUME NEW x \in {data'[j] : j \in Interpreters} \ {NULL}
            PROVE  x \in used'
        <5>1. PICK j \in Interpreters : x = data'[j] /\ x # NULL
          BY <4>4
        <5>2. CASE j = i
          BY <2>1, <5>1, <5>2
        <5>3. CASE j # i
          <6>1. x = data[j] /\ x \in used
            BY <2>5, <4>1, <5>1, <5>3
          <6>2. x # a
            BY <4>2, <5>1, <5>3, <6>1
          <6> QED
            BY <2>1, <6>1, <6>2
        <5> QED
          BY <5>2, <5>3
      <4> QED
        BY <4>3, <4>4
    <3> QED
      BY <3>1, <3>2 DEF OneEach
  <2>12. SharedAreLost'
    <3>1. SUFFICES ASSUME NEW j \in running, NEW l \in running, j # l,
                          data'[j] = NULL, data'[l] = NULL
                   PROVE  l \in lost'
      BY <1>1 DEF SharedAreLost
    <3>2. CASE j # i /\ l # i
      BY <1>1, <1>3, <2>5, <2>7, <3>1, <3>2 DEF SharedAreLost
    <3>3. CASE j = i \/ l = i
      <4>1. state'[j] = "run" /\ state'[l] = "run" /\ j \in Interpreters /\ l \in Interpreters
        BY <1>1 DEF running
      <4> QED
        BY <2>1, <3>1, <4>1, LosesBoth
    <3> QED
      BY <3>2, <3>3
  <2>13. InBlock'
    <3>1. SUFFICES ASSUME NEW j \in running
                   PROVE  -1 <= sp'[j] /\ sp'[j] < size'[j] /\ sp'[j] + 1 <= Len(memory'[data'[j]])
      BY <1>1 DEF InBlock
    <3>2. CASE j = i
      <4>1. top + 1 < size[i] + Growth
        BY <1>1, <1>2, <1>6, <2>6
      <4> QED
        BY <1>2, <2>2, <2>3, <2>4, <2>6, <3>2, <4>1
    <3>3. CASE j # i
      <4>1. sp'[j] = sp[j] /\ data'[j] = data[j] /\ data[j] \in Addresses /\ size'[j] = size[j]
            /\ -1 <= sp[j] /\ sp[j] < size[j] /\ sp[j] + 1 <= Len(memory[data[j]])
            /\ sp[j] \in Int
        BY <1>1, <1>3, <2>4, <2>5, <2>6, <3>3 DEF InBlock, StacksTypeOK
      <4>2. CASE data[j] = b
        <5>1. Len(row) \in Nat /\ Len(memory[b]) \in Nat
          BY <2>2
        <5>2. memory'[data'[j]] = row
          BY <2>3, <4>1, <4>2
        <5> QED
          BY <2>2, <4>1, <4>2, <5>1, <5>2
      <4>3. CASE data[j] # b
        BY <2>3, <4>1, <4>3
      <4> QED
        BY <4>2, <4>3
    <3> QED
      BY <3>2, <3>3
  <2>14. Elements(i)' = Append(First(memory[a], top + 1), v)
    <3>1. Elements(i)' = [k \in 1 .. (top + 1) + 1 |-> row[k]]
      BY <2>3, <2>4 DEF Elements
    <3> QED
      BY <2>2, <3>1 DEF First
  <2>15. ASSUME NEW j \in running \ (lost' \union {i})
         PROVE  Elements(j)' = Elements(j)
    <3>1. data[j] # b
      <4>1. SUFFICES ASSUME data[j] = b PROVE FALSE
        OBVIOUS
      <4>2. b = NULL /\ data'[j] = NULL
        BY <1>1, <2>5, <2>10, <4>1
      <4>3. state'[i] = "run" /\ state'[j] = "run" /\ j \in Interpreters
        BY <1>1 DEF running
      <4>4. j \in lost'
        BY <1>1, <2>1, <4>2, <4>3, LosesBoth
      <4> QED
        BY <4>4
    <3>2. memory'[data[j]] = memory[data[j]] /\ sp'[j] = sp[j] /\ data'[j] = data[j]
      BY <1>1, <1>3, <2>3, <2>4, <2>5, <3>1 DEF StacksTypeOK
    <3> QED
      BY <3>2 DEF Elements
  <2> QED
    BY <2>7, <2>8, <2>9, <2>11, <2>12, <2>13, <2>14, <2>15 DEF StacksInv
<1>7. \/ /\ top # size[i] - 1
         /\ memory' = [memory EXCEPT ![a] = Over(Append(Kept(i, top), v), memory[a])]
         /\ UNCHANGED <<data, size, used, lost>>
      \/ /\ top = size[i] - 1
         /\ \E c \in Addresses :
              /\ kmalloc(c)
              /\ memory' = [memory EXCEPT ![c] = Over(Append(Kept(i, top), v), memory[c])]
              /\ used' = (used \ {a}) \union ({c} \ {NULL})
              /\ data' = [data EXCEPT ![i] = c] /\ Loses(data')
              /\ size' = [size EXCEPT ![i] = size[i] + Growth]
  <2>1. CASE top # size[i] - 1
    BY <2>1 DEF stack_push
  <2>2. CASE top = size[i] - 1
    <3>1. PICK c \in Addresses :
              /\ kmalloc(c)
              /\ memory' = [memory EXCEPT ![c] = Over(Append(Kept(i, top), v), memory[c])]
              /\ used' = (used \ {a}) \union ({c} \ {NULL})
              /\ data' = [data EXCEPT ![i] = c] /\ Loses(data')
              /\ size' = [size EXCEPT ![i] = size[i] + Growth]
      BY <1>1, <1>3, <2>2 DEF stack_push, Addresses
    <3> QED
      BY <2>2, <3>1
  <2> QED
    BY <2>1, <2>2
<1> QED
  BY <1>5, <1>6, <1>7


LEMMA FirstOfFirst ==
  ASSUME NEW s \in Seq(Ints), NEW m \in Nat, m <= Len(s), NEW n \in Nat, n <= m
  PROVE  First(First(s, m), n) = First(s, n)
<1>1. \A k \in 1 .. n : First(s, m)[k] = s[k]
  BY DEF First
<1> QED
  BY <1>1 DEF First

LEMMA PoppedIs ==
  ASSUME StacksInv, NEW i \in running, NEW n \in {1, 2}
  PROVE  /\ Popped(i, n) \in -1 .. sp[i]
         /\ First(memory[data[i]], Popped(i, n) + 1) = Below(Elements(i), n)
<1> DEFINE s == Elements(i)
           mem == memory[data[i]]
           top == Popped(i, n)
<1>1. /\ s \in Seq(Ints) /\ Len(s) = sp[i] + 1 /\ s = First(mem, sp[i] + 1)
      /\ mem \in Seq(Ints) /\ sp[i] + 1 \in Nat /\ sp[i] + 1 <= Len(mem) /\ sp[i] \in Int
  <2>1. sp[i] \in Int
    BY DEF StacksInv, StacksTypeOK, running
  <2> QED
    BY <2>1, ElementsAre
<1>2. top = IF sp[i] + 1 < n THEN -1 ELSE sp[i] - n
  BY DEF Popped
<1> HIDE DEF s, mem, top
<1>3. top \in -1 .. sp[i] /\ top + 1 = (IF Len(s) < n THEN 0 ELSE Len(s) - n)
  BY <1>1, <1>2
<1>4. Below(s, n) = First(s, top + 1)
  BY <1>1, <1>3, BelowIs
<1>5. First(s, top + 1) = First(mem, top + 1)
  BY <1>1, <1>3, FirstOfFirst
<1> QED
  BY <1>3, <1>4, <1>5 DEF s, mem, top

LEMMA PopActs ==
  ASSUME StacksInv, NEW i \in running, NEW n \in {1, 2}, stack_pop(i, n), UNCHANGED state
  PROVE  /\ StacksInv' /\ lost' = lost
         /\ Elements(i)' = Below(Elements(i), n)
         /\ \A j \in running \ {i} : Elements(j)' = Elements(j)
<1>1. /\ sp' = [sp EXCEPT ![i] = Popped(i, n)]
      /\ UNCHANGED <<data, size, memory, used, lost>>
  BY DEF stack_pop, heap
<1>2. Popped(i, n) \in -1 .. sp[i]
      /\ First(memory[data[i]], Popped(i, n) + 1) = Below(Elements(i), n)
  BY PoppedIs
<1>3. /\ StacksTypeOK /\ i \in Interpreters /\ sp \in [Interpreters -> Int] /\ running' = running
      /\ running \subseteq Interpreters
  BY DEF StacksInv, StacksTypeOK, running
<1>4. sp'[i] = Popped(i, n) /\ (\A j \in Interpreters \ {i} : sp'[j] = sp[j])
      /\ sp' \in [Interpreters -> Int]
  BY <1>1, <1>2, <1>3
<1>5. StacksTypeOK'
  BY <1>1, <1>3, <1>4 DEF StacksTypeOK
<1>6. NoneYet' /\ SharedAreLost' /\ OneEach'
  BY <1>1, <1>3 DEF StacksInv, NoneYet, SharedAreLost, OneEach
<1>7. InBlock'
  <2>1. ASSUME NEW j \in running
        PROVE  -1 <= sp'[j] /\ sp'[j] < size[j] /\ sp'[j] + 1 <= Len(memory[data[j]])
    <3>1. /\ -1 <= sp[j] /\ sp[j] < size[j] /\ sp[j] + 1 <= Len(memory[data[j]])
          /\ sp[j] \in Int /\ sp'[j] \in Int /\ size[j] \in Nat
          /\ memory[data[j]] \in Seq(Ints)
      BY <1>3, <1>4 DEF StacksInv, StacksTypeOK, InBlock
    <3>2. sp'[j] = sp[j] \/ (j = i /\ sp'[j] \in -1 .. sp[j])
      BY <1>2, <1>3, <1>4
    <3>3. Len(memory[data[j]]) \in Nat
      BY <3>1
    <3> QED
      BY <3>1, <3>2, <3>3
  <2> QED
    BY <1>1, <1>3, <2>1 DEF InBlock
<1>8. Elements(i)' = Below(Elements(i), n)
  <2>1. Elements(i)' = First(memory[data[i]], Popped(i, n) + 1)
    BY <1>1, <1>4 DEF Elements, First
  <2> QED
    BY <1>2, <2>1
<1>9. \A j \in running \ {i} : Elements(j)' = Elements(j)
  BY <1>1, <1>3, <1>4 DEF Elements
<1> QED
  BY <1>1, <1>5, <1>6, <1>7, <1>8, <1>9 DEF StacksInv

LEMMA TokensAre ==
  /\ Tokens \subseteq Token
  /\ \A p \in Programs \union Lines : p \in Seq(Tokens) /\ Len(p) < Cells
  /\ \A t \in Tokens : t # End
<1>1. ASSUME NEW p \in Programs \union Lines
      PROVE  p \in Seq(Tokens) /\ Len(p) < Cells /\ \A k \in DOMAIN p : p[k] \in Token
  <2>1. p \in Seq(Token) /\ Len(p) < Cells
    BY ForthAssumption
  <2>2. \A k \in DOMAIN p : p[k] \in Tokens
    BY DEF Tokens
  <2>3. p \in Seq(Tokens)
    <3>1. p \in [1 .. Len(p) -> Token] /\ Len(p) \in Nat /\ DOMAIN p = 1 .. Len(p)
      BY <2>1, LenProperties
    <3>2. p \in [1 .. Len(p) -> Tokens]
      BY <2>2, <3>1
    <3> QED
      BY <3>1, <3>2, IsASeq
  <2> QED
    BY <2>1, <2>3
<1>2. Tokens \subseteq Token
  <2>1. ASSUME NEW t \in Tokens PROVE t \in Token
    <3>1. PICK p \in Programs \union Lines : t \in {p[k] : k \in DOMAIN p}
      BY DEF Tokens
    <3> QED
      BY <1>1, <3>1
  <2> QED
    BY <2>1
<1>3. \A t \in Token : t # End
  <2>1. ASSUME NEW t \in Token PROVE t.word # "end"
    BY DEF Token, Operators, OtherWords
  <2> QED
    BY <2>1 DEF End
<1> QED
  BY <1>1, <1>2, <1>3

LEMMA TokenIs ==
  ASSUME NEW t \in Tokens
  PROVE  /\ t.word \in Operators \union OtherWords \union {"number"}
         /\ t.word = "number" => t.value \in Nat
BY TokensAre DEF Token, Operators, OtherWords

(* A word acts on its interpreter's stack as the machine says.             *)
LEMMA ExecuteActs ==
  ASSUME StacksInv, NEW i \in running, NEW t \in Tokens, Execute(i, t), UNCHANGED state
  PROVE  /\ StacksInv' /\ lost \subseteq lost'
         /\ Elements(i)' \in Results(Elements(i), t)
         /\ \A j \in running \ (lost' \union {i}) : Elements(j)' = Elements(j)
<1> DEFINE s == Elements(i)
           mem == memory[data[i]]
<1>1. s \in Seq(Ints) /\ s = First(mem, sp[i] + 1) /\ Top(s, 1) \in Ints /\ Top(s, 2) \in Ints
  BY ElementsAre, TopIsInt
<1>2. sp[i] \in -1 .. sp[i]
  BY DEF StacksInv, StacksTypeOK, InBlock, running
<1>3. CASE /\ t.word \in Operators /\ ~MayFault(s, t)
           /\ stack_push(i, Popped(i, 2), Binary(t.word, Top(s, 2), Top(s, 1)))
  <2>1. Binary(t.word, Top(s, 2), Top(s, 1)) \in Ints
    BY <1>1, <1>3, BinaryIsInt DEF MayFault
  <2>2. Popped(i, 2) \in -1 .. sp[i] /\ First(mem, Popped(i, 2) + 1) = Below(s, 2)
    BY PoppedIs
  <2>3. Results(s, t) = {Append(Below(s, 2), Binary(t.word, Top(s, 2), Top(s, 1)))}
    BY <1>3 DEF Results, Operators
  <2> HIDE DEF s, mem
  <2> QED
    BY <1>3, <2>1, <2>2, <2>3, PushActs DEF s, mem
<1>4. CASE t.word = "number" /\ stack_push(i, sp[i], Wrap(t.value))
  <2>1. Wrap(t.value) \in Ints
    BY <1>4, TokenIs, WrapIsInt
  <2>2. Results(s, t) = {Append(s, Wrap(t.value))}
    BY <1>4 DEF Results, Operators
  <2> QED
    BY <1>1, <1>2, <1>4, <2>1, <2>2, PushActs
<1>5. ASSUME t.word = "@", NEW n \in Ints, stack_push(i, Popped(i, 1), n)
      PROVE  /\ StacksInv' /\ lost \subseteq lost'
             /\ Elements(i)' \in Results(s, t)
             /\ \A j \in running \ (lost' \union {i}) : Elements(j)' = Elements(j)
  <2>1. Popped(i, 1) \in -1 .. sp[i] /\ First(mem, Popped(i, 1) + 1) = Below(s, 1)
    BY PoppedIs
  <2>2. Append(Below(s, 1), n) \in Results(s, t)
    BY <1>5 DEF Results, Operators
  <2> QED
    BY <1>5, <2>1, <2>2, PushActs
<1>7. CASE t.word = "." /\ stack_pop(i, 1)
  <2>1. Results(s, t) = {Below(s, 1)}
    BY <1>7 DEF Results, Operators
  <2> QED
    BY <1>7, <2>1, PopActs
<1>8. CASE t.word \in {"CR", "unknown"} /\ UNCHANGED <<stacks, heap, lost>>
  <2>1. Results(s, t) = {s}
    BY <1>8 DEF Results, Operators
  <2>2. UNCHANGED <<data, size, sp, memory, used, lost>> /\ running' = running
    BY <1>8 DEF stacks, heap, running
  <2>3. StacksInv'
    BY <2>2 DEF StacksInv, StacksTypeOK, NoneYet, InBlock, SharedAreLost, OneEach
  <2>4. \A j \in Interpreters : Elements(j)' = Elements(j)
    BY <2>2 DEF Elements
  <2> QED
    BY <2>1, <2>2, <2>3, <2>4 DEF running
<1> QED
  BY <1>3, <1>4, <1>5, <1>7, <1>8 DEF Execute


-----------------------------------------------------------------------------
(* The text and who reads it.                                              *)

TextTypeOK ==
  /\ content \in [1 .. Cells -> Tokens \union {End}] /\ cut \subseteq 1 .. Cells
  /\ ptr \in [Interpreters -> Nat \ {0}]
  /\ done \in [Interpreters -> Seq(Tokens)]
  /\ program \in [Interpreters -> Programs \union {<<>>}]
  /\ alone \in [Interpreters -> BOOLEAN] /\ astray \in BOOLEAN
  /\ \A i \in Interpreters : state[i] = "wild" => astray

(* Of the interpreter that content is left to: nobody else reads, its own  *)
(* program is in content, what it has carried out is the beginning of it,  *)
(* and nothing is cut that is still to be read.                            *)
Undisturbed(i) ==
  /\ \A j \in Interpreters \ {i} : ~Reads(j)
  /\ Len(program[i]) < Chunk =>
       /\ \A k \in 1 .. Len(program[i]) : content[k] = program[i][k]
       /\ content[Len(program[i]) + 1] = End
       /\ Len(done[i]) <= Len(program[i])
       /\ \A k \in 1 .. Len(done[i]) : done[i][k] = program[i][k]
       /\ \A k \in cut : k <= Chunk => k <= Len(done[i])
       /\ state[i] = "ready" => done[i] = <<>>
       /\ state[i] = "run" => ptr[i] = Len(done[i]) + 1

OwnOf(i) ==
  /\ alone[i] /\ Reads(i) => Undisturbed(i)
  /\ alone[i] /\ state[i] = "ended" /\ Len(program[i]) < Chunk => done[i] = program[i]
  /\ state[i] = "none" => done[i] = <<>>

OwnInv == ~astray => \A i \in Interpreters : OwnOf(i)

ForthInv == StacksInv /\ TextTypeOK /\ OwnInv


-----------------------------------------------------------------------------
(* Each step is a step of the stack machines.                              *)

MachineStep ==
  [\E i \in Interpreters : Machine!Acts(i)]_<<stack, done, running, lost>>

LEMMA StackIs ==
  /\ DOMAIN stack = Interpreters
  /\ \A j \in running : stack[j] = Elements(j)
  /\ \A j \in Interpreters \ running : stack[j] = <<>>
  /\ running \subseteq Interpreters
BY DEF stack, running

LEMMA StackWillBe ==
  /\ DOMAIN stack' = Interpreters
  /\ \A j \in running' : stack'[j] = Elements(j)'
  /\ \A j \in Interpreters \ running' : stack'[j] = <<>>
  /\ running' \subseteq Interpreters
BY DEF stack, running

LEMMA SameResults ==
  ASSUME NEW s, NEW t
  PROVE  Machine!Results(s, t) = Results(s, t)
<1>1. /\ Machine!Operators = Operators /\ Machine!Ints = Ints
      /\ Machine!Below(s, 1) = Below(s, 1) /\ Machine!Below(s, 2) = Below(s, 2)
      /\ Machine!Top(s, 1) = Top(s, 1) /\ Machine!Top(s, 2) = Top(s, 2)
  BY DEF Machine!Operators, Operators, Machine!Ints, Ints, Machine!Below, Below,
         Machine!Top, Top
<1>2. \A n : Machine!Wrap(n) = Wrap(n)
  BY DEF Machine!Wrap, Wrap
<1>3. \A a, b : Machine!Quotient(a, b) = Quotient(a, b)
  BY DEF Machine!Quotient, Quotient, Machine!Magnitude, Magnitude
<1>4. \A b : Machine!Truth(b) = Truth(b)
  BY DEF Machine!Truth, Truth
<1>5. \A w, a, b : Machine!Binary(w, a, b) = Binary(w, a, b)
  BY <1>2, <1>3, <1>4 DEF Machine!Binary, Binary
<1> QED
  BY <1>1, <1>2, <1>5 DEF Machine!Results, Results

(* The steps of the shell, and of who waits for its stack.                 *)
LEMMA OutsideActs ==
  ASSUME StacksInv, UNCHANGED <<data, size, sp, memory, used, lost, done>>,
         running' = running, state' \in [Interpreters -> States],
         \A j \in Interpreters : state'[j] \in {"none", "ready"} =>
           state[j] \in {"none", "ready"}
  PROVE  StacksInv' /\ MachineStep
<1>1. StacksInv'
  BY DEF StacksInv, StacksTypeOK, NoneYet, InBlock, SharedAreLost, OneEach
<1>2. \A j \in Interpreters : Elements(j)' = Elements(j)
  BY DEF Elements
<1>3. stack' = stack
  BY <1>2 DEF stack
<1> QED
  BY <1>1, <1>3 DEF MachineStep

LEMMA OthersStay ==
  ASSUME NEW i \in Interpreters, lost \subseteq lost',
         \A j \in Interpreters \ {i} : j \in running' <=> j \in running,
         \A j \in running \ (lost' \union {i}) : Elements(j)' = Elements(j),
         \A j \in Interpreters \ {i} : done'[j] = done[j],
         i \in lost' \/ Machine!Starts(i) \/ Machine!CarriesOut(i) \/ Machine!Ends(i)
  PROVE  MachineStep
<1>1. ASSUME NEW j \in Interpreters \ (lost' \union {i})
      PROVE  stack'[j] = stack[j] /\ done'[j] = done[j] /\ (j \in running' <=> j \in running)
  <2>1. j \in running' <=> j \in running
    OBVIOUS
  <2>2. CASE j \in running
    BY <2>1, <2>2, StackIs, StackWillBe
  <2>3. CASE j \notin running
    BY <2>1, <2>3, StackIs, StackWillBe
  <2> QED
    BY <2>1, <2>2, <2>3
<1>2. Machine!Acts(i)
  BY <1>1 DEF Machine!Acts, Machine!Keeps
<1> QED
  BY <1>2 DEF MachineStep

(* A first block, or address 0, for an interpreter that has none.          *)
LEMMA OpensActs ==
  ASSUME StacksInv, NEW i \in Interpreters, state[i] = "ready", Opens(i)
  PROVE  /\ data' \in [Interpreters -> Addresses] /\ size'[i] = InitialSize /\ sp'[i] = -1
         /\ size' \in [Interpreters -> Nat] /\ sp' \in [Interpreters -> Int]
         /\ \A j \in Interpreters \ {i} :
              data'[j] = data[j] /\ size'[j] = size[j] /\ sp'[j] = sp[j]
         /\ used' \subseteq Blocks /\ OneEach' /\ UNCHANGED <<memory, done>>
<1>1. PICK b \in Addresses :
        /\ kmalloc(b)
        /\ data' = [data EXCEPT ![i] = b] /\ used' = used \union ({b} \ {NULL})
  BY DEF Opens, Addresses
<1>2. /\ size' = [size EXCEPT ![i] = InitialSize] /\ sp' = [sp EXCEPT ![i] = -1]
      /\ UNCHANGED <<memory, done>>
  BY DEF Opens, runs
<1>3. StacksTypeOK /\ data[i] = NULL /\ InitialSize \in Nat \ {0}
  BY ForthAssumption DEF StacksInv, NoneYet
<1>5. /\ data' \in [Interpreters -> Addresses] /\ data'[i] = b
      /\ \A j \in Interpreters \ {i} : data'[j] = data[j]
  BY <1>1, <1>3 DEF StacksTypeOK
<1>6. /\ size' \in [Interpreters -> Nat] /\ size'[i] = InitialSize
      /\ \A j \in Interpreters \ {i} : size'[j] = size[j]
  BY <1>2, <1>3 DEF StacksTypeOK
<1>7. /\ sp' \in [Interpreters -> Int] /\ sp'[i] = -1
      /\ \A j \in Interpreters \ {i} : sp'[j] = sp[j]
  BY <1>2, <1>3 DEF StacksTypeOK
<1>10. \A j \in Interpreters \ {i} : data[j] = b => b = NULL
  BY <1>1 DEF StacksInv, OneEach, kmalloc
<1>11. used' \subseteq Blocks
  BY <1>1, <1>3 DEF StacksTypeOK, Addresses
<1>15. OneEach'
  <2>1. \A j, l \in Interpreters : j # l /\ data'[j] = data'[l] => data'[j] = NULL
    BY <1>5, <1>10 DEF StacksInv, OneEach
  <2>2. used' = {data'[j] : j \in Interpreters} \ {NULL}
    <3>1. used = {data[j] : j \in Interpreters} \ {NULL}
      BY DEF StacksInv, OneEach
    <3>2. \A x : x \in used' <=> x \in used \/ (x = b /\ x # NULL)
      BY <1>1
    <3>3. \A x : x \in {data'[j] : j \in Interpreters} <=>
                   (x = b \/ \E j \in Interpreters \ {i} : x = data[j])
      BY <1>5
    <3>4. \A x : x \in used <=> x # NULL /\ \E j \in Interpreters \ {i} : x = data[j]
      BY <1>3, <3>1
    <3> QED
      BY <3>2, <3>3, <3>4
  <2> QED
    BY <2>1, <2>2 DEF OneEach
<1> QED
  BY <1>2, <1>5, <1>6, <1>7, <1>11, <1>15

LEMMA InitActs ==
  ASSUME StacksInv, TextTypeOK, NEW i \in Interpreters, stack_init(i)
  PROVE  StacksInv' /\ MachineStep
<1>1. /\ state[i] = "ready" /\ state' = [state EXCEPT ![i] = "run"]
      /\ Opens(i) /\ Loses(data')
  BY DEF stack_init
<1>2. /\ data' \in [Interpreters -> Addresses] /\ size'[i] = InitialSize /\ sp'[i] = -1
      /\ size' \in [Interpreters -> Nat] /\ sp' \in [Interpreters -> Int]
      /\ \A j \in Interpreters \ {i} :
           data'[j] = data[j] /\ size'[j] = size[j] /\ sp'[j] = sp[j]
      /\ used' \subseteq Blocks /\ OneEach' /\ UNCHANGED <<memory, done>>
  BY <1>1, OpensActs
<1>3. StacksTypeOK /\ InitialSize \in Nat \ {0}
  BY ForthAssumption DEF StacksInv
<1>4. /\ state' \in [Interpreters -> States] /\ state'[i] = "run"
      /\ \A j \in Interpreters \ {i} : state'[j] = state[j]
  BY <1>1, <1>3 DEF StacksTypeOK, States
<1>8. lost' \in SUBSET Interpreters /\ lost \subseteq lost'
  BY <1>1, LosesMore
<1>9. /\ i \notin running /\ running' = running \union {i}
      /\ \A j \in Interpreters \ {i} : j \in running' <=> j \in running
      /\ running \subseteq Interpreters
  BY <1>1, <1>4 DEF running
<1>11. StacksTypeOK'
  BY <1>2, <1>3, <1>4, <1>8 DEF StacksTypeOK
<1>12. NoneYet'
  BY <1>2, <1>4 DEF StacksInv, NoneYet
<1>13. InBlock'
  <2>1. SUFFICES ASSUME NEW j \in running'
                 PROVE  -1 <= sp'[j] /\ sp'[j] < size'[j] /\ sp'[j] + 1 <= Len(memory[data'[j]])
    BY <1>2 DEF InBlock
  <2>2. CASE j = i
    <3>1. memory[data'[i]] \in Seq(Ints)
      BY <1>2, <1>3 DEF StacksTypeOK
    <3>2. Len(memory[data'[i]]) \in Nat
      BY <3>1
    <3> QED
      BY <1>2, <1>3, <2>2, <3>2
  <2>3. CASE j # i
    BY <1>2, <1>9, <2>3 DEF StacksInv, InBlock
  <2> QED
    BY <2>2, <2>3
<1>14. SharedAreLost'
  <2>1. SUFFICES ASSUME NEW j \in running', NEW l \in running', j # l,
                        data'[j] = NULL, data'[l] = NULL
                 PROVE  l \in lost'
    BY DEF SharedAreLost
  <2>2. CASE j # i /\ l # i
    BY <1>2, <1>8, <1>9, <2>1, <2>2 DEF StacksInv, SharedAreLost
  <2>3. CASE j = i \/ l = i
    <3>1. state'[j] = "run" /\ state'[l] = "run" /\ j \in Interpreters /\ l \in Interpreters
      BY DEF running
    <3> QED
      BY <1>1, <2>1, <3>1, LosesBoth
  <2> QED
    BY <2>2, <2>3
<1>16. ASSUME NEW j \in running \ (lost' \union {i})
       PROVE  Elements(j)' = Elements(j)
  BY <1>2, <1>9, <1>16 DEF Elements
<1>17. Machine!Starts(i)
  <2>1. Elements(i)' = <<>>
    <3>1. Elements(i)' = [k \in 1 .. -1 + 1 |-> memory[data'[i]][k]]
      BY <1>2 DEF Elements
    <3> QED
      BY <3>1
  <2>2. stack'[i] = <<>>
    BY <1>9, <2>1, StackWillBe
  <2> QED
    BY <1>2, <1>9, <2>2 DEF Machine!Starts
<1>18. MachineStep
  BY <1>2, <1>8, <1>9, <1>16, <1>17, OthersStay
<1> QED
  BY <1>2, <1>11, <1>12, <1>13, <1>14, <1>18 DEF StacksInv

(* Once something is astray, the machine promises nothing.                 *)
LEMMA AstrayActs ==
  ASSUME NEW i \in Interpreters, GoesAstray, lost \subseteq Interpreters
  PROVE  MachineStep
<1>1. lost' = Interpreters
  BY DEF GoesAstray
<1>2. Machine!Acts(i)
  BY <1>1 DEF Machine!Acts, Machine!Keeps
<1> QED
  BY <1>2 DEF MachineStep

(* Who cannot have a struct Stack may write anywhere.                      *)
LEMMA InitFailsActs ==
  ASSUME StacksInv, TextTypeOK, NEW i \in Interpreters, stack_init_fails(i)
  PROVE  StacksInv' /\ MachineStep
<1>1. /\ state[i] = "ready" /\ state' = [state EXCEPT ![i] = "wild"]
      /\ Opens(i) /\ GoesAstray /\ lost' = Interpreters
  BY DEF stack_init_fails, GoesAstray
<1>2. /\ data' \in [Interpreters -> Addresses] /\ size'[i] = InitialSize /\ sp'[i] = -1
      /\ size' \in [Interpreters -> Nat] /\ sp' \in [Interpreters -> Int]
      /\ \A j \in Interpreters \ {i} :
           data'[j] = data[j] /\ size'[j] = size[j] /\ sp'[j] = sp[j]
      /\ used' \subseteq Blocks /\ OneEach' /\ UNCHANGED <<memory, done>>
  BY <1>1, OpensActs
<1>3. StacksTypeOK
  BY DEF StacksInv
<1>4. /\ state' \in [Interpreters -> States] /\ state'[i] = "wild"
      /\ \A j \in Interpreters \ {i} : state'[j] = state[j]
  BY <1>1, <1>3 DEF StacksTypeOK, States
<1>5. running' = running /\ i \notin running /\ running \subseteq Interpreters
  BY <1>1, <1>4 DEF running
<1>6. StacksTypeOK'
  BY <1>1, <1>2, <1>3, <1>4 DEF StacksTypeOK
<1>7. NoneYet'
  BY <1>2, <1>4 DEF StacksInv, NoneYet
<1>8. InBlock'
  BY <1>2, <1>5 DEF StacksInv, InBlock
<1>9. SharedAreLost'
  BY <1>1, <1>5 DEF SharedAreLost
<1>10. MachineStep
  BY <1>1, <1>3, AstrayActs DEF StacksTypeOK
<1> QED
  BY <1>2, <1>6, <1>7, <1>8, <1>9, <1>10 DEF StacksInv

LEMMA InterpretActs ==
  ASSUME StacksInv, TextTypeOK, NEW i \in Interpreters, Interpret(i)
  PROVE  StacksInv' /\ MachineStep
<1> DEFINE t == content[ptr[i]]
<1>1. /\ i \in running /\ UNCHANGED state /\ running' = running
      /\ Execute(i, t) /\ done' = [done EXCEPT ![i] = Append(done[i], t)]
  BY DEF Interpret, Carried, running
<1>2. t \in Tokens
  BY DEF Interpret, next_token, AtEnd, TextTypeOK
<1> HIDE DEF t
<1>3. /\ StacksInv' /\ lost \subseteq lost'
      /\ Elements(i)' \in Results(Elements(i), t)
      /\ \A j \in running \ (lost' \union {i}) : Elements(j)' = Elements(j)
  BY <1>1, <1>2, ExecuteActs
<1>4. done'[i] = Append(done[i], t) /\ \A j \in Interpreters \ {i} : done'[j] = done[j]
  BY <1>1 DEF TextTypeOK
<1>5. Machine!CarriesOut(i)
  <2>1. stack[i] = Elements(i) /\ stack'[i] = Elements(i)'
    BY <1>1, StackIs, StackWillBe
  <2>2. stack'[i] \in Machine!Results(stack[i], t)
    BY <1>3, <2>1, SameResults
  <2> QED
    BY <1>1, <1>2, <1>4, <2>2 DEF Machine!CarriesOut
<1>6. MachineStep
  BY <1>1, <1>3, <1>4, <1>5, OthersStay
<1> QED
  BY <1>3, <1>6

(* An element of a row is written over.                                    *)
LEMMA StoredRow ==
  ASSUME NEW row \in Seq(Ints), NEW k \in DOMAIN row, NEW v \in Ints,
         NEW n \in Nat, n <= Len(row)
  PROVE  LET new == [row EXCEPT ![k] = v]
         IN  /\ new \in Seq(Ints) /\ Len(new) = Len(row)
             /\ k <= n => k \in DOMAIN First(row, n)
                          /\ First(new, n) = [First(row, n) EXCEPT ![k] = v]
<1> DEFINE new == [row EXCEPT ![k] = v]
<1>1. /\ DOMAIN row = 1 .. Len(row) /\ Len(row) \in Nat
      /\ \A l \in 1 .. Len(row) : row[l] \in Ints
  OBVIOUS
<1>2. new \in Seq(Ints) /\ Len(new) = Len(row)
  OBVIOUS
<1>3. \A l \in 1 .. n : l \in DOMAIN row /\ new[l] = IF l = k THEN v ELSE row[l]
  BY <1>1
<1>4. DOMAIN First(row, n) = 1 .. n /\ DOMAIN First(new, n) = 1 .. n
  BY DEF First
<1>5. ASSUME k <= n
      PROVE  k \in DOMAIN First(row, n) /\ First(new, n) = [First(row, n) EXCEPT ![k] = v]
  <2>1. k \in 1 .. n
    BY <1>1, <1>5
  <2> HIDE DEF new
  <2> QED
    BY <1>3, <1>4, <2>1 DEF First
<1> QED
  BY <1>2, <1>5

LEMMA StoredAbove ==
  ASSUME NEW row \in Seq(Ints), NEW k \in DOMAIN row, NEW v \in Ints,
         NEW n \in Nat, n <= Len(row), ~(k <= n)
  PROVE  First([row EXCEPT ![k] = v], n) = First(row, n)
<1>1. DOMAIN row = 1 .. Len(row) /\ Len(row) \in Nat
  OBVIOUS
<1>2. \A l \in 1 .. n : [row EXCEPT ![k] = v][l] = row[l]
  BY <1>1
<1> QED
  BY <1>2 DEF First

(* What word_store pops.                                                   *)
Left(i, j) == IF j = i THEN Below(Elements(i), 2) ELSE Elements(j)

LEMMA LeftIs ==
  ASSUME StacksInv, NEW i \in running, sp' = [sp EXCEPT ![i] = Popped(i, 2)]
  PROVE  /\ sp' \in [Interpreters -> Int]
         /\ \A j \in running :
              /\ -1 <= sp'[j] /\ sp'[j] <= sp[j] /\ sp[j] \in Int
              /\ Left(i, j) = First(memory[data[j]], sp'[j] + 1)
<1>1. Popped(i, 2) \in -1 .. sp[i]
      /\ First(memory[data[i]], Popped(i, 2) + 1) = Below(Elements(i), 2)
  BY PoppedIs
<1>2. sp \in [Interpreters -> Int] /\ running \subseteq Interpreters
  BY DEF StacksInv, StacksTypeOK, running
<1>3. sp'[i] = Popped(i, 2) /\ (\A j \in Interpreters \ {i} : sp'[j] = sp[j])
      /\ sp' \in [Interpreters -> Int]
  BY <1>1, <1>2
<1>4. \A j \in running : -1 <= sp[j] /\ sp[j] \in Int
  BY <1>2 DEF StacksInv, InBlock
<1>5. \A j \in running : Elements(j) = First(memory[data[j]], sp[j] + 1)
  BY ElementsAre
<1> QED
  BY <1>1, <1>2, <1>3, <1>4, <1>5 DEF Left

(* A store to an element: of a stack, or of none.                          *)
LEMMA StoreInActs ==
  ASSUME StacksInv, TextTypeOK, NEW i \in Interpreters, word_store(i),
         NEW b \in Addresses, NEW k \in DOMAIN memory[b],
         StoresIn(b, k, Top(Elements(i), 2))
  PROVE  StacksInv' /\ MachineStep
<1> DEFINE t == content[ptr[i]]
           v == Top(Elements(i), 2)
<1>1. /\ i \in running /\ UNCHANGED state /\ running' = running /\ running \subseteq Interpreters
      /\ t.word = "!" /\ done' = [done EXCEPT ![i] = Append(done[i], t)]
      /\ sp' = [sp EXCEPT ![i] = Popped(i, 2)]
      /\ UNCHANGED <<data, size, used, lost>>
      /\ memory' = [memory EXCEPT ![b][k] = v]
  BY DEF word_store, StoresIn, Carried, running
<1>2. t \in Tokens
  BY DEF word_store, next_token, AtEnd, TextTypeOK
<1>3. v \in Ints
  BY <1>1, ElementsAre, TopIsInt
<1> HIDE DEF t, v
<1>4. done'[i] = Append(done[i], t) /\ \A j \in Interpreters \ {i} : done'[j] = done[j]
  BY <1>1 DEF TextTypeOK
<1>5. /\ sp' \in [Interpreters -> Int]
      /\ \A j \in running :
           /\ -1 <= sp'[j] /\ sp'[j] <= sp[j] /\ sp[j] \in Int
           /\ Left(i, j) = First(memory[data[j]], sp'[j] + 1)
  BY <1>1, LeftIs
<1>6. /\ StacksTypeOK /\ NoneYet /\ InBlock /\ SharedAreLost /\ OneEach
      /\ memory[b] \in Seq(Ints) /\ 0 \in Nat /\ 0 <= Len(memory[b])
  BY DEF StacksInv, StacksTypeOK
<1>7. [memory[b] EXCEPT ![k] = v] \in Seq(Ints) /\ Len([memory[b] EXCEPT ![k] = v]) = Len(memory[b])
  BY <1>3, <1>6, StoredRow
<1>8. /\ memory'[b] = [memory[b] EXCEPT ![k] = v]
      /\ \A c \in Addresses \ {b} : memory'[c] = memory[c]
      /\ memory' \in [Addresses -> Seq(Ints)]
  BY <1>1, <1>6, <1>7 DEF StacksTypeOK
<1>9. \A c \in Addresses : Len(memory'[c]) = Len(memory[c])
  BY <1>7, <1>8
<1>10. ASSUME NEW j \in running
       PROVE  /\ sp'[j] + 1 \in Nat /\ sp'[j] + 1 <= Len(memory[data[j]])
              /\ data[j] \in Addresses /\ sp'[j] < size[j] /\ -1 <= sp'[j]
              /\ memory[data[j]] \in Seq(Ints)
              /\ Elements(j)' = First(memory'[data[j]], sp'[j] + 1)
  <2>1. /\ -1 <= sp'[j] /\ sp'[j] <= sp[j] /\ sp[j] \in Int /\ sp'[j] \in Int
        /\ sp[j] < size[j] /\ sp[j] + 1 <= Len(memory[data[j]]) /\ data[j] \in Addresses
        /\ size[j] \in Nat /\ memory[data[j]] \in Seq(Ints)
    BY <1>1, <1>5, <1>6 DEF InBlock, StacksTypeOK
  <2>2. Len(memory[data[j]]) \in Nat
    BY <2>1
  <2>3. Elements(j)' = First(memory'[data[j]], sp'[j] + 1)
    BY <1>1 DEF Elements, First
  <2> QED
    BY <2>1, <2>2, <2>3
<1>11. StacksInv'
  <2>1. StacksTypeOK'
    BY <1>1, <1>5, <1>6, <1>8 DEF StacksTypeOK
  <2>2. NoneYet' /\ SharedAreLost' /\ OneEach'
    BY <1>1, <1>6 DEF NoneYet, SharedAreLost, OneEach
  <2>3. InBlock'
    BY <1>1, <1>9, <1>10 DEF InBlock
  <2> QED
    BY <2>1, <2>2, <2>3 DEF StacksInv
(* An element that is hit, and what is not.                                *)
<1>12. ASSUME NEW j \in running, ~(data[j] = b /\ k <= sp'[j] + 1)
       PROVE  Elements(j)' = Left(i, j)
  <2>1. CASE data[j] # b
    BY <1>5, <1>8, <1>10, <2>1
  <2>2. CASE data[j] = b /\ ~(k <= sp'[j] + 1)
    <3> DEFINE n == sp'[j] + 1
    <3>2. n \in Nat /\ n <= Len(memory[b]) /\ ~(k <= n)
      BY <1>10, <2>2
    <3> HIDE DEF n
    <3>3. First([memory[b] EXCEPT ![k] = v], n) = First(memory[b], n)
      BY <1>3, <1>6, <3>2, StoredAbove
    <3>1. First([memory[b] EXCEPT ![k] = v], sp'[j] + 1) = First(memory[b], sp'[j] + 1)
      BY <3>3 DEF n
    <3> QED
      BY <1>5, <1>8, <1>10, <2>2, <3>1
  <2> QED
    BY <1>12, <2>1, <2>2
<1>13. ASSUME NEW j \in running, data[j] = b, k <= sp'[j] + 1
       PROVE  k \in DOMAIN Left(i, j) /\ Elements(j)' = [Left(i, j) EXCEPT ![k] = v]
  <2> DEFINE n == sp'[j] + 1
  <2>2. n \in Nat /\ n <= Len(memory[b]) /\ k <= n
    BY <1>10, <1>13
  <2> HIDE DEF n
  <2>3. /\ k \in DOMAIN First(memory[b], n)
        /\ First([memory[b] EXCEPT ![k] = v], n) = [First(memory[b], n) EXCEPT ![k] = v]
    BY <1>3, <1>6, <2>2, StoredRow
  <2>1. /\ k \in DOMAIN First(memory[b], sp'[j] + 1)
        /\ First([memory[b] EXCEPT ![k] = v], sp'[j] + 1)
             = [First(memory[b], sp'[j] + 1) EXCEPT ![k] = v]
    BY <2>3 DEF n
  <2> QED
    BY <1>5, <1>8, <1>10, <1>13, <2>1
<1>14. \A j \in running : stack[j] = Elements(j) /\ stack'[j] = Elements(j)'
  BY <1>1, StackIs, StackWillBe
<1>15. Machine!Below(stack[i], 2) = Below(Elements(i), 2) /\ Machine!Top(stack[i], 2) = v
  BY <1>1, <1>14 DEF Machine!Below, Below, Machine!Top, Top, v
<1>16. CASE \E j \in running \ lost : data[j] = b /\ k <= sp'[j] + 1
  <2>1. PICK j \in running \ lost : data[j] = b /\ k <= sp'[j] + 1
    BY <1>16
  <2>2. ASSUME NEW l \in running \ {j} PROVE Elements(l)' = Left(i, l)
    <3>1. data[l] # b
      <4>1. SUFFICES ASSUME data[l] = b PROVE FALSE
        OBVIOUS
      <4>2. b = NULL
        BY <1>1, <1>6, <2>1, <4>1 DEF OneEach
      <4>3. j \in lost
        BY <1>6, <2>1, <4>1, <4>2 DEF SharedAreLost
      <4> QED
        BY <2>1, <4>3
    <3> QED
      BY <1>12, <3>1
  <2>3. k \in DOMAIN Left(i, j) /\ Elements(j)' = [Left(i, j) EXCEPT ![k] = v]
    BY <1>13, <2>1
  <2>4. Left(i, j) = IF j = i THEN Machine!Below(stack[i], 2) ELSE stack[j]
    BY <1>14, <1>15, <2>1 DEF Left
  <2>5. j # i => stack'[i] = Machine!Below(stack[i], 2) /\ done'[j] = done[j]
    BY <1>1, <1>4, <1>14, <1>15, <2>1, <2>2 DEF Left
  <2>6. stack'[j] = [Left(i, j) EXCEPT ![k] = v]
    BY <1>14, <2>1, <2>3
  <2>7. Machine!StoresIn(i, j)
    <3>1. i \in running /\ running' = running
          /\ \E x \in Tokens : x.word = "!" /\ done'[i] = Append(done[i], x)
      BY <1>1, <1>2, <1>4
    <3> QED
      BY <1>15, <2>3, <2>4, <2>5, <2>6, <3>1 DEF Machine!StoresIn
  <2>8. ASSUME NEW l \in Interpreters \ {i, j}
        PROVE  stack'[l] = stack[l] /\ done'[l] = done[l]
    <3>1. CASE l \in running
      BY <1>4, <1>14, <2>2, <3>1 DEF Left
    <3>2. CASE l \notin running
      BY <1>1, <1>4, <3>2, StackIs, StackWillBe
    <3> QED
      BY <3>1, <3>2
  <2>9. Machine!Acts(i)
    BY <1>1, <2>1, <2>7, <2>8 DEF Machine!Acts, Machine!Keeps
  <2> QED
    BY <1>11, <2>9 DEF MachineStep
<1>17. CASE ~ \E j \in running \ lost : data[j] = b /\ k <= sp'[j] + 1
  <2>1. \A j \in running \ lost : Elements(j)' = Left(i, j)
    BY <1>12, <1>17
  <2>2. \A j \in running \ (lost' \union {i}) : Elements(j)' = Elements(j)
    BY <1>1, <2>1 DEF Left
  <2>3. i \in lost' \/ Machine!CarriesOut(i)
    <3>1. SUFFICES ASSUME i \notin lost PROVE Machine!CarriesOut(i)
      BY <1>1
    <3>2. stack'[i] = Below(stack[i], 2)
      BY <1>1, <1>14, <2>1, <3>1 DEF Left
    <3>3. Results(stack[i], t) = {Below(stack[i], 2)}
      BY <1>1 DEF Results, Operators
    <3>4. stack'[i] \in Machine!Results(stack[i], t)
      BY <3>2, <3>3, SameResults
    <3> QED
      BY <1>1, <1>2, <1>4, <3>4 DEF Machine!CarriesOut
  <2> QED
    BY <1>1, <1>4, <1>11, <2>2, <2>3, OthersStay
<1> QED
  BY <1>16, <1>17

(* A store that hits no stack pops two elements.                           *)
LEMMA StoreActs ==
  ASSUME StacksInv, TextTypeOK, NEW i \in Interpreters, word_store(i)
  PROVE  StacksInv' /\ MachineStep
<1> DEFINE t == content[ptr[i]]
<1>1. /\ i \in running /\ t.word = "!" /\ done' = [done EXCEPT ![i] = Append(done[i], t)]
      /\ sp' = [sp EXCEPT ![i] = Popped(i, 2)] /\ UNCHANGED <<data, size, used>>
  BY DEF word_store, Carried, running
<1>2. t \in Tokens
  BY DEF word_store, next_token, AtEnd, TextTypeOK
<1> HIDE DEF t
<1>3. done'[i] = Append(done[i], t) /\ \A j \in Interpreters \ {i} : done'[j] = done[j]
  BY <1>1 DEF TextTypeOK
<1>4. CASE \E b \in Addresses : \E k \in DOMAIN memory[b] : StoresIn(b, k, Top(Elements(i), 2))
  BY <1>4, StoreInActs
<1>5. CASE UNCHANGED <<state, memory, lost>>
  <2>1. stack_pop(i, 2) /\ running' = running
    BY <1>1, <1>5 DEF stack_pop, heap, running
  <2>2. /\ StacksInv' /\ lost' = lost
        /\ Elements(i)' = Below(Elements(i), 2)
        /\ \A j \in running \ {i} : Elements(j)' = Elements(j)
    BY <1>1, <1>5, <2>1, PopActs
  <2>3. stack[i] = Elements(i) /\ stack'[i] = Elements(i)'
    BY <1>1, <2>1, StackIs, StackWillBe
  <2>4. Results(stack[i], t) = {Below(stack[i], 2)}
    BY <1>1 DEF Results, Operators
  <2>5. stack'[i] \in Machine!Results(stack[i], t)
    BY <2>2, <2>3, <2>4, SameResults
  <2>6. Machine!CarriesOut(i)
    BY <1>1, <1>2, <1>3, <2>1, <2>5 DEF Machine!CarriesOut
  <2> QED
    BY <1>3, <2>1, <2>2, <2>6, OthersStay
<1>6. CASE \E j \in Interpreters : StoresAstray(j)
  <2>1. PICK j \in Interpreters : StoresAstray(j)
    BY <1>6
  <2>2. /\ GoesAstray /\ lost' = Interpreters /\ UNCHANGED memory
        /\ state' = [state EXCEPT ![j] = IF state[j] = "run" THEN "wild" ELSE state[j]]
    BY <2>1 DEF StoresAstray, GoesAstray
  <2>3. /\ StacksTypeOK /\ NoneYet /\ InBlock /\ OneEach /\ running \subseteq Interpreters
    BY DEF StacksInv, running
  <2>4. /\ state' \in [Interpreters -> States]
        /\ \A l \in Interpreters : state'[l] = state[l] \/ (state[l] = "run" /\ state'[l] = "wild")
    BY <2>2, <2>3 DEF StacksTypeOK, States
  <2>5. running' \subseteq running
    BY <2>4 DEF running
  <2>6. /\ sp' \in [Interpreters -> Int]
        /\ \A l \in running : -1 <= sp'[l] /\ sp'[l] <= sp[l] /\ sp[l] \in Int
    BY <1>1, LeftIs
  <2>7. StacksTypeOK'
    BY <1>1, <2>2, <2>3, <2>4, <2>6 DEF StacksTypeOK
  <2>8. NoneYet' /\ OneEach'
    BY <1>1, <2>3, <2>4 DEF NoneYet, OneEach
  <2>9. SharedAreLost'
    BY <2>2, <2>3, <2>5 DEF SharedAreLost
  <2>10. InBlock'
    <3>1. SUFFICES ASSUME NEW l \in running
                   PROVE  -1 <= sp'[l] /\ sp'[l] < size[l] /\ sp'[l] + 1 <= Len(memory[data[l]])
      BY <1>1, <2>2, <2>5 DEF InBlock
    <3>2. /\ sp[l] < size[l] /\ sp[l] + 1 <= Len(memory[data[l]]) /\ size[l] \in Nat
          /\ memory[data[l]] \in Seq(Ints) /\ sp'[l] \in Int
      BY <2>3, <2>6 DEF InBlock, StacksTypeOK
    <3>3. Len(memory[data[l]]) \in Nat
      BY <3>2
    <3> QED
      BY <2>6, <3>2, <3>3
  <2>11. MachineStep
    BY <2>2, <2>3, AstrayActs DEF StacksTypeOK
  <2> QED
    BY <2>7, <2>8, <2>9, <2>10, <2>11 DEF StacksInv
<1> QED
  BY <1>4, <1>5, <1>6 DEF word_store, StoresInText, StoresAway, Addresses

LEMMA EndActs ==
  ASSUME StacksInv, NEW i \in Interpreters, Faults(i) \/ Exits(i)
  PROVE  StacksInv' /\ MachineStep
<1>1. /\ state[i] \in {"run", "wild"} /\ UNCHANGED <<data, size, sp, memory, used, done, lost>>
      /\ state' = [state EXCEPT ![i] = "killed"] \/ state' = [state EXCEPT ![i] = "ended"]
  BY DEF Faults, Exits, stacks, heap, runs
<1>2. state \in [Interpreters -> States]
  BY DEF StacksInv, StacksTypeOK
<1>3. /\ state' \in [Interpreters -> States] /\ state'[i] \in {"killed", "ended"}
      /\ \A j \in Interpreters \ {i} : state'[j] = state[j]
  BY <1>1, <1>2 DEF States
<1>4. running' = running \ {i}
  BY <1>1, <1>3 DEF running
<1>5. StacksInv'
  <2>1. StacksTypeOK'
    BY <1>1, <1>3 DEF StacksInv, StacksTypeOK
  <2>2. NoneYet'
    BY <1>1, <1>3 DEF StacksInv, NoneYet
  <2>3. InBlock' /\ SharedAreLost' /\ OneEach'
    BY <1>1, <1>4 DEF StacksInv, InBlock, SharedAreLost, OneEach
  <2> QED
    BY <2>1, <2>2, <2>3 DEF StacksInv
<1>6. Machine!Ends(i)
  BY <1>1, <1>4, StackWillBe DEF Machine!Ends
<1>7. \A j \in Interpreters : Elements(j)' = Elements(j)
  BY <1>1 DEF Elements
<1>8. MachineStep
  BY <1>1, <1>4, <1>6, <1>7, OthersStay, StackIs
<1> QED
  BY <1>5, <1>8

LEMMA StacksStep ==
  ASSUME StacksInv, TextTypeOK, [ForthNext]_forthVars
  PROVE  StacksInv' /\ MachineStep
<1>1. state \in [Interpreters -> States]
  BY DEF StacksInv, StacksTypeOK
<1>2. CASE \E i \in Interpreters : stack_init(i) \/ stack_init_fails(i) \/ Interpret(i)
                                     \/ word_store(i) \/ Faults(i) \/ Exits(i)
  BY <1>2, InitActs, InitFailsActs, InterpretActs, StoreActs, EndActs
<1>3. ASSUME NEW i \in Interpreters, (\E p \in Programs : Start(i, p)) \/ create_task(i)
      PROVE  StacksInv' /\ MachineStep
  <2>1. /\ state[i] = "none" /\ state' = [state EXCEPT ![i] = "ready"]
        /\ UNCHANGED <<data, size, sp, memory, used, lost, done>>
    BY <1>3 DEF Start, create_task, stacks, heap
  <2>2. state' \in [Interpreters -> States] /\ state'[i] = "ready"
        /\ \A j \in Interpreters \ {i} : state'[j] = state[j]
    BY <1>1, <2>1 DEF States
  <2>3. running' = running
    BY <2>1, <2>2 DEF running
  <2> QED
    BY <2>1, <2>2, <2>3, OutsideActs
<1>4. CASE \/ (\E p \in Lines : TypeLine(p)) \/ content_clear \/ UNCHANGED forthVars
           \/ \E i \in Interpreters : RunsWild(i)
  <2>1. UNCHANGED <<state, data, size, sp, memory, used, lost, done>>
    BY <1>4 DEF TypeLine, content_clear, RunsWild, forthVars, stacks, heap, runs
  <2>2. running' = running
    BY <2>1 DEF running
  <2> QED
    BY <1>1, <2>1, <2>2, OutsideActs
<1> QED
  BY <1>2, <1>3, <1>4 DEF ForthNext


-----------------------------------------------------------------------------
(* Each step keeps what is known of the text.                              *)

LEMMA SizesAre ==
  /\ Cells \in Nat /\ Chunk \in 1 .. Cells - 1 /\ \A k \in 1 .. Chunk : k \in 1 .. Cells
  /\ \A p \in Programs \union Lines \union {<<>>} :
       /\ Len(p) \in Nat /\ Len(p) < Cells /\ DOMAIN p = 1 .. Len(p)
       /\ \A k \in DOMAIN p : p[k] \in Tokens
<1>1. Cells \in Nat /\ Chunk \in 1 .. Cells - 1
  BY ForthAssumption
<1>2. \A k \in 1 .. Chunk : k \in 1 .. Cells
  BY <1>1
<1>3. ASSUME NEW p \in Programs \union Lines \union {<<>>}
      PROVE  /\ Len(p) \in Nat /\ Len(p) < Cells /\ DOMAIN p = 1 .. Len(p)
             /\ \A k \in DOMAIN p : p[k] \in Tokens
  <2>1. p \in Seq(Tokens) /\ Len(p) < Cells
    <3>1. CASE p \in Programs \union Lines
      BY <3>1, TokensAre
    <3>2. CASE p = <<>>
      <4>1. Len(<<>>) = 0 /\ <<>> \in Seq(Tokens)
        OBVIOUS
      <4> QED
        BY <1>1, <3>2, <4>1
    <3> QED
      BY <3>1, <3>2
  <2> QED
    BY <2>1, LenProperties, ElementOfSeq
<1> QED
  BY <1>1, <1>2, <1>3

(* Who reads while another does has not been left alone.                   *)
LEMMA OnlyReader ==
  ASSUME OwnInv, ~astray, NEW i \in Interpreters, Reads(i),
         NEW j \in Interpreters \ {i}, alone[j]
  PROVE  ~Reads(j)
BY DEF OwnInv, OwnOf, Undisturbed

(* A step of a reader leaves the others' texts and programs alone.         *)
LEMMA ReaderActs ==
  ASSUME OwnInv, NEW i \in Interpreters, Reads(i), UNCHANGED <<alone, program, astray>>,
         \A j \in Interpreters \ {i} : state'[j] = state[j] /\ done'[j] = done[j],
         ~astray => OwnOf(i)'
  PROVE  OwnInv'
<1>1. ASSUME ~astray, NEW j \in Interpreters \ {i} PROVE OwnOf(j)'
  <2>1. alone[j] => ~Reads(j)
    BY <1>1, OnlyReader
  <2>2. alone'[j] => ~Reads(j)'
    BY <2>1 DEF Reads
  <2> QED
    BY <1>1, <2>2 DEF OwnInv, OwnOf
<1> QED
  BY <1>1 DEF OwnInv

(* The shell writes to content, for no program.                            *)
LEMMA WriteKeeps ==
  ASSUME TextTypeOK, OwnInv, Disturbs, UNCHANGED <<state, program, astray>>,
         \A i \in Interpreters : Reads(i) \/ done'[i] = done[i]
  PROVE  /\ alone' \in [Interpreters -> BOOLEAN] /\ OwnInv'
<1>1. \A i \in Interpreters : alone'[i] <=> alone[i] /\ ~Reads(i)
  BY DEF Disturbs
<1>2. alone' \in [Interpreters -> BOOLEAN]
  BY DEF Disturbs, Reads, TextTypeOK
<1>3. ASSUME ~astray, NEW i \in Interpreters PROVE OwnOf(i)'
  <2>1. alone'[i] => alone[i] /\ ~Reads(i)' /\ done'[i] = done[i]
    BY <1>1 DEF Reads
  <2>2. state[i] = "none" => done'[i] = done[i]
    BY DEF Reads
  <2> QED
    BY <1>3, <2>1, <2>2 DEF OwnInv, OwnOf
<1> QED
  BY <1>2, <1>3 DEF OwnInv

LEMMA TypeLineKeeps ==
  ASSUME TextTypeOK, OwnInv, NEW p \in Lines, TypeLine(p)
  PROVE  TextTypeOK' /\ OwnInv'
<1>1. /\ content' = [k \in 1 .. Cells |->
                       IF k \in DOMAIN p THEN p[k]
                       ELSE IF k = Len(p) + 1 THEN End ELSE content[k]]
      /\ cut' = cut \ DOMAIN p /\ Disturbs /\ UNCHANGED <<state, ptr, program, done, astray>>
  BY DEF TypeLine
<1>2. \A k \in DOMAIN p : p[k] \in Tokens
  BY SizesAre
<1>3. content' \in [1 .. Cells -> Tokens \union {End}]
  BY <1>1, <1>2 DEF TextTypeOK
<1> QED
  BY <1>1, <1>3, WriteKeeps DEF TextTypeOK

LEMMA ClearKeeps ==
  ASSUME TextTypeOK, OwnInv, content_clear
  PROVE  TextTypeOK' /\ OwnInv'
<1>1. /\ content' = [k \in 1 .. Cells |-> End] /\ cut' = {}
      /\ Disturbs /\ UNCHANGED <<state, ptr, program, done, astray>>
  BY DEF content_clear
<1> QED
  BY <1>1, WriteKeeps DEF TextTypeOK

(* What is loaded covers what was cut of what is read of a file.           *)
LEMMA StartKeeps ==
  ASSUME StacksInv, TextTypeOK, OwnInv,
         NEW i \in Interpreters, NEW p \in Programs, Start(i, p)
  PROVE  TextTypeOK' /\ OwnInv'
<1>1. /\ state[i] = "none" /\ state' = [state EXCEPT ![i] = "ready"]
      /\ content' = [k \in 1 .. Cells |->
                       IF k > Chunk THEN content[k]
                       ELSE IF k \in DOMAIN p THEN p[k] ELSE End]
      /\ cut' = cut \ (1 .. Chunk)
      /\ program' = [program EXCEPT ![i] = p]
      /\ alone' = [j \in Interpreters |->
                     alone[j] /\ (IF j = i THEN \A k \in Interpreters : ~Reads(k)
                                  ELSE ~Reads(j))]
      /\ UNCHANGED <<ptr, done, astray>>
  BY DEF Start, Load
<1>2. /\ state'[i] = "ready" /\ \A j \in Interpreters \ {i} : state'[j] = state[j]
  BY <1>1 DEF StacksInv, StacksTypeOK
<1>3. /\ program' \in [Interpreters -> Programs \union {<<>>}] /\ program'[i] = p
      /\ \A j \in Interpreters \ {i} : program'[j] = program[j]
  BY <1>1 DEF TextTypeOK
<1>4. /\ Len(p) \in Nat /\ DOMAIN p = 1 .. Len(p) /\ \A k \in DOMAIN p : p[k] \in Tokens
      /\ Cells \in Nat /\ Chunk \in 1 .. Cells - 1 /\ \A k \in 1 .. Chunk : k \in 1 .. Cells
  BY SizesAre
<1>5. TextTypeOK'
  <2>1. content' \in [1 .. Cells -> Tokens \union {End}]
    BY <1>1, <1>4 DEF TextTypeOK
  <2>2. alone' \in [Interpreters -> BOOLEAN]
    BY <1>1 DEF TextTypeOK, Reads
  <2> QED
    BY <1>1, <1>2, <1>3, <2>1, <2>2 DEF TextTypeOK
<1>6. ASSUME ~astray, NEW j \in Interpreters \ {i} PROVE OwnOf(j)'
  <2>1. alone'[j] => alone[j] /\ ~Reads(j)'
    BY <1>1, <1>2 DEF Reads
  <2> QED
    BY <1>1, <1>2, <1>3, <1>6, <2>1 DEF OwnInv, OwnOf
<1>7. ASSUME ~astray PROVE OwnOf(i)'
  <2>1. SUFFICES ASSUME alone'[i] PROVE Undisturbed(i)'
    BY <1>2, <2>1 DEF OwnOf
  <2>2. \A j \in Interpreters \ {i} : ~Reads(j)'
    BY <1>1, <1>2, <2>1 DEF Reads
  <2>3. done'[i] = <<>> /\ Len(done'[i]) = 0
    BY <1>1, <1>7 DEF OwnInv, OwnOf
  <2>4. ASSUME Len(p) < Chunk
        PROVE  /\ \A k \in 1 .. Len(p) : content'[k] = p[k]
               /\ content'[Len(p) + 1] = End
    <3>1. \A k \in 1 .. Len(p) + 1 : k \in 1 .. Chunk /\ k \in 1 .. Cells /\ ~(k > Chunk)
      BY <1>4, <2>4
    <3>2. Len(p) + 1 \in 1 .. Len(p) + 1 /\ Len(p) + 1 \notin DOMAIN p
          /\ \A k \in 1 .. Len(p) : k \in 1 .. Len(p) + 1 /\ k \in DOMAIN p
      BY <1>4
    <3> QED
      BY <1>1, <3>1, <3>2
  <2>5. \A k \in cut' : ~(k <= Chunk)
    BY <1>1, <1>4 DEF TextTypeOK
  <2>6. 0 <= Len(p)
    BY <1>4
  <2> QED
    BY <1>2, <1>3, <2>2, <2>3, <2>4, <2>5, <2>6 DEF Undisturbed
<1> QED
  BY <1>1, <1>5, <1>6, <1>7 DEF OwnInv

(* Who is created without a program is not left alone.                     *)
LEMMA CreateKeeps ==
  ASSUME StacksInv, TextTypeOK, OwnInv, NEW i \in Interpreters, create_task(i)
  PROVE  TextTypeOK' /\ OwnInv'
<1>1. /\ state[i] = "none" /\ state' = [state EXCEPT ![i] = "ready"]
      /\ alone' = [j \in Interpreters |-> j # i /\ alone[j] /\ ~Reads(j)]
      /\ UNCHANGED <<content, cut, ptr, program, done, astray>>
  BY DEF create_task, text
<1>2. /\ state'[i] = "ready" /\ \A j \in Interpreters \ {i} : state'[j] = state[j]
  BY <1>1 DEF StacksInv, StacksTypeOK
<1>3. TextTypeOK'
  <2>1. alone' \in [Interpreters -> BOOLEAN]
    BY <1>1 DEF TextTypeOK, Reads
  <2> QED
    BY <1>1, <1>2, <2>1 DEF TextTypeOK
<1>4. ASSUME ~astray, NEW j \in Interpreters PROVE OwnOf(j)'
  <2>1. alone'[j] => j # i /\ alone[j] /\ ~Reads(j)'
    BY <1>1, <1>2 DEF Reads
  <2>2. state'[j] = "none" => state[j] = "none"
    BY <1>2
  <2> QED
    BY <1>1, <1>2, <1>4, <2>1, <2>2 DEF OwnInv, OwnOf
<1> QED
  BY <1>1, <1>3, <1>4 DEF OwnInv

LEMMA InitKeeps ==
  ASSUME StacksInv, TextTypeOK, OwnInv, NEW i \in Interpreters, stack_init(i)
  PROVE  TextTypeOK' /\ OwnInv'
<1>1. /\ state[i] = "ready" /\ state' = [state EXCEPT ![i] = "run"]
      /\ ptr' = [ptr EXCEPT ![i] = 1] /\ UNCHANGED <<content, cut, program, done, alone, astray>>
  BY DEF stack_init, Opens, text, runs
<1>2. state'[i] = "run" /\ \A j \in Interpreters \ {i} : state'[j] = state[j]
  BY <1>1 DEF StacksInv, StacksTypeOK
<1>3. ptr' \in [Interpreters -> Nat \ {0}] /\ ptr'[i] = 1
  BY <1>1 DEF TextTypeOK
<1>4. ASSUME ~astray PROVE OwnOf(i)'
  <2>1. SUFFICES ASSUME alone[i] PROVE Undisturbed(i)'
    BY <1>1, <1>2 DEF OwnOf
  <2>2. Undisturbed(i)
    BY <1>1, <1>4, <2>1 DEF OwnInv, OwnOf, Reads
  <2>3. done[i] = <<>> => Len(done[i]) + 1 = 1
    OBVIOUS
  <2> QED
    BY <1>1, <1>2, <1>3, <2>2, <2>3 DEF Undisturbed, Reads
<1>5. OwnInv'
  BY <1>1, <1>2, <1>4, ReaderActs DEF Reads
<1> QED
  BY <1>1, <1>2, <1>3, <1>5 DEF TextTypeOK

LEMMA LeaveKeeps ==
  ASSUME StacksInv, TextTypeOK, OwnInv, NEW i \in Interpreters,
         stack_init_fails(i) \/ Faults(i)
  PROVE  TextTypeOK' /\ OwnInv'
<1>1. CASE stack_init_fails(i)
  <2>1. /\ astray' = TRUE /\ ptr' = [ptr EXCEPT ![i] = 1]
        /\ UNCHANGED <<content, cut, program, done, alone>>
    BY <1>1 DEF stack_init_fails, Opens, GoesAstray, text, runs
  <2>2. ptr' \in [Interpreters -> Nat \ {0}]
    BY <2>1 DEF TextTypeOK
  <2> QED
    BY <2>1, <2>2 DEF TextTypeOK, OwnInv
<1>2. CASE Faults(i)
  <2>1. /\ Reads(i) /\ state' = [state EXCEPT ![i] = "killed"]
        /\ ~AtEnd(i) /\ cut' = cut \union {ptr[i]}
        /\ UNCHANGED <<content, ptr, program, done, alone, astray>>
    BY <1>2 DEF Faults, text, runs, Reads
  <2>2. state'[i] = "killed" /\ \A j \in Interpreters \ {i} : state'[j] = state[j]
    BY <2>1 DEF StacksInv, StacksTypeOK
  <2>3. OwnOf(i)'
    BY <2>2 DEF OwnOf, Reads
  <2>4. OwnInv'
    BY <2>1, <2>2, <2>3, ReaderActs
  <2>5. cut' \subseteq 1 .. Cells
    BY <2>1 DEF AtEnd, TextTypeOK
  <2> QED
    BY <2>1, <2>2, <2>4, <2>5 DEF TextTypeOK
<1> QED
  BY <1>1, <1>2

(* Of the reader that is left alone: where it is, and where its program    *)
(* ends.                                                                   *)
LEMMA WhereItReads ==
  ASSUME TextTypeOK, OwnInv, ~astray, NEW i \in Interpreters, alone[i], state[i] = "run",
         Len(program[i]) < Chunk
  PROVE  /\ ptr[i] = Len(done[i]) + 1 /\ Len(done[i]) \in Nat /\ Len(program[i]) \in Nat
         /\ ptr[i] \in 1 .. Chunk /\ ptr[i] \in DOMAIN content
         /\ ptr[i] <= Len(program[i]) => content[ptr[i]] = program[i][ptr[i]]
         /\ AtEnd(i) <=> Len(done[i]) = Len(program[i])
         /\ ptr[i] \notin cut
<1>1. Undisturbed(i)
  BY DEF OwnInv, OwnOf, Reads
<1>2. /\ ptr[i] = Len(done[i]) + 1 /\ Len(done[i]) <= Len(program[i])
      /\ \A k \in 1 .. Len(program[i]) : content[k] = program[i][k]
      /\ content[Len(program[i]) + 1] = End
      /\ \A k \in cut : k <= Chunk => k <= Len(done[i])
  BY <1>1 DEF Undisturbed
<1>3. /\ Len(program[i]) \in Nat /\ Chunk \in Nat
      /\ \A k \in 1 .. Chunk : k \in 1 .. Cells
      /\ \A k \in 1 .. Len(program[i]) : program[i][k] \in Tokens
  BY SizesAre DEF TextTypeOK
<1>4. Len(done[i]) \in Nat
  BY LenProperties DEF TextTypeOK
<1>5. ptr[i] \in 1 .. Chunk /\ (ptr[i] <= Len(program[i]) => ptr[i] \in 1 .. Len(program[i]))
  BY <1>2, <1>3, <1>4
<1>6. ptr[i] \in DOMAIN content
  BY <1>3, <1>5 DEF TextTypeOK
<1>7. ptr[i] \notin cut
  BY <1>2, <1>4, <1>5
<1>8. AtEnd(i) <=> Len(done[i]) = Len(program[i])
  <2>1. CASE Len(done[i]) = Len(program[i])
    BY <1>2, <2>1 DEF AtEnd
  <2>2. CASE Len(done[i]) # Len(program[i])
    <3>1. ptr[i] \in 1 .. Len(program[i])
      BY <1>2, <1>3, <1>4, <2>2
    <3>2. content[ptr[i]] # End
      BY <1>2, <1>3, <3>1, TokensAre
    <3> QED
      BY <1>6, <2>2, <3>2 DEF AtEnd
  <2> QED
    BY <2>1, <2>2
<1> QED
  BY <1>2, <1>3, <1>4, <1>5, <1>6, <1>7, <1>8

LEMMA TakesKeeps ==
  ASSUME StacksInv, TextTypeOK, OwnInv, NEW i \in Interpreters,
         state[i] = "run", next_token(i), Carried(i),
         UNCHANGED <<state, content, program, alone, astray>>
  PROVE  TextTypeOK' /\ OwnInv'
<1> DEFINE t == content[ptr[i]]
<1>1. /\ state[i] = "run" /\ ~AtEnd(i)
      /\ ptr' = [ptr EXCEPT ![i] = IF @ \in cut THEN Cells + 1 ELSE @ + 1]
      /\ cut' = cut \union {ptr[i]} /\ done' = [done EXCEPT ![i] = Append(done[i], t)]
      /\ UNCHANGED <<state, content, program, alone>>
  BY DEF next_token, Carried
<1>2. ptr[i] \in DOMAIN content /\ t \in Tokens /\ ptr[i] \in 1 .. Cells
  BY <1>1 DEF AtEnd, TextTypeOK
<1> HIDE DEF t
<1>3. done[i] \in Seq(Tokens) /\ ptr[i] \in Nat \ {0} /\ Cells + 1 \in Nat \ {0}
      /\ ptr[i] + 1 \in Nat \ {0}
  BY SizesAre DEF TextTypeOK
<1>4. Append(done[i], t) \in Seq(Tokens) /\ Len(Append(done[i], t)) = Len(done[i]) + 1
      /\ Append(done[i], t)[Len(done[i]) + 1] = t
      /\ \A k \in 1 .. Len(done[i]) : Append(done[i], t)[k] = done[i][k]
  BY <1>2, <1>3, AppendProperties
<1>5. TextTypeOK'
  BY <1>1, <1>2, <1>3, <1>4 DEF TextTypeOK
<1>6. /\ done'[i] = Append(done[i], t) /\ \A j \in Interpreters \ {i} : done'[j] = done[j]
      /\ ptr'[i] = IF ptr[i] \in cut THEN Cells + 1 ELSE ptr[i] + 1
  BY <1>1 DEF TextTypeOK
<1>7. ASSUME ~astray PROVE OwnOf(i)'
  <2>1. SUFFICES ASSUME alone[i] PROVE Undisturbed(i)'
    BY <1>1 DEF OwnOf
  <2>2. Undisturbed(i)
    BY <1>1, <1>7, <2>1 DEF OwnInv, OwnOf, Reads
  <2>3. SUFFICES ASSUME Len(program[i]) < Chunk
                 PROVE  /\ Len(done'[i]) <= Len(program[i])
                        /\ \A k \in 1 .. Len(done'[i]) : done'[i][k] = program[i][k]
                        /\ \A k \in cut' : k <= Chunk => k <= Len(done'[i])
                        /\ ptr'[i] = Len(done'[i]) + 1
    BY <1>1, <2>2, <2>3 DEF Undisturbed, Reads
  <2>4. /\ ptr[i] = Len(done[i]) + 1 /\ Len(done[i]) \in Nat /\ Len(program[i]) \in Nat
        /\ ptr[i] <= Len(program[i]) => t = program[i][ptr[i]]
        /\ Len(done[i]) # Len(program[i]) /\ ptr[i] \notin cut
    BY <1>1, <1>7, <2>1, <2>3, WhereItReads DEF t
  <2>5. /\ Len(done[i]) <= Len(program[i])
        /\ \A k \in 1 .. Len(done[i]) : done[i][k] = program[i][k]
        /\ \A k \in cut : k <= Chunk => k <= Len(done[i])
    BY <2>2, <2>3 DEF Undisturbed
  <2>6. Len(done'[i]) = ptr[i] /\ ptr[i] <= Len(program[i])
    BY <1>4, <1>6, <2>4, <2>5
  <2>7. \A k \in 1 .. ptr[i] : k = ptr[i] \/ k \in 1 .. Len(done[i])
    BY <2>4
  <2>8. \A k \in 1 .. Len(done'[i]) : done'[i][k] = program[i][k]
    BY <1>4, <1>6, <2>4, <2>5, <2>6, <2>7
  <2>9. \A k \in cut' : k <= Chunk => k <= Len(done'[i])
    <3>1. \A k \in cut : k \in Nat
      BY DEF TextTypeOK
    <3> QED
      BY <1>1, <2>4, <2>5, <2>6, <3>1
  <2> QED
    BY <1>6, <2>4, <2>6, <2>8, <2>9
<1>8. OwnInv'
  BY <1>1, <1>6, <1>7, ReaderActs DEF Reads
<1> QED
  BY <1>5, <1>8

LEMMA InterpretKeeps ==
  ASSUME StacksInv, TextTypeOK, OwnInv, NEW i \in Interpreters, Interpret(i)
  PROVE  TextTypeOK' /\ OwnInv'
BY TakesKeeps DEF Interpret

(* A store changes the text only as the shell does.                        *)
LEMMA StoreKeeps ==
  ASSUME StacksInv, TextTypeOK, OwnInv, NEW i \in Interpreters, word_store(i)
  PROVE  TextTypeOK' /\ OwnInv'
<1> DEFINE t == content[ptr[i]]
<1>1. /\ state[i] = "run" /\ next_token(i) /\ Carried(i) /\ UNCHANGED program
  BY DEF word_store
<1>2. CASE UNCHANGED <<state, content, alone, astray>>
  BY <1>1, <1>2, TakesKeeps
<1>3. /\ cut' \subseteq 1 .. Cells /\ ptr' \in [Interpreters -> Nat \ {0}]
      /\ done' \in [Interpreters -> Seq(Tokens)]
      /\ \A j \in Interpreters \ {i} : done'[j] = done[j]
  <2>1. ptr[i] \in DOMAIN content /\ t \in Tokens /\ ptr[i] \in 1 .. Cells
    BY <1>1 DEF next_token, AtEnd, TextTypeOK
  <2> HIDE DEF t
  <2>2. /\ done[i] \in Seq(Tokens) /\ ptr[i] \in Nat \ {0} /\ Cells + 1 \in Nat \ {0}
        /\ ptr[i] + 1 \in Nat \ {0}
    BY SizesAre DEF TextTypeOK
  <2>3. Append(done[i], t) \in Seq(Tokens)
    BY <2>1, <2>2
  <2>4. /\ ptr' = [ptr EXCEPT ![i] = IF @ \in cut THEN Cells + 1 ELSE @ + 1]
        /\ cut' = cut \union {ptr[i]} /\ done' = [done EXCEPT ![i] = Append(done[i], t)]
    BY <1>1 DEF next_token, Carried, t
  <2> QED
    BY <2>1, <2>2, <2>3, <2>4 DEF TextTypeOK
<1>4. CASE \E k \in 1 .. Cells, x \in Scraps : StoresInText(k, x)
  <2>1. PICK k \in 1 .. Cells, x \in Scraps : StoresInText(k, x)
    BY <1>4
  <2>2. content' = [content EXCEPT ![k] = x] /\ Disturbs /\ UNCHANGED <<state, astray>>
        /\ x \in Tokens \union {End}
    BY <2>1, ForthAssumption DEF StoresInText
  <2>3. content' \in [1 .. Cells -> Tokens \union {End}]
    BY <2>2 DEF TextTypeOK
  <2>4. alone' \in [Interpreters -> BOOLEAN] /\ OwnInv'
    BY <1>1, <1>3, <2>2, WriteKeeps DEF Reads
  <2> QED
    BY <1>1, <1>3, <2>2, <2>3, <2>4 DEF TextTypeOK
<1>5. CASE \E j \in Interpreters : StoresAstray(j)
  <2>1. astray' = TRUE /\ UNCHANGED <<content, alone>>
    BY <1>5 DEF StoresAstray, GoesAstray
  <2> QED
    BY <1>1, <1>3, <2>1 DEF TextTypeOK, OwnInv
<1> QED
  BY <1>2, <1>4, <1>5 DEF word_store, StoresIn, StoresAway

(* Once astray, nothing is known of the text.                              *)
LEMMA WildKeeps ==
  ASSUME TextTypeOK, OwnInv, NEW i \in Interpreters, RunsWild(i)
  PROVE  TextTypeOK' /\ OwnInv'
<1>1. /\ state[i] = "wild" /\ ~AtEnd(i)
      /\ ptr' = [ptr EXCEPT ![i] = IF @ \in cut THEN Cells + 1 ELSE @ + 1]
      /\ cut' = cut \union {ptr[i]}
      /\ UNCHANGED <<state, content, program, done, alone, astray>>
  BY DEF RunsWild, next_token, runs
<1>2. ptr[i] \in 1 .. Cells /\ ptr[i] + 1 \in Nat \ {0} /\ Cells + 1 \in Nat \ {0}
  BY <1>1, SizesAre DEF AtEnd, TextTypeOK
<1>3. TextTypeOK'
  BY <1>1, <1>2 DEF TextTypeOK
<1> QED
  BY <1>1, <1>3 DEF TextTypeOK, OwnInv

(* At the end of the text the whole program is done.                       *)
LEMMA ExitsKeeps ==
  ASSUME StacksInv, TextTypeOK, OwnInv, NEW i \in Interpreters, Exits(i)
  PROVE  TextTypeOK' /\ OwnInv'
<1>1. /\ state[i] \in {"run", "wild"} /\ AtEnd(i) /\ state' = [state EXCEPT ![i] = "ended"]
      /\ UNCHANGED <<content, cut, ptr, program, done, alone, astray>>
  BY DEF Exits, text, runs
<1>2. state'[i] = "ended" /\ \A j \in Interpreters \ {i} : state'[j] = state[j]
  BY <1>1 DEF StacksInv, StacksTypeOK
<1>3. ASSUME ~astray, alone[i], Len(program[i]) < Chunk PROVE done[i] = program[i]
  <2>1. state[i] = "run" /\ Len(done[i]) = Len(program[i])
    BY <1>1, <1>3, WhereItReads DEF TextTypeOK
  <2>2. \A k \in 1 .. Len(done[i]) : done[i][k] = program[i][k]
    BY <1>1, <1>3 DEF OwnInv, OwnOf, Undisturbed, Reads
  <2>3. done[i] \in Seq(Tokens) /\ program[i] \in Seq(Tokens)
    <3>1. program[i] \in Programs \/ program[i] = <<>>
      BY DEF TextTypeOK
    <3>2. <<>> \in Seq(Tokens)
      OBVIOUS
    <3> QED
      BY <3>1, <3>2, TokensAre DEF TextTypeOK
  <2> QED
    BY <2>1, <2>2, <2>3, SeqEqual
<1>4. ASSUME ~astray PROVE OwnOf(i)'
  BY <1>1, <1>2, <1>3, <1>4 DEF OwnOf, Reads
<1>5. OwnInv'
  BY <1>1, <1>2, <1>4, ReaderActs DEF Reads
<1> QED
  BY <1>1, <1>2, <1>5 DEF TextTypeOK

LEMMA TextStep ==
  ASSUME ForthInv, [ForthNext]_forthVars
  PROVE  TextTypeOK' /\ OwnInv'
<1> USE DEF ForthInv
<1>1. CASE UNCHANGED forthVars
  <2>1. UNCHANGED <<content, cut, state, ptr, program, done, alone, astray>>
    BY <1>1 DEF forthVars, text, runs
  <2> QED
    BY <2>1 DEF TextTypeOK, OwnInv, OwnOf, Undisturbed, Reads
<1> QED
  BY <1>1, TypeLineKeeps, ClearKeeps, StartKeeps, CreateKeeps, InitKeeps, LeaveKeeps,
     InterpretKeeps, StoreKeeps, WildKeeps, ExitsKeeps DEF ForthNext


-----------------------------------------------------------------------------
LEMMA ForthInitInv ==
  ASSUME ForthInit
  PROVE  ForthInv /\ Machine!MachineInit
<1>1. running = {}
  BY DEF ForthInit, running
<1>2. StacksInv
  <2>1. <<>> \in Seq(Ints) /\ 0 \in Nat /\ -1 \in Int
    OBVIOUS
  <2>2. StacksTypeOK
    BY <2>1 DEF ForthInit, StacksTypeOK, Addresses, States
  <2>3. NoneYet /\ OneEach
    BY DEF ForthInit, NoneYet, OneEach
  <2>4. InBlock /\ SharedAreLost
    BY <1>1 DEF InBlock, SharedAreLost
  <2> QED
    BY <2>2, <2>3, <2>4 DEF StacksInv
<1>3. TextTypeOK
  <2>1. <<>> \in Seq(Tokens) /\ 1 \in Nat \ {0}
    OBVIOUS
  <2> QED
    BY <2>1 DEF ForthInit, TextTypeOK
<1>4. OwnInv
  BY DEF ForthInit, OwnInv, OwnOf, Reads
<1>5. Machine!MachineInit
  <2>1. stack = [i \in Interpreters |-> <<>>]
    BY <1>1 DEF stack
  <2> QED
    BY <1>1, <2>1 DEF ForthInit, Machine!MachineInit
<1> QED
  BY <1>2, <1>3, <1>4, <1>5 DEF ForthInv

LEMMA ForthStep ==
  ASSUME ForthInv, [ForthNext]_forthVars
  PROVE  ForthInv' /\ MachineStep
BY StacksStep, TextStep DEF ForthInv

(* The interpreters keep the invariant that the properties rest on: types, *)
(* blocks, and what the one reader that is left alone has carried out.     *)
THEOREM ForthInvHolds == ForthSpec => []ForthInv
<1>1. ForthInit => ForthInv
  BY ForthInitInv
<1>2. ForthInv /\ [ForthNext]_forthVars => ForthInv'
  BY ForthStep
<1> QED
  BY <1>1, <1>2, PTL DEF ForthSpec

(* Until something goes astray, a block belongs to one interpreter, each   *)
(* holds one at most, its last, and never writes behind its end; so        *)
(* growing gives the old block back (forth.c 41-60).                       *)
THEOREM BlocksHeldHolds == ForthSpec => []BlocksHeld
<1>1. ForthInv => BlocksHeld
  BY DEF ForthInv, StacksInv, InBlock, OneEach, BlocksHeld, running
<1> QED
  BY <1>1, ForthInvHolds, PTL

(* An interpreter of the forth command that content is left to carries out *)
(* its program, all of it and nothing else, whatever was in content before *)
(* (manual_x86.c 144, forth.c 176-207).                                    *)
THEOREM OwnProgramHolds == ForthSpec => []OwnProgram
<1>1. ForthInv => OwnProgram
  BY DEF ForthInv, OwnInv, OwnOf, OwnProgram
<1> QED
  BY <1>1, ForthInvHolds, PTL

(* The elements of a stack are integers of the machine: every word wraps   *)
(* what it computes, and only what fits is divided.                        *)
ElementsFit == \A i \in Interpreters : stack[i] \in Seq(Ints)

THEOREM ElementsFitHolds == ForthSpec => []ElementsFit
<1>1. ForthInv => ElementsFit
  <2> SUFFICES ASSUME ForthInv, NEW i \in Interpreters PROVE stack[i] \in Seq(Ints)
    BY DEF ElementsFit
  <2>1. <<>> \in Seq(Ints)
    OBVIOUS
  <2> QED
    BY <2>1, ElementsAre, StackIs DEF ForthInv
<1> QED
  BY <1>1, ForthInvHolds, PTL

(* Every step of an interpreter is a step of the machine with a stack of   *)
(* its own and without an end: words act on it as they are defined,        *)
(* growing moves all elements, and no other stack changes, but for one     *)
(* element that a "!" writes over with the value it pops; unless two have  *)
(* address 0 in common, or a struct Stack or the kernel is written over.   *)
THEOREM ForthRefinement == ForthSpec => ImplementsMachine
<1>1. ForthInit => Machine!MachineInit
  BY ForthInitInv
<1>2. ForthInv /\ [ForthNext]_forthVars => MachineStep
  BY ForthStep
<1> QED
  BY <1>1, <1>2, ForthInvHolds, PTL
  DEF ForthSpec, ImplementsMachine, Machine!MachineSpec, MachineStep

=============================================================================
