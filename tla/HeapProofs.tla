----------------------------- MODULE HeapProofs -----------------------------
(***************************************************************************)
(* The safety properties of the heap, for every heap size, alignment,      *)
(* header size, size_t width and set of callers.                           *)
(***************************************************************************)
EXTENDS HeapProps, TLAPS

(* At most one call is in progress.                                        *)
Serial == \A c, d \in Callers : InCall(c) /\ InCall(d) => c = d

(* What a caller knows at each point of its call.                          *)
ScanLocals(c) ==
  pc[c] = "scan" =>
    /\ arg[c] > 0 /\ arg[c] <= SizeMax - (Alignment - 1)
    /\ current[c] # NULL => current[c] \in blocks
    /\ \A b \in blocks :
         (current[c] # NULL => b < current[c]) => ~ Fits(b, arg[c])

SplitLocals(c) ==
  pc[c] = "split" =>
    /\ arg[c] > 0 /\ arg[c] <= SizeMax - (Alignment - 1)
    /\ current[c] # NULL /\ current[c] \in blocks /\ Fits(current[c], arg[c])
    /\ mem[current[c]].size - ALIGN(arg[c]) >= BlockSize + Alignment

TakeLocals(c) ==
  pc[c] = "take" =>
    /\ arg[c] > 0 /\ arg[c] <= SizeMax - (Alignment - 1)
    /\ current[c] # NULL /\ current[c] \in blocks /\ Fits(current[c], arg[c])

FreeLocals(c) ==
  /\ pc[c] = "find" \/ pc[c] = "merge" =>
       /\ current[c] # NULL => current[c] \in blocks
       /\ \A l \in live : l.ptr # arg[c]
  /\ pc[c] = "find" =>
       \A b \in blocks : (current[c] # NULL => b < current[c]) => b + BlockSize # arg[c]

Locals ==
  \A c \in Callers :
    ScanLocals(c) /\ SplitLocals(c) /\ TakeLocals(c) /\ FreeLocals(c)

(* Two neighbours are both free only where a call has yet to go: behind    *)
(* the block kmalloc is about to take, and from where the coalescing loop  *)
(* stands.                                                                 *)
Pending(b) ==
  \E c \in Callers :
    \/ pc[c] = "take" /\ b = current[c]
    \/ pc[c] = "merge" /\ current[c] # NULL /\ current[c] <= b

Neighbours ==
  \A b \in blocks :
    mem[b].next # NULL /\ IsFree(b) /\ IsFree(mem[b].next) => Pending(b)

(* A used block without an owner is the one a kfree is about to mark.      *)
Owners ==
  \A b \in blocks :
    ~ IsFree(b) =>
      \/ \E l \in live : l.ptr = b + BlockSize
      \/ \E c \in Callers : /\ pc[c] = "find" /\ arg[c] = b + BlockSize
                            /\ current[c] # NULL

HeapInv ==
  /\ Serial /\ TilesHeap /\ Exclusive /\ Locals /\ Neighbours /\ Owners
  /\ freeList # NULL => freeList = Base /\ HeapIsUsable
  /\ \A l \in live : l.ptr > 0 /\ l.size > 0

(* Pointers lead to headers that have been written, even when calls overlap *)
Closed ==
  /\ freeList # NULL => freeList \in DOMAIN mem
  /\ \A a \in DOMAIN mem : mem[a].next # NULL => mem[a].next \in DOMAIN mem
  /\ \A c \in Callers :
       /\ current[c] # NULL => current[c] \in DOMAIN mem
       /\ pc[c] \in {"split", "take"} => current[c] # NULL

IInv == TypeOK /\ Closed /\ (~overlapped => HeapInv)

-----------------------------------------------------------------------------
(* size_t arithmetic that does not wrap.                                   *)

LEMMA WrapIsIdentity ==
  ASSUME NEW n \in Nat, n <= SizeMax
  PROVE  Wrap(n) = n
BY HeapAssumption DEF Wrap

LEMMA WrapInRange ==
  ASSUME NEW n \in Int
  PROVE  Wrap(n) \in Nat /\ Wrap(n) <= SizeMax
BY HeapAssumption DEF Wrap

LEMMA RoundDownBounds ==
  ASSUME NEW n \in Nat
  PROVE  RoundDown(n) \in Nat /\ RoundDown(n) <= n /\ n < RoundDown(n) + Alignment
BY HeapAssumption, Z3 DEF RoundDown

LEMMA AlignIsNat ==
  ASSUME NEW n \in Nat
  PROVE  ALIGN(n) \in Nat
BY HeapAssumption, WrapInRange, RoundDownBounds DEF ALIGN

LEMMA AlignBounds ==
  ASSUME NEW n \in Nat, n <= SizeMax - (Alignment - 1)
  PROVE  ALIGN(n) \in Nat /\ n <= ALIGN(n)
<1>1. n + Alignment - 1 \in Nat /\ n + Alignment - 1 <= SizeMax
  BY HeapAssumption
<1>2. Wrap(n + Alignment - 1) = n + Alignment - 1
  BY <1>1, WrapIsIdentity
<1>3. QED
  BY <1>1, <1>2, RoundDownBounds, HeapAssumption DEF ALIGN

LEMMA BaseIsNat == Base \in Nat /\ Adjustment \in Nat
BY HeapAssumption DEF Base, Adjustment

LEMMA InitialBlock ==
  ASSUME HeapIsUsable
  PROVE  /\ Base \in Nat \ {NULL} /\ InitialSize \in Nat \ {0}
         /\ Limit \in Nat /\ Limit <= SizeMax
<1>1. Adjustment \in Nat
  BY BaseIsNat
<1>2. Usable - BlockSize \in Nat
  BY <1>1, HeapAssumption DEF HeapIsUsable, Usable
<1>3. InitialSize \in Nat /\ InitialSize <= Usable - BlockSize
  BY <1>2, RoundDownBounds DEF InitialSize
<1>4. QED
  BY <1>1, <1>2, <1>3, HeapAssumption DEF HeapIsUsable, Base, Limit, Usable, NULL

-----------------------------------------------------------------------------
(* Headers.                                                                *)

LEMMA HeaderFields ==
  ASSUME NEW s, NEW f, NEW n
  PROVE  /\ Header(s, f, n).size = s
         /\ Header(s, f, n).free = f
         /\ Header(s, f, n).next = n
BY DEF Header

LEMMA HeaderIsTyped ==
  ASSUME NEW s \in Nat, NEW f \in {0, 1}, NEW n \in Nat
  PROVE  Header(s, f, n) \in Headers
BY DEF Header, Headers

LEMMA FieldsAreTyped ==
  ASSUME NEW h \in Headers
  PROVE  h.size \in Nat /\ h.free \in {0, 1} /\ h.next \in Nat
BY DEF Headers

-----------------------------------------------------------------------------
(* Initially.                                                              *)

LEMMA InitEstablishesIInv == Init => IInv
<1> SUFFICES ASSUME Init PROVE IInv
  OBVIOUS
<1>0. /\ pc = [c \in Callers |-> "idle"] /\ live = {} /\ overlapped = FALSE
      /\ current = [c \in Callers |-> 0] /\ arg = [c \in Callers |-> 0]
  BY DEF Init, NULL
<1>1. CASE HeapIsUsable
  <2>1. /\ freeList = Base /\ blocks = {Base} /\ DOMAIN mem = {Base}
        /\ mem[Base] = Header(InitialSize, 1, 0)
    BY <1>1 DEF Init, NULL
  <2>2. /\ Base \in Nat \ {0} /\ InitialSize \in Nat \ {0} /\ Limit \in Nat
    BY <1>1, InitialBlock DEF NULL
  <2>3. /\ mem[Base] \in Headers /\ mem[Base].size = InitialSize
        /\ mem[Base].free = 1 /\ mem[Base].next = 0
    BY <2>1, <2>2, HeaderIsTyped, HeaderFields
  <2>4. TypeOK
    BY <1>0, <2>1, <2>2, <2>3 DEF TypeOK
  <2>5. Closed
    BY <1>0, <2>1, <2>3 DEF Closed, NULL
  <2>6. TilesHeap
    <3>1. EndOf(Base) = Limit
      BY <2>3 DEF EndOf, Limit
    <3>2. QED
      BY <2>1, <2>2, <2>3, <3>1 DEF TilesHeap, NULL
  <2>7. Serial /\ Exclusive /\ Locals
    BY <1>0 DEF Serial, InCall, Exclusive, Locals, ScanLocals, SplitLocals, TakeLocals,
                FreeLocals
  <2>8. Neighbours /\ Owners
    BY <2>1, <2>3 DEF Neighbours, Owners, IsFree, NULL
  <2>9. QED
    BY <1>0, <1>1, <2>1, <2>4, <2>5, <2>6, <2>7, <2>8 DEF IInv, HeapInv
<1>2. CASE ~ HeapIsUsable
  <2>1. freeList = 0 /\ blocks = {} /\ DOMAIN mem = {}
    BY <1>2 DEF Init, NULL
  <2>2. TypeOK /\ Closed
    BY <1>0, <2>1 DEF TypeOK, Closed, NULL
  <2>3. Serial /\ Exclusive /\ Locals
    BY <1>0 DEF Serial, InCall, Exclusive, Locals, ScanLocals, SplitLocals, TakeLocals,
                FreeLocals
  <2>4. TilesHeap /\ Neighbours /\ Owners
    BY <2>1 DEF TilesHeap, Neighbours, Owners, NULL
  <2>5. QED
    BY <1>0, <2>1, <2>2, <2>3, <2>4 DEF IInv, HeapInv, NULL
<1>3. QED
  BY <1>1, <1>2

-----------------------------------------------------------------------------
(* Types, and pointers to written headers: preserved by every step, also   *)
(* by those of overlapping calls.                                          *)

LEMMA SplitWrites ==
  ASSUME TypeOK, Closed, NEW c \in Callers, KmallocSplit(c)
  PROVE  LET b == current[c]
             n == ALIGN(arg[c])
             new == Wrap(b + BlockSize + n)
         IN  /\ b \in DOMAIN mem /\ b # NULL /\ new \in Nat /\ n \in Nat
             /\ DOMAIN mem' = DOMAIN mem \union {new}
             /\ mem'[b] = Header(n, mem[b].free, new)
             /\ b # new => mem'[new] = Header(Wrap(mem[b].size - n - BlockSize),
                                              1, mem[b].next)
             /\ \A a \in DOMAIN mem \ {b, new} : mem'[a] = mem[a]
<1> DEFINE b == current[c]
           n == ALIGN(arg[c])
           new == Wrap(b + BlockSize + n)
<1>1. b \in DOMAIN mem /\ b # NULL /\ mem[b] \in Headers
  BY DEF TypeOK, Closed, KmallocSplit
<1>2. arg[c] \in Nat /\ b \in Nat /\ n \in Nat
  BY AlignIsNat DEF TypeOK
<1>3. new \in Nat
  BY <1>2, HeapAssumption, WrapInRange
<1>4. QED
  BY <1>1, <1>2, <1>3, HeapAssumption DEF KmallocSplit

LEMMA TypesPreserved ==
  ASSUME TypeOK, Closed, [Next]_vars
  PROVE  TypeOK' /\ Closed'
<1> USE DEF NULL
<1>1. CASE UNCHANGED vars
  BY <1>1 DEF vars, TypeOK, Closed
<1>2. ASSUME NEW c \in Callers, NEW size \in Requests, KmallocRejects(c, size)
      PROVE  TypeOK' /\ Closed'
  BY <1>1, <1>2 DEF KmallocRejects, vars, TypeOK, Closed
<1>3. ASSUME NEW c \in Callers, NEW size \in Requests, Kmalloc(c, size)
      PROVE  TypeOK' /\ Closed'
  BY <1>3, HeapAssumption DEF Kmalloc, Begin, InCall, TypeOK, Closed
<1>4. ASSUME NEW c \in Callers, KmallocScan(c)
      PROVE  TypeOK' /\ Closed'
  BY <1>4, FieldsAreTyped DEF KmallocScan, Return, Advance, TypeOK, Closed
<1>5. ASSUME NEW c \in Callers, KmallocSplit(c)
      PROVE  TypeOK' /\ Closed'
  <2> DEFINE b == current[c]
             n == ALIGN(arg[c])
             new == Wrap(b + BlockSize + n)
  <2>1. /\ b \in DOMAIN mem /\ b # NULL /\ new \in Nat /\ n \in Nat
        /\ DOMAIN mem' = DOMAIN mem \union {new}
        /\ mem'[b] = Header(n, mem[b].free, new)
        /\ b # new => mem'[new] = Header(Wrap(mem[b].size - n - BlockSize),
                                         1, mem[b].next)
        /\ \A a \in DOMAIN mem \ {b, new} : mem'[a] = mem[a]
    BY <1>5, SplitWrites
  <2>2. mem[b] \in Headers
    BY <2>1 DEF TypeOK
  <2>3. /\ Header(n, mem[b].free, new) \in Headers
        /\ Header(Wrap(mem[b].size - n - BlockSize), 1, mem[b].next) \in Headers
    <3>1. mem[b].size - n - BlockSize \in Int
      BY <2>1, <2>2, FieldsAreTyped, HeapAssumption
    <3>2. QED
      BY <3>1, <2>1, <2>2, WrapInRange, FieldsAreTyped, HeaderIsTyped
  <2> HIDE DEF b, n, new
  <2>4. TypeOK'
    <3>1. \A a \in DOMAIN mem' : mem'[a] \in Headers
      BY <2>1, <2>2, <2>3 DEF TypeOK
    <3>2. DOMAIN mem' \subseteq Nat /\ blocks' \subseteq Nat
      BY <2>1, <1>5 DEF TypeOK, KmallocSplit, b, n, new
    <3>3. QED
      BY <3>1, <3>2, <1>5 DEF TypeOK, KmallocSplit
  <2>5. Closed'
    <3>1. \A a \in DOMAIN mem' : mem'[a].next # NULL => mem'[a].next \in DOMAIN mem'
      BY <2>1, <2>2, HeaderFields DEF Closed
    <3>2. QED
      BY <3>1, <2>1, <1>5 DEF TypeOK, Closed, KmallocSplit, b
  <2>6. QED
    BY <2>4, <2>5
<1>6. ASSUME NEW c \in Callers, KmallocTake(c)
      PROVE  TypeOK' /\ Closed'
  <2>1. current[c] \in DOMAIN mem
    BY <1>6 DEF KmallocTake, Closed
  <2>2. current[c] + BlockSize \in Nat
    BY HeapAssumption DEF TypeOK
  <2>3. QED
    <3> DEFINE h == Header(mem[current[c]].size, 0, mem[current[c]].next)
    <3>1. h \in Headers /\ h.next = mem[current[c]].next
      BY <2>1, FieldsAreTyped, HeaderIsTyped, HeaderFields DEF TypeOK
    <3>2. mem' = [mem EXCEPT ![current[c]] = h]
      BY <1>6 DEF KmallocTake
    <3> HIDE DEF h
    <3>3. QED
      BY <1>6, <2>1, <2>2, <3>1, <3>2 DEF KmallocTake, Return, TypeOK, Closed
<1>7. ASSUME NEW c \in Callers, NEW ptr \in Pointers, Kfree(c, ptr)
      PROVE  TypeOK' /\ Closed'
  <2>1. ptr \in Nat
    BY HeapAssumption DEF Pointers, TypeOK
  <2>2. QED
    BY <1>7, <2>1 DEF Kfree, Begin, InCall, TypeOK, Closed
<1>8. ASSUME NEW c \in Callers, KfreeFind(c)
      PROVE  TypeOK' /\ Closed'
  <2>1. CASE UNCHANGED mem
    BY <1>8, <2>1, FieldsAreTyped DEF KfreeFind, Return, Advance, TypeOK, Closed
  <2>2. CASE current[c] # NULL /\ current[c] + BlockSize = arg[c] /\ ~ IsFree(current[c])
    <3> DEFINE h == Header(mem[current[c]].size, 1, mem[current[c]].next)
    <3>1. current[c] \in DOMAIN mem
      BY <2>2 DEF Closed
    <3>2. h \in Headers /\ h.next = mem[current[c]].next
      BY <3>1, FieldsAreTyped, HeaderIsTyped, HeaderFields DEF TypeOK
    <3>3. /\ mem' = [mem EXCEPT ![current[c]] = h]
          /\ current' = [current EXCEPT ![c] = freeList]
          /\ pc' = [pc EXCEPT ![c] = "merge"]
          /\ UNCHANGED <<freeList, arg, blocks, live, overlapped>>
      BY <1>8, <2>2 DEF KfreeFind
    <3> HIDE DEF h
    <3>4. QED
      BY <3>1, <3>2, <3>3 DEF TypeOK, Closed
  <2>3. QED
    BY <1>8, <2>1, <2>2 DEF KfreeFind
<1>9. ASSUME NEW c \in Callers, KfreeMerge(c)
      PROVE  TypeOK' /\ Closed'
  <2> DEFINE b == current[c]
             n == mem[b].next
  <2>1. CASE b = NULL \/ n = NULL
    <3>1. Return(c) /\ UNCHANGED <<freeList, mem, blocks, live, overlapped>>
      BY <1>9, <2>1 DEF KfreeMerge
    <3>2. QED
      BY <3>1 DEF Return, TypeOK, Closed
  <2>3. CASE b # NULL /\ n # NULL /\ ~ (IsFree(b) /\ IsFree(n))
    <3>1. b \in DOMAIN mem /\ n \in DOMAIN mem
      BY <2>3 DEF Closed
    <3>2. n \in Nat
      BY <3>1, FieldsAreTyped DEF TypeOK
    <3>3. /\ current' = [current EXCEPT ![c] = n]
          /\ UNCHANGED <<freeList, pc, arg, live, overlapped, mem, blocks>>
      BY <1>9, <2>3 DEF KfreeMerge, Advance
    <3> HIDE DEF n
    <3>4. QED
      BY <1>9, <3>1, <3>2, <3>3 DEF KfreeMerge, TypeOK, Closed
  <2>2. CASE b # NULL /\ n # NULL /\ IsFree(b) /\ IsFree(n)
    <3>1. b \in DOMAIN mem /\ n \in DOMAIN mem
      BY <2>2 DEF Closed
    <3>2. mem[b] \in Headers /\ mem[n] \in Headers
      BY <3>1 DEF TypeOK
    <3>3. Header(Wrap(mem[b].size + BlockSize + mem[n].size), mem[b].free, mem[n].next)
            \in Headers
      <4>1. mem[b].size + BlockSize + mem[n].size \in Int
        BY <3>2, FieldsAreTyped, HeapAssumption
      <4>2. QED
        BY <4>1, <3>2, FieldsAreTyped, WrapInRange, HeaderIsTyped
    <3>4. mem' = [mem EXCEPT ![b] = Header(Wrap(@.size + BlockSize + mem[n].size),
                                           @.free, mem[n].next)]
      BY <1>9, <2>2 DEF KfreeMerge
    <3>5. /\ DOMAIN mem' = DOMAIN mem
          /\ mem'[b] = Header(Wrap(mem[b].size + BlockSize + mem[n].size),
                              mem[b].free, mem[n].next)
          /\ \A a \in DOMAIN mem \ {b} : mem'[a] = mem[a]
      BY <3>1, <3>4
    <3>6. /\ UNCHANGED <<freeList, pc, current, arg, live, overlapped>>
          /\ blocks' = blocks \ {n}
      BY <1>9, <2>2 DEF KfreeMerge
    <3> HIDE DEF b, n
    <3>7. TypeOK'
      BY <3>3, <3>5, <3>6 DEF TypeOK
    <3>8. Closed'
      BY <3>1, <3>5, <3>6, HeaderFields DEF Closed
    <3>9. QED
      BY <3>7, <3>8
  <2>4. QED
    BY <2>1, <2>2, <2>3
<1>10. QED
  BY <1>1, <1>2, <1>3, <1>4, <1>5, <1>6, <1>7, <1>8, <1>9 DEF Next, Call, Step

-----------------------------------------------------------------------------
(* The inductive invariant, one lemma for each action.                     *)

LEMMA BeginPreserves ==
  ASSUME IInv, TypeOK', ~overlapped', NEW c \in Callers,
         \/ \E size \in Requests : Kmalloc(c, size)
         \/ \E ptr \in Pointers : Kfree(c, ptr)
  PROVE  HeapInv'
<1>0. HeapInv /\ TypeOK
  BY DEF IInv, Kmalloc, Kfree, Begin
<1>1. /\ \A d \in Callers : ~ InCall(d)
      /\ pc' = [pc EXCEPT ![c] = pc'[c]]
      /\ current' = [current EXCEPT ![c] = freeList]
      /\ UNCHANGED <<freeList, mem, blocks>>
  BY <1>0 DEF Kmalloc, Kfree, Begin, InCall, TypeOK
<1>2. live' \subseteq live
  BY DEF Kmalloc, Kfree
<1>3. Serial'
  BY <1>0, <1>1 DEF Serial, InCall, TypeOK
<1>4. TilesHeap' /\ Exclusive'
  BY <1>0, <1>1, <1>2 DEF HeapInv, TilesHeap, EndOf, Exclusive, IsFree
<1>5. \A b \in blocks : freeList # NULL /\ freeList <= b
  BY <1>0 DEF HeapInv, TilesHeap
<1>6. Locals'
  <2>1. ASSUME NEW size \in Requests, Kmalloc(c, size)
        PROVE  Locals'
    <3>1. size > 0 /\ size <= SizeMax - (Alignment - 1)
      BY <2>1, HeapAssumption DEF Kmalloc
    <3>2. /\ pc'[c] = "scan" /\ current'[c] = freeList /\ arg'[c] = size
          /\ \A d \in Callers \ {c} : pc'[d] = "idle"
      BY <1>0, <1>1, <2>1 DEF Kmalloc, Begin, InCall, TypeOK
    <3>3. ScanLocals(c)'
      BY <1>0, <1>1, <1>5, <3>1, <3>2 DEF ScanLocals, TypeOK, HeapInv, TilesHeap
    <3>4. QED
      BY <3>2, <3>3 DEF Locals, ScanLocals, SplitLocals, TakeLocals, FreeLocals
  <2>2. ASSUME NEW ptr \in Pointers, Kfree(c, ptr)
        PROVE  Locals'
    <3>1. /\ pc'[c] = "find" /\ current'[c] = freeList /\ arg'[c] = ptr
          /\ \A d \in Callers \ {c} : pc'[d] = "idle"
          /\ live' = {l \in live : l.ptr # ptr}
      BY <1>0, <1>1, <2>2 DEF Kfree, Begin, InCall, TypeOK
    <3>2. FreeLocals(c)'
      BY <1>0, <1>1, <1>5, <3>1 DEF FreeLocals, TypeOK, HeapInv, TilesHeap
    <3>3. QED
      BY <3>1, <3>2 DEF Locals, ScanLocals, SplitLocals, TakeLocals, FreeLocals
  <2>3. QED
    BY <2>1, <2>2
<1>7. Neighbours'
  BY <1>0, <1>1 DEF HeapInv, Neighbours, Pending, InCall, IsFree
<1>8. Owners'
  <2> SUFFICES ASSUME NEW b \in blocks, ~ IsFree(b)
               PROVE  \/ \E l \in live' : l.ptr = b + BlockSize
                      \/ \E d \in Callers : /\ pc'[d] = "find" /\ arg'[d] = b + BlockSize
                                            /\ current'[d] # NULL
    BY <1>1 DEF Owners, IsFree
  <2>1. PICK l \in live : l.ptr = b + BlockSize
    BY <1>0, <1>1 DEF HeapInv, Owners, InCall
  <2>2. ASSUME NEW size \in Requests, Kmalloc(c, size)
        PROVE  l \in live'
    BY <2>2 DEF Kmalloc
  <2>3. ASSUME NEW ptr \in Pointers, Kfree(c, ptr), l \notin live'
        PROVE  pc'[c] = "find" /\ arg'[c] = b + BlockSize /\ current'[c] # NULL
    BY <1>0, <1>5, <2>1, <2>3 DEF Kfree, Begin, TypeOK
  <2>4. QED
    BY <2>1, <2>2, <2>3
<1>9. QED
  BY <1>0, <1>1, <1>2, <1>3, <1>4, <1>6, <1>7, <1>8 DEF HeapInv

(* A caller in a call is alone, and a block of the list is in memory.      *)
LEMMA Alone ==
  ASSUME IInv, ~overlapped, NEW c \in Callers, InCall(c)
  PROVE  /\ HeapInv /\ TypeOK
         /\ \A d \in Callers \ {c} : pc[d] = "idle"
         /\ \A b \in blocks : b \in Nat /\ mem[b] \in Headers /\ b > 0
BY InitialBlock DEF IInv, HeapInv, Serial, InCall, TilesHeap, TypeOK, NULL

(* The next pointer leads to the block that follows in address order.      *)
LEMMA NextBlock ==
  ASSUME IInv, ~overlapped, NEW b \in blocks
  PROVE  /\ mem[b].next # NULL => mem[b].next \in blocks /\ mem[b].next = EndOf(b)
         /\ EndOf(b) \in Nat /\ b < EndOf(b) /\ EndOf(b) <= Limit /\ Limit \in Nat
         /\ \A a \in blocks : (mem[b].next # NULL => a < mem[b].next) => a <= b
<1> DEFINE n == mem[b].next
<1>1. HeapInv /\ TypeOK
  BY DEF IInv
<1>2. \A a \in blocks : a \in Nat /\ mem[a] \in Headers /\ a > 0
  BY <1>1, InitialBlock DEF HeapInv, TilesHeap, TypeOK, NULL
<1>3. \A a \in blocks : a < EndOf(a) /\ EndOf(a) \in Nat
  BY <1>2, HeapAssumption, FieldsAreTyped DEF EndOf
<1>4. \A a \in blocks : b < a => EndOf(b) <= a
  BY <1>1 DEF HeapInv, TilesHeap
<1>5. \A a \in blocks : EndOf(a) <= Limit
  BY <1>1 DEF HeapInv, TilesHeap
<1>6. /\ n = IF EndOf(b) = Limit THEN NULL ELSE EndOf(b)
      /\ n # NULL => n \in blocks
  BY <1>1 DEF HeapInv, TilesHeap
<1>7. Limit \in Nat
  BY <1>1, InitialBlock DEF HeapInv, TilesHeap
<1>8. n # NULL => n = EndOf(b)
  BY <1>6
<1>9. n = NULL => EndOf(b) = Limit
  BY <1>2, <1>3, <1>6 DEF NULL
<1> HIDE DEF n
<1>10. ASSUME NEW a \in blocks, n # NULL => a < n
       PROVE  a <= b
  <2>1. CASE n = NULL
    BY <2>1, <1>2, <1>3, <1>4, <1>5, <1>7, <1>9
  <2>2. CASE n # NULL
    BY <2>2, <1>2, <1>3, <1>4, <1>8, <1>10
  <2>3. QED
    BY <2>1, <2>2
<1>11. QED
  BY <1>3, <1>5, <1>6, <1>7, <1>8, <1>10 DEF n

LEMMA ScanPreserves ==
  ASSUME IInv, ~overlapped', NEW c \in Callers, KmallocScan(c)
  PROVE  HeapInv'
<1>1. /\ HeapInv /\ TypeOK
      /\ \A d \in Callers \ {c} : pc[d] = "idle"
      /\ \A b \in blocks : b \in Nat /\ mem[b] \in Headers /\ b > 0
  BY Alone DEF KmallocScan, InCall
<1>2. pc[c] = "scan" /\ UNCHANGED <<freeList, mem, blocks, live>>
  BY DEF KmallocScan
<1>3. \A d \in Callers \ {c} : pc'[d] = "idle"
  BY <1>1 DEF KmallocScan, Return, Advance, TypeOK
<1>4. Serial'
  BY <1>3 DEF Serial, InCall
<1>5. TilesHeap' /\ Exclusive'
  BY <1>1, <1>2 DEF HeapInv, TilesHeap, EndOf, Exclusive, IsFree
<1>6. Locals'
  <2>1. ScanLocals(c)
    BY <1>1 DEF HeapInv, Locals
  <2>2. CASE current[c] = NULL
    BY <1>1, <1>3, <2>2 DEF KmallocScan, Return, Locals, ScanLocals, SplitLocals,
       TakeLocals, FreeLocals, TypeOK
  <2>3. CASE current[c] # NULL /\ ~ Fits(current[c], arg[c])
    <3> DEFINE n == mem[current[c]].next
    <3>1. /\ pc'[c] = "scan" /\ current'[c] = n /\ arg' = arg
      BY <1>1, <1>2, <2>3 DEF KmallocScan, Advance, TypeOK
    <3>2. /\ n # NULL => n \in blocks
          /\ \A b \in blocks : (n # NULL => b < n) => b <= current[c]
      <4>1. current[c] \in blocks /\ ~overlapped
        BY <1>2, <2>1, <2>3 DEF ScanLocals, KmallocScan
      <4>2. QED
        BY <4>1, NextBlock
    <3>3. \A b \in blocks : b <= current[c] => ~ Fits(b, arg[c])
      BY <1>1, <1>2, <2>1, <2>3 DEF ScanLocals, TypeOK
    <3> HIDE DEF n
    <3>4. ScanLocals(c)'
      BY <1>2, <2>1, <3>1, <3>2, <3>3 DEF ScanLocals, Fits, IsFree
    <3>5. QED
      BY <1>3, <3>1, <3>4 DEF Locals, ScanLocals, SplitLocals, TakeLocals, FreeLocals
  <2>4. CASE current[c] # NULL /\ Fits(current[c], arg[c])
    BY <1>1, <1>2, <1>3, <2>1, <2>4 DEF KmallocScan, Locals, ScanLocals, SplitLocals,
       TakeLocals, FreeLocals, Fits, IsFree, TypeOK
  <2>5. QED
    BY <2>2, <2>3, <2>4
<1>7. Neighbours'
  BY <1>1, <1>2 DEF HeapInv, Neighbours, Pending, IsFree
<1>8. Owners'
  BY <1>1, <1>2 DEF HeapInv, Owners, IsFree
<1>9. QED
  BY <1>1, <1>2, <1>4, <1>5, <1>6, <1>7, <1>8 DEF HeapInv

LEMMA SplitPreserves ==
  ASSUME IInv, ~overlapped', NEW c \in Callers, KmallocSplit(c)
  PROVE  HeapInv'
<1> DEFINE b == current[c]
           n == ALIGN(arg[c])
           new == b + BlockSize + n
<1>1. /\ HeapInv /\ TypeOK
      /\ \A d \in Callers \ {c} : pc[d] = "idle"
      /\ \A a \in blocks : a \in Nat /\ mem[a] \in Headers /\ a > 0
  BY Alone DEF KmallocSplit, InCall
<1>2. /\ pc[c] = "split" /\ pc' = [pc EXCEPT ![c] = "take"]
      /\ blocks' = blocks \union {Wrap(new)}
      /\ UNCHANGED <<freeList, current, arg, live>>
  BY DEF KmallocSplit
<1>3. SplitLocals(c)
  BY <1>1 DEF HeapInv, Locals
<1>4. /\ b \in blocks /\ b \in Nat /\ b > 0 /\ n \in Nat /\ arg[c] \in Nat
      /\ IsFree(b) /\ mem[b].size \in Nat
      /\ mem[b].size - n >= BlockSize + Alignment
      /\ mem[b].size - n - BlockSize \in Nat
      /\ arg[c] > 0 /\ arg[c] <= SizeMax - (Alignment - 1)
  BY <1>1, <1>2, <1>3, HeapAssumption, AlignIsNat, FieldsAreTyped
  DEF SplitLocals, Fits, TypeOK
<1>5. EndOf(b) \in Nat /\ EndOf(b) <= Limit /\ Limit \in Nat /\ Limit <= SizeMax
  BY <1>1, <1>4, HeapAssumption, InitialBlock DEF HeapInv, TilesHeap, EndOf
<1>6. Wrap(new) = new /\ new \in Nat /\ b < new /\ new < EndOf(b)
  BY <1>4, <1>5, HeapAssumption, WrapIsIdentity DEF EndOf
<1>7. Wrap(mem[b].size - n - BlockSize) = mem[b].size - n - BlockSize
  BY <1>4, <1>5, HeapAssumption, WrapIsIdentity DEF EndOf
<1>8. \A a \in blocks : a <= b \/ EndOf(b) <= a
  BY <1>1, <1>4 DEF HeapInv, TilesHeap
<1>9. new \notin blocks
  BY <1>1, <1>4, <1>5, <1>6, <1>8
<1>10. /\ DOMAIN mem' = DOMAIN mem \union {new}
       /\ mem'[b] = Header(n, mem[b].free, new)
       /\ mem'[new] = Header(mem[b].size - n - BlockSize, 1, mem[b].next)
       /\ \A a \in blocks \ {b} : mem'[a] = mem[a]
  <2> DEFINE w == Wrap(new)
  <2>1. /\ b \in DOMAIN mem
        /\ DOMAIN mem' = DOMAIN mem \union {w}
        /\ mem'[b] = Header(n, mem[b].free, w)
        /\ b # w => mem'[w] = Header(Wrap(mem[b].size - n - BlockSize), 1, mem[b].next)
        /\ \A a \in DOMAIN mem \ {b, w} : mem'[a] = mem[a]
    BY SplitWrites DEF IInv
  <2>2. blocks \subseteq DOMAIN mem
    BY <1>1 DEF HeapInv, TilesHeap
  <2>3. w = new /\ b # new
    BY <1>4, <1>6
  <2> HIDE DEF w
  <2>4. QED
    BY <2>1, <2>2, <2>3, <1>7, <1>9
<1>11. /\ mem'[b].size = n /\ mem'[b].free = 1 /\ mem'[b].next = new
       /\ mem'[new].size = mem[b].size - n - BlockSize /\ mem'[new].free = 1
       /\ mem'[new].next = mem[b].next
  BY <1>4, <1>10, HeaderFields DEF IsFree
<1>12. blocks' = blocks \union {new}
  BY <1>2, <1>6
<1>13. TilesHeap'
  <2>1. /\ b + BlockSize + mem'[b].size = new
        /\ new + BlockSize + mem'[new].size = EndOf(b)
    BY <1>4, <1>6, <1>11, HeapAssumption DEF EndOf
  <2>2. \A a \in blocks \ {b} : a + BlockSize + mem'[a].size = EndOf(a)
    BY <1>10 DEF EndOf
  <2>3. \A a, d \in blocks : a < d => EndOf(a) <= d
    BY <1>1 DEF HeapInv, TilesHeap
  <2>4. /\ freeList \in blocks' /\ freeList # NULL /\ freeList \in Nat
        /\ \A a \in blocks :
             /\ a \in DOMAIN mem /\ freeList <= a
             /\ EndOf(a) <= Limit /\ a \in Nat /\ EndOf(a) \in Nat /\ a < EndOf(a)
             /\ mem[a].next = IF EndOf(a) = Limit THEN NULL ELSE EndOf(a)
             /\ mem[a].next # NULL => mem[a].next \in blocks
    <3>1. \A a \in blocks : EndOf(a) \in Nat /\ a < EndOf(a)
      BY NextBlock DEF KmallocSplit
    <3>2. QED
      BY <1>1, <1>4, <1>12, <3>1 DEF HeapInv, TilesHeap, TypeOK
  <2>5. new # NULL /\ new # Limit
    BY <1>4, <1>5, <1>6 DEF NULL
  <2> HIDE DEF b, n, new
  <2>6. ASSUME NEW a \in blocks'
        PROVE  /\ a \in DOMAIN mem'
               /\ freeList # NULL /\ freeList <= a
               /\ EndOf(a)' <= Limit
               /\ mem'[a].next = IF EndOf(a)' = Limit THEN NULL ELSE EndOf(a)'
               /\ mem'[a].next # NULL => mem'[a].next \in blocks'
    <3> DEFINE e == a + BlockSize + mem'[a].size
    <3>1. EndOf(a)' = e
      BY DEF EndOf
    <3> HIDE DEF e
    <3>2. CASE a = b
      <4>1. e = new /\ mem'[a].next = new
        BY <3>2, <1>11, <2>1 DEF e
      <4>2. QED
        BY <3>1, <3>2, <4>1, <1>4, <1>5, <1>6, <1>10, <1>12, <2>4, <2>5
    <3>3. CASE a = new
      <4>1. e = EndOf(b) /\ mem'[a].next = mem[b].next
        BY <3>3, <1>11, <2>1 DEF e
      <4>2. QED
        BY <3>1, <3>3, <4>1, <1>4, <1>5, <1>6, <1>10, <1>12, <2>4, <2>5
    <3>4. CASE a \in blocks \ {b}
      <4>1. e = EndOf(a) /\ mem'[a].next = mem[a].next
        BY <3>4, <1>10, <2>2 DEF e
      <4>2. QED
        BY <3>1, <3>4, <4>1, <1>10, <1>12, <2>4
    <3>5. QED
      BY <1>12, <3>2, <3>3, <3>4
  <2>9. ASSUME NEW a \in blocks', NEW d \in blocks', a < d
        PROVE  EndOf(a)' <= d
    <3> DEFINE e == a + BlockSize + mem'[a].size
    <3>1. EndOf(a)' = e
      BY DEF EndOf
    <3>2. CASE a = b
      <4>1. e = new
        BY <3>2, <2>1
      <4> HIDE DEF e
      <4>2. CASE d \in blocks
        <5>1. b < d /\ d \in Nat /\ b \in Nat
          BY <3>2, <4>2, <1>4, <2>4, <2>9
        <5>2. EndOf(b) <= d
          BY <4>2, <5>1, <1>8
        <5>3. new <= d
          BY <5>1, <5>2, <1>5, <1>6
        <5>4. QED
          BY <3>1, <4>1, <5>3
      <4>3. CASE d = new
        BY <3>1, <4>1, <4>3, <1>6
      <4>4. QED
        BY <1>12, <4>2, <4>3
    <3>3. CASE a = new
      <4>1. e = EndOf(b) /\ d \in blocks
        BY <3>3, <1>6, <1>12, <2>1, <2>9
      <4> HIDE DEF e
      <4>2. QED
        BY <3>1, <3>3, <4>1, <1>4, <1>5, <1>6, <1>8, <2>4, <2>9
    <3>4. CASE a \in blocks \ {b}
      <4>1. e = EndOf(a)
        BY <3>4, <2>2
      <4> HIDE DEF e
      <4>2. CASE d \in blocks
        BY <3>1, <3>4, <4>1, <4>2, <2>3, <2>9
      <4>3. CASE d = new
        BY <3>1, <3>4, <4>1, <4>3, <1>4, <1>5, <1>6, <1>8, <2>3, <2>4, <2>9
      <4>4. QED
        BY <1>12, <4>2, <4>3
    <3>5. QED
      BY <1>12, <3>2, <3>3, <3>4
  <2>7. Limit' = Limit
    BY DEF Limit, Base
  <2>8. QED
    BY <1>2, <2>4, <2>6, <2>7, <2>9 DEF TilesHeap
<1>14. Serial' /\ Locals'
  <2>1. \A d \in Callers \ {c} : pc'[d] = "idle"
    BY <1>1, <1>2
  <2>2. pc'[c] = "take"
    BY <1>1, <1>2 DEF TypeOK
  <2>3. TakeLocals(c)'
    BY <1>2, <1>3, <1>4, <1>11, <1>12 DEF TakeLocals, SplitLocals, Fits, IsFree
  <2>4. QED
    BY <2>1, <2>2, <2>3 DEF Serial, InCall, Locals, ScanLocals, SplitLocals, TakeLocals,
       FreeLocals
<1>15. Exclusive'
  BY <1>1, <1>2, <1>4, <1>10, <1>12 DEF HeapInv, Exclusive, IsFree
<1>16. Neighbours'
  <2>1. ~ \E d \in Callers : pc[d] = "take" \/ pc[d] = "merge"
    BY <1>1, <1>2
  <2>2. \A a \in blocks : mem[a].next # NULL => ~ (IsFree(a) /\ IsFree(mem[a].next))
    BY <1>1, <2>1 DEF HeapInv, Neighbours, Pending
  <2>3. pc'[c] = "take" /\ current'[c] = b
    BY <1>1, <1>2 DEF TypeOK
  <2>4. \A a \in blocks \ {b} : mem[a].next # NULL => mem[a].next \in blocks
    BY <1>1 DEF HeapInv, TilesHeap
  <2>5. mem[b].next # NULL => mem[b].next \in blocks \ {b}
    BY <1>1, <1>4, <1>5, <1>6 DEF HeapInv, TilesHeap
  <2> HIDE DEF b, n, new
  <2>6. ASSUME NEW a \in blocks', mem'[a].next # NULL,
               IsFree(a)', IsFree(mem[a].next)'
        PROVE  Pending(a)'
    <3>1. CASE a = b
      BY <2>3, <3>1 DEF Pending
    <3>2. CASE a = new
      BY <3>2, <2>6, <1>4, <1>10, <1>11, <2>2, <2>5 DEF IsFree
    <3>3. CASE a \in blocks \ {b}
      <4>1. mem'[a] = mem[a] /\ IsFree(a)
        BY <3>3, <2>6, <1>10 DEF IsFree
      <4>2. mem[a].next \in blocks /\ mem[a].next # NULL
        BY <3>3, <2>4, <2>6, <4>1
      <4>3. IsFree(mem[a].next)
        BY <1>4, <1>10, <2>6, <4>1, <4>2 DEF IsFree
      <4>4. QED
        BY <3>3, <2>2, <4>1, <4>2, <4>3
    <3>4. QED
      BY <1>12, <3>1, <3>2, <3>3
  <2>7. QED
    BY <2>6 DEF Neighbours
<1>17. Owners'
  <2>1. \A a \in blocks : a # b /\ ~ IsFree(a) => \E l \in live : l.ptr = a + BlockSize
    BY <1>1, <1>2 DEF HeapInv, Owners
  <2>2. ASSUME NEW a \in blocks', ~ IsFree(a)'
        PROVE  \E l \in live' : l.ptr = a + BlockSize
    BY <2>1, <2>2, <1>2, <1>10, <1>11, <1>12 DEF IsFree
  <2>3. QED
    BY <2>2 DEF Owners
<1>18. QED
  BY <1>1, <1>2, <1>13, <1>14, <1>15, <1>16, <1>17 DEF HeapInv

LEMMA TakePreserves ==
  ASSUME IInv, ~overlapped', NEW c \in Callers, KmallocTake(c)
  PROVE  HeapInv'
<1> DEFINE b == current[c]
           l == [ptr |-> b + BlockSize, size |-> arg[c]]
<1>1. /\ HeapInv /\ TypeOK
      /\ \A d \in Callers \ {c} : pc[d] = "idle"
      /\ \A a \in blocks : a \in Nat /\ mem[a] \in Headers /\ a > 0
  BY Alone DEF KmallocTake, InCall
<1>2. /\ pc[c] = "take" /\ live' = live \union {l}
      /\ mem' = [mem EXCEPT ![b] = Header(@.size, 0, @.next)]
      /\ UNCHANGED <<freeList, blocks>>
  BY DEF KmallocTake
<1>3. /\ b \in blocks /\ Fits(b, arg[c]) /\ arg[c] > 0
      /\ arg[c] <= SizeMax - (Alignment - 1) /\ b \in DOMAIN mem
  BY <1>1, <1>2 DEF HeapInv, Locals, TakeLocals, TilesHeap
<1>4. /\ DOMAIN mem' = DOMAIN mem
      /\ mem'[b].size = mem[b].size /\ mem'[b].free = 0 /\ mem'[b].next = mem[b].next
      /\ \A a \in blocks \ {b} : mem'[a] = mem[a]
  BY <1>1, <1>2, <1>3, HeaderFields DEF HeapInv, TilesHeap
<1>5. \A d \in Callers : pc'[d] = "idle"
  BY <1>1 DEF KmallocTake, Return, TypeOK
<1>6. arg[c] <= mem[b].size
  BY <1>1, <1>3, AlignBounds, FieldsAreTyped DEF Fits, TypeOK
<1>7. l.ptr = b + BlockSize /\ l.size = arg[c]
  OBVIOUS
<1>8. \A a \in blocks : EndOf(a)' = EndOf(a) /\ mem'[a].next = mem[a].next
                        /\ mem'[a].size = mem[a].size
  BY <1>4 DEF EndOf
<1> HIDE DEF l
<1>9. TilesHeap'
  BY <1>1, <1>2, <1>4, <1>8 DEF HeapInv, TilesHeap, Limit, Base
<1>10. Exclusive'
  <2>1. \A m \in live : m.ptr - BlockSize # b
    BY <1>1, <1>3 DEF HeapInv, Exclusive, Fits
  <2>2. l.ptr - BlockSize = b
    <3>1. b \in Nat
      BY <1>1, <1>3
    <3> HIDE DEF b
    <3>2. QED
      BY <3>1, <1>7, HeapAssumption
  <2>3. \A m \in live' :
          /\ m.ptr - BlockSize \in blocks'
          /\ ~ IsFree(m.ptr - BlockSize)'
          /\ m.size <= mem'[m.ptr - BlockSize].size
    <3>1. \A m \in live : /\ m.ptr - BlockSize \in blocks
                          /\ ~ IsFree(m.ptr - BlockSize)
                          /\ m.size <= mem[m.ptr - BlockSize].size
      BY <1>1 DEF HeapInv, Exclusive
    <3>2. ASSUME NEW m \in live
          PROVE  mem'[m.ptr - BlockSize] = mem[m.ptr - BlockSize]
      BY <1>4, <2>1, <3>1
    <3>3. QED
      <4> TAKE m \in live'
      <4>1. CASE m \in live
        BY <4>1, <1>2, <3>1, <3>2 DEF IsFree
      <4>2. CASE m = l
        <5>1. m.ptr - BlockSize = b /\ m.size = arg[c]
          BY <4>2, <1>7, <2>2
        <5> HIDE DEF b
        <5>2. QED
          BY <5>1, <1>2, <1>3, <1>4, <1>6 DEF IsFree
      <4>3. QED
        BY <1>2, <4>1, <4>2
  <2>4. ASSUME NEW m \in live', NEW k \in live', m.ptr = k.ptr
        PROVE  m = k
    <3>1. \A x \in live : x.ptr # l.ptr
      BY <1>7, <2>1, <2>2
    <3>2. \A x, y \in live : x.ptr = y.ptr => x = y
      BY <1>1 DEF HeapInv, Exclusive
    <3>3. QED
      BY <1>2, <2>4, <3>1, <3>2
  <2>5. QED
    BY <2>3, <2>4 DEF Exclusive
<1>11. Serial' /\ Locals'
  BY <1>5 DEF Serial, InCall, Locals, ScanLocals, SplitLocals, TakeLocals, FreeLocals
<1>12. Neighbours'
  <2>1. \A a \in blocks \ {b} : mem[a].next # NULL => ~ (IsFree(a) /\ IsFree(mem[a].next))
    BY <1>1, <1>2 DEF HeapInv, Neighbours, Pending
  <2>2. \A a \in blocks : mem[a].next # NULL => mem[a].next \in blocks
    BY <1>1 DEF HeapInv, TilesHeap
  <2>3. \A a \in blocks : IsFree(a)' => a # b /\ IsFree(a)
    BY <1>4 DEF IsFree
  <2>4. QED
    BY <1>2, <1>4, <2>1, <2>2, <2>3 DEF Neighbours
<1>13. Owners'
  <2>1. \A a \in blocks : ~ IsFree(a) => \E m \in live : m.ptr = a + BlockSize
    BY <1>1, <1>2 DEF HeapInv, Owners
  <2>2. \A a \in blocks' : ~ IsFree(a)' => \E m \in live' : m.ptr = a + BlockSize
    BY <2>1, <1>2, <1>4, <1>7 DEF IsFree
  <2>3. QED
    BY <2>2 DEF Owners
<1>14. \A m \in live' : m.ptr > 0 /\ m.size > 0
  BY <1>1, <1>2, <1>3, <1>7, HeapAssumption DEF HeapInv
<1>15. QED
  BY <1>1, <1>2, <1>9, <1>10, <1>11, <1>12, <1>13, <1>14 DEF HeapInv

LEMMA FindPreserves ==
  ASSUME IInv, ~overlapped', NEW c \in Callers, KfreeFind(c)
  PROVE  HeapInv'
<1> DEFINE b == current[c]
<1>1. /\ HeapInv /\ TypeOK
      /\ \A d \in Callers \ {c} : pc[d] = "idle"
      /\ \A a \in blocks : a \in Nat /\ mem[a] \in Headers /\ a > 0
  BY Alone DEF KfreeFind, InCall
<1>2. pc[c] = "find" /\ UNCHANGED <<freeList, blocks, live>>
  BY DEF KfreeFind
<1>3. \A d \in Callers \ {c} : pc'[d] = "idle"
  BY <1>1 DEF KfreeFind, Return, Advance, TypeOK
<1>4. Serial'
  BY <1>3 DEF Serial, InCall
<1>5. FreeLocals(c)
  BY <1>1 DEF HeapInv, Locals
<1>6. \A a \in blocks : mem[a].next # NULL => ~ (IsFree(a) /\ IsFree(mem[a].next))
  BY <1>1, <1>2 DEF HeapInv, Neighbours, Pending
<1>7. CASE b = NULL \/ (b + BlockSize = arg[c] /\ IsFree(b))
  <2>1. Return(c) /\ UNCHANGED mem
    BY <1>7 DEF KfreeFind
  <2>2. pc'[c] = "idle"
    BY <1>1, <2>1 DEF Return, TypeOK
  <2>3. TilesHeap' /\ Exclusive'
    BY <1>1, <1>2, <2>1 DEF HeapInv, TilesHeap, EndOf, Exclusive, IsFree
  <2>4. Locals'
    BY <1>3, <2>2 DEF Locals, ScanLocals, SplitLocals, TakeLocals, FreeLocals
  <2>5. Neighbours'
    BY <1>2, <1>6, <2>1 DEF Neighbours, IsFree
  <2>6. Owners'
    <3>1. \A a \in blocks : ~ IsFree(a) =>
            \/ \E l \in live : l.ptr = a + BlockSize
            \/ arg[c] = a + BlockSize /\ b # NULL
      BY <1>1 DEF HeapInv, Owners
    <3>2. \A a \in blocks : ~ IsFree(a) => ~ (arg[c] = a + BlockSize /\ b # NULL)
      BY <1>1, <1>7, HeapAssumption DEF TypeOK
    <3>3. QED
      BY <1>2, <2>1, <3>1, <3>2 DEF Owners, IsFree
  <2>7. QED
    BY <1>1, <1>2, <1>4, <2>1, <2>3, <2>4, <2>5, <2>6 DEF HeapInv
<1>8. CASE b # NULL /\ b + BlockSize # arg[c]
  <2> DEFINE n == mem[b].next
  <2>1. UNCHANGED <<mem, pc, arg>> /\ current'[c] = n
    BY <1>1, <1>8 DEF KfreeFind, Advance, TypeOK
  <2>2. b \in blocks
    BY <1>2, <1>5, <1>8 DEF FreeLocals
  <2>3. /\ n # NULL => n \in blocks
        /\ \A a \in blocks : (n # NULL => a < n) => a <= b
    BY <2>2, NextBlock DEF KfreeFind
  <2>4. \A a \in blocks : a <= b => a + BlockSize # arg[c]
    BY <1>1, <1>2, <1>5, <1>8, <2>2 DEF FreeLocals
  <2> HIDE DEF n
  <2>5. Locals'
    <3>1. FreeLocals(c)'
      BY <1>2, <1>5, <2>1, <2>3, <2>4 DEF FreeLocals
    <3>2. QED
      BY <1>2, <1>3, <2>1, <3>1 DEF Locals, ScanLocals, SplitLocals, TakeLocals, FreeLocals
  <2>6. TilesHeap' /\ Exclusive'
    BY <1>1, <1>2, <2>1 DEF HeapInv, TilesHeap, EndOf, Exclusive, IsFree
  <2>7. Neighbours'
    BY <1>2, <1>6, <2>1 DEF Neighbours, IsFree
  <2>8. Owners'
    <3>1. \A a \in blocks : ~ IsFree(a) =>
            \/ \E l \in live : l.ptr = a + BlockSize
            \/ arg[c] = a + BlockSize
      BY <1>1 DEF HeapInv, Owners
    <3>2. \A a \in blocks : arg[c] = a + BlockSize => n # NULL
      BY <1>1, <2>2, <2>3, <2>4
    <3>3. QED
      BY <1>2, <2>1, <3>1, <3>2 DEF Owners, IsFree
  <2>9. QED
    BY <1>1, <1>2, <1>4, <2>1, <2>5, <2>6, <2>7, <2>8 DEF HeapInv
<1>9. CASE b # NULL /\ b + BlockSize = arg[c] /\ ~ IsFree(b)
  <2>1. /\ mem' = [mem EXCEPT ![b] = Header(@.size, 1, @.next)]
        /\ current' = [current EXCEPT ![c] = freeList]
        /\ pc' = [pc EXCEPT ![c] = "merge"]
        /\ UNCHANGED arg
    BY <1>9 DEF KfreeFind
  <2>2. b \in blocks /\ b \in DOMAIN mem
    BY <1>1, <1>2, <1>5, <1>9 DEF FreeLocals, HeapInv, TilesHeap
  <2>3. /\ DOMAIN mem' = DOMAIN mem
        /\ mem'[b].size = mem[b].size /\ mem'[b].free = 1 /\ mem'[b].next = mem[b].next
        /\ \A a \in blocks \ {b} : mem'[a] = mem[a]
    BY <1>1, <2>1, <2>2, HeaderFields DEF HeapInv, TilesHeap
  <2>4. \A a \in blocks : EndOf(a)' = EndOf(a) /\ mem'[a].next = mem[a].next
                          /\ mem'[a].size = mem[a].size
    BY <2>3 DEF EndOf
  <2>5. TilesHeap'
    BY <1>1, <1>2, <2>3, <2>4 DEF HeapInv, TilesHeap, Limit, Base
  <2>6. \A l \in live : l.ptr - BlockSize # b
    BY <1>1, <1>2, <1>5, <1>9, <2>2, HeapAssumption DEF FreeLocals, TypeOK
  <2>7. Exclusive'
    BY <1>1, <1>2, <2>3, <2>6 DEF HeapInv, Exclusive, IsFree
  <2>8. pc'[c] = "merge" /\ current'[c] = freeList
    BY <1>1, <2>1 DEF TypeOK
  <2>9. Locals'
    <3>1. FreeLocals(c)'
      BY <1>1, <1>2, <1>5, <2>1, <2>8 DEF FreeLocals, HeapInv, TilesHeap
    <3>2. QED
      BY <1>3, <2>8, <3>1 DEF Locals, ScanLocals, SplitLocals, TakeLocals, FreeLocals
  <2>10. Neighbours'
    BY <1>1, <1>2, <2>8 DEF Neighbours, Pending, HeapInv, TilesHeap
  <2>11. Owners'
    <3>1. \A a \in blocks : ~ IsFree(a) =>
            \/ \E l \in live : l.ptr = a + BlockSize
            \/ arg[c] = a + BlockSize
      BY <1>1 DEF HeapInv, Owners
    <3>2. \A a \in blocks : a # b => arg[c] # a + BlockSize
      BY <1>1, <1>9, <2>2, HeapAssumption
    <3>3. \A a \in blocks : ~ IsFree(a)' => a # b /\ ~ IsFree(a)
      BY <2>3 DEF IsFree
    <3>4. QED
      BY <1>2, <3>1, <3>2, <3>3 DEF Owners
  <2>12. QED
    BY <1>1, <1>2, <1>4, <2>5, <2>7, <2>9, <2>10, <2>11 DEF HeapInv
<1>10. QED
  BY <1>7, <1>8, <1>9 DEF KfreeFind

LEMMA MergePreserves ==
  ASSUME IInv, ~overlapped', NEW c \in Callers, KfreeMerge(c)
  PROVE  HeapInv'
<1> DEFINE b == current[c]
           n == mem[b].next
<1>1. /\ HeapInv /\ TypeOK
      /\ \A d \in Callers \ {c} : pc[d] = "idle"
      /\ \A a \in blocks : a \in Nat /\ mem[a] \in Headers /\ a > 0
  BY Alone DEF KfreeMerge, InCall
<1>2. pc[c] = "merge" /\ UNCHANGED <<freeList, live>> /\ ~overlapped
  BY DEF KfreeMerge
<1>3. \A d \in Callers \ {c} : pc'[d] = "idle"
  BY <1>1 DEF KfreeMerge, Return, Advance, TypeOK
<1>4. Serial'
  BY <1>3 DEF Serial, InCall
<1>5. /\ b # NULL => b \in blocks
      /\ \A l \in live : l.ptr # arg[c]
  BY <1>1, <1>2 DEF HeapInv, Locals, FreeLocals
<1>6. \A a \in blocks :
        mem[a].next # NULL /\ IsFree(a) /\ IsFree(mem[a].next) => b # NULL /\ b <= a
  BY <1>1, <1>2 DEF HeapInv, Neighbours, Pending
<1>7. \A a \in blocks : ~ IsFree(a) => \E l \in live : l.ptr = a + BlockSize
  BY <1>1, <1>2 DEF HeapInv, Owners
<1>8. CASE b = NULL \/ n = NULL
  <2>1. Return(c) /\ UNCHANGED <<mem, blocks>>
    BY <1>8 DEF KfreeMerge
  <2>2. pc'[c] = "idle"
    BY <1>1, <2>1 DEF Return, TypeOK
  <2>3. TilesHeap' /\ Exclusive'
    BY <1>1, <1>2, <2>1 DEF HeapInv, TilesHeap, EndOf, Exclusive, IsFree
  <2>4. Locals'
    BY <1>3, <2>2 DEF Locals, ScanLocals, SplitLocals, TakeLocals, FreeLocals
  <2>5. \A a \in blocks : mem[a].next # NULL => ~ (IsFree(a) /\ IsFree(mem[a].next))
    <3>1. CASE b = NULL
      BY <3>1, <1>6
    <3>2. CASE b # NULL
      <4>1. b \in blocks /\ n = NULL
        BY <3>2, <1>5, <1>8
      <4>2. \A a \in blocks : a <= b
        BY <1>2, <4>1, NextBlock
      <4>3. \A a \in blocks : b <= a => a = b
        BY <1>1, <4>1, <4>2
      <4>4. QED
        BY <1>6, <4>1, <4>3
    <3>3. QED
      BY <3>1, <3>2
  <2>6. Neighbours' /\ Owners'
    BY <1>2, <1>7, <2>1, <2>5 DEF Neighbours, Owners, IsFree
  <2>7. QED
    BY <1>1, <1>2, <1>4, <2>1, <2>3, <2>4, <2>6 DEF HeapInv
<1>9. CASE b # NULL /\ n # NULL /\ ~ (IsFree(b) /\ IsFree(n))
  <2>1. UNCHANGED <<mem, blocks, pc, arg>> /\ current'[c] = n
    BY <1>1, <1>9 DEF KfreeMerge, Advance, TypeOK
  <2>2. b \in blocks /\ n \in blocks
    BY <1>2, <1>5, <1>9, NextBlock
  <2>3. \A a \in blocks : a < n => a <= b
    BY <1>2, <1>9, <2>2, NextBlock
  <2> HIDE DEF n
  <2>4. TilesHeap' /\ Exclusive'
    BY <1>1, <1>2, <2>1 DEF HeapInv, TilesHeap, EndOf, Exclusive, IsFree
  <2>5. Locals'
    <3>1. FreeLocals(c)'
      BY <1>2, <1>5, <2>1, <2>2 DEF FreeLocals
    <3>2. QED
      BY <1>2, <1>3, <2>1, <3>1 DEF Locals, ScanLocals, SplitLocals, TakeLocals, FreeLocals
  <2>6. Neighbours'
    <3>1. ASSUME NEW a \in blocks, mem[a].next # NULL, IsFree(a), IsFree(mem[a].next)
          PROVE  n <= a
      <4>1. b <= a /\ a # b
        BY <1>6, <1>9, <3>1 DEF n
      <4>2. QED
        BY <1>1, <2>2, <2>3, <4>1
    <3>2. QED
      BY <1>2, <1>9, <2>1, <3>1 DEF Neighbours, Pending, IsFree
  <2>7. Owners'
    BY <1>2, <1>7, <2>1 DEF Owners, IsFree
  <2>8. QED
    BY <1>1, <1>2, <1>4, <2>1, <2>4, <2>5, <2>6, <2>7 DEF HeapInv
<1>10. CASE b # NULL /\ n # NULL /\ (IsFree(b) /\ IsFree(n))
  <2>1. /\ mem' = [mem EXCEPT ![b] = Header(Wrap(@.size + BlockSize + mem[n].size),
                                            @.free, mem[n].next)]
        /\ blocks' = blocks \ {n}
        /\ UNCHANGED <<pc, current, arg>>
    BY <1>10 DEF KfreeMerge
  <2>2. /\ b \in blocks /\ n \in blocks /\ n = EndOf(b) /\ b \in DOMAIN mem
        /\ b < n /\ n < EndOf(n)
        /\ EndOf(n) <= Limit /\ EndOf(n) \in Nat /\ Limit \in Nat
    <3>1. b \in blocks
      BY <1>5, <1>10
    <3>2. n \in blocks /\ n = EndOf(b) /\ b < n
      BY <3>1, <1>2, <1>10, NextBlock
    <3>3. n < EndOf(n) /\ EndOf(n) <= Limit /\ EndOf(n) \in Nat /\ Limit \in Nat
      BY <3>2, <1>2, NextBlock
    <3>4. QED
      BY <3>1, <3>2, <3>3, <1>1 DEF HeapInv, TilesHeap
  <2>3. /\ mem[b].size \in Nat /\ mem[n].size \in Nat
        /\ mem[b].size + BlockSize + mem[n].size = EndOf(n) - b - BlockSize
    BY <1>1, <2>2, FieldsAreTyped, HeapAssumption DEF EndOf
  <2>4. Wrap(mem[b].size + BlockSize + mem[n].size) = mem[b].size + BlockSize + mem[n].size
    <3>1. Limit <= SizeMax
      BY <1>1, <2>2, InitialBlock DEF HeapInv, TilesHeap
    <3>2. mem[b].size + BlockSize + mem[n].size \in Nat
      BY <2>3, HeapAssumption
    <3>3. mem[b].size + BlockSize + mem[n].size <= SizeMax
      BY <1>1, <2>2, <2>3, <3>1, HeapAssumption
    <3>4. QED
      BY <3>2, <3>3, WrapIsIdentity
  <2>5. /\ DOMAIN mem' = DOMAIN mem
        /\ mem'[b].size = mem[b].size + BlockSize + mem[n].size
        /\ mem'[b].free = mem[b].free /\ mem'[b].next = mem[n].next
        /\ \A a \in blocks \ {b} : mem'[a] = mem[a]
    BY <1>1, <2>1, <2>2, <2>4, HeaderFields DEF HeapInv, TilesHeap
  <2>6. b + BlockSize + mem'[b].size = EndOf(n)
    <3>1. b \in Nat /\ n \in Nat
      BY <1>1, <2>2
    <3> HIDE DEF b, n
    <3>2. QED
      BY <2>2, <2>3, <2>5, <3>1, HeapAssumption
  <2>7. \A a \in blocks \ {b} : a + BlockSize + mem'[a].size = EndOf(a)
    BY <2>5 DEF EndOf
  <2>8. \A a, d \in blocks : a < d => EndOf(a) <= d
    BY <1>1 DEF HeapInv, TilesHeap
  <2>9. \A a \in blocks : a \in Nat /\ EndOf(a) \in Nat /\ a < EndOf(a)
    BY <1>1, <1>2, NextBlock
  <2>10. \A a \in blocks \ {b} : mem[a].next # n
    BY <1>2, <1>10, <2>2, <2>8, <2>9, NextBlock
  <2>11. freeList # NULL /\ freeList <= b /\ freeList \in Nat /\ freeList \in blocks'
    BY <1>1, <2>1, <2>2 DEF HeapInv, TilesHeap, TypeOK
  <2>12. \A a \in blocks : /\ a \in DOMAIN mem /\ freeList <= a
                           /\ EndOf(a) <= Limit
                           /\ mem[a].next = IF EndOf(a) = Limit THEN NULL ELSE EndOf(a)
                           /\ mem[a].next # NULL => mem[a].next \in blocks
    BY <1>1 DEF HeapInv, TilesHeap
  <2>13. mem[n].next # n /\ mem[n].next # b
    <3>1. b \in Nat /\ n \in Nat /\ b # NULL /\ n # NULL
      BY <1>1, <2>2 DEF NULL
    <3>2. mem[n].next = NULL \/ mem[n].next = EndOf(n)
      BY <2>2, <2>12
    <3> HIDE DEF b, n
    <3>3. QED
      BY <2>2, <3>1, <3>2
  <2> HIDE DEF b, n
  <2>14. TilesHeap'
    <3>1. ASSUME NEW a \in blocks'
          PROVE  /\ a \in DOMAIN mem'
                 /\ freeList # NULL /\ freeList <= a
                 /\ EndOf(a)' <= Limit
                 /\ mem'[a].next = IF EndOf(a)' = Limit THEN NULL ELSE EndOf(a)'
                 /\ mem'[a].next # NULL => mem'[a].next \in blocks'
      <4> DEFINE e == a + BlockSize + mem'[a].size
      <4>1. EndOf(a)' = e
        BY DEF EndOf
      <4> HIDE DEF e
      <4>2. CASE a = b
        <5>1. e = EndOf(n) /\ mem'[a].next = mem[n].next
          BY <4>2, <2>5, <2>6 DEF e
        <5>2. QED
          BY <4>1, <4>2, <5>1, <2>1, <2>2, <2>5, <2>11, <2>12, <2>13
      <4>3. CASE a # b
        <5>1. e = EndOf(a) /\ mem'[a].next = mem[a].next /\ a \in blocks
          BY <4>3, <2>1, <2>5, <2>7 DEF e
        <5>2. QED
          BY <4>1, <4>3, <5>1, <2>1, <2>5, <2>10, <2>11, <2>12
      <4>4. QED
        BY <4>2, <4>3
    <3>2. ASSUME NEW a \in blocks', NEW d \in blocks', a < d
          PROVE  EndOf(a)' <= d
      <4> DEFINE e == a + BlockSize + mem'[a].size
      <4>1. EndOf(a)' = e
        BY DEF EndOf
      <4>2. CASE a = b
        <5>1. e = EndOf(n)
          BY <4>2, <2>6
        <5>2. b < d /\ d \in blocks /\ d # n
          BY <3>2, <4>2, <2>1
        <5>3. n <= d /\ n \in Nat /\ d \in Nat
          BY <5>2, <2>2, <2>8, <2>9
        <5>4. EndOf(n) <= d
          BY <5>2, <5>3, <2>2, <2>8
        <5>5. QED
          BY <4>1, <5>1, <5>4
      <4>3. CASE a # b
        <5>1. e = EndOf(a) /\ a \in blocks /\ d \in blocks
          BY <4>3, <2>1, <2>7
        <5>2. QED
          BY <3>2, <4>1, <5>1, <2>8
      <4>4. QED
        BY <4>2, <4>3
    <3>3. Limit' = Limit
      BY DEF Limit, Base
    <3>4. QED
      BY <1>2, <2>11, <3>1, <3>2, <3>3 DEF TilesHeap
  <2>15. Exclusive'
    <3>1. \A l \in live : /\ l.ptr - BlockSize \in blocks
                          /\ ~ IsFree(l.ptr - BlockSize)
                          /\ l.size <= mem[l.ptr - BlockSize].size
      BY <1>1 DEF HeapInv, Exclusive
    <3>2. \A l \in live : l.ptr - BlockSize # b /\ l.ptr - BlockSize # n
      BY <1>10, <3>1
    <3>3. \A l \in live' : /\ l.ptr - BlockSize \in blocks'
                           /\ ~ IsFree(l.ptr - BlockSize)'
                           /\ l.size <= mem'[l.ptr - BlockSize].size
      BY <1>2, <2>1, <2>5, <3>1, <3>2 DEF IsFree
    <3>4. QED
      BY <1>1, <1>2, <3>3 DEF HeapInv, Exclusive
  <2>16. Locals'
    <3>1. FreeLocals(c)'
      BY <1>2, <1>5, <2>1, <2>2 DEF FreeLocals, b
    <3>2. QED
      BY <1>2, <1>3, <2>1, <3>1 DEF Locals, ScanLocals, SplitLocals, TakeLocals, FreeLocals
  <2>17. Neighbours'
    <3>1. \A a \in blocks \ {b, n} :
            mem'[a].next # NULL /\ IsFree(a)' /\ IsFree(mem[a].next)' => b <= a
      <4>1. \A a \in blocks \ {b, n} : mem'[a] = mem[a] /\ mem[a].next # n
        BY <2>5, <2>10
      <4>2. \A a \in blocks : a # n => (IsFree(a)' => IsFree(a))
        BY <2>5 DEF IsFree
      <4>3. QED
        BY <1>6, <2>12, <4>1, <4>2
    <3>2. \A a \in blocks' :
            mem'[a].next # NULL /\ IsFree(a)' /\ IsFree(mem[a].next)' => b <= a
      BY <2>1, <2>2, <2>9, <3>1
    <3>3. pc'[c] = "merge" /\ current'[c] = b /\ b # NULL
      BY <1>2, <1>10, <2>1 DEF b
    <3>4. QED
      BY <3>2, <3>3 DEF Neighbours, Pending
  <2>18. Owners'
    <3>1. \A a \in blocks' : ~ IsFree(a)' => a \in blocks /\ ~ IsFree(a)
      BY <1>10, <2>1, <2>5 DEF IsFree
    <3>2. QED
      BY <1>2, <1>7, <3>1 DEF Owners
  <2>19. QED
    BY <1>1, <1>2, <1>4, <2>1, <2>14, <2>15, <2>16, <2>17, <2>18 DEF HeapInv
<1>11. QED
  BY <1>8, <1>9, <1>10

LEMMA NextPreservesIInv == IInv /\ [Next]_vars => IInv'
<1> SUFFICES ASSUME IInv, [Next]_vars PROVE IInv'
  OBVIOUS
<1>1. TypeOK' /\ Closed'
  BY TypesPreserved DEF IInv
<1>2. ASSUME ~overlapped' PROVE HeapInv'
  <2>1. CASE UNCHANGED vars
    <3>1. HeapInv
      BY <1>2, <2>1 DEF IInv, vars
    <3>2. QED
      BY <2>1, <3>1 DEF vars, HeapInv, Serial, InCall, TilesHeap, EndOf, Limit, Base,
         Exclusive, IsFree, Locals, ScanLocals, SplitLocals, TakeLocals, FreeLocals, Fits,
         Neighbours, Pending, Owners
  <2>2. ASSUME NEW c \in Callers, Call(c) PROVE HeapInv'
    BY <1>1, <1>2, <2>1, <2>2, BeginPreserves DEF Call, KmallocRejects
  <2>3. ASSUME NEW c \in Callers, Step(c) PROVE HeapInv'
    BY <1>2, <2>3, ScanPreserves, SplitPreserves, TakePreserves, FindPreserves,
       MergePreserves DEF Step
  <2>4. QED
    BY <2>1, <2>2, <2>3 DEF Next
<1>3. QED
  BY <1>1, <1>2 DEF IInv

-----------------------------------------------------------------------------
(* The theorems.                                                           *)

(* The inductive invariant holds in every reachable state.                 *)
THEOREM Invariance == Spec => []IInv
<1>1. Init => IInv
  BY InitEstablishesIInv
<1>2. IInv /\ [Next]_vars => IInv'
  BY NextPreservesIInv
<1>3. QED
  BY <1>1, <1>2, PTL DEF Spec

(* The heap's variables keep their types, also when calls overlap.         *)
THEOREM TypeCorrect == Spec => []TypeOK
<1>1. IInv => TypeOK
  BY DEF IInv
<1>2. QED
  BY <1>1, Invariance, PTL

(* The list tiles the heap in every reachable state of every heap.         *)
THEOREM TilingHolds == Spec => []Tiling
<1>1. IInv => Tiling
  BY DEF IInv, HeapInv, Tiling
<1>2. QED
  BY <1>1, Invariance, PTL

(* Allocations never share a block, and each block is large enough.        *)
THEOREM NoAliasingHolds == Spec => []NoAliasing
<1>1. IInv => NoAliasing
  BY DEF IInv, HeapInv, NoAliasing
<1>2. QED
  BY <1>1, Invariance, PTL

(* kfree leaves no two neighbouring free blocks.                           *)
THEOREM CoalescedHolds == Spec => []Coalesced
<1>1. IInv => Coalesced
  BY DEF IInv, HeapInv, Coalesced, Neighbours, Pending, Idle, InCall
<1>2. QED
  BY <1>1, Invariance, PTL

(* Every used block has an owner.                                          *)
THEOREM NoLeakHolds == Spec => []NoLeak
<1>1. IInv => NoLeak
  BY DEF IInv, HeapInv, NoLeak, Owners, Idle, InCall
<1>2. QED
  BY <1>1, Invariance, PTL

(* Once everything is given back the heap is one free block again, which   *)
(* follows from coalescing, from there being no leak, and from the tiling. *)
THEOREM RestoredHolds == Spec => []Restored
<1>1. ASSUME IInv, ~overlapped, Idle, live = {}, freeList # NULL
      PROVE  /\ blocks = {freeList}
             /\ mem[freeList] = [size |-> InitialSize, free |-> 1, next |-> NULL]
  <2>1. HeapInv /\ TypeOK
    BY <1>1 DEF IInv
  <2>2. \A b \in blocks : IsFree(b)
    BY <1>1, <2>1 DEF HeapInv, Owners, Idle, InCall
  <2>3. freeList \in blocks /\ freeList = Base /\ mem[freeList] \in Headers
    BY <1>1, <2>1 DEF HeapInv, TilesHeap, TypeOK
  <2>4. \A b \in blocks : mem[b].next # NULL => ~ (IsFree(b) /\ IsFree(mem[b].next))
    BY <1>1, <2>1 DEF HeapInv, Neighbours, Pending, Idle, InCall
  <2>5. mem[freeList].next = NULL
    <3>1. mem[freeList].next # NULL => mem[freeList].next \in blocks
      BY <2>1, <2>3 DEF HeapInv, TilesHeap
    <3>2. QED
      BY <2>2, <2>3, <2>4, <3>1
  <2>6. EndOf(freeList) = Limit
    <3>1. EndOf(freeList) \in Nat /\ freeList < EndOf(freeList) /\ freeList \in Nat
      BY <1>1, <2>1, <2>3, NextBlock DEF TypeOK
    <3>2. QED
      BY <2>1, <2>3, <2>5, <3>1 DEF HeapInv, TilesHeap, NULL
  <2>7. ASSUME NEW b \in blocks PROVE b = freeList
    <3>1. b <= freeList
      BY <1>1, <2>3, <2>5, NextBlock
    <3>2. freeList <= b /\ b \in Nat /\ freeList \in Nat
      BY <2>1 DEF HeapInv, TilesHeap, TypeOK
    <3>3. QED
      BY <3>1, <3>2
  <2>8. mem[freeList].size = InitialSize
    <3>1. /\ Base \in Nat /\ InitialSize \in Nat
      BY <1>1, <2>1, InitialBlock DEF HeapInv
    <3>2. mem[freeList].size \in Nat
      BY <2>3, FieldsAreTyped
    <3>3. QED
      BY <2>3, <2>6, <3>1, <3>2, HeapAssumption DEF EndOf, Limit
  <2>9. mem[freeList] = [size |-> InitialSize, free |-> 1, next |-> NULL]
    BY <2>2, <2>3, <2>5, <2>8 DEF Headers, IsFree
  <2>10. QED
    BY <2>3, <2>7, <2>9
<1>2. IInv => Restored
  BY <1>1 DEF Restored
<1>3. QED
  BY <1>2, Invariance, PTL

(* kmalloc returns NULL only if no block would do.                         *)
THEOREM FailsOnlyWhenFullHolds == Spec => []FailsOnlyWhenFull
<1>1. IInv => FailsOnlyWhenFull
  BY DEF IInv, HeapInv, Locals, ScanLocals, FailsOnlyWhenFull
<1>2. QED
  BY <1>1, Invariance, PTL

-----------------------------------------------------------------------------
(* The step that hands out an allocation is the abstract allocator's.      *)

LEMMA TakeAllocates ==
  ASSUME IInv, ~overlapped', NEW c \in Callers, KmallocTake(c)
  PROVE  A!Allocate
<1> DEFINE b == current[c]
           l == [ptr |-> b + BlockSize, size |-> arg[c]]
<1>1. /\ HeapInv /\ TypeOK
      /\ \A a \in blocks : a \in Nat /\ mem[a] \in Headers /\ a > 0
  BY Alone DEF KmallocTake, InCall
<1>2. pc[c] = "take" /\ live' = live \union {l} /\ ~overlapped /\ UNCHANGED overlapped
  BY DEF KmallocTake
<1>3. /\ b \in blocks /\ Fits(b, arg[c]) /\ arg[c] > 0 /\ arg[c] \in Nat
      /\ arg[c] <= SizeMax - (Alignment - 1)
  BY <1>1, <1>2 DEF HeapInv, Locals, TakeLocals, TypeOK
<1>4. arg[c] <= mem[b].size /\ mem[b].size \in Nat
  BY <1>1, <1>3, AlignBounds, FieldsAreTyped DEF Fits
<1>5. freeList = Base /\ freeList <= b /\ EndOf(b) <= Limit /\ Limit \in Nat /\ Base \in Nat
  BY <1>1, <1>3, InitialBlock DEF HeapInv, TilesHeap
<1>6. l.ptr = b + BlockSize /\ l.size = arg[c] /\ l \in live'
  BY <1>2
<1> HIDE DEF l
<1>7. l.size > 0 /\ Base <= l.ptr /\ l.ptr + l.size <= Limit
  BY <1>1, <1>3, <1>4, <1>5, <1>6, HeapAssumption DEF EndOf
<1>8. ASSUME NEW m \in live
      PROVE  A!Disjoint(l, m)
  <2> DEFINE a == m.ptr - BlockSize
  <2>1. /\ m.ptr \in Nat /\ m.size \in Nat
        /\ a \in blocks /\ ~ IsFree(a) /\ m.size <= mem[a].size
    BY <1>1, <1>8 DEF HeapInv, Exclusive, TypeOK
  <2>2. a # b
    BY <1>3, <2>1 DEF Fits
  <2>3. /\ a < b => EndOf(a) <= b
        /\ b < a => EndOf(b) <= a
    BY <1>1, <1>3, <2>1 DEF HeapInv, TilesHeap
  <2>4. mem[a].size \in Nat /\ a \in Nat /\ b \in Nat /\ m.ptr = a + BlockSize
    BY <1>1, <1>3, <2>1, FieldsAreTyped, HeapAssumption
  <2> HIDE DEF a, b
  <2>5. QED
    BY <1>3, <1>4, <1>6, <2>1, <2>2, <2>3, <2>4, HeapAssumption DEF A!Disjoint, EndOf
<1>9. QED
  BY <1>2, <1>6, <1>7, <1>8 DEF A!Allocate

(* The heap of mm.c implements the abstract allocator: what it hands out   *)
(* is inside the heap and disjoint from everything handed out before, and  *)
(* an allocation ends only when it is given back.                          *)
THEOREM Refinement == Spec => ImplementsAllocator
<1>1. Init => A!Init
  BY DEF Init, A!Init
<1>2. IInv /\ IInv' /\ [Next]_vars => [A!Next]_<<live, overlapped>>
  <2> SUFFICES ASSUME IInv, [Next]_vars, ~overlapped'
               PROVE  [A!Next]_<<live, overlapped>>
    BY DEF A!Next, A!Void, IInv, TypeOK
  <2>1. ASSUME NEW c \in Callers, NEW ptr \in Pointers, Kfree(c, ptr)
        PROVE  [A!Next]_<<live, overlapped>>
    <3>1. live' = {l \in live : l.ptr # ptr} /\ ~overlapped /\ UNCHANGED overlapped
      BY <2>1 DEF Kfree, Begin, IInv, TypeOK
    <3>2. \A l, m \in live : l.ptr = m.ptr => l = m
      BY <3>1 DEF IInv, HeapInv, Exclusive
    <3>3. CASE \E l \in live : l.ptr = ptr
      <4>1. PICK l \in live : l.ptr = ptr
        BY <3>3
      <4>2. live' = live \ {l}
        BY <3>1, <3>2, <4>1
      <4>3. QED
        BY <3>1, <4>2 DEF A!Next, A!GiveBack
    <3>4. CASE ~ \E l \in live : l.ptr = ptr
      BY <3>1, <3>4
    <3>5. QED
      BY <3>3, <3>4
  <2>2. ASSUME NEW c \in Callers, KmallocTake(c)
        PROVE  [A!Next]_<<live, overlapped>>
    BY <2>2, TakeAllocates DEF A!Next
  <2>3. ASSUME NEW c \in Callers, NEW size \in Requests, Kmalloc(c, size)
        PROVE  UNCHANGED <<live, overlapped>>
    BY <2>3 DEF Kmalloc, Begin, IInv, TypeOK
  <2>4. ASSUME NEW c \in Callers,
               \/ KmallocScan(c) \/ KmallocSplit(c) \/ KfreeFind(c) \/ KfreeMerge(c)
        PROVE  UNCHANGED <<live, overlapped>>
    BY <2>4 DEF KmallocScan, KmallocSplit, KfreeFind, KfreeMerge
  <2>5. ASSUME UNCHANGED vars
        PROVE  UNCHANGED <<live, overlapped>>
    BY <2>5 DEF vars
  <2>6. QED
    BY <2>1, <2>2, <2>3, <2>4, <2>5 DEF Next, Call, Step, KmallocRejects
<1>3. QED
  BY <1>1, <1>2, Invariance, PTL DEF Spec, ImplementsAllocator, A!Spec

-----------------------------------------------------------------------------
(* Every call ends.  A walk over the list goes up in addresses and a merge *)
(* takes a block out of the list, so what is left of a call is a number    *)
(* that each of its steps makes smaller.                                   *)

(* The bytes of the heap from a block of the list on.                      *)
Rest(b) == IF b = NULL THEN 0 ELSE Limit - b

(* No fewer than the steps a call still takes.                             *)
Turns(c) ==
  CASE pc[c] = "idle"  -> 0
    [] pc[c] = "take"  -> 1
    [] pc[c] = "split" -> 2
    [] pc[c] = "scan"  -> Rest(current[c]) + 3
    [] pc[c] = "find"  -> Rest(current[c]) + 2 * Rest(freeList) + 2
    [] pc[c] = "merge" -> IF current[c] = NULL THEN 1
                          ELSE Rest(current[c]) + Rest(mem[current[c]].next) + 1

Longest == 3 * Rest(freeList) + 3

(* However the heap looks, no call takes more than Longest steps more.     *)
TurnsAreBounded ==
  ~overlapped => \A c \in Callers : Turns(c) \in 0 .. Longest

(* Whatever happens while a call is in progress brings its end nearer.     *)
TurnsDecrease ==
  [][\A c \in Callers : InCall(c) /\ ~overlapped' => Turns(c)' < Turns(c)]_vars

LEMMA RestShrinks ==
  ASSUME IInv, ~overlapped, NEW b \in blocks
  PROVE  /\ b # NULL /\ Rest(b) \in Nat
         /\ Rest(mem[b].next) \in Nat /\ Rest(mem[b].next) < Rest(b)
         /\ Rest(freeList) \in Nat /\ Rest(b) <= Rest(freeList)
<1>1. /\ HeapInv /\ TypeOK /\ b \in Nat /\ mem[b] \in Headers /\ b # NULL
  BY InitialBlock DEF IInv, HeapInv, TilesHeap, TypeOK, NULL
<1>2. /\ mem[b].next # NULL => mem[b].next \in blocks /\ mem[b].next = EndOf(b)
      /\ EndOf(b) \in Nat /\ b < EndOf(b) /\ EndOf(b) <= Limit /\ Limit \in Nat
  BY NextBlock
<1>3. /\ freeList # NULL /\ freeList <= b /\ freeList \in Nat
  BY <1>1 DEF HeapInv, TilesHeap, TypeOK
<1>4. Rest(b) = Limit - b /\ Rest(freeList) = Limit - freeList
  BY <1>1, <1>3 DEF Rest
<1>5. Rest(mem[b].next) = 0 \/ Rest(mem[b].next) = Limit - EndOf(b)
  BY <1>2 DEF Rest
<1>6. QED
  BY <1>1, <1>2, <1>3, <1>4, <1>5

(* Where a caller's walk stands.                                           *)
LEMMA WalkStands ==
  ASSUME IInv, ~overlapped, NEW c \in Callers
  PROVE  /\ pc[c] \in {"idle", "scan", "split", "take", "find", "merge"}
         /\ pc[c] \in {"scan", "find", "merge"} /\ current[c] # NULL => current[c] \in blocks
         /\ Rest(freeList) \in Nat
<1>1. HeapInv /\ TypeOK
  BY DEF IInv
<1>2. ScanLocals(c) /\ FreeLocals(c)
  BY <1>1 DEF HeapInv, Locals
<1>3. Rest(freeList) \in Nat
  <2>1. CASE freeList = NULL
    BY <2>1 DEF Rest
  <2>2. CASE freeList # NULL
    BY <1>1, <2>2, RestShrinks DEF HeapInv, TilesHeap
  <2>3. QED
    BY <2>1, <2>2
<1>4. QED
  BY <1>1, <1>2, <1>3 DEF ScanLocals, FreeLocals, TypeOK

LEMMA TurnsInRange == IInv => TurnsAreBounded
<1> SUFFICES ASSUME IInv, ~overlapped, NEW c \in Callers
             PROVE  Turns(c) \in 0 .. Longest
  BY DEF TurnsAreBounded
<1>1. /\ pc[c] \in {"idle", "scan", "split", "take", "find", "merge"}
      /\ pc[c] \in {"scan", "find", "merge"} /\ current[c] # NULL => current[c] \in blocks
      /\ Rest(freeList) \in Nat
  BY WalkStands
<1>2. CASE pc[c] \in {"idle", "split", "take"}
  BY <1>1, <1>2 DEF Turns, Longest
<1>3. CASE pc[c] \in {"scan", "find", "merge"} /\ current[c] = NULL
  <2>1. Rest(current[c]) = 0
    BY <1>3 DEF Rest
  <2>2. QED
    BY <1>1, <1>3, <2>1 DEF Turns, Longest
<1>4. CASE pc[c] \in {"scan", "find", "merge"} /\ current[c] # NULL
  <2>1. /\ Rest(current[c]) \in Nat /\ Rest(mem[current[c]].next) \in Nat
        /\ Rest(mem[current[c]].next) < Rest(current[c])
        /\ Rest(current[c]) <= Rest(freeList)
    BY <1>1, <1>4, RestShrinks
  <2>2. QED
    BY <1>1, <1>4, <2>1 DEF Turns, Longest
<1>5. QED
  BY <1>1, <1>2, <1>3, <1>4

(* The turns of the loops.                                                 *)

LEMMA ScanTurns ==
  ASSUME IInv, ~overlapped, NEW c \in Callers, KmallocScan(c)
  PROVE  Turns(c)' < Turns(c)
<1>1. /\ pc[c] = "scan" /\ TypeOK /\ UNCHANGED <<freeList, mem>>
      /\ current[c] # NULL => current[c] \in blocks
  BY WalkStands DEF IInv, KmallocScan
<1>2. CASE current[c] = NULL
  <2>1. pc'[c] = "idle" /\ Rest(current[c]) = 0
    BY <1>1, <1>2 DEF KmallocScan, Return, TypeOK, Rest
  <2>2. QED
    BY <1>1, <2>1 DEF Turns
<1>3. CASE current[c] # NULL
  <2>1. /\ Rest(current[c]) \in Nat /\ Rest(mem[current[c]].next) \in Nat
        /\ Rest(mem[current[c]].next) < Rest(current[c])
    BY <1>1, <1>3, RestShrinks
  <2>2. CASE pc' = pc /\ current' = [current EXCEPT ![c] = mem[current[c]].next]
    <3>1. pc'[c] = "scan" /\ current'[c] = mem[current[c]].next
      BY <1>1, <2>2 DEF TypeOK
    <3>2. Rest(current'[c]) = Rest(mem[current[c]].next)
      BY <3>1
    <3>3. Turns(c) = Rest(current[c]) + 3
      BY <1>1 DEF Turns
    <3>4. Turns(c)' = Rest(mem[current[c]].next) + 3
      BY <3>1 DEF Turns, Rest, Limit, Base
    <3>5. QED
      BY <2>1, <3>3, <3>4
  <2>3. CASE pc'[c] \in {"split", "take"}
    BY <1>1, <2>1, <2>3 DEF Turns
  <2>4. QED
    BY <1>1, <1>3, <2>2, <2>3 DEF KmallocScan, Advance, TypeOK
<1>4. QED
  BY <1>2, <1>3

LEMMA FindTurns ==
  ASSUME IInv, ~overlapped, NEW c \in Callers, KfreeFind(c)
  PROVE  Turns(c)' < Turns(c)
<1>1. /\ pc[c] = "find" /\ TypeOK
      /\ UNCHANGED <<freeList, overlapped, blocks>>
      /\ current[c] # NULL => current[c] \in blocks
      /\ Rest(freeList) \in Nat
  BY WalkStands DEF IInv, KfreeFind
<1>2. Turns(c) = Rest(current[c]) + 2 * Rest(freeList) + 2
  BY <1>1 DEF Turns
<1>3. Rest(current[c]) \in Nat
  BY <1>1, RestShrinks DEF Rest
<1>4. CASE Return(c)
  <2>1. pc'[c] = "idle"
    BY <1>1, <1>4 DEF Return, TypeOK
  <2>2. QED
    BY <1>1, <1>2, <1>3, <2>1 DEF Turns
<1>5. CASE current[c] # NULL /\ Advance(c) /\ UNCHANGED mem
  <2>1. /\ Rest(mem[current[c]].next) \in Nat
        /\ Rest(mem[current[c]].next) < Rest(current[c])
    BY <1>1, <1>5, RestShrinks
  <2>2. pc'[c] = "find" /\ current'[c] = mem[current[c]].next
    BY <1>1, <1>5 DEF Advance, TypeOK
  <2>3. Turns(c)' = Rest(mem[current[c]].next) + 2 * Rest(freeList) + 2
    BY <1>1, <2>2 DEF Turns, Rest, Limit, Base
  <2>4. QED
    BY <1>1, <1>2, <1>3, <2>1, <2>3
<1>6. CASE /\ current[c] # NULL
           /\ pc' = [pc EXCEPT ![c] = "merge"]
           /\ current' = [current EXCEPT ![c] = freeList]
           /\ mem' = [mem EXCEPT ![current[c]] = Header(@.size, 1, @.next)]
  <2>1. pc'[c] = "merge" /\ current'[c] = freeList
    BY <1>1, <1>6 DEF TypeOK
  <2>2. freeList # NULL /\ freeList \in blocks /\ blocks \subseteq DOMAIN mem
    BY <1>1, <1>6 DEF IInv, HeapInv, TilesHeap
  <2>3. mem'[freeList].next = mem[freeList].next
    BY <1>6, <2>2, HeaderFields
  <2>4. Rest(mem[freeList].next) \in Nat /\ Rest(mem[freeList].next) < Rest(freeList)
    BY <2>2, RestShrinks
  <2>5. Turns(c)' = Rest(freeList) + Rest(mem[freeList].next) + 1
    BY <1>1, <2>1, <2>2, <2>3 DEF Turns, Rest, Limit, Base
  <2>6. QED
    BY <1>1, <1>2, <1>3, <2>4, <2>5
<1>7. QED
  BY <1>1, <1>4, <1>5, <1>6 DEF KfreeFind

LEMMA MergeTurns ==
  ASSUME IInv, ~overlapped, NEW c \in Callers, KfreeMerge(c)
  PROVE  Turns(c)' < Turns(c)
<1> DEFINE b == current[c]
           n == mem[b].next
<1>1. /\ pc[c] = "merge" /\ TypeOK /\ UNCHANGED freeList
      /\ b # NULL => b \in blocks
  BY WalkStands DEF IInv, KfreeMerge
<1>2. b # NULL => /\ Rest(b) \in Nat /\ Rest(n) \in Nat /\ Rest(n) < Rest(b)
                  /\ Turns(c) = Rest(b) + Rest(n) + 1
                  /\ n # NULL => n \in blocks
  BY <1>1, RestShrinks, NextBlock DEF Turns
<1>3. CASE Return(c)
  <2>1. pc'[c] = "idle"
    BY <1>1, <1>3 DEF Return, TypeOK
  <2>2. Turns(c)' = 0
    BY <2>1 DEF Turns
  <2>3. Turns(c) > 0
    BY <1>1, <1>2 DEF Turns
  <2>4. QED
    BY <2>2, <2>3
<1>4. CASE b # NULL /\ n # NULL /\ ~ Return(c)
  <2>1. /\ Rest(mem[n].next) \in Nat /\ Rest(mem[n].next) < Rest(n)
        /\ b # n /\ b \in DOMAIN mem
    <3>1. n \in blocks /\ b \in blocks
      BY <1>1, <1>2, <1>4
    <3>2. Rest(b) # Rest(n)
      BY <1>2, <1>4
    <3>3. QED
      BY <3>1, <3>2, RestShrinks DEF IInv, HeapInv, TilesHeap
  <2>2. CASE /\ mem' = [mem EXCEPT ![b] =
                         Header(Wrap(@.size + BlockSize + mem[n].size), @.free,
                                mem[n].next)]
             /\ UNCHANGED <<pc, current, arg>>
    <3>1. mem'[b].next = mem[n].next
      BY <2>1, <2>2, HeaderFields
    <3>2. Turns(c)' = Rest(b) + Rest(mem[n].next) + 1
      BY <1>1, <1>4, <2>2, <3>1 DEF Turns, Rest, Limit, Base
    <3>3. QED
      BY <1>2, <1>4, <2>1, <3>2
  <2>3. CASE Advance(c) /\ UNCHANGED mem
    <3>1. pc'[c] = "merge" /\ current'[c] = n
      BY <1>1, <2>3 DEF Advance, TypeOK
    <3>2. Turns(c)' = Rest(n) + Rest(mem[n].next) + 1
      BY <1>4, <2>3, <3>1 DEF Turns, Rest, Limit, Base
    <3>3. QED
      BY <1>2, <1>4, <2>1, <3>2
  <2>4. QED
    BY <1>4, <2>2, <2>3 DEF KfreeMerge
<1>5. QED
  BY <1>3, <1>4 DEF KfreeMerge

LEMMA StepTurns ==
  ASSUME IInv, ~overlapped, NEW c \in Callers, Step(c)
  PROVE  Turns(c)' < Turns(c)
<1>1. CASE KmallocSplit(c)
  <2>1. pc[c] = "split" /\ pc'[c] = "take"
    BY <1>1 DEF KmallocSplit, IInv, TypeOK
  <2>2. QED
    BY <2>1 DEF Turns
<1>2. CASE KmallocTake(c)
  <2>1. pc[c] = "take" /\ pc'[c] = "idle"
    BY <1>2 DEF KmallocTake, Return, IInv, TypeOK
  <2>2. QED
    BY <2>1 DEF Turns
<1>3. QED
  BY <1>1, <1>2, ScanTurns, FindTurns, MergeTurns DEF Step

(* No call is ever farther from its return than three walks over the list. *)
THEOREM TurnsAreBoundedHolds == Spec => []TurnsAreBounded
BY Invariance, TurnsInRange, PTL

(* A call whose walk is not disturbed by another gets nearer to its return *)
(* with every step the system takes (mm.c 39-56, 63-83): no list, however  *)
(* fragmented, makes kmalloc or kfree run in a circle.                     *)
THEOREM TurnsDecreaseHolds == Spec => TurnsDecrease
<1>1. ASSUME IInv, [Next]_vars, vars' # vars, NEW c \in Callers, InCall(c), ~overlapped'
      PROVE  Turns(c)' < Turns(c)
  <2>1. PICK d \in Callers : Call(d) \/ Step(d)
    BY <1>1 DEF Next
  <2>2. CASE Call(d)
    <3>1. pc[d] = "idle" /\ overlapped' = \E e \in Callers \ {d} : InCall(e)
      BY <1>1, <2>2 DEF Call, KmallocRejects, Kmalloc, Kfree, Begin
    <3>2. c \in Callers \ {d}
      BY <1>1, <3>1 DEF InCall
    <3>3. QED
      BY <1>1, <3>1, <3>2
  <2>3. CASE Step(d)
    <3>1. ~overlapped /\ InCall(d)
      BY <1>1, <2>3 DEF Step, KmallocScan, KmallocSplit, KmallocTake, KfreeFind,
         KfreeMerge, InCall
    <3>2. d = c
      BY <1>1, <3>1 DEF IInv, HeapInv, Serial
    <3>3. QED
      BY <1>1, <2>3, <3>1, <3>2, StepTurns
  <2>4. QED
    BY <2>1, <2>2, <2>3
<1>2. IInv /\ [Next]_vars
        => [\A c \in Callers : InCall(c) /\ ~overlapped' => Turns(c)' < Turns(c)]_vars
  BY <1>1
<1>3. QED
  BY <1>2, Invariance, PTL DEF Spec, TurnsDecrease

=============================================================================
