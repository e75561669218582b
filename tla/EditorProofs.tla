---------------------------- MODULE EditorProofs ----------------------------
(***************************************************************************)
(* The ring of scan codes implements a bounded queue, for every size, and  *)
(* what is typed is what the editor saves, for every size of the ring and  *)
(* of the text.                                                            *)
(***************************************************************************)
EXTENDS EditorProps, FiniteSetTheorems, SequenceTheorems, WellFoundedInduction, TLAPS

(* The remainder of a number that is at most one turn off.                 *)
LEMMA ModOnce ==
  ASSUME NEW n \in Nat, n >= 2, NEW a \in Int, -n <= a, a < 2 * n
  PROVE  a % n = IF a < 0 THEN a + n ELSE IF a < n THEN a ELSE a - n
<1>1. CASE a < 0
  BY <1>1, SMTT(20)
<1>2. CASE 0 <= a /\ a < n
  BY <1>2, SMTT(20)
<1>3. CASE n <= a
  BY <1>3, SMTT(20)
<1>4. QED
  BY <1>1, <1>2, <1>3

LEMMA DiffMod ==
  ASSUME NEW h \in 0 .. Size - 1, NEW t \in 0 .. Size - 1
  PROVE  (h - t) % Size = IF h < t THEN h - t + Size ELSE h - t
<1> DEFINE a == h - t
<1>1. Size \in Nat /\ Size >= 2 /\ a \in Int /\ -Size <= a /\ a < 2 * Size /\ a < Size
  BY BufferAssumption
<1>2. (a < 0) <=> (h < t)
  BY BufferAssumption
<1> HIDE DEF a
<1>3. a % Size = IF a < 0 THEN a + Size ELSE IF a < Size THEN a ELSE a - Size
  BY <1>1, ModOnce
<1>4. a % Size = IF h < t THEN a + Size ELSE a
  BY <1>1, <1>2, <1>3
<1>5. QED
  BY <1>4 DEF a

LEMMA SumMod ==
  ASSUME NEW t \in 0 .. Size - 1, NEW k \in 1 .. Size
  PROVE  (t + k - 1) % Size = IF t + k - 1 < Size THEN t + k - 1 ELSE t + k - 1 - Size
<1>1. ASSUME NEW a \in Int, 0 <= a, a < 2 * Size
      PROVE  a % Size = IF a < Size THEN a ELSE a - Size
  <2>1. Size \in Nat /\ Size >= 2 /\ -Size <= a
    BY <1>1, BufferAssumption
  <2>2. a % Size = IF a < 0 THEN a + Size ELSE IF a < Size THEN a ELSE a - Size
    BY <1>1, <2>1, ModOnce
  <2>3. QED
    BY <1>1, <2>2
<1>2. t + k - 1 \in Int /\ 0 <= t + k - 1 /\ t + k - 1 < 2 * Size
  BY BufferAssumption
<1>3. QED
  BY <1>1, <1>2, BufferAssumption

Slot(k) == (kbd_tail + k - 1) % Size

(* Positions on the ring, without remainders.                              *)
LEMMA Positions ==
  ASSUME BufferTypeOK
  PROVE  /\ Waiting = IF kbd_head < kbd_tail THEN kbd_head - kbd_tail + Size
                      ELSE kbd_head - kbd_tail
         /\ Waiting \in 0 .. Size - 1
         /\ \A k \in 1 .. Size :
              /\ Slot(k) = IF kbd_tail + k - 1 < Size THEN kbd_tail + k - 1
                           ELSE kbd_tail + k - 1 - Size
              /\ Slot(k) \in Slots
         /\ \A k \in Slots :
              /\ Following(k) = IF k = Size - 1 THEN 0 ELSE k + 1
              /\ Following(k) \in Slots
<1>1. /\ Size \in Nat /\ Size >= 2
      /\ kbd_head \in 0 .. Size - 1 /\ kbd_tail \in 0 .. Size - 1
  BY BufferAssumption DEF BufferTypeOK, Slots
<1>2. /\ Waiting = IF kbd_head < kbd_tail THEN kbd_head - kbd_tail + Size
                   ELSE kbd_head - kbd_tail
      /\ Waiting \in 0 .. Size - 1
  <2>1. Waiting = IF kbd_head < kbd_tail THEN kbd_head - kbd_tail + Size
                  ELSE kbd_head - kbd_tail
    BY <1>1, DiffMod DEF Waiting
  <2>2. QED
    BY <1>1, <2>1
<1>3. ASSUME NEW k \in 1 .. Size
      PROVE  /\ Slot(k) = IF kbd_tail + k - 1 < Size THEN kbd_tail + k - 1
                          ELSE kbd_tail + k - 1 - Size
             /\ Slot(k) \in Slots
  <2>1. Slot(k) = IF kbd_tail + k - 1 < Size THEN kbd_tail + k - 1
                  ELSE kbd_tail + k - 1 - Size
    BY <1>1, SumMod DEF Slot
  <2>2. QED
    BY <1>1, <2>1 DEF Slots
<1>4. ASSUME NEW k \in Slots
      PROVE  /\ Following(k) = IF k = Size - 1 THEN 0 ELSE k + 1
             /\ Following(k) \in Slots
  <2>1. k + 1 \in Int /\ -Size <= k + 1 /\ k + 1 < 2 * Size
    BY <1>1 DEF Slots
  <2>2. Following(k) = IF k + 1 < Size THEN k + 1 ELSE k + 1 - Size
    BY <1>1, <2>1, ModOnce DEF Following, Slots
  <2>3. QED
    BY <1>1, <2>2 DEF Slots
<1>5. QED
  BY <1>2, <1>3, <1>4

LEMMA BufferInitTyped == BufferInit => BufferTypeOK
BY BufferAssumption DEF BufferInit, BufferTypeOK, Slots

LEMMA BufferStepTyped == BufferTypeOK /\ [BufferNext]_bufferVars => BufferTypeOK'
<1> SUFFICES ASSUME BufferTypeOK, [BufferNext]_bufferVars PROVE BufferTypeOK'
  OBVIOUS
<1>1. ASSUME NEW c \in Codes, Put(c) PROVE BufferTypeOK'
  BY <1>1, Positions DEF BufferTypeOK, Put
<1>2. CASE Get
  BY <1>2, Positions DEF BufferTypeOK, Get
<1>3. CASE UNCHANGED bufferVars
  BY <1>3 DEF BufferTypeOK, bufferVars
<1>4. QED
  BY <1>1, <1>2, <1>3 DEF BufferNext

(* The types of the ring's variables.                                      *)
THEOREM BufferTypeCorrect == BufferSpec => []BufferTypeOK
<1>1. QED
  BY BufferInitTyped, BufferStepTyped, PTL DEF BufferSpec

-----------------------------------------------------------------------------
(* Each step of the ring is a step of the queue.                           *)

LEMMA QueueIsSeq ==
  ASSUME BufferTypeOK
  PROVE  /\ Queue \in Seq(Codes \union {Zero})
         /\ Len(Queue) = Waiting
         /\ \A k \in 1 .. Waiting : Queue[k] = kbd_buffer[Slot(k)]
<1>1. Waiting \in Nat /\ Waiting <= Size /\ Size \in Nat
  BY Positions, BufferAssumption
<1>2. \A k \in 1 .. Waiting : Slot(k) \in Slots
  BY <1>1, Positions
<1>3. Queue = [k \in 1 .. Waiting |-> kbd_buffer[Slot(k)]]
  BY DEF Queue, Slot
<1>4. \A k \in 1 .. Waiting : kbd_buffer[Slot(k)] \in Codes \union {Zero}
  BY <1>2 DEF BufferTypeOK
<1>5. QED
  BY <1>1, <1>3, <1>4

LEMMA PutIsPut ==
  ASSUME BufferTypeOK, NEW c \in Codes, Put(c)
  PROVE  Q!Put(c)
<1>0. BufferTypeOK' /\ Size \in Nat /\ Size >= 2
  BY BufferStepTyped, BufferAssumption DEF BufferNext
<1>1. kbd_head \in 0 .. Size - 1 /\ kbd_tail \in 0 .. Size - 1 /\ code' = code
  BY DEF BufferTypeOK, Slots, Put
<1>2. CASE IsFull
  <2>1. Waiting = Size - 1
    BY <1>0, <1>1, <1>2, Positions DEF IsFull, Slots
  <2>2. UNCHANGED <<kbd_buffer, kbd_head, kbd_tail>>
    BY <1>2 DEF Put
  <2>3. Queue' = Queue
    BY <2>2 DEF Queue, Waiting
  <2>4. Len(Queue) = Size - 1
    BY <2>1, QueueIsSeq
  <2>5. QED
    BY <1>0, <1>1, <2>3, <2>4 DEF Q!Put, Q!Full
<1>3. CASE ~IsFull
  <2>1. /\ kbd_buffer' = [kbd_buffer EXCEPT ![kbd_head] = c]
        /\ kbd_head' = Following(kbd_head) /\ kbd_tail' = kbd_tail
    BY <1>3 DEF Put
  <2>2. kbd_head' \in 0 .. Size - 1 /\ kbd_head \in Slots
    BY <1>0, <1>1 DEF BufferTypeOK, Slots
  <2>3. Waiting' = IF kbd_head' < kbd_tail THEN kbd_head' - kbd_tail + Size
                   ELSE kbd_head' - kbd_tail
    <3>1. Waiting' = (kbd_head' - kbd_tail) % Size
      BY <2>1 DEF Waiting
    <3>2. QED
      BY <1>1, <2>2, <3>1, DiffMod
  <2>4. Waiting' = Waiting + 1 /\ Waiting \in 0 .. Size - 2
    BY <1>0, <1>1, <1>3, <2>1, <2>2, <2>3, Positions DEF IsFull, Slots
  <2>5. Slot(Waiting + 1) = kbd_head
    BY <1>0, <1>1, <2>4, Positions
  <2>6. \A k \in 1 .. Waiting : Slot(k) \in Slots /\ Slot(k) # kbd_head
    BY <1>0, <1>1, <2>4, Positions
  <2>7. Queue' = [k \in 1 .. Waiting' |-> kbd_buffer'[Slot(k)]]
    BY <2>1 DEF Queue, Slot
  <2>8. Queue' = Append(Queue, c)
    <3>1. \A k \in 1 .. Waiting : kbd_buffer'[Slot(k)] = kbd_buffer[Slot(k)]
      BY <2>1, <2>6 DEF BufferTypeOK
    <3>2. kbd_buffer'[Slot(Waiting + 1)] = c
      BY <2>1, <2>2, <2>5 DEF BufferTypeOK
    <3>3. /\ Append(Queue, c) \in Seq(Codes \union {Zero})
          /\ Len(Append(Queue, c)) = Waiting + 1
          /\ \A k \in 1 .. Waiting : Append(Queue, c)[k] = kbd_buffer[Slot(k)]
          /\ Append(Queue, c)[Waiting + 1] = c
      BY <2>4, QueueIsSeq
    <3>4. Append(Queue, c) = [k \in 1 .. Waiting + 1 |-> Append(Queue, c)[k]]
      <4>1. Append(Queue, c) \in [1 .. Waiting + 1 -> Codes \union {Zero}]
        BY <3>3, LenProperties
      <4>2. QED
        BY <4>1
    <3>5. \A k \in 1 .. Waiting + 1 : Append(Queue, c)[k] = kbd_buffer'[Slot(k)]
      BY <2>4, <3>1, <3>2, <3>3
    <3>6. QED
      BY <2>4, <2>7, <3>4, <3>5
  <2>9. Len(Queue) < Size - 1
    BY <1>0, <2>4, QueueIsSeq
  <2>10. QED
    BY <1>0, <1>1, <2>8, <2>9 DEF Q!Put, Q!Full
<1>4. QED
  BY <1>2, <1>3

LEMMA GetIsGet ==
  ASSUME BufferTypeOK, Get
  PROVE  Q!Get
<1>0. BufferTypeOK' /\ Size \in Nat /\ Size >= 2
  BY BufferStepTyped, BufferAssumption DEF BufferNext
<1>1. /\ kbd_head \in 0 .. Size - 1 /\ kbd_tail \in 0 .. Size - 1
      /\ kbd_buffer' = kbd_buffer /\ kbd_head' = kbd_head
  BY DEF BufferTypeOK, Slots, Get
<1>2. CASE IsEmpty
  <2>1. code' = Zero /\ kbd_tail' = kbd_tail
    BY <1>2 DEF Get
  <2>2. Waiting = 0
    BY <1>0, <1>1, <1>2, Positions DEF IsEmpty
  <2>3. Queue = <<>>
    BY <2>2, QueueIsSeq
  <2>4. Queue' = Queue
    BY <1>1, <2>1 DEF Queue, Waiting
  <2>5. QED
    BY <2>1, <2>3, <2>4 DEF Q!Get
<1>3. CASE ~IsEmpty
  <2>1. code' = kbd_buffer[kbd_tail] /\ kbd_tail' = Following(kbd_tail)
    BY <1>3 DEF Get
  <2>2. kbd_tail' \in 0 .. Size - 1 /\ kbd_tail \in Slots
    BY <1>0, <1>1 DEF BufferTypeOK, Slots
  <2>3. kbd_tail' = IF kbd_tail = Size - 1 THEN 0 ELSE kbd_tail + 1
    BY <2>1, <2>2, Positions
  <2>4. Waiting' = IF kbd_head < kbd_tail' THEN kbd_head - kbd_tail' + Size
                   ELSE kbd_head - kbd_tail'
    <3>1. Waiting' = (kbd_head - kbd_tail') % Size
      BY <1>1 DEF Waiting
    <3>2. QED
      BY <1>1, <2>2, <3>1, DiffMod
  <2>5. Waiting' = Waiting - 1 /\ Waiting \in 1 .. Size - 1
    BY <1>0, <1>1, <1>3, <2>2, <2>3, <2>4, Positions DEF IsEmpty
  <2>6. \A k \in 1 .. Waiting - 1 : (kbd_tail' + k - 1) % Size = Slot(k + 1)
    <3> SUFFICES ASSUME NEW k \in 1 .. Waiting - 1
                 PROVE  (kbd_tail' + k - 1) % Size = Slot(k + 1)
      OBVIOUS
    <3>1. k \in 1 .. Size /\ k + 1 \in 1 .. Size
      BY <1>0, <2>5
    <3>2. (kbd_tail' + k - 1) % Size =
            IF kbd_tail' + k - 1 < Size THEN kbd_tail' + k - 1 ELSE kbd_tail' + k - 1 - Size
      BY <2>2, <3>1, SumMod
    <3>3. Slot(k + 1) = IF kbd_tail + k < Size THEN kbd_tail + k ELSE kbd_tail + k - Size
      BY <1>0, <1>1, <2>5, Positions
    <3>4. QED
      BY <1>0, <1>1, <2>2, <2>3, <2>5, <3>2, <3>3
  <2>7. Slot(1) = kbd_tail
    BY <1>0, <1>1, Positions
  <2>8. /\ Queue # <<>> /\ Head(Queue) = kbd_buffer[kbd_tail]
    BY <2>5, <2>7, QueueIsSeq
  <2>9. Queue' = [k \in 1 .. Waiting - 1 |-> kbd_buffer[Slot(k + 1)]]
    BY <1>1, <2>5, <2>6 DEF Queue
  <2>10. Tail(Queue) = [k \in 1 .. Waiting - 1 |-> Queue[k + 1]]
    <3>1. Queue \in Seq(Codes \union {Zero}) /\ Queue # <<>> /\ Len(Queue) = Waiting
      BY <2>5, <2>8, QueueIsSeq
    <3>2. /\ Tail(Queue) \in Seq(Codes \union {Zero})
          /\ Len(Tail(Queue)) = Waiting - 1
          /\ \A k \in 1 .. Waiting - 1 : Tail(Queue)[k] = Queue[k + 1]
      BY <3>1, HeadTailProperties
    <3>3. Tail(Queue) \in [1 .. Waiting - 1 -> Codes \union {Zero}]
      BY <3>2, LenProperties
    <3>4. QED
      BY <3>2, <3>3
  <2>11. \A k \in 1 .. Waiting - 1 : Queue[k + 1] = kbd_buffer[Slot(k + 1)]
    BY <2>5, QueueIsSeq
  <2>12. Queue' = Tail(Queue)
    BY <2>9, <2>10, <2>11
  <2>13. QED
    BY <2>1, <2>8, <2>12 DEF Q!Get
<1>4. QED
  BY <1>2, <1>3

(* The ring implements a queue of Size - 1 codes.                          *)
THEOREM QueueRefinement == BufferSpec => ImplementsQueue
<1>1. BufferInit => Q!Init
  <2> SUFFICES ASSUME BufferInit PROVE Q!Init
    OBVIOUS
  <2>1. BufferTypeOK /\ kbd_head = 0 /\ kbd_tail = 0 /\ code = Zero
    BY BufferInitTyped DEF BufferInit
  <2>2. Waiting = 0
    BY <2>1, Positions
  <2>3. Queue = <<>>
    BY <2>1, <2>2, QueueIsSeq
  <2>4. QED
    BY <2>1, <2>3 DEF Q!Init
<1>2. BufferTypeOK /\ [BufferNext]_bufferVars => [Q!Next]_<<Queue, code>>
  <2> SUFFICES ASSUME BufferTypeOK, [BufferNext]_bufferVars
               PROVE  [Q!Next]_<<Queue, code>>
    OBVIOUS
  <2>1. ASSUME NEW c \in Codes, Put(c) PROVE [Q!Next]_<<Queue, code>>
    BY <2>1, PutIsPut DEF Q!Next
  <2>2. CASE Get
    BY <2>2, GetIsGet DEF Q!Next
  <2>3. CASE UNCHANGED bufferVars
    BY <2>3 DEF bufferVars, Queue, Waiting
  <2>4. QED
    BY <2>1, <2>2, <2>3 DEF BufferNext
<1>3. QED
  BY <1>1, <1>2, BufferTypeCorrect, PTL DEF BufferSpec, Q!Spec, ImplementsQueue


-----------------------------------------------------------------------------
(* The editor: the codes that wait lead from the text it has to the text   *)
(* that is meant.                                                          *)

Letters == Pieces \union {"other", "\n"}

(* What the editor has taken so far.                                       *)
Now == [text  |-> [k \in 1 .. i |-> file_buffer[k]],
        shift |-> shift_pressed,
        over  |-> FALSE]

(* The codes q lead from a meaning to m, T being the meanings between, and *)
(* nothing follows an Escape.                                              *)
Leads(T, now, q, m) ==
  /\ T[0] = now /\ T[Len(q)] = m
  /\ \A k \in 1 .. Len(q) : T[k] = Meaning(T[k - 1], q[k])
  /\ \A k \in 0 .. Len(q) : T[k].over => T[k] = m

EditorTypeOK ==
  /\ BufferTypeOK
  /\ i \in 0 .. TextEnd
  /\ file_buffer \in [1 .. TextEnd + 1 -> Letters \union {NUL}]
  /\ shift_pressed \in BOOLEAN /\ dropped \in BOOLEAN
  /\ pc \in {"edit", "saved"}

EditorInv ==
  /\ EditorTypeOK
  /\ \A k \in 1 .. i : file_buffer[k] # NUL
  /\ pc = "saved" => Saved \in Seq(Letters)
  /\ ~dropped =>
       IF pc = "edit" THEN \E T : Leads(T, Now, Queue, meant)
       ELSE meant.over /\ Saved = meant.text

(* A key that is struck leads one further.                                 *)
LEMMA LeadsOn ==
  ASSUME NEW S, NEW q \in Seq(S), NEW key \in S, NEW now, NEW m,
         NEW T, Leads(T, now, q, m)
  PROVE  \E U : Leads(U, now, Append(q, key), Meaning(m, key))
<1> DEFINE n == Len(q)
           U == [k \in 0 .. n + 1 |-> IF k = n + 1 THEN Meaning(m, key) ELSE T[k]]
<1>1. n \in Nat /\ Len(Append(q, key)) = n + 1 /\ Append(q, key)[n + 1] = key
      /\ \A k \in 1 .. n : Append(q, key)[k] = q[k]
  OBVIOUS
<1>2. U[0] = now /\ U[n + 1] = Meaning(m, key)
  BY <1>1 DEF Leads
<1>3. ASSUME NEW k \in 1 .. n + 1
      PROVE  U[k] = Meaning(U[k - 1], Append(q, key)[k])
  <2>1. CASE k = n + 1
    <3>1. U[k - 1] = T[n] /\ k - 1 = n
      BY <1>1, <2>1
    <3> QED
      BY <1>1, <1>2, <2>1, <3>1 DEF Leads
  <2>2. CASE k # n + 1
    <3>1. k \in 1 .. n /\ U[k] = T[k] /\ U[k - 1] = T[k - 1]
      BY <1>1, <2>2
    <3> QED
      BY <1>1, <3>1 DEF Leads
  <2> QED
    BY <2>1, <2>2
<1>4. ASSUME NEW k \in 0 .. n + 1, U[k].over
      PROVE  U[k] = Meaning(m, key)
  <2>1. CASE k = n + 1
    BY <1>2, <2>1
  <2>2. CASE k # n + 1
    <3>1. k \in 0 .. n /\ U[k] = T[k]
      BY <1>1, <2>2
    <3>2. T[k] = m
      BY <1>4, <3>1 DEF Leads
    <3>3. m.over
      BY <1>4, <3>1, <3>2
    <3>4. Meaning(m, key) = m
      BY <3>3 DEF Meaning
    <3> QED
      BY <3>1, <3>2, <3>4
  <2> QED
    BY <2>1, <2>2
<1> HIDE DEF U
<1> QED
  BY <1>1, <1>2, <1>3, <1>4 DEF Leads

(* A key that is taken leaves the rest of the way.                         *)
LEMMA LeadsFrom ==
  ASSUME NEW S, NEW q \in Seq(S), q # <<>>, NEW now, NEW m,
         NEW T, Leads(T, now, q, m)
  PROVE  /\ \E U : Leads(U, Meaning(now, Head(q)), Tail(q), m)
         /\ Meaning(now, Head(q)).over => Meaning(now, Head(q)) = m
<1> DEFINE n == Len(q)
           U == [k \in 0 .. n - 1 |-> T[k + 1]]
<1>1. n \in Nat \ {0} /\ Len(Tail(q)) = n - 1 /\ Head(q) = q[1]
      /\ \A k \in 1 .. n - 1 : Tail(q)[k] = q[k + 1]
  <2>1. /\ Head(q) = q[1] /\ Len(Tail(q)) = Len(q) - 1
        /\ \A k \in 1 .. Len(q) - 1 : Tail(q)[k] = q[k + 1]
    BY HeadTailProperties
  <2>2. n \in Nat \ {0}
    OBVIOUS
  <2> QED
    BY <2>1, <2>2
<1>2. T[1] = Meaning(now, Head(q))
  <2>1. T[1] = Meaning(T[1 - 1], q[1])
    BY <1>1 DEF Leads
  <2> QED
    BY <1>1, <2>1 DEF Leads
<1>3. U[0] = T[1] /\ U[n - 1] = m
  <2>1. U[n - 1] = T[(n - 1) + 1] /\ U[0] = T[0 + 1]
    BY <1>1
  <2> QED
    BY <1>1, <2>1 DEF Leads
<1>4. ASSUME NEW k \in 1 .. n - 1
      PROVE  U[k] = Meaning(U[k - 1], Tail(q)[k])
  <2>1. U[k] = T[k + 1] /\ U[k - 1] = T[k] /\ k + 1 \in 1 .. n /\ (k + 1) - 1 = k
    BY <1>1
  <2>2. T[k + 1] = Meaning(T[(k + 1) - 1], q[k + 1])
    BY <2>1 DEF Leads
  <2> QED
    BY <1>1, <2>1, <2>2
<1>5. ASSUME NEW k \in 0 .. n - 1, U[k].over
      PROVE  U[k] = m
  <2>1. U[k] = T[k + 1] /\ k + 1 \in 0 .. n
    BY <1>1
  <2> QED
    BY <1>5, <2>1 DEF Leads
<1>6. T[1].over => T[1] = m
  BY <1>1 DEF Leads
<1> HIDE DEF U
<1> QED
  BY <1>1, <1>2, <1>3, <1>4, <1>5, <1>6 DEF Leads

-----------------------------------------------------------------------------
(* The text as a row of the buffer's first letters.                        *)

LEMMA RowIs ==
  ASSUME NEW n \in Nat, NEW f
  PROVE  LET row == [k \in 1 .. n |-> f[k]]
         IN  Len(row) = n /\ \A k \in 1 .. n : row[k] = f[k]
OBVIOUS

LEMMA RowLonger ==
  ASSUME NEW S, NEW n \in Nat, NEW f, NEW g, NEW v \in S, \A k \in 1 .. n : f[k] \in S,
         g[n + 1] = v, \A k \in 1 .. n : g[k] = f[k]
  PROVE  Append([k \in 1 .. n |-> f[k]], v) = [k \in 1 .. n + 1 |-> g[k]]
<1> DEFINE row == [k \in 1 .. n |-> f[k]]
           new == [k \in 1 .. n + 1 |-> g[k]]
<1>1. row \in Seq(S) /\ Len(row) = n
  OBVIOUS
<1>2. \A k \in 1 .. n + 1 : g[k] \in S
  <2>1. \A k \in 1 .. n + 1 : k = n + 1 \/ k \in 1 .. n
    OBVIOUS
  <2> QED
    BY <2>1
<1>3. new \in Seq(S) /\ Len(new) = n + 1
  BY <1>2
<1>4. /\ Append(row, v) \in Seq(S) /\ Len(Append(row, v)) = n + 1
      /\ Append(row, v)[n + 1] = v
      /\ \A k \in 1 .. n : Append(row, v)[k] = f[k]
  BY <1>1
<1>5. \A k \in 1 .. n + 1 : Append(row, v)[k] = new[k]
  <2>1. \A k \in 1 .. n + 1 : k = n + 1 \/ k \in 1 .. n
    OBVIOUS
  <2>2. \A k \in 1 .. n + 1 : new[k] = g[k]
    OBVIOUS
  <2> HIDE DEF row, new
  <2> QED
    BY <1>4, <2>1, <2>2
<1> HIDE DEF row, new
<1>6. Append(row, v) = new
  BY <1>3, <1>4, <1>5, SeqEqual
<1> QED
  BY <1>6 DEF row, new

LEMMA RowPart ==
  ASSUME NEW S, NEW n \in Nat, NEW m \in Nat, m <= n, NEW f, \A k \in 1 .. n : f[k] \in S
  PROVE  SubSeq([k \in 1 .. n |-> f[k]], 1, m) = [k \in 1 .. m |-> f[k]]
<1> DEFINE row == [k \in 1 .. n |-> f[k]]
<1>1. row \in Seq(S) /\ Len(row) = n
  OBVIOUS
<1>2. /\ SubSeq(row, 1, m) \in Seq(S) /\ Len(SubSeq(row, 1, m)) = m
      /\ \A k \in 1 .. m : SubSeq(row, 1, m)[k] = row[k]
  BY <1>1
<1>3. \A k \in 1 .. m : row[k] = f[k]
  OBVIOUS
<1>4. SubSeq(row, 1, m) = [k \in 1 .. m |-> SubSeq(row, 1, m)[k]]
  <2> HIDE DEF row
  <2>1. SubSeq(row, 1, m) \in [1 .. m -> S]
    BY <1>2, LenProperties
  <2> QED
    BY <2>1
<1> HIDE DEF row
<1>5. SubSeq(row, 1, m) = [k \in 1 .. m |-> f[k]]
  BY <1>2, <1>3, <1>4
<1> QED
  BY <1>5 DEF row


-----------------------------------------------------------------------------
(* One turn of the editor means what the key means.                        *)

LEMMA KeysDiffer ==
  /\ Zero \notin OtherKeys /\ Zero \notin Pieces
  /\ \A key \in Pieces : key \notin OtherKeys /\ key # NUL
BY BufferAssumption, EditorAssumption

LEMMA MeaningIs ==
  ASSUME NEW m, ~m.over, NEW key
  PROVE  /\ key \in {Zero, "break"} => Meaning(m, key) = m
         /\ key = "shift" => Meaning(m, key) = [m EXCEPT !.shift = TRUE]
         /\ key = "unshift" => Meaning(m, key) = [m EXCEPT !.shift = FALSE]
         /\ key = "esc" => Meaning(m, key) = [m EXCEPT !.over = TRUE]
         /\ key = "back" =>
              Meaning(m, key) = IF m.text = <<>> THEN m ELSE [m EXCEPT !.text = Front(@)]
         /\ key = "enter" =>
              Meaning(m, key) = IF Len(m.text) < TextEnd
                                THEN [m EXCEPT !.text = Append(@, "\n")] ELSE m
         /\ key \in Pieces =>
              Meaning(m, key) = IF Len(m.text) < TextEnd
                                THEN [m EXCEPT !.text = Append(@, Typed(key, m.shift))] ELSE m
<1>1. CASE key \in {Zero, "break"}
  BY <1>1, KeysDiffer DEF Meaning, OtherKeys
<1>2. CASE key \in {"shift", "unshift", "esc"}
  BY <1>2, KeysDiffer DEF Meaning, OtherKeys
<1>3. CASE key = "back"
  BY <1>3, KeysDiffer DEF Meaning, OtherKeys
<1>4. CASE key = "enter"
  BY <1>4, KeysDiffer DEF Meaning, OtherKeys
<1>5. CASE key \in Pieces
  BY <1>5, KeysDiffer DEF Meaning, OtherKeys
<1>6. CASE key \notin {Zero, "break", "shift", "unshift", "esc", "back", "enter"} \union Pieces
  BY <1>6
<1> QED
  BY <1>1, <1>2, <1>3, <1>4, <1>5, <1>6

LEMMA TextSet ==
  ASSUME NEW m, m = [text |-> m.text, shift |-> m.shift, over |-> m.over], NEW t
  PROVE  [m EXCEPT !.text = t] = [text |-> t, shift |-> m.shift, over |-> m.over]
OBVIOUS

LEMMA NowIs ==
  ASSUME EditorTypeOK
  PROVE  /\ Len(Now.text) = i /\ i \in Nat /\ TextEnd \in Nat /\ i <= TextEnd
         /\ (Now.text = <<>>) <=> (i = 0)
         /\ Now.text = [k \in 1 .. i |-> file_buffer[k]]
         /\ Now.shift = shift_pressed /\ Now.over = FALSE
         /\ DOMAIN file_buffer = 1 .. TextEnd + 1
         /\ \A k \in 1 .. i : file_buffer[k] \in Letters \union {NUL}
<1>1. i \in Nat /\ i <= TextEnd /\ TextEnd \in Nat
  BY EditorAssumption DEF EditorTypeOK
<1>2. Now.text = [k \in 1 .. i |-> file_buffer[k]]
      /\ Now.shift = shift_pressed /\ Now.over = FALSE
  BY DEF Now
<1>3. Len(Now.text) = i
  BY <1>1, <1>2
<1>4. DOMAIN file_buffer = 1 .. TextEnd + 1
      /\ \A k \in 1 .. TextEnd + 1 : file_buffer[k] \in Letters \union {NUL}
  BY DEF EditorTypeOK
<1>5. \A k \in 1 .. i : k \in 1 .. TextEnd + 1
  BY <1>1
<1>6. (Now.text = <<>>) <=> (i = 0)
  BY <1>1, <1>2, <1>3
<1> QED
  BY <1>1, <1>2, <1>3, <1>4, <1>5, <1>6

(* A letter is entered as it is meant, or not at all in a full text.       *)
LEMMA EnterMeans ==
  ASSUME EditorTypeOK, NEW letter \in Letters, Enter(letter),
         UNCHANGED <<shift_pressed, pc>>,
         \A k \in 1 .. i : file_buffer[k] # NUL
  PROVE  /\ Now' = IF Len(Now.text) < TextEnd
                   THEN [Now EXCEPT !.text = Append(@, letter)] ELSE Now
         /\ i' \in 0 .. TextEnd
         /\ file_buffer' \in [1 .. TextEnd + 1 -> Letters \union {NUL}]
         /\ (\A k \in 1 .. i : file_buffer[k] # NUL)'
<1>1. /\ Len(Now.text) = i /\ i \in Nat /\ i <= TextEnd /\ TextEnd \in Nat
      /\ Now.text = [k \in 1 .. i |-> file_buffer[k]]
      /\ Now.shift = shift_pressed /\ Now.over = FALSE
      /\ DOMAIN file_buffer = 1 .. TextEnd + 1
      /\ \A k \in 1 .. i : file_buffer[k] \in Letters \union {NUL}
  BY NowIs
<1>2. CASE i < TextEnd
  <2>1. /\ file_buffer' = [file_buffer EXCEPT ![i + 1] = letter] /\ i' = i + 1
    BY <1>2 DEF Enter
  <2>2. i + 1 \in 1 .. TextEnd + 1 /\ i + 1 \in 0 .. TextEnd
    BY <1>1, <1>2
  <2>3. file_buffer'[i + 1] = letter /\ \A k \in 1 .. i : file_buffer'[k] = file_buffer[k]
    BY <1>1, <2>1, <2>2
  <2>4. Append([k \in 1 .. i |-> file_buffer[k]], letter) = [k \in 1 .. i + 1 |-> file_buffer'[k]]
    <3>1. letter \in Letters \union {NUL}
      OBVIOUS
    <3> QED
      BY <1>1, <2>3, <3>1, RowLonger
  <2>5. Now' = [Now EXCEPT !.text = Append(@, letter)]
    <3>1. [Now EXCEPT !.text = Append(Now.text, letter)]
            = [text |-> Append(Now.text, letter), shift |-> Now.shift, over |-> Now.over]
      <4>1. Now = [text |-> Now.text, shift |-> Now.shift, over |-> Now.over]
        BY DEF Now
      <4> QED
        BY <4>1, TextSet
    <3>2. Now' = [text |-> [k \in 1 .. i + 1 |-> file_buffer'[k]],
                  shift |-> shift_pressed, over |-> FALSE]
      BY <2>1 DEF Now
    <3>3. Append(Now.text, letter) = [k \in 1 .. i + 1 |-> file_buffer'[k]]
      BY <1>1, <2>4
    <3> QED
      BY <1>1, <3>1, <3>2, <3>3
  <2>6. file_buffer' \in [1 .. TextEnd + 1 -> Letters \union {NUL}]
    BY <2>1, <2>2 DEF EditorTypeOK
  <2>7. letter # NUL
    BY KeysDiffer DEF Letters, NUL
  <2>8. \A k \in 1 .. i + 1 : file_buffer'[k] # NUL
    <3>1. \A k \in 1 .. i + 1 : k = i + 1 \/ k \in 1 .. i
      BY <1>1
    <3> QED
      BY <2>3, <2>7, <3>1
  <2> QED
    BY <1>1, <1>2, <2>1, <2>2, <2>5, <2>6, <2>8
<1>3. CASE ~(i < TextEnd)
  <2>1. UNCHANGED <<file_buffer, i>>
    BY <1>3 DEF Enter
  <2>2. Now' = Now
    BY <2>1 DEF Now
  <2> QED
    BY <1>1, <1>3, <2>1, <2>2 DEF EditorTypeOK
<1> QED
  BY <1>2, <1>3

(* Escape ends the text where it is.                                       *)
LEMMA EscapeSaves ==
  ASSUME EditorTypeOK, \A k \in 1 .. i : file_buffer[k] # NUL,
         file_buffer' = [file_buffer EXCEPT ![i + 1] = NUL]
  PROVE  Saved' = Now.text /\ file_buffer' \in [1 .. TextEnd + 1 -> Letters \union {NUL}]
<1>1. /\ i \in Nat /\ i <= TextEnd /\ TextEnd \in Nat
      /\ DOMAIN file_buffer = 1 .. TextEnd + 1
  BY NowIs
<1>2. i + 1 \in 1 .. TextEnd + 1
  BY <1>1
<1>3. /\ file_buffer' \in [1 .. TextEnd + 1 -> Letters \union {NUL}]
      /\ DOMAIN file_buffer' = 1 .. TextEnd + 1
      /\ file_buffer'[i + 1] = NUL
      /\ \A k \in 1 .. i : file_buffer'[k] = file_buffer[k]
  BY <1>1, <1>2 DEF EditorTypeOK
<1> DEFINE ends == {k \in DOMAIN file_buffer' : file_buffer'[k] = NUL}
           end == CHOOSE k \in ends : \A j \in ends : k <= j
<1>4. i + 1 \in ends /\ \A j \in ends : i + 1 <= j
  <2>1. \A j \in ends : j \in 1 .. TextEnd + 1 /\ j \notin 1 .. i
    BY <1>3
  <2>2. \A j \in 1 .. TextEnd + 1 : j \notin 1 .. i => i + 1 <= j
    BY <1>1
  <2> QED
    BY <1>2, <1>3, <2>1, <2>2
<1>5. end = i + 1
  <2>1. end \in ends /\ \A j \in ends : end <= j
    BY <1>4
  <2>2. end <= i + 1 /\ i + 1 <= end /\ end \in 1 .. TextEnd + 1
    BY <1>3, <1>4, <2>1
  <2> HIDE DEF end
  <2> QED
    BY <1>1, <2>2
<1>6. Saved' = SubSeq(file_buffer', 1, end - 1)
  BY DEF Saved
<1>7. Saved' = SubSeq(file_buffer', 1, i)
  <2>1. end - 1 = i
    BY <1>1, <1>5
  <2> HIDE DEF end
  <2> QED
    BY <1>6, <2>1
<1>8. SubSeq(file_buffer', 1, i) = [k \in 1 .. i |-> file_buffer'[k]]
  <2>1. file_buffer' = [k \in 1 .. TextEnd + 1 |-> file_buffer'[k]]
    BY <1>3
  <2>2. \A k \in 1 .. TextEnd + 1 : file_buffer'[k] \in Letters \union {NUL}
    BY <1>3
  <2>3. TextEnd + 1 \in Nat /\ i <= TextEnd + 1
    BY <1>1
  <2>4. SubSeq([k \in 1 .. TextEnd + 1 |-> file_buffer'[k]], 1, i) = [k \in 1 .. i |-> file_buffer'[k]]
    BY <1>1, <2>2, <2>3, RowPart
  <2> QED
    BY <2>1, <2>4
<1>9. [k \in 1 .. i |-> file_buffer'[k]] = Now.text
  BY <1>3 DEF Now
<1> QED
  BY <1>3, <1>7, <1>8, <1>9


LEMMA ShiftSet ==
  ASSUME NEW m, m = [text |-> m.text, shift |-> m.shift, over |-> m.over], NEW s
  PROVE  [m EXCEPT !.shift = s] = [text |-> m.text, shift |-> s, over |-> m.over]
OBVIOUS

LEMMA HeedMeans ==
  ASSUME EditorTypeOK, pc = "edit", \A k \in 1 .. i : file_buffer[k] # NUL,
         NEW key, Heed(key)
  PROVE  /\ i' \in 0 .. TextEnd /\ shift_pressed' \in BOOLEAN
         /\ file_buffer' \in [1 .. TextEnd + 1 -> Letters \union {NUL}]
         /\ (\A k \in 1 .. i : file_buffer[k] # NUL)'
         /\ \/ key # "esc" /\ pc' = "edit" /\ Now' = Meaning(Now, key)
            \/ /\ key = "esc" /\ pc' = "saved" /\ Saved' = Now.text
               /\ Meaning(Now, key) = [Now EXCEPT !.over = TRUE]
<1>1. ~Now.over /\ Len(Now.text) = i /\ Now.shift = shift_pressed
      /\ i \in Nat /\ i <= TextEnd /\ TextEnd \in Nat
      /\ Now.text = [k \in 1 .. i |-> file_buffer[k]] /\ ((Now.text = <<>>) <=> (i = 0))
  BY NowIs
<1>2. i \in 0 .. TextEnd /\ shift_pressed \in BOOLEAN
      /\ file_buffer \in [1 .. TextEnd + 1 -> Letters \union {NUL}]
  BY DEF EditorTypeOK
<1>3. Now = [text |-> Now.text, shift |-> Now.shift, over |-> Now.over]
  BY DEF Now
<1>4. CASE key \in {Zero, "break"} /\ UNCHANGED typed
  <2>1. UNCHANGED <<file_buffer, i, shift_pressed, pc>>
    BY <1>4 DEF typed
  <2>2. Now' = Now
    BY <2>1 DEF Now
  <2>3. Meaning(Now, key) = Now
    BY <1>1, <1>4, MeaningIs
  <2>4. key # "esc"
    BY <1>4, KeysDiffer DEF OtherKeys
  <2> QED
    BY <1>2, <2>1, <2>2, <2>3, <2>4
<1>5. CASE /\ key \in {"shift", "unshift"} /\ shift_pressed' = (key = "shift")
           /\ UNCHANGED <<file_buffer, i, pc>>
  <2>1. ASSUME NEW b \in BOOLEAN, shift_pressed' = b,
               Meaning(Now, key) = [Now EXCEPT !.shift = b]
        PROVE  Now' = Meaning(Now, key)
    <3>1. Now' = [text |-> [k \in 1 .. i |-> file_buffer[k]], shift |-> b, over |-> FALSE]
      BY <1>5, <2>1 DEF Now
    <3>2. [Now EXCEPT !.shift = b] = [text |-> Now.text, shift |-> b, over |-> Now.over]
      BY <1>3, ShiftSet
    <3>3. Now.over = FALSE
      BY NowIs
    <3> QED
      BY <1>1, <2>1, <3>1, <3>2, <3>3
  <2>2. CASE key = "shift"
    <3>1. shift_pressed' = TRUE
      BY <1>5, <2>2
    <3>2. Meaning(Now, key) = [Now EXCEPT !.shift = TRUE]
      BY <1>1, <2>2, MeaningIs
    <3>3. Now' = Meaning(Now, key)
      BY <2>1, <3>1, <3>2
    <3> QED
      BY <1>2, <1>5, <2>2, <3>1, <3>3
  <2>3. CASE key = "unshift"
    <3>1. shift_pressed' = FALSE
      BY <1>5, <2>3
    <3>2. Meaning(Now, key) = [Now EXCEPT !.shift = FALSE]
      BY <1>1, <2>3, MeaningIs
    <3>3. Now' = Meaning(Now, key)
      BY <2>1, <3>1, <3>2
    <3> QED
      BY <1>2, <1>5, <2>3, <3>1, <3>3
  <2> QED
    BY <1>5, <2>2, <2>3
<1>6. CASE /\ key = "esc" /\ file_buffer' = [file_buffer EXCEPT ![i + 1] = NUL]
           /\ pc' = "saved" /\ UNCHANGED <<i, shift_pressed>>
  <2>1. Saved' = Now.text /\ file_buffer' \in [1 .. TextEnd + 1 -> Letters \union {NUL}]
    BY <1>6, EscapeSaves
  <2>2. Meaning(Now, key) = [Now EXCEPT !.over = TRUE]
    BY <1>1, <1>6, MeaningIs
  <2>3. \A k \in 1 .. i : file_buffer'[k] # NUL
    BY <1>1, <1>2, <1>6
  <2> QED
    BY <1>2, <1>6, <2>1, <2>2, <2>3
<1>7. CASE key = "enter" /\ Enter("\n") /\ UNCHANGED <<shift_pressed, pc>>
  <2>1. "\n" \in Letters
    BY DEF Letters
  <2>2. /\ Now' = IF Len(Now.text) < TextEnd
                  THEN [Now EXCEPT !.text = Append(@, "\n")] ELSE Now
        /\ i' \in 0 .. TextEnd
        /\ file_buffer' \in [1 .. TextEnd + 1 -> Letters \union {NUL}]
        /\ (\A k \in 1 .. i : file_buffer[k] # NUL)'
    BY <1>7, <2>1, EnterMeans
  <2>3. Now' = Meaning(Now, key)
    BY <1>1, <1>7, <2>2, MeaningIs
  <2> QED
    BY <1>2, <1>7, <2>2, <2>3
<1>8. CASE key = "back" /\ i' = (IF i > 0 THEN i - 1 ELSE i)
           /\ UNCHANGED <<file_buffer, shift_pressed, pc>>
  <2>1. i' \in 0 .. TextEnd /\ \A k \in 1 .. i' : k \in 1 .. i
    BY <1>1, <1>8
  <2>2. Meaning(Now, key) = IF Now.text = <<>> THEN Now ELSE [Now EXCEPT !.text = Front(@)]
    BY <1>1, <1>8, MeaningIs
  <2>3. CASE i = 0
    <3>1. i' = i
      BY <1>8, <2>3
    <3>2. Now' = Now
      BY <1>8, <3>1 DEF Now
    <3> QED
      BY <1>1, <1>2, <1>8, <2>1, <2>2, <2>3, <3>2
  <2>4. CASE i # 0
    <3>1. i' = i - 1 /\ i - 1 \in Nat /\ i - 1 <= i
      BY <1>1, <1>8, <2>4
    <3>2. \A k \in 1 .. i : file_buffer[k] \in Letters \union {NUL}
      BY NowIs
    <3>3. Front(Now.text) = [k \in 1 .. i - 1 |-> file_buffer[k]]
      <4>1. SubSeq([k \in 1 .. i |-> file_buffer[k]], 1, i - 1) = [k \in 1 .. i - 1 |-> file_buffer[k]]
        BY <1>1, <3>1, <3>2, RowPart
      <4>2. Front(Now.text) = SubSeq(Now.text, 1, i - 1)
        BY <1>1 DEF Front
      <4> QED
        BY <1>1, <4>1, <4>2
    <3>4. Now' = [text |-> [k \in 1 .. i - 1 |-> file_buffer[k]], shift |-> shift_pressed, over |-> FALSE]
      BY <1>8, <3>1 DEF Now
    <3>5. [Now EXCEPT !.text = Front(Now.text)]
            = [text |-> Front(Now.text), shift |-> Now.shift, over |-> Now.over]
      BY <1>3, TextSet
    <3>6. Now.over = FALSE
      BY NowIs
    <3>7. Now' = Meaning(Now, key)
      BY <1>1, <2>2, <2>4, <3>3, <3>4, <3>5, <3>6
    <3> QED
      BY <1>2, <1>8, <2>1, <3>7
  <2> QED
    BY <2>3, <2>4
<1>9. CASE /\ key \in Pieces /\ Enter(Typed(key, shift_pressed))
           /\ UNCHANGED <<shift_pressed, pc>>
  <2>1. Typed(key, shift_pressed) \in Letters
    BY <1>9 DEF Typed, Letters
  <2>2. /\ Now' = IF Len(Now.text) < TextEnd
                  THEN [Now EXCEPT !.text = Append(@, Typed(key, shift_pressed))] ELSE Now
        /\ i' \in 0 .. TextEnd
        /\ file_buffer' \in [1 .. TextEnd + 1 -> Letters \union {NUL}]
        /\ (\A k \in 1 .. i : file_buffer[k] # NUL)'
    BY <1>9, <2>1, EnterMeans
  <2>3. Now' = Meaning(Now, key)
    BY <1>1, <1>9, <2>2, MeaningIs
  <2>4. key # "esc"
    BY <1>9, KeysDiffer DEF OtherKeys
  <2> QED
    BY <1>2, <1>9, <2>2, <2>3, <2>4
<1> QED
  BY <1>4, <1>5, <1>6, <1>7, <1>8, <1>9 DEF Heed


-----------------------------------------------------------------------------
LEMMA FullIs ==
  ASSUME BufferTypeOK, ~IsFull
  PROVE  Len(Queue) # Size - 1
<1>1. Size \in Nat /\ Size >= 2 /\ kbd_head \in 0 .. Size - 1 /\ kbd_tail \in 0 .. Size - 1
  BY BufferAssumption DEF BufferTypeOK, Slots
<1>2. Waiting = IF kbd_head < kbd_tail THEN kbd_head - kbd_tail + Size
                ELSE kbd_head - kbd_tail
  BY Positions
<1>3. Following(kbd_head) = IF kbd_head = Size - 1 THEN 0 ELSE kbd_head + 1
  BY <1>1, Positions DEF Slots
<1>4. Len(Queue) = Waiting
  BY QueueIsSeq
<1> QED
  BY <1>1, <1>2, <1>3, <1>4 DEF IsFull

LEMMA EditorInitInv == EditorInit => EditorInv
<1> SUFFICES ASSUME EditorInit PROVE EditorInv
  OBVIOUS
<1>1. BufferTypeOK /\ kbd_head = 0 /\ kbd_tail = 0
  BY BufferInitTyped DEF EditorInit, BufferInit
<1>2. /\ file_buffer = [k \in 1 .. TextEnd + 1 |-> NUL] /\ i = 0
      /\ shift_pressed = FALSE /\ pc = "edit" /\ dropped = FALSE
      /\ meant = [text |-> <<>>, shift |-> FALSE, over |-> FALSE]
      /\ TextEnd \in Nat
  BY EditorAssumption DEF EditorInit
<1>3. EditorTypeOK
  <2>1. i \in 0 .. TextEnd
    BY <1>2
  <2>2. file_buffer \in [1 .. TextEnd + 1 -> Letters \union {NUL}]
    BY <1>2
  <2> QED
    BY <1>1, <1>2, <2>1, <2>2 DEF EditorTypeOK
<1>4. Len(Queue) = 0
  <2>1. Waiting = 0
    BY <1>1, Positions
  <2> QED
    BY <1>1, <2>1, QueueIsSeq
<1>5. Now = meant
  <2>1. [k \in 1 .. 0 |-> file_buffer[k]] = <<>>
    OBVIOUS
  <2> QED
    BY <1>2, <2>1 DEF Now
<1>6. \E T : Leads(T, Now, Queue, meant)
  <2> DEFINE T == [k \in {0} |-> Now]
  <2>1. T[0] = Now
    OBVIOUS
  <2> HIDE DEF T
  <2>2. Leads(T, Now, Queue, meant)
    BY <1>4, <1>5, <2>1 DEF Leads
  <2> QED
    BY <2>2
<1>7. pc # "saved"
  BY <1>2
<1> QED
  BY <1>2, <1>3, <1>6, <1>7 DEF EditorInv

LEMMA StrikeInv ==
  ASSUME EditorInv, NEW key \in Codes, Strike(key)
  PROVE  EditorInv'
<1>1. /\ Put(key) /\ meant' = Meaning(meant, key)
      /\ UNCHANGED <<file_buffer, i, shift_pressed, pc>> /\ Now' = Now /\ Saved' = Saved
  BY DEF Strike, typed, Now, Saved
<1>2. BufferTypeOK /\ BufferTypeOK'
  BY <1>1, BufferStepTyped DEF EditorInv, EditorTypeOK, BufferNext
<1>3. dropped' \in BOOLEAN
  <2>1. dropped' = (dropped \/ IsFull)
    BY DEF Strike
  <2> QED
    BY <2>1
<1>4. EditorTypeOK'
  BY <1>1, <1>2, <1>3 DEF EditorInv, EditorTypeOK
<1>5. ASSUME ~dropped'
      PROVE  IF pc' = "edit" THEN \E T : Leads(T, Now', Queue', meant')
             ELSE meant'.over /\ Saved' = meant'.text
  <2>1. ~dropped /\ ~IsFull
    BY <1>5 DEF Strike
  <2>2. Queue' = Append(Queue, key)
    <3>1. Q!Put(key)
      BY <1>1, <1>2, PutIsPut
    <3>2. Len(Queue) # Size - 1
      BY <1>2, <2>1, FullIs
    <3> QED
      BY <3>1, <3>2 DEF Q!Put, Q!Full
  <2>3. CASE pc = "edit"
    <3>1. PICK T : Leads(T, Now, Queue, meant)
      BY <2>1, <2>3 DEF EditorInv
    <3>2. Queue \in Seq(Codes \union {Zero}) /\ key \in Codes \union {Zero}
      BY <1>2, QueueIsSeq
    <3>3. \E U : Leads(U, Now, Append(Queue, key), Meaning(meant, key))
      BY <3>1, <3>2, LeadsOn
    <3> QED
      BY <1>1, <2>2, <2>3, <3>3
  <2>4. CASE pc # "edit"
    <3>1. meant.over /\ Saved = meant.text
      BY <2>1, <2>4 DEF EditorInv
    <3>2. meant' = meant
      BY <1>1, <3>1 DEF Meaning
    <3> QED
      BY <1>1, <2>4, <3>1, <3>2
  <2> QED
    BY <2>3, <2>4
<1>6. /\ \A k \in 1 .. i' : file_buffer'[k] # NUL
      /\ pc' = "saved" => Saved' \in Seq(Letters)
  BY <1>1 DEF EditorInv
<1> QED
  BY <1>4, <1>5, <1>6 DEF EditorInv

LEMMA TurnInv ==
  ASSUME EditorInv, Turn
  PROVE  EditorInv'
<1>1. pc = "edit" /\ Get /\ Heed(code') /\ UNCHANGED <<meant, dropped>>
  BY DEF Turn
<1>2. EditorTypeOK /\ BufferTypeOK /\ BufferTypeOK' /\ \A k \in 1 .. i : file_buffer[k] # NUL
  BY <1>1, BufferStepTyped DEF EditorInv, EditorTypeOK, BufferNext
<1>3. /\ i' \in 0 .. TextEnd /\ shift_pressed' \in BOOLEAN
      /\ file_buffer' \in [1 .. TextEnd + 1 -> Letters \union {NUL}]
      /\ (\A k \in 1 .. i : file_buffer[k] # NUL)'
      /\ \/ code' # "esc" /\ pc' = "edit" /\ Now' = Meaning(Now, code')
         \/ /\ code' = "esc" /\ pc' = "saved" /\ Saved' = Now.text
            /\ Meaning(Now, code') = [Now EXCEPT !.over = TRUE]
  BY <1>1, <1>2, HeedMeans
<1>4. EditorTypeOK'
  BY <1>1, <1>2, <1>3 DEF EditorTypeOK
<1>5. ASSUME ~dropped
      PROVE  IF pc' = "edit" THEN \E T : Leads(T, Now', Queue', meant)
             ELSE meant.over /\ Saved' = meant.text
  <2>1. PICK T : Leads(T, Now, Queue, meant)
    BY <1>1, <1>5 DEF EditorInv
  <2>2. Q!Get
    BY <1>1, <1>2, GetIsGet
  <2>3. CASE Queue = <<>>
    <3>1. code' = Zero /\ Queue' = Queue
      BY <2>2, <2>3 DEF Q!Get
    <3>2. Zero # "esc" /\ Meaning(Now, Zero) = Now
      BY NowIs, <1>2, KeysDiffer, MeaningIs DEF OtherKeys
    <3> QED
      BY <1>3, <2>1, <3>1, <3>2
  <2>4. CASE Queue # <<>>
    <3>1. code' = Head(Queue) /\ Queue' = Tail(Queue)
      BY <2>2, <2>4 DEF Q!Get
    <3>2. Queue \in Seq(Codes \union {Zero})
      BY <1>2, QueueIsSeq
    <3>3. /\ \E U : Leads(U, Meaning(Now, Head(Queue)), Tail(Queue), meant)
          /\ Meaning(Now, Head(Queue)).over => Meaning(Now, Head(Queue)) = meant
      BY <2>1, <2>4, <3>2, LeadsFrom
    <3>4. CASE pc' = "edit"
      BY <1>3, <3>1, <3>3, <3>4
    <3>5. CASE pc' = "saved"
      <4>1. Meaning(Now, code') = [Now EXCEPT !.over = TRUE] /\ Saved' = Now.text
        BY <1>3, <3>5
      <4>2. [Now EXCEPT !.over = TRUE].over /\ [Now EXCEPT !.over = TRUE].text = Now.text
        BY DEF Now
      <4>3. Meaning(Now, code') = meant
        BY <3>1, <3>3, <4>1, <4>2
      <4> QED
        BY <3>5, <4>1, <4>2, <4>3
    <3> QED
      BY <1>3, <3>4, <3>5
  <2> QED
    BY <2>3, <2>4
<1>6. pc' = "saved" => Saved' \in Seq(Letters)
  <2>1. SUFFICES ASSUME pc' = "saved" PROVE Now.text \in Seq(Letters)
    BY <1>3
  <2>2. /\ i \in Nat /\ Now.text = [k \in 1 .. i |-> file_buffer[k]]
        /\ \A k \in 1 .. i : file_buffer[k] \in Letters \union {NUL}
    BY <1>2, NowIs
  <2>3. \A k \in 1 .. i : file_buffer[k] \in Letters
    BY <1>2, <2>2
  <2> QED
    BY <2>2, <2>3
<1> QED
  BY <1>1, <1>3, <1>4, <1>5, <1>6 DEF EditorInv

LEMMA EditorStepInv == EditorInv /\ [EditorNext]_editorVars => EditorInv'
<1> SUFFICES ASSUME EditorInv, [EditorNext]_editorVars PROVE EditorInv'
  OBVIOUS
<1>1. CASE UNCHANGED editorVars
  <2>1. UNCHANGED <<kbd_buffer, kbd_head, kbd_tail, code, file_buffer, i, shift_pressed, pc,
                    meant, dropped>>
    BY <1>1 DEF editorVars, bufferVars, typed
  <2>2. Now' = Now /\ Queue' = Queue /\ Saved' = Saved
    BY <2>1 DEF Now, Queue, Waiting, Saved
  <2>3. EditorTypeOK'
    BY <2>1 DEF EditorInv, EditorTypeOK, BufferTypeOK
  <2> QED
    BY <2>1, <2>2, <2>3 DEF EditorInv
<1> QED
  BY <1>1, StrikeInv, TurnInv DEF EditorNext

(* The file that touch makes has the text that was meant when the keys     *)
(* were struck, however far the editor was behind (multiline.c 56-141).    *)
THEOREM TypedTextHolds == EditorSpec => []TypedText
<1>1. EditorInv => TypedText
  BY DEF EditorInv, TypedText
<1>2. QED
  BY EditorInitInv, EditorStepInv, <1>1, PTL DEF EditorSpec

(* Under the editor, too, the ring is the queue.                           *)
THEOREM EditorQueue == EditorSpec => ImplementsQueue
<1>1. EditorInit => BufferInit
  BY DEF EditorInit
<1>2. [EditorNext]_editorVars => [BufferNext]_bufferVars
  BY DEF EditorNext, Strike, Turn, BufferNext, editorVars
<1>3. BufferSpec => ImplementsQueue
  BY QueueRefinement
<1>4. QED
  BY <1>1, <1>2, <1>3, PTL DEF EditorSpec, BufferSpec

-----------------------------------------------------------------------------
(* The assembler: the loop over the pieces and the lines' instructions one *)
(* behind the other.  Both are recursive underneath, so the steps of each  *)
(* come first, by induction over numbers.                                  *)

(* Induction, by the least number for which it would fail.                 *)
LEMMA LeastNatural ==
  ASSUME NEW T \in SUBSET Nat, T # {}
  PROVE  \E x \in T : \A y \in T : x <= y
<1>1. PICK x \in T : \A y \in T : <<y, x>> \notin OpToRel(<, Nat)
  BY WFMin, NatLessThanWellFounded
<1>2. ASSUME NEW y \in T PROVE x <= y
  <2>1. <<y, x>> \in Nat \X Nat /\ <<y, x>>[1] = y /\ <<y, x>>[2] = x
    OBVIOUS
  <2>2. ~(y < x)
    BY <1>1, <2>1 DEF OpToRel
  <2> QED
    BY <2>2
<1> QED
  BY <1>2

LEMMA Upwards ==
  ASSUME NEW S, 0 \in S, \A n \in Nat : n \in S => n + 1 \in S
  PROVE  Nat \subseteq S
<1> DEFINE T == Nat \ S
<1>1. SUFFICES ASSUME T # {} PROVE FALSE
  OBVIOUS
<1>2. PICK x \in T : \A y \in T : x <= y
  <2> HIDE DEF T
  <2>1. T \in SUBSET Nat
    BY DEF T
  <2> QED
    BY <1>1, <2>1, LeastNatural
<1>3. x # 0 /\ x - 1 \in Nat /\ ~(x <= x - 1)
  OBVIOUS
<1>4. x - 1 \in S
  BY <1>2, <1>3
<1>5. (x - 1) + 1 = x
  OBVIOUS
<1> QED
  BY <1>3, <1>4, <1>5

LEMMA MaxIs ==
  ASSUME NEW n \in Nat, NEW s \in SUBSET (1 .. n), s # {}
  PROVE  Max(s) \in s /\ \A y \in s : Max(s) >= y
<1> DEFINE T == {k \in Nat : \A y \in s : k >= y}
<1>1. n \in T
  OBVIOUS
<1>2. PICK x \in T : \A y \in T : x <= y
  <2> HIDE DEF T
  <2>1. T \in SUBSET Nat
    BY DEF T
  <2> QED
    BY <1>1, <2>1, LeastNatural
<1>3. x \in s
  <2>1. SUFFICES ASSUME x \notin s PROVE FALSE
    OBVIOUS
  <2>2. x >= 1 /\ x - 1 \in Nat
    <3>1. PICK y \in s : TRUE
      OBVIOUS
    <3>2. x >= y /\ y >= 1 /\ x \in Nat /\ y \in Nat
      BY <3>1
    <3> QED
      BY <3>2
  <2>3. \A y \in s : x - 1 >= y
    BY <2>1
  <2>4. x - 1 \in T
    BY <2>2, <2>3
  <2> QED
    BY <1>2, <2>2, <2>4
<1>4. \E k \in s : \A y \in s : k >= y
  BY <1>3
<1> QED
  BY <1>4 DEF Max

-----------------------------------------------------------------------------
(* The fold over the pieces.                                               *)

Start == [line |-> <<>>, out |-> <<>>]

Folds(h, text, D) ==
  h = [s \in SUBSET D |->
         IF s = {} THEN Start
         ELSE LET x == Max(s) IN Assembled(h[s \ {x}], text[x])]

LEMMA FoldExists ==
  ASSUME NEW text
  PROVE  \A n \in Nat : \E h : Folds(h, text, 1 .. n)
<1> DEFINE S == {n \in Nat : \E h : Folds(h, text, 1 .. n)}
<1>1. 0 \in S
  <2> DEFINE h == [s \in SUBSET (1 .. 0) |-> Start]
  <2>1. \A s \in SUBSET (1 .. 0) : s = {}
    OBVIOUS
  <2>2. Folds(h, text, 1 .. 0)
    BY <2>1 DEF Folds
  <2> QED
    BY <2>2
<1>2. ASSUME NEW n \in Nat, n \in S PROVE n + 1 \in S
  <2>1. PICK g : Folds(g, text, 1 .. n)
    BY <1>2
  <2>2. /\ DOMAIN g = SUBSET (1 .. n)
        /\ g[{}] = Start
        /\ \A s \in SUBSET (1 .. n) :
             s # {} => g[s] = Assembled(g[s \ {Max(s)}], text[Max(s)])
    <3>1. {} \in SUBSET (1 .. n)
      OBVIOUS
    <3> QED
      BY <2>1, <3>1 DEF Folds
  <2> DEFINE h == [s \in SUBSET (1 .. n + 1) |->
                     IF n + 1 \in s THEN Assembled(g[s \ {n + 1}], text[n + 1]) ELSE g[s]]
  <2>3. \A s \in SUBSET (1 .. n) : s \in SUBSET (1 .. n + 1) /\ n + 1 \notin s
    OBVIOUS
  <2>4. \A s \in SUBSET (1 .. n) : h[s] = g[s]
    BY <2>3
  <2>5. \A s \in SUBSET (1 .. n + 1) : s \ {n + 1} \in SUBSET (1 .. n)
    OBVIOUS
  <2>6. ASSUME NEW s \in SUBSET (1 .. n + 1), s # {}
        PROVE  h[s] = Assembled(h[s \ {Max(s)}], text[Max(s)])
    <3>1. CASE n + 1 \in s
      <4>1. Max(s) = n + 1
        <5>1. n + 1 \in Nat
          OBVIOUS
        <5>2. Max(s) \in s /\ \A y \in s : Max(s) >= y
          BY <2>6, <5>1, MaxIs
        <5> HIDE DEF h
        <5>3. Max(s) \in 1 .. n + 1 /\ Max(s) >= n + 1
          BY <3>1, <5>2
        <5> QED
          BY <5>3
      <4>2. h[s] = Assembled(g[s \ {n + 1}], text[n + 1])
        BY <3>1
      <4>3. h[s \ {n + 1}] = g[s \ {n + 1}]
        BY <2>4, <2>5
      <4> HIDE DEF h
      <4> QED
        BY <4>1, <4>2, <4>3
    <3>2. CASE n + 1 \notin s
      <4>1. s \in SUBSET (1 .. n) /\ Max(s) \in s
        <5>1. s \in SUBSET (1 .. n)
          BY <2>5, <3>2
        <5> QED
          BY <2>6, <5>1, MaxIs
      <4>2. s \ {Max(s)} \in SUBSET (1 .. n)
        BY <4>1
      <4> HIDE DEF h
      <4> QED
        BY <2>2, <2>4, <2>6, <4>1, <4>2
    <3> QED
      BY <3>1, <3>2
  <2>7. Folds(h, text, 1 .. n + 1)
    <3>1. {} \in SUBSET (1 .. n) /\ h[{}] = Start
      BY <2>2, <2>4
    <3>2. h = [s \in SUBSET (1 .. n + 1) |-> h[s]]
      OBVIOUS
    <3> HIDE DEF h
    <3> QED
      BY <2>6, <3>1, <3>2 DEF Folds
  <2> QED
    BY <2>7
<1>3. Nat \subseteq S
  <2> HIDE DEF S
  <2> QED
    BY <1>1, <1>2, Upwards
<1> QED
  BY <1>3

(* What the loop has after each piece.                                     *)
LEMMA FoldIs ==
  ASSUME NEW X, NEW text \in Seq(X)
  PROVE  \E A : /\ A[0] = Start
                /\ \A k \in 1 .. Len(text) : A[k] = Assembled(A[k - 1], text[k])
                /\ FoldLeft(Assembled, Start, text) = A[Len(text)]
<1> DEFINE n == Len(text)
           h == CHOOSE h : Folds(h, text, DOMAIN text)
           A == [k \in 0 .. n |-> h[1 .. k]]
<1>1. n \in Nat /\ DOMAIN text = 1 .. n
  BY LenProperties
<1>2. Folds(h, text, 1 .. n)
  <2> HIDE DEF n, h
  <2>1. \E g : Folds(g, text, DOMAIN text)
    BY <1>1, FoldExists
  <2> QED
    BY <1>1, <2>1 DEF h
<1>3. FoldLeft(Assembled, Start, text) = h[DOMAIN text]
  BY DEF FoldLeft, MapThenFoldSet, Folds
<1> HIDE DEF n, h
<1>4. h[1 .. 0] = Start
  <2>1. 1 .. 0 = {} /\ {} \in SUBSET (1 .. n)
    OBVIOUS
  <2> QED
    BY <1>2, <2>1 DEF Folds
<1>5. ASSUME NEW k \in 1 .. n PROVE h[1 .. k] = Assembled(h[1 .. k - 1], text[k])
  <2>1. 1 .. k \in SUBSET (1 .. n) /\ k \in 1 .. k /\ (1 .. k) \ {k} = 1 .. k - 1
    BY <1>1
  <2>2. Max(1 .. k) = k
    <3>1. Max(1 .. k) \in 1 .. k /\ Max(1 .. k) >= k
      BY <1>1, <2>1, MaxIs
    <3> QED
      BY <1>1, <3>1
  <2>3. 1 .. k # {}
    BY <2>1
  <2> QED
    BY <1>2, <2>1, <2>2, <2>3 DEF Folds
<1>6. /\ A[0] = h[1 .. 0] /\ A[n] = h[1 .. n]
      /\ \A k \in 1 .. n : A[k] = h[1 .. k] /\ A[k - 1] = h[1 .. k - 1]
  BY <1>1
<1> HIDE DEF A
<1> QED
  BY <1>1, <1>3, <1>4, <1>5, <1>6 DEF n

-----------------------------------------------------------------------------
(* Rows one behind the other.                                              *)

Flattens(g, ss, n) ==
  g = [j \in 1 .. n |-> IF j = 1 THEN ss[j] ELSE g[j - 1] \o ss[j]]

LEMMA FlatExists ==
  ASSUME NEW ss
  PROVE  \A n \in Nat : \E g : Flattens(g, ss, n)
<1> DEFINE S == {n \in Nat : \E g : Flattens(g, ss, n)}
<1>1. 0 \in S
  <2>1. Flattens([j \in 1 .. 0 |-> 0], ss, 0)
    BY DEF Flattens
  <2> QED
    BY <2>1
<1>2. ASSUME NEW n \in Nat, n \in S PROVE n + 1 \in S
  <2>1. PICK g : Flattens(g, ss, n)
    BY <1>2
  <2> DEFINE f == [j \in 1 .. n + 1 |->
                     IF j = 1 THEN ss[j] ELSE IF j = n + 1 THEN g[n] \o ss[j] ELSE g[j]]
  <2>2. \A j \in 1 .. n : f[j] = g[j]
    BY <2>1 DEF Flattens
  <2>3. ASSUME NEW j \in 1 .. n + 1, j # 1 PROVE f[j] = f[j - 1] \o ss[j]
    <3>1. j - 1 \in 1 .. n
      BY <2>3
    <3>2. CASE j = n + 1
      <4>1. f[j] = g[n] \o ss[j]
        BY <2>3, <3>2
      <4>2. j - 1 = n
        BY <3>2
      <4> HIDE DEF f
      <4> QED
        BY <2>2, <3>1, <4>1, <4>2
    <3>3. CASE j # n + 1
      <4>1. j \in 1 .. n
        BY <3>3
      <4>2. g[j] = g[j - 1] \o ss[j]
        BY <2>1, <2>3, <4>1 DEF Flattens
      <4> HIDE DEF f
      <4> QED
        BY <2>2, <3>1, <4>1, <4>2
    <3> QED
      BY <3>2, <3>3
  <2>4. f = [j \in 1 .. n + 1 |-> f[j]] /\ f[1] = ss[1]
    OBVIOUS
  <2> HIDE DEF f
  <2>5. Flattens(f, ss, n + 1)
    BY <2>3, <2>4 DEF Flattens
  <2> QED
    BY <2>5
<1>3. Nat \subseteq S
  <2> HIDE DEF S
  <2> QED
    BY <1>1, <1>2, Upwards
<1> QED
  BY <1>3

LEMMA FlatIs ==
  ASSUME NEW ss, Len(ss) \in Nat \ {0}
  PROVE  \E g : /\ g[1] = ss[1]
                /\ \A j \in 2 .. Len(ss) : g[j] = g[j - 1] \o ss[j]
                /\ FlattenSeq(ss) = g[Len(ss)]
<1> DEFINE g == CHOOSE g : Flattens(g, ss, Len(ss))
<1>1. Flattens(g, ss, Len(ss))
  BY FlatExists
<1>2. FlattenSeq(ss) = g[Len(ss)]
  BY DEF FlattenSeq, Flattens
<1> HIDE DEF g
<1>3. 1 \in 1 .. Len(ss) /\ \A j \in 2 .. Len(ss) : j \in 1 .. Len(ss) /\ j # 1
  OBVIOUS
<1>4. g[1] = ss[1] /\ \A j \in 2 .. Len(ss) : g[j] = g[j - 1] \o ss[j]
  BY <1>1, <1>3 DEF Flattens
<1> QED
  BY <1>2, <1>4

-----------------------------------------------------------------------------
(* Counting pieces.                                                        *)

LEMMA PlusOne ==
  ASSUME NEW S, IsFiniteSet(S), NEW x, x \notin S
  PROVE  IsFiniteSet(S \union {x}) /\ Cardinality(S \union {x}) = Cardinality(S) + 1
BY FS_AddElement

LEMMA BeforeIs ==
  ASSUME NEW text
  PROVE  /\ Before(text, 1) = 0
         /\ \A k \in Nat \ {0} :
              /\ Before(text, k) \in Nat
              /\ Before(text, k + 1) = IF text[k] \in Separators THEN Before(text, k) + 1
                                       ELSE Before(text, k)
         /\ \A h, k \in Nat \ {0} : h <= k => Before(text, h) <= Before(text, k)
<1> DEFINE Seps(k) == {j \in 1 .. k - 1 : text[j] \in Separators}
<1>1. \A k : Before(text, k) = Cardinality(Seps(k))
  BY DEF Before
<1>2. \A k \in Nat \ {0} : IsFiniteSet(Seps(k)) /\ Cardinality(Seps(k)) \in Nat
  <2>1. ASSUME NEW k \in Nat \ {0} PROVE IsFiniteSet(Seps(k))
    <3>1. IsFiniteSet(1 .. k - 1) /\ Seps(k) \in SUBSET (1 .. k - 1)
      <4>1. k - 1 \in Int /\ 1 \in Int
        OBVIOUS
      <4>2. Seps(k) \in SUBSET (1 .. k - 1)
        OBVIOUS
      <4> HIDE DEF Seps
      <4> QED
        BY <4>1, <4>2, FS_Interval
    <3> HIDE DEF Seps
    <3> QED
      BY <3>1, FS_Subset
  <2> HIDE DEF Seps
  <2> QED
    BY <2>1, FS_CardinalityType
<1>3. Seps(1) = {}
  OBVIOUS
<1>4. ASSUME NEW k \in Nat \ {0}
      PROVE  Cardinality(Seps(k + 1)) = IF text[k] \in Separators THEN Cardinality(Seps(k)) + 1
                                        ELSE Cardinality(Seps(k))
  <2>1. k \notin Seps(k) /\ (k + 1) - 1 = k /\ 1 .. k = (1 .. k - 1) \union {k}
    OBVIOUS
  <2>2. CASE text[k] \in Separators
    <3>1. Seps(k + 1) = Seps(k) \union {k}
      BY <2>1, <2>2
    <3> HIDE DEF Seps
    <3> QED
      BY <1>2, <2>1, <2>2, <3>1, PlusOne
  <2>3. CASE text[k] \notin Separators
    <3>1. Seps(k + 1) = Seps(k)
      BY <2>1, <2>3
    <3> HIDE DEF Seps
    <3> QED
      BY <2>3, <3>1
  <2> QED
    BY <2>2, <2>3
<1>5. ASSUME NEW h \in Nat \ {0}, NEW k \in Nat \ {0}, h <= k
      PROVE  Cardinality(Seps(h)) <= Cardinality(Seps(k))
  <2>1. Seps(h) \in SUBSET Seps(k)
    BY <1>5
  <2> HIDE DEF Seps
  <2> QED
    BY <1>2, <2>1, FS_Subset
<1> HIDE DEF Seps
<1> QED
  BY <1>1, <1>2, <1>3, <1>4, <1>5, FS_EmptySet

(* The elements of a set in order: a larger one comes behind.              *)
LEMMA NthIs ==
  ASSUME NEW P \in SUBSET Nat, IsFiniteSet(P), NEW x \in Nat, \A j \in P : j < x
  PROVE  /\ Cardinality(P) \in Nat /\ Cardinality(P \union {x}) = Cardinality(P) + 1
         /\ \A m \in 1 .. Cardinality(P) : Nth(P \union {x}, m) = Nth(P, m)
         /\ Nth(P \union {x}, Cardinality(P) + 1) = x
<1> DEFINE c == Cardinality(P)
           Upto(R, k) == Cardinality({j \in R : j <= k})
<1>1. c \in Nat /\ Cardinality(P \union {x}) = c + 1
  <2>1. x \notin P
    OBVIOUS
  <2> QED
    BY <2>1, PlusOne, FS_CardinalityType
<1>2. \A k \in P : Upto(P \union {x}, k) = Upto(P, k) /\ Upto(P, k) <= c /\ Upto(P, k) \in Nat
  <2> SUFFICES ASSUME NEW k \in P
               PROVE  Upto(P \union {x}, k) = Upto(P, k) /\ Upto(P, k) <= c
                      /\ Upto(P, k) \in Nat
    OBVIOUS
  <2>1. {j \in P \union {x} : j <= k} = {j \in P : j <= k}
    OBVIOUS
  <2>2. {j \in P : j <= k} \in SUBSET P
    OBVIOUS
  <2> QED
    BY <2>1, <2>2, FS_Subset, FS_CardinalityType
<1>3. Upto(P \union {x}, x) = c + 1
  <2>1. \A j \in P \union {x} : j <= x
    <3>1. \A j \in P : j <= x
      OBVIOUS
    <3> QED
      BY <3>1
  <2>2. {j \in P \union {x} : j <= x} = P \union {x}
    BY <2>1
  <2> QED
    BY <1>1, <2>2
<1>4. \A R, m : Nth(R, m) = CHOOSE k : k \in R /\ Upto(R, k) = m
  BY DEF Nth
<1> HIDE DEF Upto, c
<1>5. ASSUME NEW m \in 1 .. c PROVE Nth(P \union {x}, m) = Nth(P, m)
  <2>1. c + 1 # m
    BY <1>1
  <2>2. \A k : (k \in P \union {x} /\ Upto(P \union {x}, k) = m) <=> (k \in P /\ Upto(P, k) = m)
    BY <1>2, <1>3, <2>1
  <2>3. (CHOOSE k : k \in P \union {x} /\ Upto(P \union {x}, k) = m)
          = (CHOOSE k : k \in P /\ Upto(P, k) = m)
    BY <2>2
  <2> QED
    BY <1>4, <2>3
<1>6. Nth(P \union {x}, c + 1) = x
  <2>1. \A k \in P \union {x} : Upto(P \union {x}, k) = c + 1 => k = x
    BY <1>1, <1>2
  <2>2. x \in P \union {x}
    OBVIOUS
  <2> QED
    BY <1>3, <1>4, <2>1, <2>2
<1> QED
  BY <1>1, <1>5, <1>6 DEF c

(* The pieces at these places, in order, as long as there is room.         *)
LEMMA LineAtNone ==
  ASSUME NEW text
  PROVE  LineAt(text, {}) = <<>>
<1>1. Cardinality({}) = 0 /\ LineEnd \in Nat \ {0}
  BY CasmAssumption, FS_EmptySet
<1>2. (IF Cardinality({}) < LineEnd THEN Cardinality({}) ELSE LineEnd) = 0
  BY <1>1
<1>3. LineAt(text, {}) = [n \in 1 .. 0 |-> text[Nth({}, n)]]
  BY <1>2 DEF LineAt
<1> QED
  BY <1>3

LEMMA LineAtMore ==
  ASSUME NEW text, NEW P \in SUBSET Nat, NEW x \in Nat,
         IsFiniteSet(P), \A j \in P : j < x
  PROVE  LineAt(text, P \union {x}) =
           IF Len(LineAt(text, P)) = LineEnd THEN LineAt(text, P)
           ELSE Append(LineAt(text, P), text[x])
<1> DEFINE c == Cardinality(P)
           R == P \union {x}
           line == LineAt(text, P)
<1>1. /\ c \in Nat /\ Cardinality(R) = c + 1 /\ LineEnd \in Nat \ {0}
      /\ \A m \in 1 .. c : Nth(R, m) = Nth(P, m)
      /\ Nth(R, c + 1) = x
  BY NthIs, CasmAssumption
<1> HIDE DEF c, R
<1>2. CASE c < LineEnd
  <2>1. line = [m \in 1 .. c |-> text[Nth(P, m)]]
    BY <1>2 DEF LineAt, c
  <2>2. LineAt(text, R) = [m \in 1 .. c + 1 |-> text[Nth(R, m)]]
    <3>1. (IF Cardinality(R) < LineEnd THEN Cardinality(R) ELSE LineEnd) = c + 1
      BY <1>1, <1>2
    <3> QED
      BY <3>1 DEF LineAt
  <2> DEFINE S == {text[Nth(R, m)] : m \in 1 .. c + 1}
  <2>3. line \in Seq(S) /\ Len(line) = c /\ text[x] \in S
    <3>1. \A m \in 1 .. c : text[Nth(P, m)] \in S
      <4>1. \A m \in 1 .. c : m \in 1 .. c + 1 /\ Nth(P, m) = Nth(R, m)
        BY <1>1
      <4> QED
        BY <4>1
    <3>2. text[x] \in S
      <4>1. c + 1 \in 1 .. c + 1
        BY <1>1
      <4> QED
        BY <1>1, <4>1
    <3> HIDE DEF S, line
    <3> QED
      BY <1>1, <2>1, <3>1, <3>2
  <2>4. Append(line, text[x]) \in [1 .. c + 1 -> S]
        /\ \A m \in 1 .. c : Append(line, text[x])[m] = line[m]
        /\ Append(line, text[x])[c + 1] = text[x]
    <3> HIDE DEF S, line
    <3>1. /\ Append(line, text[x]) \in Seq(S)
          /\ Len(Append(line, text[x])) = Len(line) + 1
          /\ \A m \in 1 .. Len(line) : Append(line, text[x])[m] = line[m]
          /\ Append(line, text[x])[Len(line) + 1] = text[x]
      BY <2>3, AppendProperties
    <3>2. Append(line, text[x]) \in [1 .. Len(Append(line, text[x])) -> S]
      BY <3>1, LenProperties
    <3> QED
      BY <2>3, <3>1, <3>2
  <2>5. \A m \in 1 .. c + 1 : Append(line, text[x])[m] = text[Nth(R, m)]
    <3> HIDE DEF line
    <3>1. \A m \in 1 .. c + 1 : m \in 1 .. c \/ m = c + 1
      BY <1>1
    <3> QED
      BY <1>1, <2>1, <2>4, <3>1
  <2>6. LineAt(text, R) = Append(line, text[x])
    <3> HIDE DEF line, S
    <3> QED
      BY <2>2, <2>4, <2>5
  <2>7. Len(line) # LineEnd
    <3> HIDE DEF S, line
    <3> QED
      BY <1>1, <1>2, <2>3
  <2> HIDE DEF S
  <2> QED
    BY <2>6, <2>7 DEF R
<1>3. CASE ~(c < LineEnd)
  <2>1. line = [m \in 1 .. LineEnd |-> text[Nth(P, m)]]
    BY <1>3 DEF LineAt, c
  <2>2. LineAt(text, R) = [m \in 1 .. LineEnd |-> text[Nth(R, m)]]
    <3>1. (IF Cardinality(R) < LineEnd THEN Cardinality(R) ELSE LineEnd) = LineEnd
      BY <1>1, <1>3
    <3> QED
      BY <3>1 DEF LineAt
  <2>3. \A m \in 1 .. LineEnd : Nth(R, m) = Nth(P, m)
    BY <1>1, <1>3
  <2>4. LineAt(text, R) = line
    BY <2>1, <2>2, <2>3
  <2>5. Len(line) = LineEnd
    <3> HIDE DEF line
    <3> QED
      BY <1>1, <2>1
  <2> HIDE DEF line
  <2> QED
    BY <2>4, <2>5 DEF line, R
<1> QED
  BY <1>2, <1>3

-----------------------------------------------------------------------------
(* The bytes that fit.                                                     *)
Cut(s) == SubSeq(s, 1, IF Len(s) < AsmEnd THEN Len(s) ELSE AsmEnd)

LEMMA CutIs ==
  ASSUME NEW S, NEW s \in Seq(S)
  PROVE  /\ Cut(s) \in Seq(S)
         /\ Len(Cut(s)) = IF Len(s) < AsmEnd THEN Len(s) ELSE AsmEnd
         /\ \A k \in 1 .. Len(Cut(s)) : Cut(s)[k] = s[k]
<1> DEFINE n == IF Len(s) < AsmEnd THEN Len(s) ELSE AsmEnd
<1>1. n \in Nat /\ n <= Len(s) /\ Len(s) \in Nat /\ 1 \in Int
  BY CasmAssumption, LenProperties
<1>2. s \in [1 .. Len(s) -> S]
  BY LenProperties
<1>3. \A k \in 1 .. n : s[k] \in S
  BY <1>1, <1>2
<1>4. SubSeq(s, 1, n) = [k \in 1 .. n |-> s[k]]
  BY <1>1 DEF SubSeq
<1>5. SubSeq(s, 1, n) \in Seq(S) /\ Len(SubSeq(s, 1, n)) = n
      /\ \A k \in 1 .. n : SubSeq(s, 1, n)[k] = s[k]
  <2> HIDE DEF n
  <2>1. SubSeq(s, 1, n) \in [1 .. n -> S]
    BY <1>3, <1>4
  <2>2. SubSeq(s, 1, n) \in Seq(S)
    BY <1>1, <2>1
  <2>3. Len(SubSeq(s, 1, n)) = n
    BY <1>1, <1>4
  <2> QED
    BY <1>4, <2>2, <2>3
<1> QED
  BY <1>5 DEF Cut

LEMMA CutFront ==
  ASSUME NEW S, NEW a \in Seq(S), NEW b \in Seq(S)
  PROVE  Cut(Cut(a) \o b) = Cut(a \o b)
<1> DEFINE u == Cut(a) \o b
           v == a \o b
<1>1. /\ Cut(a) \in Seq(S) /\ u \in Seq(S) /\ v \in Seq(S)
      /\ Len(u) = Len(Cut(a)) + Len(b) /\ Len(v) = Len(a) + Len(b)
      /\ \A k \in 1 .. Len(u) : u[k] = IF k <= Len(Cut(a)) THEN Cut(a)[k] ELSE b[k - Len(Cut(a))]
      /\ \A k \in 1 .. Len(v) : v[k] = IF k <= Len(a) THEN a[k] ELSE b[k - Len(a)]
  BY CutIs, ConcatProperties
<1>2. Len(a) \in Nat /\ Len(b) \in Nat /\ AsmEnd \in Nat
  BY CasmAssumption, LenProperties
<1>3. /\ Len(Cut(a)) = IF Len(a) < AsmEnd THEN Len(a) ELSE AsmEnd
      /\ \A k \in 1 .. Len(Cut(a)) : Cut(a)[k] = a[k]
  BY CutIs
<1> HIDE DEF u, v
<1>4. /\ Cut(u) \in Seq(S) /\ Cut(v) \in Seq(S)
      /\ Len(Cut(u)) = IF Len(u) < AsmEnd THEN Len(u) ELSE AsmEnd
      /\ Len(Cut(v)) = IF Len(v) < AsmEnd THEN Len(v) ELSE AsmEnd
      /\ \A k \in 1 .. Len(Cut(u)) : Cut(u)[k] = u[k]
      /\ \A k \in 1 .. Len(Cut(v)) : Cut(v)[k] = v[k]
  BY <1>1, CutIs
<1>5. Len(Cut(u)) = Len(Cut(v)) /\ Len(Cut(u)) \in Nat /\ Len(Cut(u)) <= AsmEnd
      /\ Len(Cut(u)) <= Len(u) /\ Len(Cut(u)) <= Len(v)
  <2> DEFINE la == Len(a)
             lb == Len(b)
             cu == IF Len(u) < AsmEnd THEN Len(u) ELSE AsmEnd
             cv == IF Len(v) < AsmEnd THEN Len(v) ELSE AsmEnd
  <2>1. la \in Nat /\ lb \in Nat /\ AsmEnd \in Nat
    BY <1>2
  <2>2. Len(v) = la + lb /\ Len(u) = (IF la < AsmEnd THEN la ELSE AsmEnd) + lb
    BY <1>1, <1>3
  <2>3. Len(Cut(u)) = cu /\ Len(Cut(v)) = cv
    BY <1>4
  <2> HIDE DEF la, lb
  <2>4. cu = cv /\ cu \in Nat /\ cu <= AsmEnd /\ cu <= Len(u) /\ cu <= Len(v)
    BY <2>1, <2>2
  <2> HIDE DEF cu, cv
  <2> QED
    BY <2>3, <2>4
<1>6. ASSUME NEW k \in 1 .. Len(Cut(u)) PROVE Cut(u)[k] = Cut(v)[k]
  <2>1. k \in 1 .. Len(u) /\ k \in 1 .. Len(v) /\ k \in 1 .. Len(Cut(v))
    BY <1>1, <1>2, <1>3, <1>5
  <2>2. CASE k <= Len(Cut(a))
    <3>1. k <= Len(a) /\ k \in 1 .. Len(Cut(a))
      BY <1>2, <1>3, <2>1, <2>2
    <3> QED
      BY <1>1, <1>3, <1>4, <2>1, <2>2, <3>1
  <2>3. CASE ~(k <= Len(Cut(a)))
    <3>1. Len(Cut(a)) = Len(a)
      BY <1>2, <1>3, <1>5, <2>1, <2>3
    <3> QED
      BY <1>1, <1>4, <2>1, <2>3, <3>1
  <2> QED
    BY <2>2, <2>3
<1>7. Cut(u) \in [1 .. Len(Cut(u)) -> S] /\ Cut(v) \in [1 .. Len(Cut(u)) -> S]
  BY <1>4, <1>5, LenProperties
<1>8. Cut(u) = Cut(v)
  BY <1>6, <1>7
<1> QED
  BY <1>8 DEF u, v

LEMMA PaddedCut ==
  ASSUME NEW S, NEW a \in Seq(S)
  PROVE  Padded(Cut(a)) = Padded(a)
<1>1. Len(a) \in Nat /\ AsmEnd \in Nat /\ DOMAIN a = 1 .. Len(a)
  BY CasmAssumption, LenProperties
<1>2. /\ Cut(a) \in Seq(S)
      /\ Len(Cut(a)) = IF Len(a) < AsmEnd THEN Len(a) ELSE AsmEnd
      /\ \A k \in 1 .. Len(Cut(a)) : Cut(a)[k] = a[k]
  BY CutIs
<1>3. DOMAIN Cut(a) = 1 .. Len(Cut(a))
  BY <1>2, LenProperties
<1>4. \A k \in 1 .. AsmEnd : k \in DOMAIN Cut(a) <=> k \in DOMAIN a
  BY <1>1, <1>2, <1>3
<1>5. \A k \in 1 .. AsmEnd : k \in DOMAIN a => Cut(a)[k] = a[k]
  BY <1>2, <1>3, <1>4
<1> QED
  BY <1>4, <1>5 DEF Padded

-----------------------------------------------------------------------------
(* A line gives a sequence of bytes.                                       *)
Values(f) == {f[k] : k \in DOMAIN f}

LEMMA InstructionsAre ==
  /\ DOMAIN Instructions \subseteq Nat
  /\ \A j \in DOMAIN Instructions : Instructions[j].operand \in Nat
<1>1. DOMAIN Instructions = 1 .. 11
  BY DEF Instructions
<1>2. \A j \in 1 .. 11 : Instructions[j].operand \in Nat
  <2>1. /\ Instructions[1].operand = 4 /\ Instructions[2].operand = 1
        /\ Instructions[3].operand = 1 /\ Instructions[4].operand = 1
    BY DEF Instructions, Instruction
  <2>2. /\ Instructions[5].operand = 0 /\ Instructions[6].operand = 0
        /\ Instructions[7].operand = 0 /\ Instructions[8].operand = 0
    BY DEF Instructions, Instruction
  <2>3. /\ Instructions[9].operand = 0 /\ Instructions[10].operand = 0
        /\ Instructions[11].operand = 0
    BY DEF Instructions, Instruction
  <2>4. \A j \in 1 .. 11 :
          j \in {1, 2, 3, 4} \/ j \in {5, 6, 7, 8} \/ j \in {9, 10, 11}
    OBVIOUS
  <2> QED
    BY <2>1, <2>2, <2>3, <2>4
<1> QED
  BY <1>1, <1>2

LEMMA LineGivesBytes ==
  ASSUME NEW line
  PROVE  assemble_line(line) \in Seq(Values(assemble_line(line)))
<1> DEFINE found == {j \in DOMAIN Instructions : Contains(line, Instructions[j].name)}
           first == CHOOSE j \in found : \A y \in found : j <= y
           place == CHOOSE p \in DOMAIN line :
                          /\ line[p] = Instructions[first].name
                          /\ \A q \in 1 .. p - 1 : line[q] # line[p]
           value == atoi(SubSeq(line, place + 1, Len(line)))
           bytes == Bytes(value, Instructions[first].operand)
<1>1. CASE found = {}
  <2>1. assemble_line(line) = <<>>
    BY <1>1 DEF assemble_line
  <2> QED
    BY <2>1
<1>2. CASE found # {}
  <2>1. assemble_line(line) = <<Instructions[first].code>> \o bytes
    BY <1>2 DEF assemble_line
  <2>2. first \in found
    <3>1. found \in SUBSET Nat
      BY InstructionsAre
    <3> HIDE DEF found
    <3>2. \E j \in found : \A y \in found : j <= y
      BY <1>2, <3>1, LeastNatural
    <3> QED
      BY <3>2
  <2>3. first \in DOMAIN Instructions
    BY <2>2
  <2> HIDE DEF first, value
  <2>4. Instructions[first].operand \in Nat
    BY <2>3, InstructionsAre
  <2> DEFINE n == Instructions[first].operand
             V == {(value \div 256 ^ (k - 1)) % 256 : k \in 1 .. n}
             S == V \union {Instructions[first].code}
  <2>5. bytes \in [1 .. n -> S]
    BY DEF Bytes
  <2>6. bytes \in Seq(S)
    <3> HIDE DEF S, bytes
    <3> QED
      BY <2>4, <2>5
  <2>7. <<Instructions[first].code>> \in Seq(S)
    OBVIOUS
  <2> HIDE DEF S, bytes
  <2>8. assemble_line(line) \in Seq(S)
    BY <2>1, <2>6, <2>7
  <2>9. assemble_line(line) \in [1 .. Len(assemble_line(line)) -> Values(assemble_line(line))]
        /\ Len(assemble_line(line)) \in Nat
    BY <2>8, LenProperties DEF Values
  <2> QED
    BY <2>9
<1> QED
  BY <1>1, <1>2

LEMMA SeqInMore ==
  ASSUME NEW S, NEW T, S \subseteq T, NEW s \in Seq(S)
  PROVE  s \in Seq(T)
<1>1. s \in [1 .. Len(s) -> S] /\ Len(s) \in Nat
  BY LenProperties
<1>2. s \in [1 .. Len(s) -> T]
  BY <1>1
<1> QED
  BY <1>1, <1>2

-----------------------------------------------------------------------------
(* The places of the line that is being read.                              *)
Sofar(text, k) == {j \in Places(text, Before(text, k + 1) + 1) : j <= k}

LEMMA SofarIs ==
  ASSUME NEW X, NEW text \in Seq(X)
  PROVE  /\ Sofar(text, 0) = {}
         /\ \A k \in 0 .. Len(text) :
              /\ Sofar(text, k) \in SUBSET Nat /\ IsFiniteSet(Sofar(text, k))
              /\ \A j \in Sofar(text, k) : j < k + 1
         /\ \A k \in 1 .. Len(text) :
              /\ text[k] \in Separators =>
                   /\ Sofar(text, k) = {}
                   /\ Sofar(text, k - 1) = Places(text, Before(text, k) + 1)
              /\ text[k] \notin Separators /\ text[k] = "\r" =>
                   Sofar(text, k) = Sofar(text, k - 1)
              /\ text[k] \notin Separators /\ text[k] # "\r" =>
                   Sofar(text, k) = Sofar(text, k - 1) \union {k}
         /\ Sofar(text, Len(text)) = Places(text, Before(text, Len(text) + 1) + 1)
<1> DEFINE n == Len(text)
           B(k) == Before(text, k)
           Kept(j) == text[j] \notin Separators \union {"\r"}
<1>1. n \in Nat /\ DOMAIN text = 1 .. n
  BY LenProperties
<1>2. /\ \A k \in 1 .. n + 1 : k \in Nat \ {0} /\ B(k) \in Nat
      /\ \A k \in 1 .. n : B(k + 1) = IF text[k] \in Separators THEN B(k) + 1 ELSE B(k)
      /\ \A h, k \in 1 .. n + 1 : h <= k => B(h) <= B(k)
  <2>1. \A k \in 1 .. n + 1 : k \in Nat \ {0}
    BY <1>1
  <2>2. \A k \in 1 .. n : k \in 1 .. n + 1
    BY <1>1
  <2> HIDE DEF n
  <2> QED
    BY <2>1, <2>2, BeforeIs
<1>3. \A k \in 0 .. n : Sofar(text, k) = {j \in 1 .. n : Kept(j) /\ B(j) = B(k + 1) /\ j <= k}
  <2> SUFFICES ASSUME NEW k \in 0 .. n
               PROVE  Sofar(text, k) = {j \in 1 .. n : Kept(j) /\ B(j) = B(k + 1) /\ j <= k}
    OBVIOUS
  <2>1. \A j \in 1 .. n : B(j) + 1 = B(k + 1) + 1 <=> B(j) = B(k + 1)
    <3>1. \A j \in 1 .. n : B(j) \in Nat
      BY <1>1, <1>2
    <3>2. B(k + 1) \in Nat
      BY <1>1, <1>2
    <3> HIDE DEF B, n
    <3> QED
      BY <3>1, <3>2
  <2> HIDE DEF n
  <2> QED
    BY <1>1, <2>1 DEF Sofar, Places
<1>4. \A k \in 1 .. n + 1 : Places(text, B(k) + 1) = {j \in 1 .. n : Kept(j) /\ B(j) = B(k)}
  <2>1. \A j \in 1 .. n : \A k \in 1 .. n + 1 : B(j) + 1 = B(k) + 1 <=> B(j) = B(k)
    <3>1. \A j \in 1 .. n : j \in 1 .. n + 1
      BY <1>1
    <3>2. \A k \in 1 .. n + 1 : B(k) \in Nat
      BY <1>1, <1>2
    <3> HIDE DEF B, n
    <3> QED
      BY <3>1, <3>2
  <2> HIDE DEF n
  <2> QED
    BY <1>1, <2>1 DEF Places
<1> HIDE DEF B, n, Kept
<1>5. Sofar(text, 0) = {}
  BY <1>1, <1>3
<1>6. ASSUME NEW k \in 0 .. n
      PROVE  /\ Sofar(text, k) \in SUBSET Nat /\ IsFiniteSet(Sofar(text, k))
             /\ \A j \in Sofar(text, k) : j < k + 1
  <2>1. Sofar(text, k) \in SUBSET (1 .. n)
    BY <1>3
  <2>2. IsFiniteSet(1 .. n)
    BY <1>1, FS_Interval
  <2>3. IsFiniteSet(Sofar(text, k))
    BY <2>1, <2>2, FS_Subset
  <2>4. \A j \in Sofar(text, k) : j \in 1 .. n /\ j <= k
    BY <1>3
  <2> QED
    BY <1>1, <2>1, <2>3, <2>4
<1>7. ASSUME NEW k \in 1 .. n
      PROVE  /\ text[k] \in Separators =>
                  /\ Sofar(text, k) = {}
                  /\ Sofar(text, k - 1) = Places(text, B(k) + 1)
             /\ text[k] \notin Separators /\ text[k] = "\r" =>
                  Sofar(text, k) = Sofar(text, k - 1)
             /\ text[k] \notin Separators /\ text[k] # "\r" =>
                  Sofar(text, k) = Sofar(text, k - 1) \union {k}
  <2>1. k \in 1 .. n + 1 /\ k + 1 \in 1 .. n + 1 /\ k \in 0 .. n /\ k - 1 \in 0 .. n
        /\ (k - 1) + 1 = k
    BY <1>1
  <2>2. Sofar(text, k) = {j \in 1 .. n : Kept(j) /\ B(j) = B(k + 1) /\ j <= k}
    BY <1>3, <2>1
  <2>3. Sofar(text, k - 1) = {j \in 1 .. n : Kept(j) /\ B(j) = B(k) /\ j <= k - 1}
    BY <1>3, <2>1
  <2>4. \A j \in 1 .. n : j \in 1 .. n + 1 /\ B(j) \in Nat
    BY <1>1, <1>2
  <2>5. \A j \in 1 .. n : (j <= k <=> j <= k - 1 \/ j = k) /\ (j <= k \/ k + 1 <= j)
    BY <1>1
  <2>6. CASE text[k] \in Separators
    <3>1. B(k + 1) = B(k) + 1 /\ B(k) \in Nat
      BY <1>2, <2>1, <2>6
    <3>2. ~Kept(k)
      BY <2>6 DEF Kept
    <3>3. \A j \in 1 .. n : j <= k => B(j) <= B(k)
      BY <1>2, <2>1, <2>4
    <3>4. \A j \in 1 .. n : k + 1 <= j => B(k + 1) <= B(j)
      BY <1>2, <2>1, <2>4
    <3>5. \A j \in 1 .. n : j <= k => B(j) # B(k + 1)
      BY <2>4, <3>1, <3>3
    <3>6. \A j \in 1 .. n : k + 1 <= j => B(j) # B(k)
      BY <2>4, <3>1, <3>4
    <3>7. Sofar(text, k) = {}
      BY <2>2, <3>5
    <3>8. \A j \in 1 .. n : Kept(j) /\ B(j) = B(k) => j <= k - 1
      BY <2>5, <3>2, <3>6
    <3>9. Sofar(text, k - 1) = Places(text, B(k) + 1)
      BY <1>4, <2>1, <2>3, <3>8
    <3> QED
      BY <2>6, <3>7, <3>9
  <2>7. CASE text[k] \notin Separators
    <3>1. B(k + 1) = B(k)
      BY <1>2, <2>7
    <3>2. Kept(k) <=> text[k] # "\r"
      BY <2>7 DEF Kept
    <3>3. ~Kept(k) => Sofar(text, k) = Sofar(text, k - 1)
      BY <2>2, <2>3, <2>5, <3>1
    <3>4. Kept(k) => Sofar(text, k) = Sofar(text, k - 1) \union {k}
      BY <2>2, <2>3, <2>5, <3>1
    <3> QED
      BY <2>7, <3>2, <3>3, <3>4
  <2> QED
    BY <2>6, <2>7
<1>8. Sofar(text, n) = Places(text, B(n + 1) + 1)
  <2>1. n \in 0 .. n /\ \A j \in 1 .. n : j <= n
    BY <1>1
  <2>2. Sofar(text, n) = {j \in 1 .. n : Kept(j) /\ B(j) = B(n + 1) /\ j <= n}
    BY <1>3, <2>1
  <2>3. Places(text, B(n + 1) + 1) = {j \in 1 .. n : Kept(j) /\ B(j) = B(n + 1)}
    BY <1>1, <1>4
  <2> QED
    BY <2>1, <2>2, <2>3
<1> QED
  BY <1>5, <1>6, <1>7, <1>8 DEF n, B
-----------------------------------------------------------------------------
LineCount(text) == Before(text, Len(text) + 1) + 1
Rows(text) == [line \in 1 .. LineCount(text) |-> CodeOf(text, line)]
RowsBytes(text) == UNION {Values(CodeOf(text, line)) : line \in 1 .. LineCount(text)}

LEMMA RowsAre ==
  ASSUME NEW X, NEW text \in Seq(X),
         NEW g, g[1] = Rows(text)[1],
         \A j \in 2 .. LineCount(text) : g[j] = g[j - 1] \o Rows(text)[j]
  PROVE  /\ LineCount(text) \in Nat \ {0}
         /\ \A j \in 1 .. LineCount(text) :
              /\ Rows(text)[j] = CodeOf(text, j)
              /\ CodeOf(text, j) \in Seq(RowsBytes(text))
              /\ g[j] \in Seq(RowsBytes(text))
<1> DEFINE m == LineCount(text)
           V == RowsBytes(text)
<1>1. m \in Nat \ {0}
  <2>1. Len(text) + 1 \in Nat \ {0}
    BY LenProperties
  <2>2. Before(text, Len(text) + 1) \in Nat
    BY <2>1, BeforeIs
  <2> QED
    BY <2>2 DEF LineCount
<1>2. \A j \in 1 .. m : Rows(text)[j] = CodeOf(text, j)
  BY DEF Rows
<1>3. ASSUME NEW j \in 1 .. m PROVE CodeOf(text, j) \in Seq(V)
  <2>1. CodeOf(text, j) \in Seq(Values(CodeOf(text, j)))
    BY LineGivesBytes DEF CodeOf
  <2>2. Values(CodeOf(text, j)) \subseteq V
    BY DEF RowsBytes
  <2> QED
    BY <2>1, <2>2, SeqInMore
<1> HIDE DEF V, m
<1> DEFINE S == {j \in Nat : j + 1 \in 1 .. m => g[j + 1] \in Seq(V)}
<1>4. 0 \in S
  <2>1. 1 \in 1 .. m
    BY <1>1
  <2>2. g[1] \in Seq(V)
    BY <1>2, <1>3, <2>1
  <2> QED
    BY <2>2
<1>5. ASSUME NEW j \in Nat, j \in S PROVE j + 1 \in S
  <2>1. SUFFICES ASSUME (j + 1) + 1 \in 1 .. m PROVE g[(j + 1) + 1] \in Seq(V)
    OBVIOUS
  <2>2. j + 1 \in 1 .. m /\ (j + 1) + 1 \in 2 .. m /\ ((j + 1) + 1) - 1 = j + 1
    BY <1>1, <2>1
  <2>3. g[j + 1] \in Seq(V)
    BY <1>5, <2>2
  <2>4. g[(j + 1) + 1] = g[j + 1] \o CodeOf(text, (j + 1) + 1)
    BY <1>2, <2>1, <2>2 DEF m
  <2>5. CodeOf(text, (j + 1) + 1) \in Seq(V)
    BY <1>3, <2>1
  <2> QED
    BY <2>3, <2>4, <2>5, ConcatProperties
<1>6. Nat \subseteq S
  <2> HIDE DEF S
  <2> QED
    BY <1>4, <1>5, Upwards
<1>7. ASSUME NEW j \in 1 .. m PROVE g[j] \in Seq(V)
  <2>1. j - 1 \in Nat /\ (j - 1) + 1 = j
    BY <1>1
  <2> QED
    BY <1>6, <2>1
<1> QED
  BY <1>1, <1>2, <1>3, <1>7 DEF m, V

(* A line's bytes behind the bytes of the lines before it.                 *)
LEMMA EmitIs ==
  ASSUME NEW X, NEW text \in Seq(X),
         NEW g, g[1] = Rows(text)[1],
         \A j \in 2 .. LineCount(text) : g[j] = g[j - 1] \o Rows(text)[j],
         NEW c \in 0 .. LineCount(text) - 1
  PROVE  emit_asm(IF c = 0 THEN <<>> ELSE Cut(g[c]), CodeOf(text, c + 1)) = Cut(g[c + 1])
<1> DEFINE V == RowsBytes(text)
<1>1. /\ LineCount(text) \in Nat \ {0}
      /\ \A j \in 1 .. LineCount(text) : /\ Rows(text)[j] = CodeOf(text, j)
                                  /\ CodeOf(text, j) \in Seq(V)
                                  /\ g[j] \in Seq(V)
  BY RowsAre
<1>2. \A out, bytes : emit_asm(out, bytes) = Cut(out \o bytes)
  BY DEF emit_asm, Cut
<1> HIDE DEF V
<1>3. c + 1 \in 1 .. LineCount(text)
  BY <1>1
<1>4. CASE c = 0
  <2>1. CodeOf(text, 1) \in Seq(V) /\ g[1] = CodeOf(text, 1) /\ c + 1 = 1
    BY <1>1, <1>3, <1>4
  <2>2. <<>> \o CodeOf(text, 1) = CodeOf(text, 1)
    BY <2>1, ConcatEmptySeq
  <2> QED
    BY <1>2, <1>4, <2>1, <2>2
<1>5. CASE c # 0
  <2>1. c \in 1 .. LineCount(text) /\ c + 1 \in 2 .. LineCount(text) /\ (c + 1) - 1 = c
    BY <1>1, <1>3, <1>5
  <2>2. g[c] \in Seq(V) /\ CodeOf(text, c + 1) \in Seq(V)
    BY <1>1, <1>3, <2>1
  <2>3. g[c + 1] = g[c] \o CodeOf(text, c + 1)
    BY <1>1, <1>3, <2>1
  <2> QED
    BY <1>2, <1>5, <2>2, <2>3, CutFront
<1> QED
  BY <1>4, <1>5

(* What assemble_to_bin writes is the lines' instructions.                 *)
LEMMA AssemblesByLines ==
  ASSUME NEW X, NEW text \in Seq(X)
  PROVE  assemble_to_bin(text) = ByLines(text)
<1> DEFINE n == Len(text)
           B(k) == Before(text, k)
           m == LineCount(text)
<1>1. n \in Nat
  BY LenProperties
<1>2. PICK A : /\ A[0] = Start
               /\ \A k \in 1 .. n : A[k] = Assembled(A[k - 1], text[k])
               /\ FoldLeft(Assembled, Start, text) = A[n]
  BY FoldIs
<1>3. m \in Nat \ {0} /\ Len(Rows(text)) = m
  <2>1. m \in Nat \ {0}
    <3>1. Len(text) + 1 \in Nat \ {0}
      BY LenProperties
    <3>2. Before(text, Len(text) + 1) \in Nat
      BY <3>1, BeforeIs
    <3> QED
      BY <3>2 DEF LineCount
  <2> HIDE DEF m
  <2>2. Rows(text) = [line \in 1 .. m |-> CodeOf(text, line)]
    BY DEF Rows, m
  <2> QED
    BY <2>1, <2>2
<1>4. PICK g : /\ g[1] = Rows(text)[1]
               /\ \A j \in 2 .. m : g[j] = g[j - 1] \o Rows(text)[j]
               /\ FlattenSeq(Rows(text)) = g[m]
  BY <1>3, FlatIs
<1>5. /\ \A k \in 1 .. n + 1 : B(k) \in Nat /\ B(k) <= B(n + 1)
      /\ \A k \in 1 .. n : B(k + 1) = IF text[k] \in Separators THEN B(k) + 1 ELSE B(k)
      /\ B(1) = 0 /\ m = B(n + 1) + 1
  <2>1. \A k \in 1 .. n + 1 : k \in Nat \ {0} /\ k <= n + 1 /\ n + 1 \in Nat \ {0}
    BY <1>1
  <2>2. \A k \in 1 .. n : k \in 1 .. n + 1
    BY <1>1
  <2>3. m = B(n + 1) + 1
    BY DEF LineCount
  <2> HIDE DEF n, m
  <2> QED
    BY <2>1, <2>2, <2>3, BeforeIs
<1>6. \A c \in 0 .. m - 1 :
        emit_asm(IF c = 0 THEN <<>> ELSE Cut(g[c]), CodeOf(text, c + 1)) = Cut(g[c + 1])
  BY <1>4, EmitIs
<1> DEFINE Out(k) == IF B(k + 1) = 0 THEN <<>> ELSE Cut(g[B(k + 1)])
           S == {k \in Nat : k <= n => A[k] = [line |-> LineAt(text, Sofar(text, k)), out |-> Out(k)]}
<1>7. 0 \in S
  <2>1. Sofar(text, 0) = {} /\ LineAt(text, {}) = <<>>
    BY SofarIs, LineAtNone
  <2>2. Out(0) = <<>>
    BY <1>5
  <2> HIDE DEF Out
  <2> QED
    BY <1>2, <2>1, <2>2 DEF Start
<1>8. ASSUME NEW p \in Nat, p \in S PROVE p + 1 \in S
  <2> DEFINE k == p + 1
             line == LineAt(text, Sofar(text, p))
  <2>1. SUFFICES ASSUME k <= n PROVE A[k] = [line |-> LineAt(text, Sofar(text, k)), out |-> Out(k)]
    OBVIOUS
  <2>2. k \in 1 .. n /\ k - 1 = p /\ p \in 0 .. n /\ p <= n
    BY <1>1, <2>1
  <2>3. A[p] = [line |-> line, out |-> Out(p)]
    BY <1>8, <2>2
  <2>4. A[k] = Assembled(A[p], text[k])
    BY <1>2, <2>2
  <2>5. k \in 1 .. n + 1 /\ B(k) \in Nat /\ Out(p) = IF B(k) = 0 THEN <<>> ELSE Cut(g[B(k)])
    BY <1>1, <1>5, <2>2
  <2> HIDE DEF k, n, B, m, line
  <2>6. CASE text[k] \in Separators
    <3>1. Sofar(text, k) = {} /\ Sofar(text, p) = Places(text, B(k) + 1)
      BY <2>2, <2>6, SofarIs DEF n, B
    <3>2. LineAt(text, Sofar(text, k)) = <<>>
      BY <3>1, LineAtNone
    <3>3. assemble_line(line) = CodeOf(text, B(k) + 1)
      BY <3>1 DEF CodeOf, line
    <3>4. B(k + 1) = B(k) + 1 /\ B(k + 1) <= B(n + 1) /\ B(n + 1) \in Nat
      <4>1. k + 1 \in 1 .. n + 1 /\ n + 1 \in 1 .. n + 1
        BY <1>1, <2>2
      <4> QED
        BY <1>5, <2>2, <2>6, <4>1
    <3>5. B(k) \in 0 .. m - 1 /\ B(k + 1) # 0
      BY <1>5, <2>5, <3>4
    <3>6. Out(k) = emit_asm(Out(p), assemble_line(line))
      <4>1. Out(k) = Cut(g[B(k) + 1])
        BY <3>4, <3>5
      <4> HIDE DEF Out
      <4> QED
        BY <1>6, <2>5, <3>3, <3>5, <4>1
    <3> HIDE DEF Out
    <3> QED
      BY <2>3, <2>4, <2>6, <3>2, <3>6 DEF Assembled
  <2>7. CASE text[k] \notin Separators
    <3>1. Out(k) = Out(p)
      <4>1. B(k + 1) = B(k)
        BY <1>5, <2>2, <2>7
      <4> QED
        BY <2>5, <4>1
    <3> HIDE DEF Out
    <3>2. CASE text[k] = "\r"
      <4>1. Sofar(text, k) = Sofar(text, p)
        BY <2>2, <2>7, <3>2, SofarIs DEF n
      <4> QED
        BY <2>3, <2>4, <2>7, <3>1, <3>2, <4>1 DEF Assembled, line
    <3>3. CASE text[k] # "\r"
      <4>1. Sofar(text, k) = Sofar(text, p) \union {k}
        BY <2>2, <2>7, <3>3, SofarIs DEF n
      <4>2. /\ Sofar(text, p) \in SUBSET Nat /\ IsFiniteSet(Sofar(text, p))
            /\ \A j \in Sofar(text, p) : j < k
        BY <2>2, SofarIs DEF n, k
      <4>3. k \in Nat
        BY <1>1, <2>2
      <4>4. LineAt(text, Sofar(text, k)) = IF Len(line) = LineEnd THEN line
                                           ELSE Append(line, text[k])
        BY <4>1, <4>2, <4>3, LineAtMore DEF line
      <4>5. CASE Len(line) = LineEnd
        BY <2>3, <2>4, <2>7, <3>1, <4>4, <4>5 DEF Assembled
      <4>6. CASE Len(line) # LineEnd
        <5>1. A[k] = [A[p] EXCEPT !.line = Append(@, text[k])]
          BY <2>3, <2>4, <2>7, <3>3, <4>6 DEF Assembled
        <5> DEFINE longer == Append(line, text[k])
        <5>2. A[p].line = line
          BY <2>3
        <5>3. A[k] = [A[p] EXCEPT !.line = longer]
          BY <5>1, <5>2
        <5> HIDE DEF longer
        <5>4. A[k] = [line |-> longer, out |-> Out(p)]
          BY <2>3, <5>3
        <5> QED
          BY <3>1, <4>4, <4>6, <5>4 DEF longer
      <4> QED
        BY <4>5, <4>6
    <3> QED
      BY <3>2, <3>3
  <2> QED
    BY <2>6, <2>7
<1>9. A[n] = [line |-> LineAt(text, Sofar(text, n)), out |-> Out(n)]
  <2>1. Nat \subseteq S
    <3> HIDE DEF S
    <3> QED
      BY <1>7, <1>8, Upwards
  <2> HIDE DEF Out, n
  <2> QED
    BY <1>1, <2>1
<1>10. emit_asm(A[n].out, assemble_line(A[n].line)) = Cut(g[m])
  <2>1. Sofar(text, n) = Places(text, B(n + 1) + 1)
    BY SofarIs
  <2>2. assemble_line(A[n].line) = CodeOf(text, B(n + 1) + 1)
    BY <1>9, <2>1 DEF CodeOf
  <2>3. A[n].out = IF B(n + 1) = 0 THEN <<>> ELSE Cut(g[B(n + 1)])
    BY <1>9
  <2> HIDE DEF n, B, m
  <2>4. B(n + 1) \in 0 .. m - 1
    <3>1. n + 1 \in 1 .. n + 1
      BY <1>1
    <3>2. B(n + 1) \in Nat
      BY <1>5, <3>1
    <3> QED
      BY <1>5, <3>2
  <2> QED
    BY <1>5, <1>6, <2>2, <2>3, <2>4
<1>11. Padded(Cut(g[m])) = Padded(g[m])
  <2>1. m \in 1 .. m
    BY <1>3
  <2>2. g[m] \in Seq(RowsBytes(text))
    BY <1>4, <2>1, RowsAre
  <2> HIDE DEF m
  <2> QED
    BY <2>2, PaddedCut
<1>12. ByLines(text) = Padded(g[m])
  BY <1>4 DEF ByLines, Rows, LineCount
<1>13. assemble_to_bin(text) = Padded(emit_asm(A[n].out, assemble_line(A[n].line)))
  BY <1>2 DEF assemble_to_bin, Start
<1> QED
  BY <1>10, <1>11, <1>12, <1>13

(* The assembler gives, for each line of a saved text in turn, its         *)
(* instruction, and nothing else (casm.c 15-125).                          *)
THEOREM AssembledByLinesHolds == EditorSpec => []AssembledByLines
<1>1. EditorInv => AssembledByLines
  BY AssemblesByLines DEF EditorInv, AssembledByLines
<1>2. QED
  BY EditorInitInv, EditorStepInv, <1>1, PTL DEF EditorSpec
=============================================================================
