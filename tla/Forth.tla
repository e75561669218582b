------------------------------- MODULE Forth -------------------------------
(***************************************************************************)
(* The interpreter of usr/forth/forth.c, a task that the forth command,    *)
(* the start of the kernel and the handler of a crash create: its stack in *)
(* blocks of the heap, which may have none left, and the text it reads,    *)
(* which is the kernel's one buffer content and may be written by the      *)
(* shell while it is read.                                                 *)
(*                                                                         *)
(* A word is one step: what its C function does touches memory that only   *)
(* this interpreter has, but for "!", which writes one place anywhere.     *)
(* Interpreters whose stack could not be allocated have address 0 in       *)
(* common; lost remembers them.  Text is a row of tokens and the command   *)
(* reads only the first Chunk of a file (16 bytes).  Once a struct Stack   *)
(* or the kernel itself has been written over, astray is TRUE: who reads   *)
(* goes on reading, and what else the damage does is not followed.         *)
(***************************************************************************)
EXTENDS Words, FiniteSets

CONSTANTS
  Interpreters,
  InitialSize, Growth,   (* 1024 and 32                                    *)
  Blocks, NULL,          (* addresses of the heap, and 0                   *)
  Cells, Chunk,          (* the length of content, and of what is read     *)
  Programs, Lines,       (* the files, and what is typed into content      *)
  Scraps                 (* what a stored integer may make of its cell     *)

(* A token is a word or a number, which is read without its sign.          *)
OtherWords == {"@", "!", ".", "CR", "unknown"}

Token == [word : Operators \union OtherWords, value : {0}]
           \union [word : {"number"}, value : Nat]

Tokens == UNION {{p[k] : k \in DOMAIN p} : p \in Programs \union Lines}

End == [word |-> "end", value |-> 0]         (* '\0'                       *)

ASSUME ForthAssumption ==
  /\ Half \in Nat \ {0} /\ InitialSize \in Nat \ {0} /\ Growth \in Nat \ {0}
  /\ NULL \notin Blocks /\ Cells \in Nat /\ Chunk \in 1 .. Cells - 1
  /\ IsFiniteSet(Interpreters)
  /\ \A p \in Programs \union Lines : p \in Seq(Token) /\ Len(p) < Cells
  /\ Scraps \subseteq Tokens \union {End}

VARIABLES
  content,        (* the cells of the text                                 *)
  cut,            (* cells behind which next_token wrote '\0'              *)
  state,          (* of each interpreter: "none", "ready", "run", "ended", *)
                  (* "killed" by a fault, "wild" without a struct Stack    *)
  ptr,            (* the cell it reads next                                *)
  data, size, sp, (* its struct Stack                                      *)
  memory,         (* what is at each address                               *)
  used,           (* the blocks that are allocated for stacks              *)
  program,        (* history: the file it was started with                 *)
  done,           (* history: the tokens it has carried out                *)
  astray,         (* history: whether more than elements and text has been *)
                  (* written over                                          *)
  lost,           (* history: interpreters that have their stack in        *)
                  (* common, or, once astray, all                          *)
  alone           (* history: whether the forth command started it, and no *)
                  (* other task has read or written content since          *)

text == <<content, cut>>
stacks == <<data, size, sp>>
heap == <<memory, used>>
runs == <<program, done, alone>>
forthVars == <<text, state, ptr, stacks, heap, runs, lost, astray>>

ForthInit ==
  /\ content = [k \in 1 .. Cells |-> End] /\ cut = {}
  /\ state = [i \in Interpreters |-> "none"]
  /\ ptr = [i \in Interpreters |-> 1]
  /\ data = [i \in Interpreters |-> NULL] /\ size = [i \in Interpreters |-> 0]
  /\ sp = [i \in Interpreters |-> -1]
  /\ memory = [b \in Blocks \union {NULL} |-> <<>>] /\ used = {}
  /\ program = [i \in Interpreters |-> <<>>]
  /\ done = [i \in Interpreters |-> <<>>]
  /\ alone = [i \in Interpreters |-> TRUE]
  /\ lost = {} /\ astray = FALSE

(***************************************************************************)
(* The shell's writes to content.                                          *)
(***************************************************************************)
(* Mutated: only the bytes of the file are written.                        *)
LoadUnpadded(p) ==
  /\ content' = [k \in 1 .. Cells |->
                   IF k <= Chunk /\ k \in DOMAIN p THEN p[k] ELSE content[k]]
  /\ cut' = cut \ (1 .. Chunk)

(* What is read of a file ends with it, and beyond that are zeros.         *)
Load(p) ==
  /\ content' = [k \in 1 .. Cells |->
                   IF k > Chunk THEN content[k]
                   ELSE IF k \in DOMAIN p THEN p[k] ELSE End]
  /\ cut' = cut \ (1 .. Chunk)

Reads(i) == state[i] \in {"ready", "run", "wild"}

Disturbs == alone' = [i \in Interpreters |-> alone[i] /\ ~Reads(i)]

(* The forth command.                                                      *)
Start(i, p) ==
  /\ state[i] = "none"
  /\ Load(p)
  /\ state' = [state EXCEPT ![i] = "ready"]
  /\ program' = [program EXCEPT ![i] = p]
  /\ alone' = [j \in Interpreters |->
                 alone[j] /\ (IF j = i THEN \A k \in Interpreters : ~Reads(k)
                              ELSE ~Reads(j))]
  /\ UNCHANGED <<ptr, stacks, heap, done, lost, astray>>

(* The start of the kernel (init.c 90) and the handler of a crash (idt.c   *)
(* 71), which load nothing.                                                *)
create_task(i) ==
  /\ state[i] = "none" /\ state' = [state EXCEPT ![i] = "ready"]
  /\ alone' = [j \in Interpreters |-> j # i /\ alone[j] /\ ~Reads(j)]
  /\ UNCHANGED <<text, ptr, stacks, heap, program, done, lost, astray>>

(* The line for a new file of the file window.                             *)
TypeLine(p) ==
  /\ content' = [k \in 1 .. Cells |->
                   IF k \in DOMAIN p THEN p[k]
                   ELSE IF k = Len(p) + 1 THEN End ELSE content[k]]
  /\ cut' = cut \ DOMAIN p
  /\ Disturbs
  /\ UNCHANGED <<state, ptr, stacks, heap, program, done, lost, astray>>

(* touch, which writes zeros to all of it.                                 *)
content_clear ==
  /\ content' = [k \in 1 .. Cells |-> End] /\ cut' = {}
  /\ Disturbs
  /\ UNCHANGED <<state, ptr, stacks, heap, program, done, lost, astray>>

(***************************************************************************)
(* Allocation: a block that is free, or NULL.                              *)
(***************************************************************************)
kmalloc(b) == b \in (Blocks \ used) \union {NULL}

AtNull(d) == {i \in Interpreters : state'[i] = "run" /\ d[i] = NULL}

Loses(d) == lost' = lost \union (IF Cardinality(AtNull(d)) > 1 THEN AtNull(d)
                                 ELSE {})

(* What stack_init and interpret set, the struct Stack apart.              *)
Opens(i) ==
  /\ \E b \in Blocks \union {NULL} :
       /\ kmalloc(b)
       /\ data' = [data EXCEPT ![i] = b] /\ used' = used \union ({b} \ {NULL})
  /\ size' = [size EXCEPT ![i] = InitialSize]
  /\ sp' = [sp EXCEPT ![i] = -1] /\ ptr' = [ptr EXCEPT ![i] = 1]
  /\ UNCHANGED <<text, memory, runs>>

stack_init(i) ==
  /\ state[i] = "ready" /\ state' = [state EXCEPT ![i] = "run"]
  /\ Opens(i) /\ Loses(data')
  /\ UNCHANGED astray

GoesAstray == astray' = TRUE /\ lost' = Interpreters

(* The struct itself is not allocated and is at address 0, where its       *)
(* elements are too: a push writes over its data pointer, and what follows *)
(* may write anywhere.                                                     *)
stack_init_fails(i) ==
  /\ state[i] = "ready" /\ state' = [state EXCEPT ![i] = "wild"]
  /\ Opens(i) /\ GoesAstray

(***************************************************************************)
(* The stack.  Elements are numbered from 0 in C, from 1 here.             *)
(***************************************************************************)
Longer(a, b) == IF Len(a) > Len(b) THEN Len(a) ELSE Len(b)

(* Cells written over what was there.                                      *)
Over(new, old) ==
  [k \in 1 .. Longer(new, old) |-> IF k \in DOMAIN new THEN new[k] ELSE old[k]]

(* The elements st->data[0 .. st->sp].                                     *)
Elements(i) == [k \in 1 .. sp[i] + 1 |-> memory[data[i]][k]]

(* Mutated: an empty stack is popped like any other.                       *)
PoppedUnchecked(i, n) == sp[i] - n

Popped(i, n) == IF sp[i] + 1 < n THEN -1 ELSE sp[i] - n

Kept(i, top) == SubSeq(memory[data[i]], 1, top + 1)

(* Mutated: the old block is not freed.                                    *)
stack_pushKeeping(i, top, v) ==
  IF top # size[i] - 1
  THEN /\ memory' =
            [memory EXCEPT ![data[i]] = Over(Append(Kept(i, top), v), @)]
       /\ sp' = [sp EXCEPT ![i] = top + 1]
       /\ UNCHANGED <<data, size, used, lost>>
  ELSE \E b \in Blocks \union {NULL} :
         /\ kmalloc(b)
         /\ memory' = [memory EXCEPT ![b] = Over(Append(Kept(i, top), v), @)]
         /\ used' = used \union ({b} \ {NULL})
         /\ data' = [data EXCEPT ![i] = b] /\ Loses(data')
         /\ size' = [size EXCEPT ![i] = @ + Growth]
         /\ sp' = [sp EXCEPT ![i] = top + 1]

(* stack_push after the stack was popped down to top; a full stack is      *)
(* copied to a larger block, if there is one, and its block is freed.      *)
stack_push(i, top, v) ==
  IF top # size[i] - 1
  THEN /\ memory' =
            [memory EXCEPT ![data[i]] = Over(Append(Kept(i, top), v), @)]
       /\ sp' = [sp EXCEPT ![i] = top + 1]
       /\ UNCHANGED <<data, size, used, lost>>
  ELSE \E b \in Blocks \union {NULL} :
         /\ kmalloc(b)
         /\ memory' = [memory EXCEPT ![b] = Over(Append(Kept(i, top), v), @)]
         /\ used' = (used \ {data[i]}) \union ({b} \ {NULL})
         /\ data' = [data EXCEPT ![i] = b] /\ Loses(data')
         /\ size' = [size EXCEPT ![i] = @ + Growth]
         /\ sp' = [sp EXCEPT ![i] = top + 1]

stack_pop(i, n) ==
  /\ sp' = [sp EXCEPT ![i] = Popped(i, n)]
  /\ UNCHANGED <<data, size, heap, lost>>

Execute(i, token) ==
  LET s == Elements(i)
  IN  \/ /\ token.word \in Operators
         /\ ~MayFault(s, token)
         /\ stack_push(i, Popped(i, 2),
                       Binary(token.word, Top(s, 2), Top(s, 1)))
      \/ /\ token.word = "number"
         /\ stack_push(i, sp[i], Wrap(token.value))
      \/ /\ token.word = "@"
         /\ \E n \in Ints : stack_push(i, Popped(i, 1), n)
      \/ token.word = "." /\ stack_pop(i, 1)
      \/ token.word \in {"CR", "unknown"} /\ UNCHANGED <<stacks, heap, lost>>

(***************************************************************************)
(* interpret: next_token reads a cell and cuts the text behind it; where   *)
(* it is cut already the text ends.                                        *)
(***************************************************************************)
AtEnd(i) == ptr[i] \in DOMAIN content => content[ptr[i]] = End

next_token(i) ==
  /\ ~AtEnd(i)
  /\ ptr' = [ptr EXCEPT ![i] = IF @ \in cut THEN Cells + 1 ELSE @ + 1]
  /\ cut' = cut \union {ptr[i]}

Carried(i) == done' = [done EXCEPT ![i] = Append(@, content[ptr[i]])]

Interpret(i) ==
  /\ state[i] = "run" /\ next_token(i)
  /\ UNCHANGED state
  /\ Execute(i, content[ptr[i]])
  /\ Carried(i)
  /\ UNCHANGED <<content, program, alone, astray>>

(***************************************************************************)
(* word_store writes its value to any address: of an element of anyone's   *)
(* stack, of the text, of a struct Stack or the rest of the kernel, or of  *)
(* nothing that matters.                                                   *)
(***************************************************************************)
StoresIn(b, k, v) ==
  /\ memory' = [memory EXCEPT ![b][k] = v]
  /\ UNCHANGED <<state, content, alone, lost, astray>>

StoresInText(k, t) ==
  /\ content' = [content EXCEPT ![k] = t] /\ Disturbs
  /\ UNCHANGED <<state, memory, lost, astray>>

StoresAstray(j) ==
  /\ GoesAstray
  /\ state' = [state EXCEPT ![j] = IF @ = "run" THEN "wild" ELSE @]
  /\ UNCHANGED <<content, memory, alone>>

StoresAway == UNCHANGED <<state, content, memory, alone, lost, astray>>

word_store(i) ==
  /\ state[i] = "run" /\ next_token(i) /\ content[ptr[i]].word = "!"
  /\ \/ \E b \in Blocks \union {NULL} : \E k \in DOMAIN memory[b] :
            StoresIn(b, k, Top(Elements(i), 2))
     \/ \E k \in 1 .. Cells, t \in Scraps : StoresInText(k, t)
     \/ \E j \in Interpreters : StoresAstray(j)
     \/ StoresAway
  /\ sp' = [sp EXCEPT ![i] = Popped(i, 2)]
  /\ Carried(i)
  /\ UNCHANGED <<data, size, used, program>>

(* Without its struct Stack it goes on reading.                            *)
RunsWild(i) ==
  /\ state[i] = "wild" /\ next_token(i)
  /\ UNCHANGED <<state, content, stacks, heap, runs, lost, astray>>

(* A fault ends the task.                                                  *)
Faults(i) ==
  /\ ~AtEnd(i)
  /\ \/ state[i] = "run" /\ MayFault(Elements(i), content[ptr[i]])
     \/ state[i] = "wild"
  /\ state' = [state EXCEPT ![i] = "killed"]
  /\ cut' = cut \union {ptr[i]}
  /\ UNCHANGED <<content, ptr, stacks, heap, runs, lost, astray>>

(* sys_exit; the stack is not freed.                                       *)
Exits(i) ==
  /\ state[i] \in {"run", "wild"} /\ AtEnd(i)
  /\ state' = [state EXCEPT ![i] = "ended"]
  /\ UNCHANGED <<text, ptr, stacks, heap, runs, lost, astray>>

ForthNext ==
  \/ \E i \in Interpreters :
       \/ \E p \in Programs : Start(i, p)
       \/ create_task(i) \/ stack_init(i) \/ stack_init_fails(i)
       \/ Interpret(i) \/ word_store(i) \/ RunsWild(i)
       \/ Faults(i) \/ Exits(i)
  \/ \E p \in Lines : TypeLine(p)
  \/ content_clear

ForthSpec == ForthInit /\ [][ForthNext]_forthVars
=============================================================================
