-------------------------------- MODULE Heap --------------------------------
(***************************************************************************)
(* The kernel heap of kernel/mm.c: a first-fit free list of blocks, each   *)
(* headed by a Block record {size, free, next} kept in the heap itself.    *)
(*                                                                         *)
(* kmalloc and kfree take no lock and do not mask interrupts, so they are  *)
(* modelled step by step: one action per iteration of each of their loops, *)
(* one for the split and one for the marking of the block.  Calls made by  *)
(* two tasks may therefore interleave; the history variable overlapped     *)
(* remembers that it happened, and what the allocator promises, it         *)
(* promises as long as it did not.  The calls that overlap run to their    *)
(* end; no new one is followed after them.                                 *)
(*                                                                         *)
(* Addresses and sizes are byte counts.                                    *)
(***************************************************************************)
EXTENDS Integers

CONSTANTS
  Callers,    (* the tasks that call the allocator                         *)
  HeapStart,  (* HEAP_START, possibly unaligned                            *)
  HeapSize,   (* HEAP_SIZE                                                 *)
  BlockSize,  (* BLOCK_SIZE, sizeof(Block)                                 *)
  Alignment,  (* ALIGNMENT, sizeof(void* )                                 *)
  SizeMax,    (* the largest size_t (and uintptr_t)                        *)
  Requests    (* the sizes callers ask for                                 *)

ASSUME HeapAssumption ==
  /\ HeapStart \in Nat /\ HeapSize \in Nat /\ HeapStart + HeapSize <= SizeMax
  /\ BlockSize \in Nat \ {0} /\ Alignment \in Nat \ {0}
  /\ SizeMax \in Nat /\ SizeMax >= BlockSize + Alignment
  /\ Requests \subseteq 0 .. SizeMax

NULL == 0

VARIABLES
  freeList,   (* the static list head                                      *)
  mem,        (* the Block headers written so far, by address              *)
  pc,         (* where each caller is                                      *)
  current,    (* each caller's local variable of that name                 *)
  arg,        (* the size a caller asked for, or the pointer it frees      *)
  blocks,     (* history: the headers the list runs through                *)
  live,       (* history: the allocations handed out and not given back    *)
  overlapped  (* history: two calls have been in progress at once          *)

vars == <<freeList, mem, pc, current, arg, blocks, live, overlapped>>

-----------------------------------------------------------------------------
(* size_t arithmetic.                                                      *)

Wrap(n) == n % (SizeMax + 1)

RoundDown(n) == (n \div Alignment) * Alignment

(* Mutated: rounds down.                                                   *)
ALIGNDown(size) == RoundDown(size)

ALIGN(size) == RoundDown(Wrap(size + Alignment - 1))

-----------------------------------------------------------------------------
(* init_kernel_heap                                                        *)

Adjustment == (Alignment - (HeapStart % Alignment)) % Alignment

Usable == HeapSize - Adjustment

InitialSize == RoundDown(Usable - BlockSize)

HeapIsUsable ==
  /\ HeapStart # NULL
  /\ HeapStart <= SizeMax - Adjustment
  /\ HeapSize > Adjustment
  /\ Usable > BlockSize
  /\ InitialSize # 0

Base == HeapStart + Adjustment

Header(size, free, next) == [size |-> size, free |-> free, next |-> next]

(* The first address past the heap's last block.                           *)
Limit == Base + BlockSize + InitialSize

Init ==
  /\ IF HeapIsUsable
     THEN /\ freeList = Base
          /\ blocks = {Base}
          /\ mem = [a \in {Base} |-> Header(InitialSize, 1, NULL)]
     ELSE /\ freeList = NULL
          /\ blocks = {}
          /\ mem = [a \in {} |-> Header(0, 1, NULL)]
  /\ pc = [c \in Callers |-> "idle"]
  /\ current = [c \in Callers |-> NULL]
  /\ arg = [c \in Callers |-> 0]
  /\ live = {}
  /\ overlapped = FALSE

-----------------------------------------------------------------------------
(* Calls.                                                                  *)

InCall(c) == pc[c] # "idle"

Begin(c, where, value) ==
  /\ pc[c] = "idle"
  /\ ~overlapped
  /\ pc' = [pc EXCEPT ![c] = where]
  /\ current' = [current EXCEPT ![c] = freeList]
  /\ arg' = [arg EXCEPT ![c] = value]
  /\ overlapped' = \E d \in Callers \ {c} : InCall(d)

(* A return ends the life of the caller's local variables.                 *)
Return(c) ==
  /\ pc' = [pc EXCEPT ![c] = "idle"]
  /\ current' = [current EXCEPT ![c] = NULL]
  /\ arg' = [arg EXCEPT ![c] = 0]

Advance(c) ==
  /\ current' = [current EXCEPT ![c] = mem[current[c]].next]
  /\ UNCHANGED <<pc, arg>>

IsFree(b) == mem[b].free = 1

Fits(b, size) == IsFree(b) /\ mem[b].size >= ALIGN(size)

-----------------------------------------------------------------------------
(* kmalloc                                                                 *)

(* Size 0, and a size that rounding up would wrap, are answered with NULL  *)
(* at once.                                                                *)
KmallocRejects(c, size) ==
  /\ pc[c] = "idle"
  /\ size = 0 \/ size > SizeMax - (Alignment - 1)
  /\ UNCHANGED vars

Kmalloc(c, size) ==
  /\ size # 0
  /\ size <= SizeMax - (Alignment - 1)
  /\ Begin(c, "scan", size)
  /\ UNCHANGED <<freeList, mem, blocks, live>>

(* Mutated: the first free block decides, whatever its size.               *)
KmallocScanGivesUp(c) ==
  /\ pc[c] = "scan"
  /\ UNCHANGED <<freeList, mem, blocks, live, overlapped>>
  /\ \/ /\ current[c] = NULL
        /\ Return(c)
     \/ /\ current[c] # NULL
        /\ ~ IsFree(current[c])
        /\ Advance(c)
     \/ /\ current[c] # NULL
        /\ IsFree(current[c]) /\ ~ Fits(current[c], arg[c])
        /\ current' = [current EXCEPT ![c] = NULL]
        /\ UNCHANGED <<pc, arg>>
     \/ /\ current[c] # NULL
        /\ Fits(current[c], arg[c])
        /\ pc' = [pc EXCEPT ![c] =
                    IF mem[current[c]].size - ALIGN(arg[c]) >= BlockSize + Alignment
                    THEN "split" ELSE "take"]
        /\ UNCHANGED <<current, arg>>

KmallocScan(c) ==
  /\ pc[c] = "scan"
  /\ UNCHANGED <<freeList, mem, blocks, live, overlapped>>
  /\ \/ /\ current[c] = NULL
        /\ Return(c)
     \/ /\ current[c] # NULL
        /\ ~ Fits(current[c], arg[c])
        /\ Advance(c)
     \/ /\ current[c] # NULL
        /\ Fits(current[c], arg[c])
        /\ pc' = [pc EXCEPT ![c] =
                    IF mem[current[c]].size - ALIGN(arg[c]) >= BlockSize + Alignment
                    THEN "split" ELSE "take"]
        /\ UNCHANGED <<current, arg>>

(* Mutated: the remainder starts at the given address, is left the given   *)
(* size and points where it is told.                                       *)
SplitAs(c, new, rest, after) ==
  LET b == current[c]
  IN  /\ pc[c] = "split"
      /\ mem' = [a \in DOMAIN mem \union {new} |->
                   IF a = b THEN Header(ALIGN(arg[c]), mem[b].free, new)
                   ELSE IF a = new THEN Header(rest, 1, after) ELSE mem[a]]
      /\ blocks' = blocks \union {new}
      /\ pc' = [pc EXCEPT ![c] = "take"]
      /\ UNCHANGED <<freeList, current, arg, live, overlapped>>

Remainder(c) == mem[current[c]].size - ALIGN(arg[c])

(* Mutated: the header of the remainder is not paid for.                   *)
KmallocSplitFree(c) ==
  SplitAs(c, current[c] + BlockSize + ALIGN(arg[c]), Remainder(c), mem[current[c]].next)

(* Mutated: the remainder starts a header too early.                       *)
KmallocSplitEarly(c) ==
  SplitAs(c, current[c] + ALIGN(arg[c]), Remainder(c), mem[current[c]].next)

(* Mutated: next is read after it was written.                             *)
KmallocSplitSwapped(c) ==
  LET new == current[c] + BlockSize + ALIGN(arg[c])
  IN  SplitAs(c, new, Remainder(c) - BlockSize, new)

KmallocSplit(c) ==
  LET b == current[c]
      n == ALIGN(arg[c])
      new == Wrap(b + BlockSize + n)
  IN  /\ pc[c] = "split"
      /\ mem' = [a \in DOMAIN mem \union {new} |->
                   IF a = b THEN Header(n, mem[b].free, new)
                   ELSE IF a = new
                   THEN Header(Wrap(mem[b].size - n - BlockSize), 1, mem[b].next)
                   ELSE mem[a]]
      /\ blocks' = blocks \union {new}
      /\ pc' = [pc EXCEPT ![c] = "take"]
      /\ UNCHANGED <<freeList, current, arg, live, overlapped>>

KmallocTake(c) ==
  /\ pc[c] = "take"
  /\ mem' = [mem EXCEPT ![current[c]] = Header(@.size, 0, @.next)]
  /\ live' = live \union {[ptr |-> current[c] + BlockSize, size |-> arg[c]]}
  /\ Return(c)
  /\ UNCHANGED <<freeList, blocks, overlapped>>

-----------------------------------------------------------------------------
(* kfree                                                                   *)

(* The caller gives the allocation up when it calls; for NULL nothing      *)
(* happens.                                                                *)
Kfree(c, ptr) ==
  /\ ptr # NULL
  /\ Begin(c, "find", ptr)
  /\ live' = {l \in live : l.ptr # ptr}
  /\ UNCHANGED <<freeList, mem, blocks>>

(* Mutated: compares with the header's address, and so never finds it.     *)
KfreeFindHeader(c) ==
  /\ pc[c] = "find"
  /\ UNCHANGED <<freeList, mem, blocks, live, overlapped>>
  /\ IF current[c] = NULL THEN Return(c) ELSE Advance(c)

KfreeFind(c) ==
  /\ pc[c] = "find"
  /\ UNCHANGED <<freeList, blocks, live, overlapped>>
  /\ \/ /\ \/ current[c] = NULL
           \/ current[c] + BlockSize = arg[c] /\ IsFree(current[c])
        /\ Return(c)
        /\ UNCHANGED mem
     \/ /\ current[c] # NULL
        /\ current[c] + BlockSize # arg[c]
        /\ Advance(c)
        /\ UNCHANGED mem
     \/ /\ current[c] # NULL
        /\ current[c] + BlockSize = arg[c]
        /\ ~ IsFree(current[c])
        /\ mem' = [mem EXCEPT ![current[c]] = Header(@.size, 1, @.next)]
        /\ current' = [current EXCEPT ![c] = freeList]
        /\ pc' = [pc EXCEPT ![c] = "merge"]
        /\ UNCHANGED arg

(* Mutated: goes on to the block after the merged one.                     *)
KfreeMergeOnce(c) ==
  LET b == current[c]
      n == mem[b].next
  IN  /\ pc[c] = "merge"
      /\ UNCHANGED <<freeList, live, overlapped>>
      /\ IF b = NULL \/ n = NULL
         THEN Return(c) /\ UNCHANGED <<mem, blocks>>
         ELSE IF IsFree(b) /\ IsFree(n)
         THEN /\ mem' = [mem EXCEPT ![b] =
                         Header(Wrap(@.size + BlockSize + mem[n].size), @.free, mem[n].next)]
              /\ blocks' = blocks \ {n}
              /\ current' = [current EXCEPT ![c] = mem[n].next]
              /\ UNCHANGED <<pc, arg>>
         ELSE Advance(c) /\ UNCHANGED <<mem, blocks>>

(* One turn of the coalescing loop that ends every successful kfree.       *)
KfreeMerge(c) ==
  LET b == current[c]
      n == mem[b].next
  IN  /\ pc[c] = "merge"
      /\ UNCHANGED <<freeList, live, overlapped>>
      /\ \/ /\ b = NULL \/ n = NULL
            /\ Return(c)
            /\ UNCHANGED <<mem, blocks>>
         \/ /\ b # NULL /\ n # NULL
            /\ IsFree(b) /\ IsFree(n)
            /\ mem' = [mem EXCEPT ![b] =
                       Header(Wrap(@.size + BlockSize + mem[n].size), @.free,
                              mem[n].next)]
            /\ blocks' = blocks \ {n}
            /\ UNCHANGED <<pc, current, arg>>
         \/ /\ b # NULL /\ n # NULL
            /\ ~ (IsFree(b) /\ IsFree(n))
            /\ Advance(c)
            /\ UNCHANGED <<mem, blocks>>

-----------------------------------------------------------------------------
(* Callers free what they were given, once or more often.                  *)
Pointers == {a + BlockSize : a \in DOMAIN mem}

Step(c) ==
  \/ KmallocScan(c) \/ KmallocSplit(c) \/ KmallocTake(c)
  \/ KfreeFind(c) \/ KfreeMerge(c)

Call(c) ==
  \/ \E size \in Requests : KmallocRejects(c, size) \/ Kmalloc(c, size)
  \/ \E ptr \in Pointers : Kfree(c, ptr)

Next == \E c \in Callers : Call(c) \/ Step(c)

Spec == Init /\ [][Next]_vars

(* A task inside the allocator is scheduled again and again.               *)
FairSpec == Spec /\ \A c \in Callers : WF_vars(Step(c))

=============================================================================
