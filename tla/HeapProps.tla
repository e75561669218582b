------------------------------ MODULE HeapProps ------------------------------
(***************************************************************************)
(* What the allocator of kernel/mm.c promises, as long as no two calls     *)
(* have been in progress at the same time.                                 *)
(***************************************************************************)
EXTENDS Heap

Headers == [size : Nat, free : {0, 1}, next : Nat]

(* The types of the heap's variables.                                      *)
TypeOK ==
  /\ freeList \in Nat
  /\ DOMAIN mem \subseteq Nat
  /\ \A a \in DOMAIN mem : mem[a] \in Headers
  /\ pc \in [Callers -> {"idle", "scan", "split", "take", "find", "merge"}]
  /\ current \in [Callers -> Nat]
  /\ arg \in [Callers -> Nat]
  /\ blocks \subseteq Nat
  /\ live \subseteq [ptr : Nat, size : Nat]
  /\ overlapped \in BOOLEAN

EndOf(b) == b + BlockSize + mem[b].size

(* The list runs through the heap in address order and covers it without a *)
(* gap: every next pointer is the address the block ends at, the last      *)
(* block ends where the heap does, and no two blocks share a byte.         *)
TilesHeap ==
  /\ freeList # NULL => freeList \in blocks
  /\ \A b \in blocks :
       /\ b \in DOMAIN mem
       /\ freeList # NULL /\ freeList <= b
       /\ EndOf(b) <= Limit
       /\ mem[b].next = IF EndOf(b) = Limit THEN NULL ELSE EndOf(b)
       /\ mem[b].next # NULL => mem[b].next \in blocks
  /\ \A a, b \in blocks : a < b => EndOf(a) <= b

(* The list stays a tiling of the heap through every split and every merge *)
(* (mm.c 42-50, 75-83), whatever has been allocated and freed before.      *)
Tiling == ~overlapped => TilesHeap

(* Every allocation a caller holds has a used block of the list of its     *)
(* own, large enough for what it asked for: no two callers are given the   *)
(* same bytes, and no header lies in the bytes a caller may write.         *)
Exclusive ==
  /\ \A l \in live :
       /\ l.ptr - BlockSize \in blocks
       /\ ~ IsFree(l.ptr - BlockSize)
       /\ l.size <= mem[l.ptr - BlockSize].size
  /\ \A l, m \in live : l.ptr = m.ptr => l = m

NoAliasing == ~overlapped => Exclusive

Idle == \A c \in Callers : ~ InCall(c)

(* Between calls no two neighbouring blocks are free: kfree coalesces      *)
(* completely, and kmalloc's split never puts a free remainder before a    *)
(* free block.                                                             *)
Coalesced ==
  (~overlapped /\ Idle) =>
    \A b \in blocks :
      mem[b].next # NULL => ~ (IsFree(b) /\ IsFree(mem[b].next))

(* Between calls every used block belongs to an allocation somebody holds: *)
(* a block given back with kfree is never lost to the heap.                *)
NoLeak ==
  (~overlapped /\ Idle) =>
    \A b \in blocks :
      ~ IsFree(b) => \E l \in live : l.ptr = b + BlockSize

(* When everything has been given back, the heap is again the one free     *)
(* block that init_kernel_heap made: no history of calls fragments it.     *)
Restored ==
  (~overlapped /\ Idle /\ live = {} /\ freeList # NULL) =>
    /\ blocks = {freeList}
    /\ mem[freeList] = [size |-> InitialSize, free |-> 1, next |-> NULL]

(* kmalloc gives up (the list is exhausted) only if no block would do.     *)
FailsOnlyWhenFull ==
  \A c \in Callers :
    (~overlapped /\ pc[c] = "scan" /\ current[c] = NULL) =>
      \A b \in blocks : ~ Fits(b, arg[c])

(* The heap implements an allocator: an allocation appears in one step,    *)
(* disjoint from every other, and only its own kfree ends it.              *)
A == INSTANCE Allocator WITH Low <- Base, High <- Limit

ImplementsAllocator == A!Spec

(* Every call returns: the walks over the list end.                        *)
CallsReturn ==
  \A c \in Callers : InCall(c) ~> (~ InCall(c) \/ overlapped)

=============================================================================
