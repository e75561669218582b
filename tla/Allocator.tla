------------------------------ MODULE Allocator ------------------------------
(***************************************************************************)
(* What a heap promises its callers, whatever it keeps in memory to do so: *)
(* an allocation is a range of bytes inside the heap that shares no byte   *)
(* with another allocation, and it stays its owner's until it is given     *)
(* back.  The promise is void once calls have overlapped.                  *)
(***************************************************************************)
EXTENDS Integers

CONSTANTS Low, High  (* the bytes of the heap are Low .. High - 1          *)

VARIABLES live, overlapped

Disjoint(l, m) == l.ptr + l.size <= m.ptr \/ m.ptr + m.size <= l.ptr

Init == live = {} /\ overlapped = FALSE

Allocate ==
  \E l \in live' :
    /\ l.size > 0 /\ Low <= l.ptr /\ l.ptr + l.size <= High
    /\ \A m \in live : Disjoint(l, m)
    /\ live' = live \union {l}
    /\ UNCHANGED overlapped

GiveBack ==
  /\ \E l \in live : live' = live \ {l}
  /\ UNCHANGED overlapped

(* The promise is void.                                                    *)
Void == overlapped'

Next == Allocate \/ GiveBack \/ Void

Spec == Init /\ [][Next]_<<live, overlapped>>

=============================================================================
