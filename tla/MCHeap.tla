------------------------------- MODULE MCHeap -------------------------------
(***************************************************************************)
(* The heap on a machine whose size_t is 7 bits wide.                      *)
(***************************************************************************)
EXTENDS HeapProps

CONSTANTS t1, t2

TwoCallers == {t1, t2}

(* Zero, sizes that round up, one that takes a block whole, and sizes at   *)
(* the edge of size_t that would wrap.                                     *)
SomeRequests == {0, 1, 8, 45, 125}

=============================================================================
