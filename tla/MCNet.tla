------------------------------- MODULE MCNet -------------------------------
(***************************************************************************)
(* Three machines, of which the one that is pinged changes its MAC, a      *)
(* cache with room for two, a ring for two frames, two transmit slots.     *)
(***************************************************************************)
EXTENDS NetProps, TLC

CONSTANTS h1, h2, h3, m1, m2

Machines == {h1, h2, h3}
TwoMacs == {m1, m2}
Frame(k, a, m) == [kind |-> k, ip |-> a, mac |-> m]
SomeFrames == {Frame("request", h1, m1), Frame("answer", h1, m1),
               Frame("answer", h1, m2), Frame("answer", h2, m1),
               Frame("answer", h3, m1), Frame("other", h1, m1)}

Unspoiled == ~spoiled

(* What can still matter while nothing is spoiled; the slots are numbered   *)
(* from the one the card sends next.                                       *)
Sending == pc \in {"copy rest", "registers", "count"}

From(n) == (n + current) % TxSlots

Present ==
  <<received, tok, owed, handler, half,
    (tx_counter + TxSlots - current) % TxSlots,
    [n \in Slots |->
       IF owned[From(n)]
       THEN <<address[From(n)] = From(n), rtl_tx_buffer[address[From(n)]]>>
       ELSE <<>>],
    IF Sending THEN <<slot = tx_counter, rtl_tx_buffer[slot]>> ELSE <<>>,
    IF handler = "out" THEN FALSE ELSE status,
    pc, IF pc = "idle" THEN <<>> ELSE <<after, ip, frame>>, cache>>

Alike == Permutations({h2, h3})
=============================================================================
