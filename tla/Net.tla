-------------------------------- MODULE Net --------------------------------
(***************************************************************************)
(* The network: the RTL8139 card and its driver, the ARP cache, and the    *)
(* ping command, which are all of net/ and drivers/rtl8139.                *)
(*                                                                         *)
(* Frames are taken from the card in its interrupt, one at each, and an    *)
(* ARP request is answered there.  The shell sends from the ping command   *)
(* with interrupts on, so that an answer may go out in the middle of a     *)
(* send: both use tx_counter, and spoiled remembers that they met, or that *)
(* a slot was filled again before the card had sent it.  Between two       *)
(* accesses the build (-O2) may keep tx_counter in a register or read it   *)
(* again: the send takes either.                                           *)
(***************************************************************************)
EXTENDS Naturals, Sequences, FiniteSets

CONSTANTS
  Ips, Macs,          (* addresses of other machines                       *)
  Pinged,             (* those that are pinged                             *)
  Frames,             (* what arrives                                      *)
  CacheSize,          (* ARP_CACHE_SIZE, 8                                 *)
  TxSlots,            (* 4                                                 *)
  RingSize,           (* bound: frames that the receive ring holds         *)
  None                (* no frame                                          *)

ASSUME NetAssumption ==
  /\ Pinged \subseteq Ips
  /\ Frames \subseteq [kind : {"request", "answer", "other"}, ip : Ips, mac : Macs]
  /\ CacheSize \in Nat \ {0} /\ TxSlots \in Nat \ {0, 1}
  /\ RingSize \in Nat \ {0} /\ None \notin Frames

Slots == 0 .. TxSlots - 1
Next1(n) == (n + 1) % TxSlots

VARIABLES
  ring, rok, tok,     (* the card: received frames, and its status bits    *)
  address, owned,     (* its transmit registers: the slot, given to it     *)
  current,            (* the register it sends from next                   *)
  rtl_tx_buffer,      (* the two halves of what each slot holds            *)
  tx_counter,
  handler, status,    (* the interrupt handler, and the status it read     *)
  arp_cache,
  pc, after, ip,      (* the ping command, where a send returns to         *)
  half,               (* the half of a MAC it has copied from the cache    *)
  frame, slot,        (* the frame being sent, and phys_tx_buf             *)
  merged,             (* history: frames that raised no interrupt          *)
  latest,             (* history: the last MAC each machine answered with  *)
  owed,               (* history: frames given to the card, not yet sent   *)
  spoiled             (* history: see above                                *)

received == <<ring, rok, merged>>
transmit == <<address, owned, current, rtl_tx_buffer, tx_counter, owed, spoiled>>
interrupt == <<handler, status>>
ping == <<pc, after, ip, half, frame, slot>>
cache == <<arp_cache, latest>>
netVars == <<received, tok, transmit, interrupt, ping, cache>>

Free == [ip |-> None, mac |-> None, resolved |-> FALSE]

NetInit ==
  /\ ring = <<>> /\ rok = FALSE /\ tok = FALSE
  /\ address = [n \in Slots |-> 0] /\ owned = [n \in Slots |-> FALSE]
  /\ current = 0 /\ tx_counter = 0
  /\ rtl_tx_buffer = [n \in Slots |-> <<None, None>>]
  /\ handler = "out" /\ status = FALSE
  /\ arp_cache = [i \in 1 .. CacheSize |-> Free]
  /\ pc = "idle" /\ after = "idle" /\ ip \in Pinged /\ half = None
  /\ frame = None /\ slot = 0
  /\ merged = 0 /\ owed = <<>> /\ spoiled = FALSE
  /\ latest = [i \in Ips |-> None]

(***************************************************************************)
(* The card.  It puts what arrives into the ring and drops it when that is *)
(* full; one status bit stands for all that has arrived.  It sends from    *)
(* its registers in turn.                                                  *)
(***************************************************************************)
Arrives(f) ==
  /\ IF Len(ring) < RingSize
     THEN /\ ring' = Append(ring, f) /\ rok' = TRUE
          /\ merged' = IF rok THEN merged + 1 ELSE merged
     ELSE UNCHANGED received
  /\ UNCHANGED <<tok, transmit, interrupt, ping, cache>>

Transmits ==
  /\ owned[current]
  /\ owned' = [owned EXCEPT ![current] = FALSE]
  /\ current' = Next1(current)
  /\ owed' = IF owed = <<>> THEN owed ELSE Tail(owed)
  /\ tok' = TRUE
  /\ UNCHANGED <<received, address, rtl_tx_buffer, tx_counter, spoiled,
                 interrupt, ping, cache>>

(***************************************************************************)
(* rtl8139_send, all of it, as the interrupt does it.                      *)
(***************************************************************************)
InSend == pc \in {"copy rest", "registers", "count"}

SendWhole(f) ==
  /\ rtl_tx_buffer' = [rtl_tx_buffer EXCEPT ![tx_counter] = <<f, f>>]
  /\ address' = [address EXCEPT ![tx_counter] = tx_counter]
  /\ owned' = [owned EXCEPT ![tx_counter] = TRUE]
  /\ tx_counter' = Next1(tx_counter)
  /\ owed' = Append(owed, f)
  /\ spoiled' = (spoiled \/ InSend \/ owned[tx_counter])
  /\ UNCHANGED current

(***************************************************************************)
(* The ARP cache.                                                          *)
(***************************************************************************)
Smallest(S) == CHOOSE i \in S : \A j \in S : i <= j

arp_cache_lookup(a) ==
  {i \in DOMAIN arp_cache : arp_cache[i].resolved /\ arp_cache[i].ip = a}

(* Mutated: a new answer always takes an entry that is not used yet.       *)
arp_cache_updateNew(a, m) ==
  LET taken == {i \in DOMAIN arp_cache : ~arp_cache[i].resolved}
  IN  arp_cache' =
        IF taken = {} THEN arp_cache
        ELSE [arp_cache EXCEPT ![Smallest(taken)] =
                [ip |-> a, mac |-> m, resolved |-> TRUE]]

arp_cache_update(a, m) ==
  LET taken == {i \in DOMAIN arp_cache :
                  arp_cache[i].ip = a \/ ~arp_cache[i].resolved}
  IN  arp_cache' =
        IF taken = {} THEN arp_cache
        ELSE [arp_cache EXCEPT ![Smallest(taken)] =
                [ip |-> a, mac |-> m, resolved |-> TRUE]]

(***************************************************************************)
(* rtl8139_handler, with the card at work around it.  Its frame goes       *)
(* through net_receive and arp_receive; what ip_receive does is to print.  *)
(***************************************************************************)
rtl8139_handler ==
  /\ handler = "out" /\ (rok \/ tok)
  /\ handler' = "clear" /\ status' = rok
  /\ UNCHANGED <<received, tok, transmit, ping, cache>>

(* Mutated: the status is not written back.                                *)
ClearStatusNever ==
  /\ handler = "clear"
  /\ handler' = IF status THEN "poll" ELSE "out"
  /\ UNCHANGED <<received, tok, transmit, status, ping, cache>>

ClearStatus ==
  /\ handler = "clear"
  /\ rok' = (rok /\ ~status) /\ tok' = FALSE
  /\ handler' = IF status THEN "poll" ELSE "out"
  /\ UNCHANGED <<ring, merged, transmit, status, ping, cache>>

arp_receive(f) ==
  \/ /\ f.kind = "request"
     /\ SendWhole([kind |-> "reply", ip |-> f.ip, mac |-> <<f.mac, f.mac>>])
     /\ UNCHANGED cache
  \/ /\ f.kind = "answer"
     /\ arp_cache_update(f.ip, f.mac)
     /\ latest' = [latest EXCEPT ![f.ip] = f.mac]
     /\ UNCHANGED transmit
  \/ /\ f.kind = "other"
     /\ UNCHANGED <<transmit, cache>>

(* The header at rx_offset is an old one if there is no new frame.         *)
rtl8139_poll ==
  /\ handler = "poll" /\ handler' = "out"
  /\ ring' = IF ring = <<>> THEN ring ELSE Tail(ring)
  /\ \E f \in (IF ring = <<>> THEN Frames ELSE {Head(ring)}) : arp_receive(f)
  /\ UNCHANGED <<rok, tok, merged, status, ping>>

(***************************************************************************)
(* rtl8139_send, as the shell does it: the first half of the frame, the    *)
(* rest, the registers, the counter.                                       *)
(***************************************************************************)
SendStart ==
  /\ pc = "send" /\ pc' = "copy rest"
  /\ slot' = tx_counter
  /\ rtl_tx_buffer' = [rtl_tx_buffer EXCEPT ![tx_counter][1] = frame]
  /\ spoiled' = (spoiled \/ owned[tx_counter])
  /\ UNCHANGED <<received, tok, address, owned, current, tx_counter, owed,
                 interrupt, after, ip, half, frame, cache>>

SendRest ==
  /\ pc = "copy rest" /\ pc' = "registers"
  /\ \E n \in {slot, tx_counter} :
       rtl_tx_buffer' = [rtl_tx_buffer EXCEPT ![n][2] = frame]
  /\ UNCHANGED <<received, tok, address, owned, current, tx_counter, owed,
                 spoiled, interrupt, after, ip, half, frame, slot, cache>>

SendRegisters ==
  /\ pc = "registers" /\ pc' = "count"
  /\ \E n \in {slot, tx_counter} :
       /\ address' = [address EXCEPT ![n] = slot]
       /\ owned' = [owned EXCEPT ![n] = TRUE]
  /\ owed' = Append(owed, frame)
  /\ UNCHANGED <<received, tok, current, rtl_tx_buffer, tx_counter, spoiled,
                 interrupt, after, ip, half, frame, slot, cache>>

(* Mutated: the counter stays.                                             *)
SendCountKept ==
  /\ pc = "count" /\ pc' = after
  /\ frame' = None
  /\ UNCHANGED <<received, tok, transmit, interrupt, after, ip, half, slot,
                 cache>>

SendCount ==
  /\ pc = "count" /\ pc' = after
  /\ \E n \in {slot, tx_counter} : tx_counter' = Next1(n)
  /\ frame' = None
  /\ UNCHANGED <<received, tok, address, owned, current, rtl_tx_buffer, owed,
                 spoiled, interrupt, after, ip, half, slot, cache>>

(***************************************************************************)
(* net_ping: it asks for an address that is not known, waits a hundred     *)
(* ticks, and sends; ip_send asks once more if there is no answer yet.     *)
(***************************************************************************)
arp_request(then) ==
  /\ frame' = [kind |-> "request", ip |-> ip', mac |-> <<>>]
  /\ pc' = "send" /\ after' = then

net_ping(a) ==
  /\ pc = "idle" /\ ip' = a
  /\ \/ /\ arp_cache_lookup(a) = {} /\ arp_request("delay")
     \/ /\ arp_cache_lookup(a) # {} /\ pc' = "delay"
        /\ UNCHANGED <<frame, after>>
  /\ UNCHANGED <<received, tok, transmit, interrupt, half, slot, cache>>

delay_ticks ==
  /\ pc = "delay" /\ pc' = "ip_send"
  /\ UNCHANGED <<received, tok, transmit, interrupt, after, ip, half, frame,
                 slot, cache>>

(* The cache may be updated while a MAC is copied from it.                 *)
ip_send ==
  /\ pc = "ip_send" /\ UNCHANGED ip
  /\ \/ /\ arp_cache_lookup(ip) = {} /\ arp_request("idle") /\ UNCHANGED half
     \/ \E i \in arp_cache_lookup(ip) :
          /\ half' = arp_cache[i].mac /\ pc' = "mac rest"
          /\ UNCHANGED <<frame, after>>
  /\ UNCHANGED <<received, tok, transmit, interrupt, slot, cache>>

icmp_send ==
  /\ pc = "mac rest" /\ pc' = "send" /\ after' = "idle"
  /\ \E i \in arp_cache_lookup(ip) :
       frame' = [kind |-> "echo", ip |-> ip, mac |-> <<half, arp_cache[i].mac>>]
  /\ half' = None
  /\ UNCHANGED <<received, tok, transmit, interrupt, ip, slot, cache>>

CardNext == (\E f \in Frames : Arrives(f)) \/ Transmits

HandlerNext == rtl8139_handler \/ ClearStatus \/ rtl8139_poll

(* The shell goes on when the handler has returned.                        *)
PingNext ==
  /\ handler = "out"
  /\ \/ \E a \in Pinged : net_ping(a)
     \/ delay_ticks \/ ip_send \/ icmp_send
     \/ SendStart \/ SendRest \/ SendRegisters \/ SendCount

NetNext == CardNext \/ HandlerNext \/ PingNext

NetSpec == NetInit /\ [][NetNext]_netVars
=============================================================================
