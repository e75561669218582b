----------------------------- MODULE NetProofs -----------------------------
(***************************************************************************)
(* The receive ring, the ARP cache and the transmit slots, for every set   *)
(* of machines and of frames, every size of the cache and of the ring and  *)
(* every number of slots.                                                  *)
(***************************************************************************)
EXTENDS NetProps, SequenceTheorems, FiniteSetTheorems,
        WellFoundedInduction, TLAPS

(* RingAccounts, case by case.                                             *)
RingCounts ==
  /\ ~rok /\ handler # "poll" => Len(ring) = merged
  /\ rok /\ handler # "poll" => Len(ring) = merged + 1
  /\ ~rok /\ handler = "poll" => Len(ring) = merged + 1
  /\ rok /\ handler = "poll" => Len(ring) = merged + 2

(* The status that the handler read stays set until it writes it back.     *)
RingInv ==
  /\ ring \in Seq(Frames) /\ merged \in Nat
  /\ rok \in BOOLEAN /\ status \in BOOLEAN
  /\ handler \in {"out", "clear", "poll"}
  /\ handler = "clear" /\ status => rok
  /\ RingCounts

LEMMA RingInit == NetInit => RingInv
<1> SUFFICES ASSUME NetInit PROVE RingInv
  OBVIOUS
<1>1. ring = <<>> /\ rok = FALSE /\ merged = 0 /\ handler = "out" /\ status = FALSE
  BY DEF NetInit
<1>2. ring \in Seq(Frames) /\ Len(ring) = 0
  BY <1>1
<1>3. QED
  BY <1>1, <1>2 DEF RingInv, RingCounts

LEMMA CountsAccount ==
  ASSUME RingInv
  PROVE  RingAccounts
<1>1. Len(ring) \in Nat /\ merged \in Nat
  BY DEF RingInv
<1>2. One(rok) = (IF rok THEN 1 ELSE 0)
  BY DEF One
<1>3. One(handler = "poll") = (IF handler = "poll" THEN 1 ELSE 0)
  BY DEF One
<1>4. CASE handler = "poll"
  <2>1. One(handler = "poll") = 1
    BY <1>3, <1>4
  <2>2. QED
    BY <1>1, <1>2, <1>4, <2>1 DEF RingAccounts, RingInv, RingCounts
<1>5. CASE handler # "poll"
  <2>1. One(handler = "poll") = 0
    BY <1>3, <1>5
  <2>2. QED
    BY <1>1, <1>2, <1>5, <2>1 DEF RingAccounts, RingInv, RingCounts
<1>6. QED
  BY <1>4, <1>5

LEMMA ArrivesRing ==
  ASSUME RingInv, NEW f \in Frames, Arrives(f)
  PROVE  RingInv'
<1>1. UNCHANGED <<handler, status>>
  BY DEF Arrives, interrupt
<1>2. CASE Len(ring) < RingSize
  <2>1. ring' \in Seq(Frames) /\ Len(ring') = Len(ring) + 1
    BY <1>2 DEF Arrives, RingInv
  <2>2. rok' = TRUE /\ merged' = IF rok THEN merged + 1 ELSE merged
    BY <1>2 DEF Arrives
  <2>3. QED
    BY <1>1, <2>1, <2>2 DEF RingInv, RingCounts
<1>3. CASE ~(Len(ring) < RingSize)
  BY <1>1, <1>3 DEF RingInv, RingCounts, Arrives, received
<1>4. QED
  BY <1>2, <1>3

LEMMA HandlerRing ==
  ASSUME RingInv, HandlerNext
  PROVE  RingInv'
<1>1. CASE rtl8139_handler
  BY <1>1 DEF RingInv, RingCounts, rtl8139_handler, received
<1>2. CASE ClearStatus
  <2>1. CASE status
    <3>1. rok /\ rok' = FALSE /\ handler' = "poll" /\ handler = "clear"
      BY <1>2, <2>1 DEF RingInv, ClearStatus
    <3>2. UNCHANGED <<ring, merged, status>>
      BY <1>2 DEF ClearStatus
    <3>3. QED
      BY <3>1, <3>2 DEF RingInv, RingCounts
  <2>2. CASE ~status
    <3>1. rok' = rok /\ handler' = "out" /\ handler = "clear"
      BY <1>2, <2>2 DEF RingInv, ClearStatus
    <3>2. UNCHANGED <<ring, merged, status>>
      BY <1>2 DEF ClearStatus
    <3>3. QED
      BY <3>1, <3>2 DEF RingInv, RingCounts
  <2>3. QED
    BY <2>1, <2>2
<1>3. CASE rtl8139_poll
  <2>1. Len(ring) \in Nat \ {0} /\ ring # <<>>
    BY <1>3 DEF RingInv, RingCounts, rtl8139_poll
  <2>2. ring' \in Seq(Frames) /\ Len(ring') = Len(ring) - 1
    <3>1. ring' = Tail(ring)
      BY <1>3, <2>1 DEF rtl8139_poll
    <3>2. QED
      BY <2>1, <3>1, HeadTailProperties DEF RingInv
  <2>3. /\ handler = "poll" /\ handler' = "out"
        /\ UNCHANGED <<rok, merged, status>>
    BY <1>3 DEF rtl8139_poll
  <2>4. QED
    BY <2>2, <2>3 DEF RingInv, RingCounts
<1>4. QED
  BY <1>1, <1>2, <1>3 DEF HandlerNext

(* What the shell and the card's transmitter leave alone.                  *)
LEMMA RingUntouched ==
  ASSUME RingInv, Transmits \/ PingNext \/ UNCHANGED netVars
  PROVE  RingInv'
<1>1. UNCHANGED <<ring, rok, merged, handler, status>>
  BY DEF Transmits, PingNext, net_ping, delay_ticks, ip_send, icmp_send, SendStart, SendRest,
     SendRegisters, SendCount, netVars, received, interrupt
<1>2. QED
  BY <1>1 DEF RingInv, RingCounts

LEMMA RingStep == RingInv /\ [NetNext]_netVars => RingInv'
BY ArrivesRing, HandlerRing, RingUntouched DEF NetNext, CardNext

(* The handler never takes an old header for a frame, and a frame is left  *)
(* without an interrupt only for one that came with another (rtl8139.c     *)
(* 144-158).                                                               *)
THEOREM RingAccountsHolds == NetSpec => []RingAccounts
<1>1. RingInv => RingAccounts
  BY CountsAccount
<1>2. QED
  BY RingInit, RingStep, <1>1, PTL DEF NetSpec

-----------------------------------------------------------------------------
Entries == 1 .. CacheSize

(* An entry is free, or holds the last answer of a machine.                *)
EntriesOK ==
  \A i \in Entries :
    \/ arp_cache[i] = Free
    \/ /\ arp_cache[i].resolved /\ arp_cache[i].ip \in Ips
       /\ arp_cache[i].mac = latest[arp_cache[i].ip]
       /\ arp_cache[i].mac \in Answered(arp_cache[i].ip)

(* Entries are taken from the first on, one for each machine.              *)
EntriesInTurn ==
  \A i, j \in Entries :
    arp_cache[j].resolved =>
      /\ i < j => arp_cache[i].resolved
      /\ arp_cache[i].resolved /\ arp_cache[i].ip = arp_cache[j].ip => i = j

(* A machine that answered has an entry if one is free.                    *)
NoneMissing ==
  \A a \in Ips :
    \/ latest[a] = None
    \/ \E i \in Entries : arp_cache[i].resolved /\ arp_cache[i].ip = a
    \/ \A i \in Entries : arp_cache[i].resolved

CacheInv ==
  /\ DOMAIN arp_cache = Entries /\ latest \in [Ips -> Macs \union {None}]
  /\ EntriesOK /\ EntriesInTurn /\ NoneMissing

Sending == {"send", "copy rest", "registers", "count"}

EchoOK ==
  frame # None /\ frame.kind = "echo" =>
    frame.mac \in Answered(ip) \X Answered(ip)

(* What the ping command has of the machine's answers.                     *)
PingInv ==
  /\ ip \in Ips /\ after \in {"idle", "delay"}
  /\ pc \notin Sending => frame = None
  /\ pc = "mac rest" => half \in Answered(ip)
  /\ EchoOK

LEMMA SmallestIs ==
  ASSUME NEW S, S \subseteq Nat, S # {}
  PROVE  Smallest(S) \in S /\ \A j \in S : Smallest(S) <= j
<1>1. PICK i \in S : \A j \in S : ~(<<j, i>> \in OpToRel(<, Nat))
  BY NatLessThanWellFounded, WFMin
<1>2. \A j \in S : ~(j < i)
  BY <1>1 DEF OpToRel
<1>3. \A j \in S : i <= j
  BY <1>2
<1>4. QED
  BY <1>3 DEF Smallest

LEMMA CacheInit == NetInit => CacheInv /\ PingInv
<1> SUFFICES ASSUME NetInit PROVE CacheInv /\ PingInv
  OBVIOUS
<1>1. arp_cache = [i \in Entries |-> Free] /\ latest = [a \in Ips |-> None]
  BY DEF NetInit, Entries
<1>2. ~Free.resolved
  BY DEF Free
<1>3. EntriesOK /\ EntriesInTurn /\ NoneMissing
  <2>1. \A i \in Entries : arp_cache[i] = Free /\ ~arp_cache[i].resolved
    BY <1>1, <1>2
  <2>2. \A a \in Ips : latest[a] = None
    BY <1>1
  <2>3. QED
    BY <2>1, <2>2 DEF EntriesOK, EntriesInTurn, NoneMissing
<1>4. PingInv
  BY NetAssumption DEF NetInit, PingInv, EchoOK, Sending
<1>5. QED
  BY <1>1, <1>3, <1>4 DEF CacheInv

(* An answer is entered in place of the machine's last one, or into the    *)
(* first free entry.                                                       *)
LEMMA UpdateInv ==
  ASSUME CacheInv, NEW f \in Frames, f.kind = "answer",
         arp_cache_update(f.ip, f.mac),
         latest' = [latest EXCEPT ![f.ip] = f.mac]
  PROVE  CacheInv'
<1> DEFINE a == f.ip
           m == f.mac
           taken == {i \in Entries : arp_cache[i].ip = a \/ ~arp_cache[i].resolved}
           k == Smallest(taken)
<1>1. a \in Ips /\ m \in Macs /\ m \in Answered(a)
  BY NetAssumption DEF Answered
<1>2. DOMAIN arp_cache = Entries /\ Entries \subseteq Nat
  BY DEF CacheInv, Entries
<1>3. latest' \in [Ips -> Macs \union {None}] /\ latest'[a] = m
      /\ \A b \in Ips \ {a} : latest'[b] = latest[b]
  BY <1>1 DEF CacheInv
<1>4. CASE taken = {}
  <2>1. arp_cache' = arp_cache
    BY <1>2, <1>4 DEF arp_cache_update
  <2>2. \A i \in Entries : arp_cache[i].resolved /\ arp_cache[i].ip # a
    BY <1>4
  <2>3. EntriesOK' /\ EntriesInTurn' /\ NoneMissing'
    BY <1>3, <2>1, <2>2 DEF CacheInv, EntriesOK, EntriesInTurn, NoneMissing, Entries, Free
  <2>4. QED
    BY <1>2, <1>3, <2>1, <2>3 DEF CacheInv, Entries
<1>5. CASE taken # {}
  <2>1. k \in Entries /\ k \in taken /\ \A j \in taken : k <= j
    BY <1>2, <1>5, SmallestIs
  <2>2. /\ DOMAIN arp_cache' = Entries
        /\ \A i \in Entries \ {k} : arp_cache'[i] = arp_cache[i]
        /\ arp_cache'[k] = [ip |-> a, mac |-> m, resolved |-> TRUE]
    BY <1>2, <1>5, <2>1 DEF arp_cache_update
  <2>3. arp_cache'[k].ip = a /\ arp_cache'[k].mac = m /\ arp_cache'[k].resolved
    BY <2>2
  <2>4. \A i \in Entries : i < k => arp_cache[i].resolved /\ arp_cache[i].ip # a
    BY <1>2, <2>1
  <2>5. \A i \in Entries \ {k} : arp_cache[i].resolved => arp_cache[i].ip # a
    <3>1. SUFFICES ASSUME NEW i \in Entries \ {k}, arp_cache[i].resolved, arp_cache[i].ip = a
                   PROVE  FALSE
      OBVIOUS
    <3>2. k < i
      <4>1. i \in taken /\ i # k
        BY <3>1
      <4>2. k <= i /\ i \in Nat /\ k \in Nat
        BY <1>2, <2>1, <4>1
      <4>3. QED
        BY <4>1, <4>2
    <3>3. arp_cache[k].resolved
      BY <2>1, <3>1, <3>2 DEF CacheInv, EntriesInTurn
    <3>4. arp_cache[k].ip = a
      BY <2>1, <3>3
    <3>5. QED
      BY <2>1, <3>1, <3>3, <3>4 DEF CacheInv, EntriesInTurn
  <2>6. EntriesOK'
    BY <1>1, <1>3, <2>2, <2>3, <2>5 DEF CacheInv, EntriesOK, Free
  <2>7. EntriesInTurn'
    BY <1>2, <2>1, <2>2, <2>3, <2>4, <2>5 DEF CacheInv, EntriesInTurn
  <2>8. NoneMissing'
    <3>1. SUFFICES ASSUME NEW b \in Ips
                   PROVE  \/ latest'[b] = None
                          \/ \E i \in Entries : arp_cache'[i].resolved /\ arp_cache'[i].ip = b
                          \/ \A i \in Entries : arp_cache'[i].resolved
      BY DEF NoneMissing
    <3>2. CASE b = a
      BY <2>1, <2>3, <3>2
    <3>3. CASE b # a
      <4>1. CASE latest[b] = None
        BY <1>3, <3>3, <4>1
      <4>2. ASSUME NEW i \in Entries, arp_cache[i].resolved, arp_cache[i].ip = b
            PROVE  arp_cache'[i].resolved /\ arp_cache'[i].ip = b
        BY <2>1, <2>2, <3>3, <4>2
      <4>3. CASE \A i \in Entries : arp_cache[i].resolved
        BY <2>2, <2>3, <4>3
      <4>4. QED
        BY <4>1, <4>2, <4>3 DEF CacheInv, NoneMissing
    <3>4. QED
      BY <3>2, <3>3
  <2>9. QED
    BY <1>3, <2>2, <2>6, <2>7, <2>8 DEF CacheInv
<1>6. QED
  BY <1>4, <1>5

(* A reply is no echo, and no answer takes a frame that is being sent.     *)
LEMMA PollCache ==
  ASSUME CacheInv, RingInv, rtl8139_poll
  PROVE  CacheInv'
<1>1. PICK f \in (IF ring = <<>> THEN Frames ELSE {Head(ring)}) : arp_receive(f)
  BY DEF rtl8139_poll
<1>2. f \in Frames
  <2>1. CASE ring = <<>>
    BY <1>1, <2>1
  <2>2. CASE ring # <<>>
    BY <1>1, <2>2, HeadTailProperties DEF RingInv
  <2>3. QED
    BY <2>1, <2>2
<1>3. CASE f.kind = "answer" /\ arp_cache_update(f.ip, f.mac)
           /\ latest' = [latest EXCEPT ![f.ip] = f.mac]
  BY <1>2, <1>3, UpdateInv
<1>4. CASE UNCHANGED cache
  BY <1>4 DEF cache, CacheInv, EntriesOK, EntriesInTurn, NoneMissing
<1>5. QED
  BY <1>1, <1>3, <1>4 DEF arp_receive

LEMMA EchoStays ==
  ASSUME EchoOK, UNCHANGED <<ip, frame>> \/ frame' = None
  PROVE  EchoOK'
BY DEF EchoOK

LEMMA PollPing ==
  ASSUME PingInv, UNCHANGED ping
  PROVE  PingInv'
BY EchoStays DEF PingInv, ping

(* An entry of a machine has a MAC that it answered with.                  *)
LEMMA LookupAnswered ==
  ASSUME CacheInv, NEW a, NEW i \in arp_cache_lookup(a)
  PROVE  arp_cache[i].mac \in Answered(a)
<1>1. i \in Entries /\ arp_cache[i].resolved /\ arp_cache[i].ip = a
  BY DEF CacheInv, arp_cache_lookup
<1>2. arp_cache[i] # Free
  BY <1>1 DEF Free
<1>3. QED
  BY <1>1, <1>2 DEF CacheInv, EntriesOK

LEMMA ShellPing ==
  ASSUME CacheInv, PingInv, PingNext
  PROVE  CacheInv' /\ PingInv'
<1>1. UNCHANGED cache
  BY DEF PingNext, net_ping, delay_ticks, ip_send, icmp_send, SendStart, SendRest,
     SendRegisters, SendCount
<1>2. CacheInv'
  BY <1>1 DEF cache, CacheInv, EntriesOK, EntriesInTurn, NoneMissing
<1> SUFFICES PingInv'
  BY <1>2
<1>3. ASSUME NEW a \in Pinged, net_ping(a)
      PROVE  PingInv'
  <2>1. ip' = a /\ ip' \in Ips
    BY <1>3, NetAssumption DEF net_ping
  <2>2. CASE arp_request("delay")
    <3>1. EchoOK' /\ pc' = "send" /\ after' = "delay"
      BY <2>2 DEF arp_request, EchoOK
    <3>2. QED
      BY <2>1, <3>1 DEF PingInv, Sending
  <2>3. CASE pc' = "delay" /\ UNCHANGED <<frame, after>>
    <3>1. frame = None
      BY <1>3 DEF net_ping, PingInv, Sending
    <3>2. EchoOK'
      BY <2>3, <3>1, EchoStays DEF PingInv
    <3>3. QED
      BY <2>1, <2>3, <3>1, <3>2 DEF PingInv, Sending
  <2>4. QED
    BY <1>3, <2>2, <2>3 DEF net_ping
<1>4. CASE delay_ticks
  <2>1. EchoOK'
    BY <1>4, EchoStays DEF delay_ticks, PingInv
  <2>2. QED
    BY <1>4, <2>1 DEF delay_ticks, PingInv, Sending
<1>5. CASE ip_send
  <2>1. CASE arp_request("idle")
    <3>1. EchoOK' /\ pc' = "send" /\ after' = "idle" /\ UNCHANGED ip
      BY <1>5, <2>1 DEF ip_send, arp_request, EchoOK
    <3>2. QED
      BY <3>1 DEF PingInv, Sending
  <2>2. ASSUME NEW i \in arp_cache_lookup(ip),
               half' = arp_cache[i].mac, pc' = "mac rest", UNCHANGED <<frame, after>>
        PROVE  PingInv'
    <3>1. half' \in Answered(ip)
      BY <2>2, LookupAnswered
    <3>2. UNCHANGED ip /\ frame = None
      BY <1>5 DEF ip_send, PingInv, Sending
    <3>3. EchoOK'
      BY <2>2, <3>2, EchoStays DEF PingInv
    <3>4. QED
      BY <2>2, <3>1, <3>2, <3>3 DEF PingInv, Sending, Answered
  <2>3. QED
    BY <1>5, <2>1, <2>2 DEF ip_send
<1>6. CASE icmp_send
  <2>1. PICK i \in arp_cache_lookup(ip) :
          frame' = [kind |-> "echo", ip |-> ip, mac |-> <<half, arp_cache[i].mac>>]
    BY <1>6 DEF icmp_send
  <2>2. half \in Answered(ip) /\ arp_cache[i].mac \in Answered(ip)
    BY <1>6, LookupAnswered DEF icmp_send, PingInv
  <2>3. pc' = "send" /\ after' = "idle" /\ UNCHANGED ip
    BY <1>6 DEF icmp_send
  <2>4. frame'.mac \in Answered(ip) \X Answered(ip)
    BY <2>1, <2>2
  <2>5. EchoOK'
    BY <2>3, <2>4 DEF EchoOK, Answered
  <2>6. QED
    BY <2>3, <2>5 DEF PingInv, Sending
<1>7. CASE SendStart \/ SendRest \/ SendRegisters
  <2>1. UNCHANGED <<after, ip, half, frame>> /\ pc' \in Sending
    BY <1>7 DEF SendStart, SendRest, SendRegisters, Sending
  <2>2. EchoOK'
    BY <2>1, EchoStays DEF PingInv
  <2>3. QED
    BY <2>1, <2>2 DEF PingInv, Sending
<1>8. CASE SendCount
  <2>1. pc' = after /\ frame' = None /\ UNCHANGED <<after, ip>>
    BY <1>8 DEF SendCount
  <2>2. EchoOK'
    BY <2>1, EchoStays DEF PingInv
  <2>3. QED
    BY <2>1, <2>2 DEF PingInv, Sending
<1>9. QED
  BY <1>3, <1>4, <1>5, <1>6, <1>7, <1>8 DEF PingNext
-----------------------------------------------------------------------------
NetInv == RingInv /\ CacheInv /\ PingInv

LEMMA NetNextInv == NetInv /\ [NetNext]_netVars => NetInv'
<1> SUFFICES ASSUME NetInv, [NetNext]_netVars PROVE NetInv'
  OBVIOUS
<1>1. RingInv'
  BY RingStep DEF NetInv
<1>2. CASE PingNext
  BY <1>1, <1>2, ShellPing DEF NetInv
<1>3. CASE rtl8139_poll
  <2>1. UNCHANGED ping
    BY <1>3 DEF rtl8139_poll
  <2>2. QED
    BY <1>1, <1>3, <2>1, PollCache, PollPing DEF NetInv
<1>4. CASE CardNext \/ rtl8139_handler \/ ClearStatus \/ UNCHANGED netVars
  <2>1. UNCHANGED cache /\ UNCHANGED ping
    BY <1>4 DEF CardNext, Arrives, Transmits, rtl8139_handler, ClearStatus, netVars
  <2>2. CacheInv'
    BY <2>1 DEF NetInv, cache, CacheInv, EntriesOK, EntriesInTurn, NoneMissing
  <2>3. QED
    BY <1>1, <2>1, <2>2, PollPing DEF NetInv
<1>5. QED
  BY <1>2, <1>3, <1>4 DEF NetNext, HandlerNext

(* The cache has the last answer of each machine that answered, once, as   *)
(* long as it has room, and a ping goes to halves of a machine's own       *)
(* answers (arp_cache.c 6-29, net.c 27-40).                                *)
THEOREM CacheIsLatestHolds == NetSpec => []CacheIsLatest
<1>1. NetInit => NetInv
  BY RingInit, CacheInit DEF NetInv
<1>2. NetInv => CacheIsLatest
  <2> SUFFICES ASSUME NetInv PROVE CacheIsLatest
    OBVIOUS
  <2>1. ASSUME NEW a \in Ips
        PROVE  /\ Cardinality(arp_cache_lookup(a)) <= 1
               /\ \A i \in arp_cache_lookup(a) : arp_cache[i].mac = latest[a]
               /\ arp_cache_lookup(a) = {} =>
                    latest[a] = None \/ \A i \in DOMAIN arp_cache : arp_cache[i].resolved
    <3>1. \A i, j \in arp_cache_lookup(a) : i = j
      BY DEF NetInv, CacheInv, EntriesInTurn, arp_cache_lookup
    <3>2. Cardinality(arp_cache_lookup(a)) <= 1
      <4>1. CASE arp_cache_lookup(a) = {}
        BY <4>1, FS_EmptySet
      <4>2. ASSUME NEW i \in arp_cache_lookup(a)
            PROVE  Cardinality(arp_cache_lookup(a)) <= 1
        <5>1. arp_cache_lookup(a) = {i}
          BY <3>1
        <5>2. Cardinality({i}) = 1
          BY FS_Singleton
        <5>3. QED
          BY <5>1, <5>2
      <4>3. QED
        BY <4>1, <4>2
    <3>3. ASSUME NEW i \in arp_cache_lookup(a)
          PROVE  arp_cache[i].mac = latest[a]
      <4>1. i \in Entries /\ arp_cache[i].resolved /\ arp_cache[i].ip = a
        BY DEF NetInv, CacheInv, arp_cache_lookup
      <4>2. arp_cache[i] # Free
        BY <4>1 DEF Free
      <4>3. QED
        BY <4>1, <4>2 DEF NetInv, CacheInv, EntriesOK
    <3>4. arp_cache_lookup(a) = {} =>
            latest[a] = None \/ \A i \in DOMAIN arp_cache : arp_cache[i].resolved
      BY DEF NetInv, CacheInv, NoneMissing, arp_cache_lookup
    <3>5. QED
      BY <3>2, <3>3, <3>4
  <2>2. EchoOK
    BY DEF NetInv, PingInv
  <2>3. QED
    BY <2>1, <2>2 DEF CacheIsLatest, EchoOK
<1>3. QED
  BY <1>1, NetNextInv, <1>2, PTL DEF NetSpec

-----------------------------------------------------------------------------
(* The slots that the card sends from.                                     *)

(* The remainder of a number that is at most one turn off.                 *)
LEMMA ModOnce ==
  ASSUME NEW n \in Nat, n >= 2, NEW a \in Nat, a < 2 * n
  PROVE  a % n = IF a < n THEN a ELSE a - n
<1>1. CASE a < n
  BY <1>1, SMTT(20)
<1>2. CASE n <= a
  BY <1>2, SMTT(20)
<1> QED
  BY <1>1, <1>2

(* The slot k places ahead of c.                                           *)
Place(c, k) == IF c + k < TxSlots THEN c + k ELSE (c + k) - TxSlots

LEMMA PlaceIs ==
  /\ TxSlots \in Nat /\ TxSlots >= 2
  /\ \A c \in Slots, k \in 0 .. TxSlots :
       Place(c, k) \in Slots /\ Place(c, k) = (c + k) % TxSlots
  /\ \A n \in Slots : Next1(n) = Place(n, 1)
<1>1. TxSlots \in Nat /\ TxSlots >= 2
  BY NetAssumption
<1>2. ASSUME NEW c \in Slots, NEW k \in 0 .. TxSlots
      PROVE  Place(c, k) \in Slots /\ Place(c, k) = (c + k) % TxSlots
  <2>1. c + k \in Nat /\ c + k < 2 * TxSlots
    BY <1>1 DEF Slots
  <2>2. (c + k) % TxSlots = IF c + k < TxSlots THEN c + k ELSE (c + k) - TxSlots
    BY <1>1, <2>1, ModOnce
  <2>3. Place(c, k) \in Slots
    BY <1>1 DEF Place, Slots
  <2>4. Place(c, k) = IF c + k < TxSlots THEN c + k ELSE (c + k) - TxSlots
    BY DEF Place
  <2> QED
    BY <2>2, <2>3, <2>4, Zenon
<1>3. \A n \in Slots : Next1(n) = Place(n, 1)
  BY <1>1, <1>2 DEF Next1
<1> QED
  BY <1>1, <1>2, <1>3

LEMMA PlaceType ==
  /\ TxSlots \in Nat /\ TxSlots >= 2
  /\ \A c \in Slots, k \in 0 .. TxSlots : Place(c, k) \in Slots
BY PlaceIs

LEMMA PlacesAhead ==
  ASSUME NEW c \in Slots, NEW k \in 0 .. TxSlots - 1
  PROVE  /\ Place(Place(c, 1), k) = Place(c, k + 1)
         /\ Place(Place(c, k), 1) = Place(c, k + 1)
         /\ k > 0 => Place(c, k) # c
         /\ Place(c, 0) = c
BY PlaceType DEF Place, Slots

Given == {n \in Slots : owned[n]}
Halves(n) == <<rtl_tx_buffer[n][1], rtl_tx_buffer[n][2]>>

Behind ==
  IF pc = "count" THEN Place(tx_counter, 1) = Place(current, Len(owed))
  ELSE tx_counter = Place(current, Len(owed))

(* The registers from the one that is sent next hold what is owed, each    *)
(* its own slot, and the counter is behind the last of them, or the shell  *)
(* is about to take it there; the slot the shell fills is not the card's.  *)
InOrder ==
  /\ current \in Slots /\ tx_counter \in Slots
  /\ address \in [Slots -> Slots] /\ owned \in [Slots -> BOOLEAN]
  /\ rtl_tx_buffer = [n \in Slots |-> Halves(n)]
  /\ \E S : owed \in Seq(S)
  /\ Cardinality(Given) = Len(owed)
  /\ \A k \in 1 .. Len(owed) :
       LET n == Place(current, k - 1)
       IN  owned[n] /\ address[n] = n /\ rtl_tx_buffer[n] = <<owed[k], owed[k]>>
  /\ Behind
  /\ InSend => slot = tx_counter
  /\ pc \in {"copy rest", "registers"} => ~owned[slot] /\ rtl_tx_buffer[slot][1] = frame
  /\ pc = "registers" => rtl_tx_buffer[slot][2] = frame

SentInv == ~spoiled => InOrder

LEMMA GivenFits ==
  ASSUME NEW S \in SUBSET Slots
  PROVE  IsFiniteSet(S) /\ Cardinality(S) \in 0 .. TxSlots
<1>1. IsFiniteSet(Slots) /\ Cardinality(Slots) = TxSlots
  <2>1. 0 \in Int /\ TxSlots - 1 \in Int /\ TxSlots \in Nat /\ TxSlots >= 2
    BY NetAssumption
  <2>2. IsFiniteSet(0 .. TxSlots - 1)
    BY <2>1, FS_Interval
  <2>3. Cardinality(0 .. TxSlots - 1) = IF 0 > TxSlots - 1 THEN 0 ELSE (TxSlots - 1) - 0 + 1
    BY <2>1, FS_Interval
  <2> QED
    BY <2>1, <2>2, <2>3 DEF Slots
<1>2. IsFiniteSet(S) /\ Cardinality(S) <= Cardinality(Slots)
  BY <1>1, FS_Subset
<1>3. Cardinality(S) \in Nat
  BY <1>2, FS_CardinalityType
<1> QED
  BY <1>1, <1>2, <1>3, NetAssumption

LEMMA InOrderTypes ==
  ASSUME InOrder
  PROVE  /\ current \in Slots /\ tx_counter \in Slots /\ owned \in [Slots -> BOOLEAN]
         /\ address \in [Slots -> Slots] /\ Behind
BY DEF InOrder

LEMMA InOrderFits ==
  ASSUME InOrder
  PROVE  Len(owed) \in 0 .. TxSlots /\ \A k \in 1 .. Len(owed) : Place(current, k - 1) \in Slots
<1>1. Len(owed) \in 0 .. TxSlots
  BY GivenFits DEF InOrder, Given
<1>2. current \in Slots /\ \A k \in 1 .. Len(owed) : k - 1 \in 0 .. TxSlots
  BY <1>1, PlaceType, InOrderTypes
<1> QED
  BY <1>1, <1>2, PlaceType

(* The card sends the next frame.                                          *)
LEMMA TransmitsInOrder ==
  ASSUME InOrder, Transmits
  PROVE  InOrder'
<1> DEFINE c == current
           l == Len(owed)
<1>1. /\ owned[c] /\ owned' = [owned EXCEPT ![c] = FALSE] /\ current' = Place(c, 1)
      /\ UNCHANGED <<address, rtl_tx_buffer, tx_counter, ping>>
  BY PlaceIs DEF Transmits, InOrder
<1>2. PICK S : owed \in Seq(S)
  BY DEF InOrder
<1>3. Cardinality(Given') = l - 1 /\ l \in 1 .. TxSlots
  <2>1. IsFiniteSet(Given) /\ c \in Given /\ Given' = Given \ {c}
    BY <1>1, GivenFits DEF InOrder, Given
  <2>2. Cardinality(Given \ {c}) = Cardinality(Given) - 1
    BY <2>1, FS_RemoveElement
  <2>3. Cardinality(Given') \in 0 .. TxSlots
    BY GivenFits DEF Given
  <2>4. Cardinality(Given) = l /\ l \in 0 .. TxSlots
    BY InOrderFits DEF InOrder
  <2> QED
    BY <2>1, <2>2, <2>3, <2>4, PlaceType
<1>4. /\ owed' = Tail(owed) /\ owed' \in Seq(S) /\ Len(owed') = l - 1
      /\ \A k \in 1 .. l - 1 : owed'[k] = owed[k + 1]
  BY <1>2, <1>3 DEF Transmits
<1>5. \A k \in 1 .. l - 1 :
        /\ Place(current', k - 1) = Place(c, k)
        /\ Place(c, k) # c /\ Place(c, k) \in Slots
  <2>1. \A k \in 1 .. l - 1 : k - 1 \in 0 .. TxSlots - 1 /\ k \in 0 .. TxSlots - 1 /\ k > 0
    BY <1>3, PlaceType
  <2>2. c \in Slots
    BY DEF InOrder
  <2>3. ASSUME NEW k \in 1 .. l - 1
        PROVE  Place(Place(c, 1), k - 1) = Place(c, k) /\ Place(c, k) # c /\ Place(c, k) \in Slots
    <3>1. k - 1 \in 0 .. TxSlots - 1 /\ k \in 0 .. TxSlots - 1 /\ k > 0 /\ (k - 1) + 1 = k
          /\ k \in 0 .. TxSlots
      BY <1>3, <2>1, PlaceType
    <3>2. Place(Place(c, 1), k - 1) = Place(c, (k - 1) + 1) /\ Place(c, k) # c
      BY <2>2, <3>1, PlacesAhead
    <3> QED
      BY <2>2, <3>1, <3>2, PlaceType
  <2> QED
    BY <1>1, <2>3
<1>6. \A k \in 1 .. Len(owed') :
        LET n == Place(current', k - 1)
        IN  owned'[n] /\ address'[n] = n /\ rtl_tx_buffer'[n] = <<owed'[k], owed'[k]>>
  <2>1. SUFFICES ASSUME NEW k \in 1 .. l - 1
                 PROVE  LET n == Place(c, k)
                        IN  /\ owned'[n] /\ address'[n] = n
                            /\ rtl_tx_buffer'[n] = <<owed[k + 1], owed[k + 1]>>
    BY <1>4, <1>5
  <2>2. k + 1 \in 1 .. Len(owed) /\ (k + 1) - 1 = k
    BY <1>3
  <2> QED
    BY <1>1, <1>5, <2>2 DEF InOrder
<1>7. Place(current', Len(owed')) = Place(c, l)
  <2>1. c \in Slots /\ l - 1 \in 0 .. TxSlots - 1 /\ (l - 1) + 1 = l
    BY <1>3, PlaceType, InOrderTypes
  <2>2. Place(Place(c, 1), l - 1) = Place(c, (l - 1) + 1)
    BY <2>1, PlacesAhead
  <2> QED
    BY <1>1, <1>4, <2>1, <2>2
<1>8. current' \in Slots /\ owned' \in [Slots -> BOOLEAN]
  <2>1. c \in Slots /\ 1 \in 0 .. TxSlots /\ owned \in [Slots -> BOOLEAN]
    BY PlaceType, InOrderTypes
  <2> QED
    BY <1>1, <2>1, PlaceType
<1>9. pc \in {"copy rest", "registers"} => ~owned'[slot]
  BY <1>1 DEF InOrder, InSend

<1>10. /\ UNCHANGED <<pc, frame, slot, rtl_tx_buffer, address, tx_counter>>
       /\ Len(owed') = l - 1
  BY <1>1, <1>4 DEF ping
<1>11. Cardinality(Given') = Len(owed')
  BY <1>3, <1>10
<1>12. Behind'
  <2>1. IF pc = "count" THEN Place(tx_counter, 1) = Place(c, l) ELSE tx_counter = Place(c, l)
    BY InOrderTypes DEF Behind
  <2>2. CASE pc = "count"
    <3>1. Place(tx_counter', 1) = Place(c, l)
      BY <1>10, <2>1, <2>2
    <3> QED
      BY <1>7, <1>10, <2>2, <3>1 DEF Behind
  <2>3. CASE pc # "count"
    BY <1>7, <1>10, <2>1, <2>3 DEF Behind
  <2> QED
    BY <2>2, <2>3
<1>13. rtl_tx_buffer' = [n \in Slots |-> Halves(n)']
  BY <1>10 DEF InOrder, Halves
<1> QED
  BY <1>4, <1>6, <1>8, <1>9, <1>10, <1>11, <1>12, <1>13 DEF InOrder, InSend


(* What leaves the transmitter alone, and the shell where it is in a send  *)
(* or outside of one.                                                      *)
LEMMA SameInOrder ==
  ASSUME InOrder, UNCHANGED transmit,
         UNCHANGED ping \/ (~InSend /\ pc' \notin {"copy rest", "registers", "count"})
  PROVE  InOrder'
<1>1. UNCHANGED <<address, owned, current, rtl_tx_buffer, tx_counter, owed>>
  BY DEF transmit
<1>2. Cardinality(Given') = Cardinality(Given)
  BY <1>1 DEF Given
<1>3. rtl_tx_buffer' = [n \in Slots |-> Halves(n)']
  BY <1>1 DEF InOrder, Halves
<1>4. CASE UNCHANGED ping
  <2>1. UNCHANGED <<pc, frame, slot>>
    BY <1>4 DEF ping
  <2> QED
    BY <1>1, <1>2, <1>3, <2>1 DEF InOrder, InSend, Behind
<1>5. CASE ~InSend /\ pc' \notin {"copy rest", "registers", "count"}
  BY <1>1, <1>2, <1>3, <1>5 DEF InOrder, InSend, Behind
<1> QED
  BY <1>4, <1>5

(* A frame is given to the card in the register behind the last.           *)
LEMMA GivesInOrder ==
  ASSUME InOrder, NEW n \in Slots, ~owned[n], NEW f,
         n = Place(current, Len(owed)),
         rtl_tx_buffer'[n] = <<f, f>>,
         \A j \in Slots \ {n} : rtl_tx_buffer'[j] = rtl_tx_buffer[j],
         address' = [address EXCEPT ![n] = n],
         owned' = [owned EXCEPT ![n] = TRUE],
         owed' = Append(owed, f), UNCHANGED current
  PROVE  /\ address' \in [Slots -> Slots] /\ owned' \in [Slots -> BOOLEAN]
         /\ Len(owed) \in 0 .. TxSlots - 1 /\ Len(owed') = Len(owed) + 1
         /\ \E S : owed' \in Seq(S)
         /\ Cardinality(Given') = Len(owed')
         /\ \A k \in 1 .. Len(owed') :
              LET i == Place(current', k - 1)
              IN  owned'[i] /\ address'[i] = i /\ rtl_tx_buffer'[i] = <<owed'[k], owed'[k]>>
<1>1. PICK S : owed \in Seq(S)
  BY DEF InOrder
<1>2. owed \in Seq(S \union {f})
  BY <1>1
<1>3. /\ owed' \in Seq(S \union {f}) /\ Len(owed') = Len(owed) + 1
      /\ owed'[Len(owed) + 1] = f
      /\ \A k \in 1 .. Len(owed) : owed'[k] = owed[k]
  BY <1>2
<1>4. Cardinality(Given') = Len(owed) + 1
  <2>1. IsFiniteSet(Given) /\ n \notin Given /\ Given' = Given \union {n}
    BY GivenFits DEF InOrder, Given
  <2>2. Cardinality(Given \union {n}) = Cardinality(Given) + 1
    BY <2>1, FS_AddElement
  <2> QED
    BY <2>1, <2>2 DEF InOrder
<1>5. Len(owed) \in 0 .. TxSlots - 1
  <2>1. Cardinality(Given') \in 0 .. TxSlots
    BY GivenFits DEF Given
  <2> QED
    BY <1>4, <2>1, InOrderFits, PlaceType
<1>6. address' \in [Slots -> Slots] /\ owned' \in [Slots -> BOOLEAN]
  BY DEF InOrder
<1>7. ASSUME NEW k \in 1 .. Len(owed)
      PROVE  LET i == Place(current, k - 1)
             IN  owned'[i] /\ address'[i] = i /\ rtl_tx_buffer'[i] = <<owed'[k], owed'[k]>>
  <2>1. /\ owned[Place(current, k - 1)] /\ Place(current, k - 1) \in Slots
        /\ address[Place(current, k - 1)] = Place(current, k - 1)
        /\ rtl_tx_buffer[Place(current, k - 1)] = <<owed[k], owed[k]>>
    BY InOrderFits DEF InOrder
  <2>2. Place(current, k - 1) # n
    BY <2>1
  <2> QED
    BY <1>3, <2>1, <2>2 DEF InOrder
<1>8. owned'[n] /\ address'[n] = n
  BY DEF InOrder
<1>9. \A k \in 1 .. Len(owed') :
        LET i == Place(current', k - 1)
        IN  owned'[i] /\ address'[i] = i /\ rtl_tx_buffer'[i] = <<owed'[k], owed'[k]>>
  <2>1. SUFFICES ASSUME NEW k \in 1 .. Len(owed) + 1
                 PROVE  LET i == Place(current, k - 1)
                        IN  owned'[i] /\ address'[i] = i /\ rtl_tx_buffer'[i] = <<owed'[k], owed'[k]>>
    BY <1>3
  <2>2. CASE k \in 1 .. Len(owed)
    BY <1>7, <2>2
  <2>3. CASE k = Len(owed) + 1
    <3>1. k - 1 = Len(owed)
      BY <1>5, <2>3
    <3> QED
      BY <1>3, <1>8, <2>3, <3>1
  <2> QED
    BY <1>5, <2>1, <2>2, <2>3
<1> QED
  BY <1>3, <1>4, <1>5, <1>6, <1>9

(* A reply goes out whole between two sends of the shell.                  *)
LEMMA WholeInOrder ==
  ASSUME InOrder, NEW f, SendWhole(f), ~spoiled', UNCHANGED ping
  PROVE  InOrder'
<1> DEFINE n == tx_counter
<1>1. ~InSend /\ ~owned[n] /\ n \in Slots /\ UNCHANGED <<pc, frame, slot, current>>
  BY DEF SendWhole, ping, InOrder
<1>2. n = Place(current, Len(owed))
  BY <1>1, InOrderTypes DEF Behind, InSend
<1>3. /\ DOMAIN rtl_tx_buffer = Slots
      /\ rtl_tx_buffer' = [rtl_tx_buffer EXCEPT ![n] = <<f, f>>]
  BY DEF SendWhole, InOrder
<1>4. rtl_tx_buffer'[n] = <<f, f>> /\ \A j \in Slots \ {n} : rtl_tx_buffer'[j] = rtl_tx_buffer[j]
  BY <1>1, <1>3
<1>5. /\ address' = [address EXCEPT ![n] = n] /\ owned' = [owned EXCEPT ![n] = TRUE]
      /\ owed' = Append(owed, f) /\ tx_counter' = Next1(n)
  BY DEF SendWhole
<1>6. /\ address' \in [Slots -> Slots] /\ owned' \in [Slots -> BOOLEAN]
      /\ Len(owed) \in 0 .. TxSlots - 1 /\ Len(owed') = Len(owed) + 1
      /\ \E S : owed' \in Seq(S)
      /\ Cardinality(Given') = Len(owed')
      /\ \A k \in 1 .. Len(owed') :
           LET i == Place(current', k - 1)
           IN  owned'[i] /\ address'[i] = i /\ rtl_tx_buffer'[i] = <<owed'[k], owed'[k]>>
  BY <1>1, <1>2, <1>4, <1>5, GivesInOrder
<1>7. tx_counter' = Place(current', Len(owed')) /\ tx_counter' \in Slots
  <2>1. tx_counter' = Place(Place(current, Len(owed)), 1)
    BY <1>1, <1>2, <1>5, PlaceIs
  <2>2. current \in Slots /\ Len(owed) \in 0 .. TxSlots - 1 /\ Len(owed) + 1 \in 0 .. TxSlots
    BY <1>6, PlaceType, InOrderTypes
  <2>3. tx_counter' = Place(current, Len(owed) + 1)
    BY <2>1, <2>2, PlacesAhead
  <2>4. tx_counter' \in Slots
    BY <2>2, <2>3, PlaceType
  <2> QED
    BY <1>1, <1>6, <2>3, <2>4
<1>8. rtl_tx_buffer' = [i \in Slots |-> Halves(i)']
  <2>1. \A i \in Slots : rtl_tx_buffer[i] = <<rtl_tx_buffer[i][1], rtl_tx_buffer[i][2]>>
    BY DEF InOrder, Halves
  <2>2. \A i \in Slots : rtl_tx_buffer'[i] = <<rtl_tx_buffer'[i][1], rtl_tx_buffer'[i][2]>>
    BY <1>4, <2>1
  <2>3. \A i \in Slots : rtl_tx_buffer'[i] = Halves(i)'
    BY <2>2 DEF Halves
  <2> QED
    BY <1>3, <2>3
<1>9. ~InSend' /\ pc' \notin {"copy rest", "registers", "count"} /\ current' \in Slots
  BY <1>1 DEF InSend, InOrder
<1>10. Behind'
  BY <1>7, <1>9 DEF Behind
<1> QED
  BY <1>6, <1>7, <1>8, <1>9, <1>10 DEF InOrder, InSend


LEMMA HalfWritten ==
  ASSUME NEW a, NEW b, NEW f
  PROVE  /\ [<<a, b>> EXCEPT ![1] = f] = <<f, b>>
         /\ [<<a, b>> EXCEPT ![2] = f] = <<a, f>>
OBVIOUS

(* The shell copies the first half into the slot, which the card is not    *)
(* given.                                                                  *)
LEMMA StartInOrder ==
  ASSUME InOrder, SendStart, ~spoiled'
  PROVE  InOrder'
<1> DEFINE n == tx_counter
<1>1. /\ pc = "send" /\ pc' = "copy rest" /\ slot' = n /\ ~owned[n]
      /\ rtl_tx_buffer' = [rtl_tx_buffer EXCEPT ![n][1] = frame]
      /\ UNCHANGED <<address, owned, current, tx_counter, owed, frame>>
  BY DEF SendStart
<1>2. n \in Slots /\ DOMAIN rtl_tx_buffer = Slots
      /\ rtl_tx_buffer[n] = <<rtl_tx_buffer[n][1], rtl_tx_buffer[n][2]>>
  BY DEF InOrder, Halves
<1>3. /\ DOMAIN rtl_tx_buffer' = Slots
      /\ rtl_tx_buffer'[n] = <<frame, rtl_tx_buffer[n][2]>>
      /\ \A j \in Slots \ {n} : rtl_tx_buffer'[j] = rtl_tx_buffer[j]
  <2>1. /\ DOMAIN rtl_tx_buffer' = Slots
        /\ rtl_tx_buffer'[n] = [rtl_tx_buffer[n] EXCEPT ![1] = frame]
        /\ \A j \in Slots \ {n} : rtl_tx_buffer'[j] = rtl_tx_buffer[j]
    BY <1>1, <1>2
  <2>2. [rtl_tx_buffer[n] EXCEPT ![1] = frame] = <<frame, rtl_tx_buffer[n][2]>>
    BY <1>2, HalfWritten
  <2> QED
    BY <2>1, <2>2
<1>4. rtl_tx_buffer' = [i \in Slots |-> Halves(i)']
  <2>1. \A i \in Slots : rtl_tx_buffer[i] = <<rtl_tx_buffer[i][1], rtl_tx_buffer[i][2]>>
    BY DEF InOrder, Halves
  <2>2. \A i \in Slots : rtl_tx_buffer'[i] = <<rtl_tx_buffer'[i][1], rtl_tx_buffer'[i][2]>>
    BY <1>3, <2>1
  <2>3. \A i \in Slots : rtl_tx_buffer'[i] = Halves(i)'
    BY <2>2 DEF Halves
  <2>4. rtl_tx_buffer' = [i \in Slots |-> rtl_tx_buffer'[i]]
    BY <1>1, <1>2
  <2> QED
    BY <2>3, <2>4
<1>5. ASSUME NEW k \in 1 .. Len(owed)
      PROVE  LET i == Place(current, k - 1)
             IN  owned[i] /\ address[i] = i /\ rtl_tx_buffer'[i] = <<owed[k], owed[k]>>
  <2>1. /\ owned[Place(current, k - 1)] /\ Place(current, k - 1) \in Slots
        /\ address[Place(current, k - 1)] = Place(current, k - 1)
        /\ rtl_tx_buffer[Place(current, k - 1)] = <<owed[k], owed[k]>>
    BY InOrderFits DEF InOrder
  <2>2. Place(current, k - 1) # n
    BY <1>1, <2>1
  <2> QED
    BY <1>3, <2>1, <2>2
<1>6. Behind'
  BY <1>1, InOrderTypes DEF Behind
<1>7. Cardinality(Given') = Len(owed')
  BY <1>1 DEF InOrder, Given
<1>8. ~owned'[slot'] /\ rtl_tx_buffer'[slot'][1] = frame' /\ slot' = tx_counter'
  <2>1. rtl_tx_buffer'[n][1] = frame
    BY <1>3
  <2> QED
    BY <1>1, <2>1
<1>9. /\ current' \in Slots /\ tx_counter' \in Slots
      /\ address' \in [Slots -> Slots] /\ owned' \in [Slots -> BOOLEAN]
      /\ \E S : owed' \in Seq(S)
  BY <1>1 DEF InOrder
<1> QED
  BY <1>1, <1>4, <1>5, <1>6, <1>7, <1>8, <1>9 DEF InOrder

(* The rest goes into the same slot: nothing moved the counter since.      *)
LEMMA RestInOrder ==
  ASSUME InOrder, SendRest
  PROVE  InOrder'
<1> DEFINE n == tx_counter
<1>1. slot = n /\ n \in Slots /\ ~owned[n] /\ rtl_tx_buffer[n][1] = frame
  BY DEF InOrder, SendRest, InSend
<1>2. /\ pc = "copy rest" /\ pc' = "registers"
      /\ rtl_tx_buffer' = [rtl_tx_buffer EXCEPT ![n][2] = frame]
      /\ UNCHANGED <<address, owned, current, tx_counter, owed, frame, slot>>
  BY <1>1 DEF SendRest
<1>3. DOMAIN rtl_tx_buffer = Slots /\ \A i \in Slots : rtl_tx_buffer[i] = <<rtl_tx_buffer[i][1], rtl_tx_buffer[i][2]>>
  BY DEF InOrder, Halves
<1>4. /\ DOMAIN rtl_tx_buffer' = Slots
      /\ rtl_tx_buffer'[n] = <<frame, frame>>
      /\ \A j \in Slots \ {n} : rtl_tx_buffer'[j] = rtl_tx_buffer[j]
  <2>1. /\ DOMAIN rtl_tx_buffer' = Slots
        /\ rtl_tx_buffer'[n] = [rtl_tx_buffer[n] EXCEPT ![2] = frame]
        /\ \A j \in Slots \ {n} : rtl_tx_buffer'[j] = rtl_tx_buffer[j]
    BY <1>1, <1>2, <1>3
  <2>2. [rtl_tx_buffer[n] EXCEPT ![2] = frame] = <<rtl_tx_buffer[n][1], frame>>
    BY <1>1, <1>3, HalfWritten
  <2> QED
    BY <1>1, <2>1, <2>2
<1>5. rtl_tx_buffer' = [i \in Slots |-> Halves(i)']
  <2>1. \A i \in Slots : rtl_tx_buffer'[i] = <<rtl_tx_buffer'[i][1], rtl_tx_buffer'[i][2]>>
    BY <1>3, <1>4
  <2>2. \A i \in Slots : rtl_tx_buffer'[i] = Halves(i)'
    BY <2>1 DEF Halves
  <2>3. rtl_tx_buffer' = [i \in Slots |-> rtl_tx_buffer'[i]]
    BY <1>2, <1>3
  <2> QED
    BY <2>2, <2>3
<1>6. ASSUME NEW k \in 1 .. Len(owed)
      PROVE  LET i == Place(current, k - 1)
             IN  owned[i] /\ address[i] = i /\ rtl_tx_buffer'[i] = <<owed[k], owed[k]>>
  <2>1. /\ owned[Place(current, k - 1)] /\ Place(current, k - 1) \in Slots
        /\ address[Place(current, k - 1)] = Place(current, k - 1)
        /\ rtl_tx_buffer[Place(current, k - 1)] = <<owed[k], owed[k]>>
    BY InOrderFits DEF InOrder
  <2>2. Place(current, k - 1) # n
    BY <1>1, <2>1
  <2> QED
    BY <1>4, <2>1, <2>2
<1>7. Behind'
  BY <1>2, InOrderTypes DEF Behind
<1>8. Cardinality(Given') = Len(owed')
  BY <1>2 DEF InOrder, Given
<1>9. ~owned'[slot'] /\ rtl_tx_buffer'[slot'][1] = frame' /\ rtl_tx_buffer'[slot'][2] = frame'
      /\ slot' = tx_counter'
  <2>1. rtl_tx_buffer'[n][1] = frame /\ rtl_tx_buffer'[n][2] = frame
    BY <1>4
  <2> QED
    BY <1>1, <1>2, <2>1
<1>10. /\ current' \in Slots /\ tx_counter' \in Slots
       /\ address' \in [Slots -> Slots] /\ owned' \in [Slots -> BOOLEAN]
       /\ \E S : owed' \in Seq(S)
  BY <1>2 DEF InOrder
<1> QED
  BY <1>2, <1>5, <1>6, <1>7, <1>8, <1>9, <1>10 DEF InOrder

(* The registers of the slot are written: the frame in it is whole.        *)
LEMMA RegistersInOrder ==
  ASSUME InOrder, SendRegisters
  PROVE  InOrder'
<1> DEFINE n == tx_counter
<1>1. /\ slot = n /\ n \in Slots /\ ~owned[n]
      /\ rtl_tx_buffer[n][1] = frame /\ rtl_tx_buffer[n][2] = frame
  BY DEF InOrder, SendRegisters, InSend
<1>2. /\ pc = "registers" /\ pc' = "count"
      /\ address' = [address EXCEPT ![n] = n] /\ owned' = [owned EXCEPT ![n] = TRUE]
      /\ owed' = Append(owed, frame)
      /\ UNCHANGED <<current, rtl_tx_buffer, tx_counter, frame, slot>>
  BY <1>1 DEF SendRegisters
<1>3. rtl_tx_buffer[n] = <<frame, frame>>
  BY <1>1 DEF InOrder, Halves
<1>4. n = Place(current, Len(owed))
  BY <1>2, InOrderTypes DEF Behind
<1>5. rtl_tx_buffer'[n] = <<frame, frame>> /\ \A j \in Slots \ {n} : rtl_tx_buffer'[j] = rtl_tx_buffer[j]
  BY <1>2, <1>3
<1>6. /\ address' \in [Slots -> Slots] /\ owned' \in [Slots -> BOOLEAN]
      /\ Len(owed) \in 0 .. TxSlots - 1 /\ Len(owed') = Len(owed) + 1
      /\ \E S : owed' \in Seq(S)
      /\ Cardinality(Given') = Len(owed')
      /\ \A k \in 1 .. Len(owed') :
           LET i == Place(current', k - 1)
           IN  owned'[i] /\ address'[i] = i /\ rtl_tx_buffer'[i] = <<owed'[k], owed'[k]>>
  BY <1>1, <1>2, <1>4, <1>5, GivesInOrder
<1>7. Behind'
  <2>1. current \in Slots
    BY InOrderTypes
  <2>2. Place(Place(current, Len(owed)), 1) = Place(current, Len(owed) + 1)
    BY <1>6, <2>1, PlacesAhead
  <2>3. Place(tx_counter', 1) = Place(current', Len(owed'))
    BY <1>2, <1>4, <1>6, <2>2
  <2> QED
    BY <1>2, <2>3 DEF Behind
<1>8. rtl_tx_buffer' = [i \in Slots |-> Halves(i)']
  BY <1>2 DEF InOrder, Halves
<1>9. current' \in Slots /\ tx_counter' \in Slots /\ slot' = tx_counter'
  BY <1>1, <1>2, InOrderTypes
<1> QED
  BY <1>2, <1>6, <1>7, <1>8, <1>9 DEF InOrder

(* The counter follows.                                                    *)
LEMMA CountInOrder ==
  ASSUME InOrder, PingInv, SendCount
  PROVE  InOrder'
<1>1. slot = tx_counter /\ pc = "count" /\ pc' \in {"idle", "delay"}
      /\ UNCHANGED <<address, owned, current, rtl_tx_buffer, owed>>
  BY DEF InOrder, PingInv, SendCount, InSend
<1>2. tx_counter' = Next1(tx_counter)
  BY <1>1 DEF SendCount
<1>3. tx_counter' = Place(tx_counter, 1) /\ tx_counter' \in Slots
  <2>1. tx_counter \in Slots /\ 1 \in 0 .. TxSlots
    BY PlaceType, InOrderTypes
  <2>2. Next1(tx_counter) = Place(tx_counter, 1)
    BY <2>1, PlaceIs
  <2> QED
    BY <1>2, <2>1, <2>2, PlaceType
<1>4. Behind'
  BY <1>1, <1>3, InOrderTypes DEF Behind
<1>5. rtl_tx_buffer' = [i \in Slots |-> Halves(i)']
  BY <1>1 DEF InOrder, Halves
<1>6. Cardinality(Given') = Len(owed')
  BY <1>1 DEF InOrder, Given
<1>7. ~InSend' /\ pc' \notin {"copy rest", "registers", "count"}
  BY <1>1 DEF InSend
<1> QED
  BY <1>1, <1>3, <1>4, <1>5, <1>6, <1>7 DEF InOrder


LEMMA SpoiledStays ==
  ASSUME [NetNext]_netVars, ~spoiled'
  PROVE  ~spoiled
<1>1. CASE CardNext \/ rtl8139_handler \/ ClearStatus \/ UNCHANGED netVars
  BY <1>1 DEF CardNext, Arrives, Transmits, rtl8139_handler, ClearStatus, netVars, transmit
<1>2. CASE rtl8139_poll
  BY <1>2 DEF rtl8139_poll, arp_receive, SendWhole, transmit
<1>3. CASE PingNext
  BY <1>3 DEF PingNext, net_ping, delay_ticks, ip_send, icmp_send, SendStart, SendRest,
     SendRegisters, SendCount, transmit
<1> QED
  BY <1>1, <1>2, <1>3 DEF NetNext, HandlerNext

LEMMA SentInit == NetInit => SentInv
<1> SUFFICES ASSUME NetInit PROVE InOrder
  BY DEF SentInv
<1>1. /\ address = [n \in Slots |-> 0] /\ owned = [n \in Slots |-> FALSE]
      /\ current = 0 /\ tx_counter = 0
      /\ rtl_tx_buffer = [n \in Slots |-> <<None, None>>]
      /\ owed = <<>> /\ pc = "idle"
  BY DEF NetInit
<1>2. 0 \in Slots
  BY PlaceType DEF Slots
<1>3. owed \in Seq({}) /\ Len(owed) = 0
  BY <1>1
<1>4. Cardinality(Given) = 0
  <2>1. Given = {}
    BY <1>1 DEF Given
  <2> QED
    BY <2>1, FS_EmptySet
<1>5. Behind
  <2>1. Place(0, 0) = 0
    BY <1>2, PlaceType, PlacesAhead
  <2> QED
    BY <1>1, <1>3, <2>1 DEF Behind
<1>6. rtl_tx_buffer = [n \in Slots |-> Halves(n)]
  BY <1>1 DEF Halves
<1> QED
  BY <1>1, <1>2, <1>3, <1>4, <1>5, <1>6 DEF InOrder, InSend

LEMMA SentStep ==
  ASSUME NetInv, SentInv, [NetNext]_netVars
  PROVE  SentInv'
<1> SUFFICES ASSUME ~spoiled' PROVE InOrder'
  BY DEF SentInv
<1>1. InOrder
  BY SpoiledStays DEF SentInv
<1>2. CASE Transmits
  BY <1>1, <1>2, TransmitsInOrder
<1>3. CASE (\E f \in Frames : Arrives(f)) \/ rtl8139_handler \/ ClearStatus \/ UNCHANGED netVars
  <2>1. UNCHANGED transmit /\ UNCHANGED ping
    BY <1>3 DEF Arrives, rtl8139_handler, ClearStatus, netVars
  <2> QED
    BY <1>1, <2>1, SameInOrder
<1>4. CASE rtl8139_poll
  <2>1. UNCHANGED ping
    BY <1>4 DEF rtl8139_poll
  <2>2. UNCHANGED transmit \/ \E f : SendWhole(f)
    BY <1>4 DEF rtl8139_poll, arp_receive
  <2> QED
    BY <1>1, <2>1, <2>2, SameInOrder, WholeInOrder
<1>5. CASE (\E a \in Pinged : net_ping(a)) \/ delay_ticks \/ ip_send \/ icmp_send
  <2>1. UNCHANGED transmit /\ ~InSend /\ pc' \notin {"copy rest", "registers", "count"}
    BY <1>5 DEF net_ping, delay_ticks, ip_send, icmp_send, InSend, arp_request
  <2> QED
    BY <1>1, <2>1, SameInOrder
<1>6. CASE SendStart
  BY <1>1, <1>6, StartInOrder
<1>7. CASE SendRest
  BY <1>1, <1>7, RestInOrder
<1>8. CASE SendRegisters
  BY <1>1, <1>8, RegistersInOrder
<1>9. CASE SendCount
  BY <1>1, <1>9, CountInOrder DEF NetInv
<1> QED
  BY <1>2, <1>3, <1>4, <1>5, <1>6, <1>7, <1>8, <1>9
     DEF NetNext, CardNext, HandlerNext, PingNext

(* Every request, reply and echo goes out once, whole and in its turn, as  *)
(* long as no reply met another send and the card was never behind         *)
(* (rtl8139.c 99-116).                                                     *)
THEOREM SentAsBuiltHolds == NetSpec => []SentAsBuilt
<1>1. NetInit => NetInv /\ SentInv
  BY RingInit, CacheInit, SentInit DEF NetInv
<1>2. NetInv /\ SentInv /\ [NetNext]_netVars => NetInv' /\ SentInv'
  BY NetNextInv, SentStep
<1>3. SentInv => SentAsBuilt
  <2> SUFFICES ASSUME InOrder
               PROVE  /\ Len(owed) = Cardinality({n \in Slots : owned[n]})
                      /\ \A k \in DOMAIN owed :
                           LET n == (current + k - 1) % TxSlots
                           IN  owned[n] /\ rtl_tx_buffer[address[n]] = <<owed[k], owed[k]>>
    BY DEF SentInv, SentAsBuilt
  <2>1. Len(owed) = Cardinality({n \in Slots : owned[n]}) /\ DOMAIN owed = 1 .. Len(owed)
    <3>1. PICK S : owed \in Seq(S)
      BY DEF InOrder
    <3>2. DOMAIN owed = 1 .. Len(owed)
      BY <3>1
    <3> QED
      BY <3>2 DEF InOrder, Given
  <2>2. ASSUME NEW k \in 1 .. Len(owed)
        PROVE  LET n == (current + k - 1) % TxSlots
               IN  owned[n] /\ rtl_tx_buffer[address[n]] = <<owed[k], owed[k]>>
    <3>1. current \in Slots /\ current \in Nat /\ k - 1 \in 0 .. TxSlots /\ k \in Nat
      BY InOrderFits, InOrderTypes, PlaceType DEF Slots
    <3>2. Place(current, k - 1) = (current + (k - 1)) % TxSlots
      BY <3>1, PlaceIs
    <3>3. current + (k - 1) = current + k - 1
      BY <3>1
    <3>4. /\ owned[Place(current, k - 1)]
          /\ address[Place(current, k - 1)] = Place(current, k - 1)
          /\ rtl_tx_buffer[Place(current, k - 1)] = <<owed[k], owed[k]>>
      BY <2>2 DEF InOrder
    <3> QED
      BY <3>2, <3>3, <3>4
  <2> QED
    BY <2>1, <2>2
<1>4. QED
  BY <1>1, <1>2, <1>3, PTL DEF NetSpec

=============================================================================
