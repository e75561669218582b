------------------------------ MODULE NetProps ------------------------------
(***************************************************************************)
(* What the network keeps, around its interrupt.                           *)
(***************************************************************************)
EXTENDS Net

One(b) == IF b THEN 1 ELSE 0

(* The MACs that a machine may answer with.                                *)
Answered(a) == {f.mac : f \in {g \in Frames : g.kind = "answer" /\ g.ip = a}}

(* The handler never reads a header that is no frame's, and a frame stays  *)
(* in the ring without an interrupt to come for it only if it arrived      *)
(* while an earlier one had not been taken notice of: for each such frame  *)
(* one stays, until more arrive (rtl8139.c 144-158).                       *)
RingAccounts == Len(ring) = merged + One(rok) + One(handler = "poll")

(* The cache has the last answer of each machine that answered, once, and  *)
(* a machine that answered is missing only from a cache that is full       *)
(* (arp_cache.c 18-29).  A ping goes out to a MAC that its machine         *)
(* answered with, or to the halves of two of them: the cache may be        *)
(* written while it is read (arp_cache.c 6-16), but what is read stays an  *)
(* entry of the machine.                                                   *)
CacheIsLatest ==
  /\ \A a \in Ips :
       /\ Cardinality(arp_cache_lookup(a)) <= 1
       /\ \A i \in arp_cache_lookup(a) : arp_cache[i].mac = latest[a]
       /\ arp_cache_lookup(a) = {} =>
            latest[a] = None \/ \A i \in DOMAIN arp_cache : arp_cache[i].resolved
  /\ frame # None /\ frame.kind = "echo" =>
       frame.mac \in Answered(ip) \X Answered(ip)

(* The frames that were given to the card and not sent are in its          *)
(* registers, in the order in which they were built and each whole, from   *)
(* the one that the card sends next: every request, reply and echo goes    *)
(* out once and as it was built.  That holds as long as no reply met       *)
(* another send and the card was never behind (rtl8139.c 99-116).          *)
SentAsBuilt ==
  ~spoiled =>
    /\ Len(owed) = Cardinality({n \in Slots : owned[n]})
    /\ \A k \in DOMAIN owed :
         LET n == (current + k - 1) % TxSlots
         IN  owned[n] /\ rtl_tx_buffer[address[n]] = <<owed[k], owed[k]>>
=============================================================================
