------------------------------ MODULE AtaProps ------------------------------
(***************************************************************************)
(* What the disk driver promises to the file system.                       *)
(***************************************************************************)
EXTENDS Ata

(* What a sector ever held: at the start, or after one of the writes.      *)
Ever(l) == {first[l]} \union {v \in Values : <<l, v>> \in Writes}

(* A caller whose read has returned, and met no other since the start.     *)
HasRead(t) == t \in reading /\ pc[t] = "idle" /\ ~disturbed /\ ~wrecked

(* A read that no other call met returns what was written to its sector    *)
(* last, also when the power failed in between, as long as no wait has     *)
(* ended at its limit: the flag of an earlier interrupt is never taken for *)
(* the answer to this command (ata.c 116-134), and a write does not return *)
(* before the disk has the sector (ata.c 171-180).  After a wait has       *)
(* ended, or without a disk, the answer may be old, but of a sector before *)
(* the kernel, the FAT's and the root's, it is still one that it held.     *)
ReadsLatest ==
  \A t \in Callers : HasRead(t) =>
    /\ present /\ ~gave_up => buffer[t] = latest[lba[t]]
    /\ lba[t] \in Kept => buffer[t] \in Ever(lba[t])

(* A read that no other call meets gives a disk up only while the disk     *)
(* still works on the command: an answer that has come is never missed     *)
(* (ata.c 110-127).  A write may miss it, and so may a read that meets     *)
(* another, which clears its flag.                                         *)
ReadsGiveUpSlow ==
  [][\A t \in reading :
       pc[t] # "idle" /\ ~disturbed' /\ ~use_ram /\ use_ram' =>
         device \in Busy]_ataVars

(* Every call returns, whether or not there is a disk, whatever it does    *)
(* and whatever other calls do to the flag and the disk: every wait has    *)
(* its own limit (ata.c 41-63, 119-127, 173-180).                          *)
CallsEnd ==
  \A t \in Callers : pc[t] # "idle" ~> pc[t] = "idle" \/ wrecked
=============================================================================
