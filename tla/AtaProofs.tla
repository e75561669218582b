------------------------------ MODULE AtaProofs ------------------------------
(***************************************************************************)
(* The disk driver, for every set of tasks, sectors and values, and every  *)
(* part of the copy that the kernel leaves alone.                          *)
(***************************************************************************)
EXTENDS AtaProps, TLAPS

ReadPlaces == {"read select", "read command", "read wait"}
WritePlaces == {"write select", "write command", "write data", "write clear",
                "write wait"}
Places == ReadPlaces \union WritePlaces \union {"idle"}

AtaTypeOK ==
  /\ disk \in [Lbas -> Words] /\ present \in BOOLEAN
  /\ device \in Busy \union Asks \union {"idle"}
  /\ target \in Lbas /\ selected \in Lbas /\ data \in Words
  /\ ram \in [Kept -> Words]
  /\ use_ram \in BOOLEAN /\ ata_interrupt_received \in BOOLEAN
  /\ read_check_done \in BOOLEAN /\ write_check_done \in BOOLEAN
  /\ pc \in [Callers -> Places] /\ lba \in [Callers -> Lbas]
  /\ buffer \in [Callers -> Words]
  /\ gave_up \in BOOLEAN /\ disturbed \in BOOLEAN /\ wrecked \in BOOLEAN
  /\ first \in [Lbas -> Words] /\ latest \in [Lbas -> Words]
  /\ reading \subseteq Callers

Calm == ~disturbed /\ ~wrecked

(* Who is in a call is the only one, and the last read is nobody else's.   *)
Alone ==
  \A t \in Callers : pc[t] # "idle" =>
    /\ \A u \in Callers : pc[u] # "idle" => u = t
    /\ pc[t] \in ReadPlaces => reading = {t}
    /\ pc[t] \in WritePlaces => reading = {}
    /\ ~use_ram /\ read_check_done

(* A sector, on the disk, on its way to it and in the copy, holds what it  *)
(* once held.                                                              *)
OwnValues ==
  /\ \A l \in Lbas : disk[l] \in Ever(l)
  /\ \A l \in Kept : ram[l] \in Ever(l)
  /\ device = "storing" => data \in Ever(target)
  /\ \A t \in Callers : pc[t] \in WritePlaces => buffer[t] \in Ever(lba[t])

(* A disk in use is at rest when a read begins: one that was given up in   *)
(* the middle of a read may be used again only by the first write, and one *)
(* that was given up in a write never.                                     *)
AtRest ==
  /\ ~use_ram /\ (\A t \in Callers : pc[t] \in {"idle", "read select", "read command"})
       => device = "idle"
  /\ read_check_done \/ ~use_ram
  /\ write_check_done \/ device \in {"idle", "reading", "ready"}

(* What a read knows of the disk.                                          *)
ReadKnows ==
  \A t \in Callers :
    /\ pc[t] = "read command" => selected = lba[t] /\ ~ata_interrupt_received
    /\ pc[t] = "read wait" =>
         /\ target = lba[t] /\ device \in {"reading", "ready"}
         /\ device = "ready" <=> ata_interrupt_received
         /\ device = "ready" => data = disk[lba[t]]

(* What a write knows of the disk: its flag is set behind the sector, or   *)
(* the disk still has the words of a read to give and stores nothing.      *)
WriteKnows ==
  \A t \in Callers :
    /\ pc[t] \in WritePlaces => write_check_done
    /\ pc[t] \in {"write select", "write command"} => device \in {"idle", "ready"}
    /\ pc[t] = "write command" => selected = lba[t]
    /\ pc[t] = "write data" =>
         device = "ready" \/ (device \in {"starting", "asking"} /\ target = lba[t])
    /\ pc[t] \in {"write clear", "write wait"} =>
         \/ device = "ready"
         \/ device = "storing" /\ target = lba[t] /\ data = buffer[t]
         \/ device = "idle" /\ disk[lba[t]] = buffer[t]
    /\ pc[t] = "write wait" /\ ata_interrupt_received => device = "idle"

(* A disk that was never given up holds what was written last, except the  *)
(* sector being written.                                                   *)
InStep ==
  present /\ ~gave_up =>
    /\ ~use_ram
    /\ \A l \in Lbas :
         (\A t \in Callers : ~(pc[t] \in WritePlaces /\ lba[t] = l)) =>
           disk[l] = latest[l]
    /\ \A t \in Callers : pc[t] \in WritePlaces => latest[lba[t]] = buffer[t]

Knows ==
  Alone /\ OwnValues /\ AtRest /\ ReadKnows /\ WriteKnows /\ InStep /\ ReadsLatest

AtaInv == AtaTypeOK /\ (Calm => Knows)

-----------------------------------------------------------------------------
LEMMA WrittenIsEver ==
  \A w \in Writes : w[1] \in Lbas /\ w[2] \in Values /\ w[2] \in Ever(w[1])
BY AtaAssumption DEF Ever

LEMMA BootIsKept ==
  ASSUME disk \in [Lbas -> Words]
  PROVE  Boot \in [Kept -> Words] /\ \A l \in Kept : Boot[l] = disk[l]
BY AtaAssumption DEF Boot

LEMMA AtaInitInv == AtaInit => AtaInv
<1> SUFFICES ASSUME AtaInit PROVE AtaInv
  OBVIOUS
<1> USE DEF AtaInit
<1>1. disk \in [Lbas -> Words]
  BY AtaAssumption DEF Words
<1>2. ram \in [Kept -> Words] /\ \A l \in Kept : ram[l] = disk[l]
  BY <1>1, BootIsKept
<1>3. AtaTypeOK
  BY <1>1, <1>2 DEF AtaTypeOK, Busy, Asks, Words, Places
<1>4. OwnValues
  BY <1>1, <1>2, AtaAssumption DEF OwnValues, Ever, WritePlaces
<1>5. Alone /\ AtRest /\ ReadKnows /\ WriteKnows /\ ReadsLatest
  BY DEF Alone, AtRest, ReadKnows, WriteKnows, ReadsLatest, HasRead, ReadPlaces,
     WritePlaces
<1>6. InStep
  BY DEF InStep, WritePlaces
<1>7. QED
  BY <1>3, <1>4, <1>5, <1>6 DEF AtaInv, Knows

-----------------------------------------------------------------------------
LEMMA DeviceReadsInv ==
  ASSUME AtaInv, DeviceReads
  PROVE  AtaInv'
<1>. USE DEF DeviceReads, ata_handler, atDisk, atDevice, flags, calls, spoils, history
<1>1. AtaTypeOK'
  BY DEF AtaInv, AtaTypeOK, Busy, Asks, Words, Places, ReadPlaces, WritePlaces
<1>2. SUFFICES ASSUME Calm' PROVE Knows'
  BY <1>1 DEF AtaInv
<1>3. AtaTypeOK /\ Calm /\ Knows
  BY <1>2 DEF AtaInv, Calm, AtaTypeOK
<1>. USE <1>2, <1>3 DEF Knows, Calm
<1>4. Alone'
  BY DEF AtaTypeOK, Alone, Busy, Asks, Places, ReadPlaces, WritePlaces
<1>5. OwnValues'
  BY DEF AtaTypeOK, OwnValues, Ever, Busy, Asks, Places, ReadPlaces, WritePlaces
<1>6. AtRest'
  BY DEF AtaTypeOK, AtRest, Alone, ReadKnows, WriteKnows, Busy, Asks, Places,
     ReadPlaces, WritePlaces
<1>7. ReadKnows'
  BY DEF AtaTypeOK, ReadKnows, Alone, AtRest, WriteKnows, Busy, Asks, Places,
     ReadPlaces, WritePlaces
<1>8. WriteKnows'
  BY DEF AtaTypeOK, WriteKnows, Alone, AtRest, ReadKnows, Busy, Asks, Places,
     ReadPlaces, WritePlaces
<1>9. InStep'
  BY DEF AtaTypeOK, InStep, Alone, AtRest, ReadKnows, WriteKnows, Busy, Asks, Places,
     ReadPlaces, WritePlaces
<1>10. ReadsLatest'
  BY DEF AtaTypeOK, ReadsLatest, HasRead, Alone, OwnValues, ReadKnows, WriteKnows,
     InStep, Ever, Busy, Asks, Places, ReadPlaces, WritePlaces
<1>11. QED
  BY <1>4, <1>5, <1>6, <1>7, <1>8, <1>9, <1>10

LEMMA DeviceAsksInv ==
  ASSUME AtaInv, DeviceAsks
  PROVE  AtaInv'
<1>. USE DEF DeviceAsks, atDisk, atDevice, flags, calls, spoils, history
<1>1. AtaTypeOK'
  BY DEF AtaInv, AtaTypeOK, Busy, Asks, Words, Places, ReadPlaces, WritePlaces
<1>2. SUFFICES ASSUME Calm' PROVE Knows'
  BY <1>1 DEF AtaInv
<1>3. AtaTypeOK /\ Calm /\ Knows
  BY <1>2 DEF AtaInv, Calm, AtaTypeOK
<1>. USE <1>2, <1>3 DEF Knows, Calm
<1>4. Alone'
  BY DEF AtaTypeOK, Alone, Busy, Asks, Places, ReadPlaces, WritePlaces
<1>5. OwnValues'
  BY DEF AtaTypeOK, OwnValues, Ever, Busy, Asks, Places, ReadPlaces, WritePlaces
<1>6. AtRest'
  BY DEF AtaTypeOK, AtRest, Alone, ReadKnows, WriteKnows, Busy, Asks, Places,
     ReadPlaces, WritePlaces
<1>7. ReadKnows'
  BY DEF AtaTypeOK, ReadKnows, Alone, AtRest, WriteKnows, Busy, Asks, Places,
     ReadPlaces, WritePlaces
<1>8. WriteKnows'
  BY DEF AtaTypeOK, WriteKnows, Alone, AtRest, ReadKnows, Busy, Asks, Places,
     ReadPlaces, WritePlaces
<1>9. InStep'
  BY DEF AtaTypeOK, InStep, Alone, AtRest, ReadKnows, WriteKnows, Busy, Asks, Places,
     ReadPlaces, WritePlaces
<1>10. ReadsLatest'
  BY DEF AtaTypeOK, ReadsLatest, HasRead, Alone, OwnValues, ReadKnows, WriteKnows,
     InStep, Ever, Busy, Asks, Places, ReadPlaces, WritePlaces
<1>11. QED
  BY <1>4, <1>5, <1>6, <1>7, <1>8, <1>9, <1>10

LEMMA DeviceStoresInv ==
  ASSUME AtaInv, DeviceStores
  PROVE  AtaInv'
<1>. USE DEF DeviceStores, ata_handler, atDisk, atDevice, flags, calls, spoils, history
<1>1. AtaTypeOK'
  BY DEF AtaInv, AtaTypeOK, Busy, Asks, Words, Places, ReadPlaces, WritePlaces
<1>2. SUFFICES ASSUME Calm' PROVE Knows'
  BY <1>1 DEF AtaInv
<1>3. AtaTypeOK /\ Calm /\ Knows
  BY <1>2 DEF AtaInv, Calm, AtaTypeOK
<1>. USE <1>2, <1>3 DEF Knows, Calm
<1>4. Alone'
  BY DEF AtaTypeOK, Alone, Busy, Asks, Places, ReadPlaces, WritePlaces
<1>5. OwnValues'
  BY DEF AtaTypeOK, OwnValues, Ever, Busy, Asks, Places, ReadPlaces, WritePlaces
<1>6. AtRest'
  BY DEF AtaTypeOK, AtRest, Alone, ReadKnows, WriteKnows, Busy, Asks, Places,
     ReadPlaces, WritePlaces
<1>7. ReadKnows'
  BY DEF AtaTypeOK, ReadKnows, Alone, AtRest, WriteKnows, Busy, Asks, Places,
     ReadPlaces, WritePlaces
<1>8. WriteKnows'
  BY DEF AtaTypeOK, WriteKnows, Alone, AtRest, ReadKnows, Busy, Asks, Places,
     ReadPlaces, WritePlaces
<1>9. InStep'
  <2>1. SUFFICES ASSUME present, ~gave_up PROVE InStep'
    BY DEF InStep
  <2>2. ~use_ram
    BY <2>1 DEF InStep
  <2>3. PICK t \in Callers : pc[t] \notin {"idle", "read select", "read command"}
    BY <2>2 DEF AtRest
  <2>4. pc[t] \in WritePlaces /\ target = lba[t] /\ data = buffer[t]
    BY <2>3 DEF AtaTypeOK, ReadKnows, WriteKnows, Busy, Asks, Places, ReadPlaces,
       WritePlaces
  <2>5. latest[lba[t]] = data
    BY <2>1, <2>4 DEF InStep
  <2>6. QED
    BY <2>1, <2>2, <2>4, <2>5 DEF AtaTypeOK, InStep
<1>10. ReadsLatest'
  BY DEF AtaTypeOK, ReadsLatest, HasRead, Alone, OwnValues, ReadKnows, WriteKnows,
     InStep, Ever, Busy, Asks, Places, ReadPlaces, WritePlaces
<1>11. QED
  BY <1>4, <1>5, <1>6, <1>7, <1>8, <1>9, <1>10

LEMMA ReadSectorInv ==
  ASSUME AtaInv, NEW t \in Callers, NEW l \in Lbas, ReadSector(t, l)
  PROVE  AtaInv'
<1>. USE DEF ReadSector, Starts, Looks, Gets, read_sector_ram, detect_ata, atDisk,
   atDevice, flags, calls, spoils, history
<1>1. AtaTypeOK'
  BY DEF AtaInv, AtaTypeOK, Busy, Asks, Words, Places, ReadPlaces, WritePlaces
<1>2. SUFFICES ASSUME Calm' PROVE Knows'
  BY <1>1 DEF AtaInv
<1>3. AtaTypeOK /\ Calm /\ Knows
  BY <1>2 DEF AtaInv, Calm, AtaTypeOK
<1>idle. \A u \in Callers : pc[u] = "idle"
  BY <1>2, <1>3 DEF Calm, AtaTypeOK
<1>. USE <1>2, <1>3 DEF Knows, Calm
<1>4. Alone'
  <2>1. use_ram' => \A u \in Callers : pc'[u] = "idle"
    BY <1>idle DEF AtaTypeOK
  <2>2. ~use_ram' => pc'[t] = "read select" /\ \A u \in Callers : pc'[u] # "idle" => u = t
    BY <1>idle DEF AtaTypeOK
  <2>3. QED
    BY <2>1, <2>2 DEF AtaTypeOK, Alone, Busy, Asks, Places, ReadPlaces, WritePlaces
<1>5. OwnValues'
  BY <1>idle DEF AtaTypeOK, OwnValues, Ever, Busy, Asks, Places, ReadPlaces, WritePlaces
<1>6. AtRest'
  BY <1>idle DEF AtaTypeOK, AtRest, Alone, ReadKnows, WriteKnows, Busy, Asks, Places,
     ReadPlaces, WritePlaces
<1>7. ReadKnows'
  BY <1>idle DEF AtaTypeOK, ReadKnows, Alone, AtRest, WriteKnows, Busy, Asks, Places,
     ReadPlaces, WritePlaces
<1>8. WriteKnows'
  <2>1. \A u \in Callers : pc'[u] = "idle" \/ (pc'[u] = "read select" /\ u = t /\ ~use_ram')
    BY <1>idle DEF AtaTypeOK
  <2>2. ~use_ram' => device \in {"idle", "ready"}
    BY <1>idle DEF AtaTypeOK, AtRest, Busy
  <2>3. QED
    BY <2>1, <2>2 DEF WriteKnows, WritePlaces
<1>9. InStep'
  BY <1>idle DEF AtaTypeOK, InStep, Alone, AtRest, ReadKnows, WriteKnows, Busy, Asks,
     Places, ReadPlaces, WritePlaces
<1>10. ReadsLatest'
  <2>1. SUFFICES ASSUME HasRead(t)'
                 PROVE  /\ present /\ ~gave_up => buffer'[t] = latest[l]
                        /\ l \in Kept => buffer'[t] \in Ever(l)'
    BY DEF ReadsLatest, HasRead, AtaTypeOK
  <2>2. use_ram'
    BY <2>1 DEF HasRead, AtaTypeOK
  <2>3. l \in Kept => buffer'[t] = ram[l]
    BY <2>2 DEF AtaTypeOK
  <2>4. present => gave_up
    BY <2>2, <1>idle DEF AtaTypeOK, InStep, AtRest, Busy
  <2>5. QED
    BY <2>3, <2>4 DEF OwnValues, Ever
<1>11. QED
  BY <1>4, <1>5, <1>6, <1>7, <1>8, <1>9, <1>10

LEMMA ReadSelectInv ==
  ASSUME AtaInv, NEW t \in Callers, ReadSelect(t)
  PROVE  AtaInv'
<1>. USE DEF ReadSelect, Goes, atDisk, atDevice, flags, calls, spoils, history
<1>1. AtaTypeOK'
  BY DEF AtaInv, AtaTypeOK, Busy, Asks, Words, Places, ReadPlaces, WritePlaces
<1>2. SUFFICES ASSUME Calm' PROVE Knows'
  BY <1>1 DEF AtaInv
<1>3. AtaTypeOK /\ Calm /\ Knows
  BY <1>2 DEF AtaInv, Calm, AtaTypeOK
<1>. USE <1>2, <1>3 DEF Knows, Calm
<1>4. Alone'
  BY DEF AtaTypeOK, Alone, Busy, Asks, Places, ReadPlaces, WritePlaces
<1>5. OwnValues'
  BY DEF AtaTypeOK, OwnValues, Ever, Busy, Asks, Places, ReadPlaces, WritePlaces
<1>6. AtRest'
  BY DEF AtaTypeOK, AtRest, Alone, ReadKnows, WriteKnows, Busy, Asks, Places,
     ReadPlaces, WritePlaces
<1>7. ReadKnows'
  BY DEF AtaTypeOK, ReadKnows, Alone, AtRest, WriteKnows, Busy, Asks, Places,
     ReadPlaces, WritePlaces
<1>8. WriteKnows'
  BY DEF AtaTypeOK, WriteKnows, Alone, AtRest, ReadKnows, Busy, Asks, Places,
     ReadPlaces, WritePlaces
<1>9. InStep'
  BY DEF AtaTypeOK, InStep, Alone, AtRest, ReadKnows, WriteKnows, Busy, Asks, Places,
     ReadPlaces, WritePlaces
<1>10. ReadsLatest'
  <2>1. \A u \in Callers : ~HasRead(u)'
    BY DEF AtaTypeOK, Alone, HasRead, Busy, Asks, Places, ReadPlaces, WritePlaces
  <2>2. QED
    BY <2>1 DEF ReadsLatest
<1>11. QED
  BY <1>4, <1>5, <1>6, <1>7, <1>8, <1>9, <1>10

LEMMA ReadCommandInv ==
  ASSUME AtaInv, NEW t \in Callers, ReadCommand(t)
  PROVE  AtaInv'
<1>. USE DEF ReadCommand, Goes, Takes, atDisk, atDevice, flags, calls, spoils, history
<1>1. AtaTypeOK'
  <2>1. device' = "reading" \/ device' = device
    OBVIOUS
  <2>2. target' = selected \/ target' = target
    OBVIOUS
  <2>3. pc' \in [Callers -> Places] /\ target' \in Lbas
    BY <2>2 DEF AtaInv, AtaTypeOK, Places, ReadPlaces, WritePlaces
  <2>4. device' \in Busy \union Asks \union {"idle"}
    BY <2>1 DEF AtaInv, AtaTypeOK, Busy
  <2>5. QED
    BY <2>3, <2>4 DEF AtaInv, AtaTypeOK
<1>2. SUFFICES ASSUME Calm' PROVE Knows'
  BY <1>1 DEF AtaInv
<1>3. AtaTypeOK /\ Calm /\ Knows
  BY <1>2 DEF AtaInv, Calm, AtaTypeOK
<1>. USE <1>2, <1>3 DEF Knows, Calm
<1>4. Alone'
  BY DEF AtaTypeOK, Alone, Busy, Asks, Places, ReadPlaces, WritePlaces
<1>5. OwnValues'
  BY DEF AtaTypeOK, OwnValues, Ever, Busy, Asks, Places, ReadPlaces, WritePlaces
<1>6. AtRest'
  BY DEF AtaTypeOK, AtRest, Alone, ReadKnows, WriteKnows, Busy, Asks, Places,
     ReadPlaces, WritePlaces
<1>7. ReadKnows'
  BY DEF AtaTypeOK, ReadKnows, Alone, AtRest, WriteKnows, Busy, Asks, Places,
     ReadPlaces, WritePlaces
<1>8. WriteKnows'
  BY DEF AtaTypeOK, WriteKnows, Alone, AtRest, ReadKnows, Busy, Asks, Places,
     ReadPlaces, WritePlaces
<1>9. InStep'
  BY DEF AtaTypeOK, InStep, Alone, AtRest, ReadKnows, WriteKnows, Busy, Asks, Places,
     ReadPlaces, WritePlaces
<1>10. ReadsLatest'
  <2>1. \A u \in Callers : ~HasRead(u)'
    BY DEF AtaTypeOK, Alone, HasRead, Busy, Asks, Places, ReadPlaces, WritePlaces
  <2>2. QED
    BY <2>1 DEF ReadsLatest
<1>11. QED
  BY <1>4, <1>5, <1>6, <1>7, <1>8, <1>9, <1>10

LEMMA ReadWordsInv ==
  ASSUME AtaInv, NEW t \in Callers, ReadWords(t)
  PROVE  AtaInv'
<1>. USE DEF ReadWords, Goes, Returns, Gets, atDisk, atDevice, flags, calls, spoils,
   history
<1>1. AtaTypeOK'
  <2>1. PICK v : v \in {data} \union (IF disturbed THEN {Garbage} ELSE {}) /\ Gets(t, v)
    OBVIOUS
  <2>2. v \in Words
    BY <2>1 DEF AtaInv, AtaTypeOK, Words
  <2>3. buffer' \in [Callers -> Words]
    BY <2>1, <2>2 DEF AtaInv, AtaTypeOK
  <2>4. QED
    BY <2>3 DEF AtaInv, AtaTypeOK, Busy, Asks, Places
<1>2. SUFFICES ASSUME Calm' PROVE Knows'
  BY <1>1 DEF AtaInv
<1>3. AtaTypeOK /\ Calm /\ Knows
  BY <1>2 DEF AtaInv, Calm, AtaTypeOK
<1>. USE <1>2, <1>3 DEF Knows, Calm
<1>4. Alone'
  BY DEF AtaTypeOK, Alone, Busy, Asks, Places, ReadPlaces, WritePlaces
<1>5. OwnValues'
  BY DEF AtaTypeOK, OwnValues, Ever, Busy, Asks, Places, ReadPlaces, WritePlaces
<1>6. AtRest'
  BY DEF AtaTypeOK, AtRest, Alone, ReadKnows, WriteKnows, Busy, Asks, Places,
     ReadPlaces, WritePlaces
<1>7. ReadKnows'
  BY DEF AtaTypeOK, ReadKnows, Alone, AtRest, WriteKnows, Busy, Asks, Places,
     ReadPlaces, WritePlaces
<1>8. WriteKnows'
  BY DEF AtaTypeOK, WriteKnows, Alone, AtRest, ReadKnows, Busy, Asks, Places,
     ReadPlaces, WritePlaces
<1>9. InStep'
  BY DEF AtaTypeOK, InStep, Alone, AtRest, ReadKnows, WriteKnows, Busy, Asks, Places,
     ReadPlaces, WritePlaces
<1>10. ReadsLatest'
  <2>1. reading = {t}
    BY DEF AtaTypeOK, Alone, Busy, Asks, Places, ReadPlaces, WritePlaces
  <2>2. buffer'[t] = disk[lba[t]]
    BY DEF AtaTypeOK, ReadKnows
  <2>3. present /\ ~gave_up => disk[lba[t]] = latest[lba[t]]
    BY DEF AtaTypeOK, Alone, InStep, Busy, Asks, Places, ReadPlaces, WritePlaces
  <2>4. disk[lba[t]] \in Ever(lba[t])'
    BY DEF AtaTypeOK, OwnValues, Ever
  <2>5. QED
    BY <2>1, <2>2, <2>3, <2>4 DEF ReadsLatest, HasRead
<1>11. QED
  BY <1>4, <1>5, <1>6, <1>7, <1>8, <1>9, <1>10

LEMMA ReadGivesUpInv ==
  ASSUME AtaInv, NEW t \in Callers, ReadGivesUp(t)
  PROVE  AtaInv'
<1>. USE DEF ReadGivesUp, Goes, Returns, Gets, read_sector_ram, atDisk, atDevice,
   flags, calls, spoils, history
<1>1. AtaTypeOK'
  <2>1. buffer' \in [Callers -> Words]
    BY DEF AtaInv, AtaTypeOK
  <2>2. QED
    BY <2>1 DEF AtaInv, AtaTypeOK, Busy, Asks, Places
<1>2. SUFFICES ASSUME Calm' PROVE Knows'
  BY <1>1 DEF AtaInv
<1>3. AtaTypeOK /\ Calm /\ Knows
  BY <1>2 DEF AtaInv, Calm, AtaTypeOK
<1>. USE <1>2, <1>3 DEF Knows, Calm
<1>4. Alone'
  BY DEF AtaTypeOK, Alone, Busy, Asks, Places, ReadPlaces, WritePlaces
<1>5. OwnValues'
  BY DEF AtaTypeOK, OwnValues, Ever, Busy, Asks, Places, ReadPlaces, WritePlaces
<1>6. AtRest'
  BY DEF AtaTypeOK, AtRest, Alone, ReadKnows, WriteKnows, Busy, Asks, Places,
     ReadPlaces, WritePlaces
<1>7. ReadKnows'
  BY DEF AtaTypeOK, ReadKnows, Alone, AtRest, WriteKnows, Busy, Asks, Places,
     ReadPlaces, WritePlaces
<1>8. WriteKnows'
  BY DEF AtaTypeOK, WriteKnows, Alone, AtRest, ReadKnows, Busy, Asks, Places,
     ReadPlaces, WritePlaces
<1>9. InStep'
  BY DEF AtaTypeOK, InStep, Alone, AtRest, ReadKnows, WriteKnows, Busy, Asks, Places,
     ReadPlaces, WritePlaces
<1>10. ReadsLatest'
  <2>1. reading = {t}
    BY DEF AtaTypeOK, Alone, Busy, Asks, Places, ReadPlaces, WritePlaces
  <2>2. gave_up' /\ lba' = lba
    OBVIOUS
  <2>3. lba[t] \in Kept => buffer'[t] = ram[lba[t]]
    BY DEF AtaTypeOK
  <2>4. lba[t] \in Kept => buffer'[t] \in Ever(lba[t])'
    BY <2>3 DEF OwnValues, Ever
  <2>5. QED
    BY <2>1, <2>2, <2>4 DEF ReadsLatest, HasRead
<1>11. QED
  BY <1>4, <1>5, <1>6, <1>7, <1>8, <1>9, <1>10

LEMMA WriteBeginsCalm ==
  ASSUME AtaTypeOK, NEW t, NEW l, NEW v, WriteSector(t, l, v), Calm'
  PROVE  Calm /\ \A u \in Callers : pc[u] = "idle"
<1>1. \/ Starts(t, l, "idle") /\ write_sector_ram(l, v)
      \/ Starts(t, l, "write select") /\ UNCHANGED <<ram, wrecked>>
  BY DEF WriteSector
<1>2. ~disturbed /\ \A u \in Callers : pc[u] = "idle"
  BY <1>1 DEF Starts, Calm, AtaTypeOK
<1>3. wrecked' = TRUE \/ wrecked' = wrecked
  BY <1>1 DEF write_sector_ram
<1>4. QED
  BY <1>2, <1>3 DEF Calm, AtaTypeOK

LEMMA WriteSectorInv ==
  ASSUME AtaInv, NEW t \in Callers, NEW l \in Lbas, NEW v \in Values, v \in Ever(l),
         WriteSector(t, l, v)
  PROVE  AtaInv'
<1>. USE DEF WriteSector, Starts, Looks, Gets, write_sector_ram, detect_ata, atDisk,
   atDevice, flags, calls, spoils, history
<1>1. AtaTypeOK'
  BY DEF AtaInv, AtaTypeOK, Busy, Asks, Words, Places, ReadPlaces, WritePlaces
<1>2. SUFFICES ASSUME Calm' PROVE Knows'
  BY <1>1 DEF AtaInv
<1>3. AtaTypeOK /\ Calm /\ Knows
  BY <1>1, <1>2, WriteBeginsCalm DEF AtaInv
<1>idle. \A u \in Callers : pc[u] = "idle"
  BY <1>2, <1>3, WriteBeginsCalm
<1>. USE <1>2, <1>3 DEF Knows, Calm
<1>4. Alone'
  <2>1. use_ram' => \A u \in Callers : pc'[u] = "idle"
    BY <1>idle DEF AtaTypeOK
  <2>2. ~use_ram' => pc'[t] = "write select" /\ \A u \in Callers : pc'[u] # "idle" => u = t
    BY <1>idle DEF AtaTypeOK
  <2>3. QED
    BY <2>1, <2>2 DEF AtaTypeOK, Alone, Busy, Asks, Places, ReadPlaces, WritePlaces
<1>5. OwnValues'
  BY <1>idle DEF AtaTypeOK, OwnValues, Ever, Busy, Asks, Places, ReadPlaces, WritePlaces
<1>6. AtRest'
  BY <1>idle DEF AtaTypeOK, AtRest, Alone, ReadKnows, WriteKnows, Busy, Asks, Places,
     ReadPlaces, WritePlaces
<1>7. ReadKnows'
  BY <1>idle DEF AtaTypeOK, ReadKnows, Alone, AtRest, WriteKnows, Busy, Asks, Places,
     ReadPlaces, WritePlaces
<1>8. WriteKnows'
  <2>1. \A u \in Callers : pc'[u] = "idle" \/ (pc'[u] = "write select" /\ u = t /\ ~use_ram')
    BY <1>idle DEF AtaTypeOK
  <2>2. ~use_ram' => device \in {"idle", "ready"}
    BY <1>idle DEF AtaTypeOK, AtRest, Busy
  <2>3. QED
    BY <2>1, <2>2 DEF WriteKnows, WritePlaces
<1>9. InStep'
  <2>1. SUFFICES ASSUME present, ~gave_up PROVE InStep'
    BY DEF InStep
  <2>2. ~use_ram /\ device = "idle"
    BY <2>1, <1>idle DEF InStep, AtRest
  <2>3. pc' = [pc EXCEPT ![t] = "write select"] /\ ~use_ram'
    BY <2>1, <2>2 DEF Busy
  <2>4. \A k \in Lbas : disk[k] = latest[k]
    BY <2>1, <1>idle DEF InStep, WritePlaces
  <2>5. pc'[t] \in WritePlaces /\ lba'[t] = l /\ buffer'[t] = v
        /\ \A u \in Callers : pc'[u] \in WritePlaces => u = t
    BY <2>3, <1>idle DEF AtaTypeOK, WritePlaces
  <2>6. latest'[l] = v /\ \A k \in Lbas : k # l => latest'[k] = latest[k]
    BY DEF AtaTypeOK
  <2>7. QED
    BY <2>3, <2>4, <2>5, <2>6 DEF InStep
<1>10. ReadsLatest'
  BY <1>idle DEF AtaTypeOK, ReadsLatest, HasRead, Alone, OwnValues, ReadKnows,
     WriteKnows, InStep, Ever, Busy, Asks, Places, ReadPlaces, WritePlaces
<1>11. QED
  BY <1>4, <1>5, <1>6, <1>7, <1>8, <1>9, <1>10

LEMMA WriteSelectInv ==
  ASSUME AtaInv, NEW t \in Callers, WriteSelect(t)
  PROVE  AtaInv'
<1>. USE DEF WriteSelect, Goes, atDisk, atDevice, flags, calls, spoils, history
<1>1. AtaTypeOK'
  BY DEF AtaInv, AtaTypeOK, Busy, Asks, Words, Places, ReadPlaces, WritePlaces
<1>2. SUFFICES ASSUME Calm' PROVE Knows'
  BY <1>1 DEF AtaInv
<1>3. AtaTypeOK /\ Calm /\ Knows
  BY <1>2 DEF AtaInv, Calm, AtaTypeOK
<1>. USE <1>2, <1>3 DEF Knows, Calm
<1>4. Alone'
  BY DEF AtaTypeOK, Alone, Busy, Asks, Places, ReadPlaces, WritePlaces
<1>5. OwnValues'
  BY DEF AtaTypeOK, OwnValues, Ever, Busy, Asks, Places, ReadPlaces, WritePlaces
<1>6. AtRest'
  BY DEF AtaTypeOK, AtRest, Alone, ReadKnows, WriteKnows, Busy, Asks, Places,
     ReadPlaces, WritePlaces
<1>7. ReadKnows'
  BY DEF AtaTypeOK, ReadKnows, Alone, AtRest, WriteKnows, Busy, Asks, Places,
     ReadPlaces, WritePlaces
<1>8. WriteKnows'
  BY DEF AtaTypeOK, WriteKnows, Alone, AtRest, ReadKnows, Busy, Asks, Places,
     ReadPlaces, WritePlaces
<1>9. InStep'
  BY DEF AtaTypeOK, InStep, Alone, AtRest, ReadKnows, WriteKnows, Busy, Asks, Places,
     ReadPlaces, WritePlaces
<1>10. ReadsLatest'
  <2>1. \A u \in Callers : ~HasRead(u)'
    BY DEF AtaTypeOK, Alone, HasRead, Busy, Asks, Places, ReadPlaces, WritePlaces
  <2>2. QED
    BY <2>1 DEF ReadsLatest
<1>11. QED
  BY <1>4, <1>5, <1>6, <1>7, <1>8, <1>9, <1>10

LEMMA WriteCommandInv ==
  ASSUME AtaInv, NEW t \in Callers, WriteCommand(t)
  PROVE  AtaInv'
<1>. USE DEF WriteCommand, Goes, Takes, atDisk, atDevice, flags, calls, spoils, history
<1>1. AtaTypeOK'
  <2>1. device' = "starting" \/ device' = device
    OBVIOUS
  <2>2. target' = selected \/ target' = target
    OBVIOUS
  <2>3. pc' \in [Callers -> Places] /\ target' \in Lbas
    BY <2>2 DEF AtaInv, AtaTypeOK, Places, ReadPlaces, WritePlaces
  <2>4. device' \in Busy \union Asks \union {"idle"}
    BY <2>1 DEF AtaInv, AtaTypeOK, Busy
  <2>5. QED
    BY <2>3, <2>4 DEF AtaInv, AtaTypeOK
<1>2. SUFFICES ASSUME Calm' PROVE Knows'
  BY <1>1 DEF AtaInv
<1>3. AtaTypeOK /\ Calm /\ Knows
  BY <1>2 DEF AtaInv, Calm, AtaTypeOK
<1>. USE <1>2, <1>3 DEF Knows, Calm
<1>4. Alone'
  BY DEF AtaTypeOK, Alone, Busy, Asks, Places, ReadPlaces, WritePlaces
<1>5. OwnValues'
  BY DEF AtaTypeOK, OwnValues, Ever, Busy, Asks, Places, ReadPlaces, WritePlaces
<1>6. AtRest'
  BY DEF AtaTypeOK, AtRest, Alone, ReadKnows, WriteKnows, Busy, Asks, Places,
     ReadPlaces, WritePlaces
<1>7. ReadKnows'
  BY DEF AtaTypeOK, ReadKnows, Alone, AtRest, WriteKnows, Busy, Asks, Places,
     ReadPlaces, WritePlaces
<1>8. WriteKnows'
  BY DEF AtaTypeOK, WriteKnows, Alone, AtRest, ReadKnows, Busy, Asks, Places,
     ReadPlaces, WritePlaces
<1>9. InStep'
  BY DEF AtaTypeOK, InStep, Alone, AtRest, ReadKnows, WriteKnows, Busy, Asks, Places,
     ReadPlaces, WritePlaces
<1>10. ReadsLatest'
  <2>1. \A u \in Callers : ~HasRead(u)'
    BY DEF AtaTypeOK, Alone, HasRead, Busy, Asks, Places, ReadPlaces, WritePlaces
  <2>2. QED
    BY <2>1 DEF ReadsLatest
<1>11. QED
  BY <1>4, <1>5, <1>6, <1>7, <1>8, <1>9, <1>10

LEMMA WriteWordsInv ==
  ASSUME AtaInv, NEW t \in Callers, WriteWords(t)
  PROVE  AtaInv'
<1>. USE DEF WriteWords, Goes, atDisk, atDevice, flags, calls, spoils, history
<1>1. AtaTypeOK'
  <2>1. data' \in Words
    BY DEF AtaInv, AtaTypeOK, Words
  <2>2. device' \in Busy \union Asks \union {"idle"}
    BY DEF AtaInv, AtaTypeOK, Busy
  <2>3. pc' \in [Callers -> Places]
    BY DEF AtaInv, AtaTypeOK, Places, WritePlaces
  <2>4. QED
    BY <2>1, <2>2, <2>3 DEF AtaInv, AtaTypeOK
<1>2. SUFFICES ASSUME Calm' PROVE Knows'
  BY <1>1 DEF AtaInv
<1>3. AtaTypeOK /\ Calm /\ Knows
  BY <1>2 DEF AtaInv, Calm, AtaTypeOK
<1>. USE <1>2, <1>3 DEF Knows, Calm
<1>4. Alone'
  BY DEF AtaTypeOK, Alone, Busy, Asks, Places, ReadPlaces, WritePlaces
<1>5. OwnValues'
  <2>1. device' = "storing" => data' = buffer[t] /\ target = lba[t]
    BY DEF AtaTypeOK, WriteKnows, Busy, Asks, Places, ReadPlaces, WritePlaces
  <2>2. QED
    BY <2>1 DEF AtaTypeOK, OwnValues, Ever, Busy, Asks, Places, ReadPlaces, WritePlaces
<1>6. AtRest'
  BY DEF AtaTypeOK, AtRest, Alone, ReadKnows, WriteKnows, Busy, Asks, Places,
     ReadPlaces, WritePlaces
<1>7. ReadKnows'
  BY DEF AtaTypeOK, ReadKnows, Alone, AtRest, WriteKnows, Busy, Asks, Places,
     ReadPlaces, WritePlaces
<1>8. WriteKnows'
  BY DEF AtaTypeOK, WriteKnows, Alone, AtRest, ReadKnows, Busy, Asks, Places,
     ReadPlaces, WritePlaces
<1>9. InStep'
  BY DEF AtaTypeOK, InStep, Alone, AtRest, ReadKnows, WriteKnows, Busy, Asks, Places,
     ReadPlaces, WritePlaces
<1>10. ReadsLatest'
  BY DEF AtaTypeOK, ReadsLatest, HasRead, Alone, OwnValues, ReadKnows, WriteKnows,
     InStep, Ever, Busy, Asks, Places, ReadPlaces, WritePlaces
<1>11. QED
  BY <1>4, <1>5, <1>6, <1>7, <1>8, <1>9, <1>10

LEMMA WriteClearInv ==
  ASSUME AtaInv, NEW t \in Callers, WriteClear(t)
  PROVE  AtaInv'
<1>. USE DEF WriteClear, Goes, atDisk, atDevice, flags, calls, spoils, history
<1>1. AtaTypeOK'
  BY DEF AtaInv, AtaTypeOK, Busy, Asks, Words, Places, ReadPlaces, WritePlaces
<1>2. SUFFICES ASSUME Calm' PROVE Knows'
  BY <1>1 DEF AtaInv
<1>3. AtaTypeOK /\ Calm /\ Knows
  BY <1>2 DEF AtaInv, Calm, AtaTypeOK
<1>. USE <1>2, <1>3 DEF Knows, Calm
<1>4. Alone'
  BY DEF AtaTypeOK, Alone, Busy, Asks, Places, ReadPlaces, WritePlaces
<1>5. OwnValues'
  BY DEF AtaTypeOK, OwnValues, Ever, Busy, Asks, Places, ReadPlaces, WritePlaces
<1>6. AtRest'
  BY DEF AtaTypeOK, AtRest, Alone, ReadKnows, WriteKnows, Busy, Asks, Places,
     ReadPlaces, WritePlaces
<1>7. ReadKnows'
  BY DEF AtaTypeOK, ReadKnows, Alone, AtRest, WriteKnows, Busy, Asks, Places,
     ReadPlaces, WritePlaces
<1>8. WriteKnows'
  BY DEF AtaTypeOK, WriteKnows, Alone, AtRest, ReadKnows, Busy, Asks, Places,
     ReadPlaces, WritePlaces
<1>9. InStep'
  BY DEF AtaTypeOK, InStep, Alone, AtRest, ReadKnows, WriteKnows, Busy, Asks, Places,
     ReadPlaces, WritePlaces
<1>10. ReadsLatest'
  BY DEF AtaTypeOK, ReadsLatest, HasRead, Alone, OwnValues, ReadKnows, WriteKnows,
     InStep, Ever, Busy, Asks, Places, ReadPlaces, WritePlaces
<1>11. QED
  BY <1>4, <1>5, <1>6, <1>7, <1>8, <1>9, <1>10

LEMMA WriteEndsInv ==
  ASSUME AtaInv, NEW t \in Callers, WriteEnds(t)
  PROVE  AtaInv'
<1>. USE DEF WriteEnds, Goes, Returns, atDisk, atDevice, flags, calls, spoils, history
<1>1. AtaTypeOK'
  BY DEF AtaInv, AtaTypeOK, Busy, Asks, Words, Places, ReadPlaces, WritePlaces
<1>2. SUFFICES ASSUME Calm' PROVE Knows'
  BY <1>1 DEF AtaInv
<1>3. AtaTypeOK /\ Calm /\ Knows
  BY <1>2 DEF AtaInv, Calm, AtaTypeOK
<1>. USE <1>2, <1>3 DEF Knows, Calm
<1>4. Alone'
  BY DEF AtaTypeOK, Alone, Busy, Asks, Places, ReadPlaces, WritePlaces
<1>5. OwnValues'
  BY DEF AtaTypeOK, OwnValues, Ever, Busy, Asks, Places, ReadPlaces, WritePlaces
<1>6. AtRest'
  BY DEF AtaTypeOK, AtRest, Alone, ReadKnows, WriteKnows, Busy, Asks, Places,
     ReadPlaces, WritePlaces
<1>7. ReadKnows'
  BY DEF AtaTypeOK, ReadKnows, Alone, AtRest, WriteKnows, Busy, Asks, Places,
     ReadPlaces, WritePlaces
<1>8. WriteKnows'
  BY DEF AtaTypeOK, WriteKnows, Alone, AtRest, ReadKnows, Busy, Asks, Places,
     ReadPlaces, WritePlaces
<1>9. InStep'
  <2>1. SUFFICES ASSUME present, ~gave_up PROVE InStep'
    BY DEF InStep
  <2>2. disk[lba[t]] = latest[lba[t]]
    BY <2>1 DEF InStep, WriteKnows, WritePlaces
  <2>3. \A u \in Callers : pc[u] \in WritePlaces => u = t
    BY DEF Alone, WritePlaces
  <2>4. \A u \in Callers : IF u = t THEN pc'[u] = "idle" ELSE pc'[u] = pc[u]
    BY DEF AtaTypeOK, Places
  <2>5. QED
    BY <2>1, <2>2, <2>3, <2>4 DEF InStep, WritePlaces
<1>10. ReadsLatest'
  BY DEF AtaTypeOK, ReadsLatest, HasRead, Alone, OwnValues, ReadKnows, WriteKnows,
     InStep, Ever, Busy, Asks, Places, ReadPlaces, WritePlaces
<1>11. QED
  BY <1>4, <1>5, <1>6, <1>7, <1>8, <1>9, <1>10

LEMMA WriteGivesUpInv ==
  ASSUME AtaInv, NEW t \in Callers, WriteGivesUp(t)
  PROVE  AtaInv'
<1>. USE DEF WriteGivesUp, Goes, Returns, atDisk, atDevice, flags, calls, spoils,
   history
<1>1. AtaTypeOK'
  BY DEF AtaInv, AtaTypeOK, Busy, Asks, Words, Places, ReadPlaces, WritePlaces
<1>2. SUFFICES ASSUME Calm' PROVE Knows'
  BY <1>1 DEF AtaInv
<1>3. AtaTypeOK /\ Calm /\ Knows
  BY <1>2 DEF AtaInv, Calm, AtaTypeOK
<1>. USE <1>2, <1>3 DEF Knows, Calm
<1>4. Alone'
  BY DEF AtaTypeOK, Alone, Busy, Asks, Places, ReadPlaces, WritePlaces
<1>5. OwnValues'
  BY DEF AtaTypeOK, OwnValues, Ever, Busy, Asks, Places, ReadPlaces, WritePlaces
<1>6. AtRest'
  BY DEF AtaTypeOK, AtRest, Alone, ReadKnows, WriteKnows, Busy, Asks, Places,
     ReadPlaces, WritePlaces
<1>7. ReadKnows'
  BY DEF AtaTypeOK, ReadKnows, Alone, AtRest, WriteKnows, Busy, Asks, Places,
     ReadPlaces, WritePlaces
<1>8. WriteKnows'
  BY DEF AtaTypeOK, WriteKnows, Alone, AtRest, ReadKnows, Busy, Asks, Places,
     ReadPlaces, WritePlaces
<1>9. InStep'
  BY DEF InStep
<1>10. ReadsLatest'
  BY DEF AtaTypeOK, ReadsLatest, HasRead, Alone, OwnValues, ReadKnows, WriteKnows,
     InStep, Ever, Busy, Asks, Places, ReadPlaces, WritePlaces
<1>11. QED
  BY <1>4, <1>5, <1>6, <1>7, <1>8, <1>9, <1>10

LEMMA EndsInv ==
  ASSUME AtaInv, NEW t \in Callers, Ends(t)
  PROVE  AtaInv'
<1>. USE DEF Ends, Goes, Returns, atDisk, atDevice, flags, calls, spoils, history
<1>1. AtaTypeOK'
  BY DEF AtaInv, AtaTypeOK, Busy, Asks, Places
<1>2. QED
  BY <1>1 DEF AtaInv, Calm

LEMMA PowerFailsInv ==
  ASSUME AtaInv, PowerFails
  PROVE  AtaInv'
<1>. USE DEF AtaInv, PowerFails, atDisk
<1>1. ram' \in [Kept -> Words] /\ \A l \in Kept : ram'[l] = disk[l]
  BY BootIsKept DEF AtaTypeOK
<1>2. latest' \in [Lbas -> Words]
  BY DEF AtaTypeOK
<1>3. AtaTypeOK'
  BY <1>1, <1>2 DEF AtaTypeOK, Places, Words
<1>4. OwnValues'
  BY <1>1, AtaAssumption DEF AtaTypeOK, OwnValues, Ever, WritePlaces
<1>5. Alone' /\ AtRest' /\ ReadKnows' /\ WriteKnows' /\ ReadsLatest'
  BY DEF Alone, AtRest, ReadKnows, WriteKnows, ReadsLatest, HasRead, ReadPlaces,
     WritePlaces
<1>6. ASSUME NEW l \in Lbas, present PROVE disk[l] = latest'[l]
  <2>1. CASE Doubtful(l)
    BY <2>1 DEF AtaTypeOK
  <2>2. CASE ~Doubtful(l)
    <3>1. ~gave_up /\ Calm /\ \A t \in Callers : pc[t] \in WritePlaces => lba[t] # l
      BY <2>2 DEF Doubtful, Calm, Knows, Alone, WritePlaces
    <3>2. disk[l] = latest[l]
      BY <1>6, <3>1 DEF Knows, InStep
    <3>3. QED
      BY <2>2, <3>2
  <2>3. QED
    BY <2>1, <2>2
<1>7. InStep'
  BY <1>6 DEF InStep, WritePlaces
<1>8. QED
  BY <1>3, <1>4, <1>5, <1>7 DEF Knows

-----------------------------------------------------------------------------
LEMMA DriverNextInv ==
  ASSUME AtaInv, NEW t \in Callers, DriverNext(t)
  PROVE  AtaInv'
BY ReadSelectInv, ReadCommandInv, ReadWordsInv, ReadGivesUpInv, WriteSelectInv,
   WriteCommandInv, WriteWordsInv, WriteClearInv, WriteEndsInv, WriteGivesUpInv
   DEF DriverNext, ReadStart

LEMMA CallsNextInv ==
  ASSUME AtaInv, NEW t \in Callers, CallsNext(t)
  PROVE  AtaInv'
<1>1. ASSUME NEW l \in Lbas, ReadSector(t, l) PROVE AtaInv'
  BY <1>1, ReadSectorInv
<1>2. ASSUME NEW w \in Writes, WriteSector(t, w[1], w[2]) PROVE AtaInv'
  BY <1>2, WrittenIsEver, WriteSectorInv
<1>3. QED
  BY <1>1, <1>2, EndsInv DEF CallsNext

LEMMA AtaNextInv == AtaInv /\ [AtaNext]_ataVars => AtaInv'
<1> SUFFICES ASSUME AtaInv, [AtaNext]_ataVars PROVE AtaInv'
  OBVIOUS
<1>1. CASE UNCHANGED ataVars
  <2>. USE <1>1 DEF ataVars, atDisk, atDevice, flags, calls, spoils, history
  <2>1. AtaTypeOK' /\ (Calm' <=> Calm)
    BY DEF AtaInv, AtaTypeOK, Calm
  <2>2. (Alone /\ OwnValues)' <=> Alone /\ OwnValues
    BY DEF Alone, OwnValues, Ever
  <2>3. (AtRest /\ ReadKnows)' <=> AtRest /\ ReadKnows
    BY DEF AtRest, ReadKnows
  <2>4. WriteKnows' <=> WriteKnows
    BY DEF WriteKnows
  <2>5. InStep' <=> InStep
    BY DEF InStep
  <2>6. ReadsLatest' <=> ReadsLatest
    BY DEF ReadsLatest, HasRead, Ever
  <2>7. QED
    BY <2>1, <2>2, <2>3, <2>4, <2>5, <2>6 DEF AtaInv, Knows
<1>2. CASE DeviceNext
  BY <1>2, DeviceReadsInv, DeviceAsksInv, DeviceStoresInv DEF DeviceNext
<1>3. CASE \E t \in Callers : DriverNext(t) \/ CallsNext(t)
  BY <1>3, DriverNextInv, CallsNextInv
<1>4. CASE PowerFails
  BY <1>4, PowerFailsInv
<1>5. QED
  BY <1>1, <1>2, <1>3, <1>4 DEF AtaNext

(* Whatever the disk does, and whenever the power fails: as long as no     *)
(* call has met another and the kernel is whole, the driver's flag,        *)
(* registers and the disk are in step as Knows says (ata.c 83-181).        *)
THEOREM AtaInvariance == AtaSpec => []AtaInv
<1>1. QED
  BY AtaInitInv, AtaNextInv, PTL DEF AtaSpec

(* A read that met no other call returns what was written to its sector    *)
(* last, and of a disk given up or absent, for a sector before the kernel, *)
(* something that it held (ata.c 65-130).                                  *)
THEOREM ReadsLatestHolds == AtaSpec => []ReadsLatest
<1>1. AtaInv => ReadsLatest
  BY DEF AtaInv, Knows, Calm, ReadsLatest, HasRead
<1>2. QED
  BY <1>1, AtaInvariance, PTL

(* A read that meets no other call never gives up a disk that has          *)
(* answered: at the limit of its wait the flag and the disk's state agree  *)
(* (ata.c 113-125).                                                        *)
THEOREM ReadsGiveUpSlowHolds == AtaSpec => ReadsGiveUpSlow
<1>1. ASSUME AtaInv, [AtaNext]_ataVars, NEW t \in reading, pc[t] # "idle",
             ~disturbed', ~use_ram, use_ram'
      PROVE  device \in Busy
  <2>1. AtaTypeOK /\ t \in Callers
    BY <1>1 DEF AtaInv, AtaTypeOK
  <2>2. ASSUME NEW u \in Callers, ~wrecked, ReadGivesUp(u) PROVE device \in Busy
    <3>1. Knows
      BY <1>1, <2>1, <2>2 DEF AtaInv, Calm, ReadGivesUp, spoils, AtaTypeOK
    <3>2. QED
      BY <2>2, <3>1 DEF Knows, ReadKnows, ReadGivesUp, Busy
  <2>3. ASSUME NEW u \in Callers, ~wrecked, WriteGivesUp(u) PROVE FALSE
    <3>1. Knows
      BY <1>1, <2>1, <2>3 DEF AtaInv, Calm, WriteGivesUp, spoils, AtaTypeOK
    <3>2. reading = {}
      BY <2>3, <3>1 DEF Knows, Alone, WriteGivesUp, WritePlaces
    <3>3. QED
      BY <1>1, <3>2
  <2>4. ASSUME NEW u \in Callers, NEW l, NEW place, Starts(u, l, place) PROVE FALSE
    BY <1>1, <2>1, <2>4 DEF Starts
  <2>5. ASSUME NEW u \in Callers, CallsNext(u) PROVE FALSE
    <3>1. ~\E l \in Lbas : ReadSector(u, l)
      BY <2>4 DEF ReadSector
    <3>2. ~\E w \in Writes : WriteSector(u, w[1], w[2])
      BY <2>4 DEF WriteSector
    <3>3. Ends(u)
      BY <2>5, <3>1, <3>2 DEF CallsNext
    <3>4. QED
      BY <1>1, <3>3 DEF Ends
  <2>6. ASSUME NEW u \in Callers, DriverNext(u) PROVE device \in Busy
    <3>1. CASE ReadGivesUp(u) \/ WriteGivesUp(u)
      BY <2>2, <2>3, <2>6, <3>1 DEF DriverNext
    <3>2. CASE ~(ReadGivesUp(u) \/ WriteGivesUp(u))
      BY <1>1, <2>6, <3>2 DEF DriverNext, ReadStart, ReadSelect, ReadCommand, ReadWords,
         WriteSelect, WriteCommand, WriteWords, WriteClear, WriteEnds, flags
    <3>3. QED
      BY <3>1, <3>2
  <2>7. CASE DeviceNext \/ UNCHANGED ataVars
    BY <1>1, <2>7 DEF DeviceNext, DeviceReads, DeviceAsks, DeviceStores, flags, ataVars
  <2>8. CASE PowerFails
    BY <1>1, <2>8 DEF PowerFails
  <2>9. QED
    BY <1>1, <2>5, <2>6, <2>7, <2>8 DEF AtaNext
<1>2. AtaInv /\ [AtaNext]_ataVars =>
        [\A t \in reading :
           pc[t] # "idle" /\ ~disturbed' /\ ~use_ram /\ use_ram' => device \in Busy]_ataVars
  BY <1>1
<1>3. QED
  BY <1>2, AtaInvariance, PTL DEF AtaSpec, ReadsGiveUpSlow
=============================================================================
