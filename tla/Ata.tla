-------------------------------- MODULE Ata --------------------------------
(***************************************************************************)
(* The disk driver, drivers/ata/ata.c, with the disk it drives: sectors    *)
(* are read and written one at a time, each wait for the disk has a limit, *)
(* and a disk that is given up is replaced by the copy of its first        *)
(* sectors that the boot sector left in memory.                            *)
(*                                                                         *)
(* Nothing in the driver keeps its callers apart, and interrupts are on in *)
(* every wait: beside a program that opens files the shell may read its    *)
(* own (kernel.c 69-73), so a call may start in the middle of another.     *)
(* The disk's interrupt is taken as soon as it is raised.  The power may   *)
(* fail between any two steps.                                             *)
(***************************************************************************)
EXTENDS Naturals, FiniteSets

CONSTANTS
  Callers,               (* the tasks that use the disk                    *)
  Lbas,                  (* the sectors                                    *)
  Kept,                  (* those whose copy is memory of nothing else     *)
  Values, Garbage,       (* what a sector holds; what other memory holds   *)
  Image,                 (* what the disk holds at first                   *)
  Writes                 (* the sectors and values that are written        *)

ASSUME AtaAssumption ==
  /\ Kept \subseteq Lbas /\ Image \in [Lbas -> Values]
  /\ Writes \subseteq Lbas \X Values /\ Garbage \notin Values

VARIABLES
  disk,                    (* what the sectors hold                        *)
  present,                 (* whether there is a disk on this channel      *)
  device, target, data,    (* its state, the sector and data it works on   *)
  selected,                (* the sector in its registers                  *)
  ram,                     (* the copy in memory                           *)
  use_ram, ata_interrupt_received,
  read_check_done, write_check_done,   (* a static of each function        *)
  pc, lba, buffer,         (* of a caller: its place and its arguments     *)
  gave_up,                 (* history: a wait ended since the start        *)
  disturbed,               (* history: a call met another, or was ended    *)
  wrecked,                 (* history: memory of others was written over   *)
  first, latest,           (* history: of a sector, at the start and last  *)
  reading                  (* history: the caller whose read came last     *)

atDisk == <<disk, present>>
atDevice == <<device, target, data>>
flags == <<use_ram, ata_interrupt_received, read_check_done,
           write_check_done>>
calls == <<pc, lba, buffer>>
spoils == <<disturbed, wrecked>>
history == <<gave_up, spoils, first, latest, reading>>
ataVars == <<atDisk, atDevice, selected, ram, flags, calls, history>>

Busy == {"reading", "starting", "storing"}     (* bit 0x80 of the status   *)
Asks == {"ready", "asking"}                    (* bit 0x08                 *)
Words == Values \union {Garbage}

(***************************************************************************)
(* The boot sector reads 192 sectors to RAM_DISK_BASE, and there, behind   *)
(* the FAT and the root (33 sectors), lies the kernel that runs: its data  *)
(* changes, clear_bss clears what follows it, and then comes other memory. *)
(* Only the sectors before the kernel keep what was copied.                *)
(***************************************************************************)
Boot == [l \in Kept |-> disk[l]]

AtaInit ==
  /\ disk = Image /\ present \in BOOLEAN
  /\ device = "idle" /\ target \in Lbas /\ data = Garbage
  /\ selected = target
  /\ ram = Boot
  /\ use_ram = FALSE /\ ata_interrupt_received = FALSE
  /\ read_check_done = FALSE /\ write_check_done = FALSE
  /\ pc = [t \in Callers |-> "idle"] /\ lba = [t \in Callers |-> target]
  /\ buffer = [t \in Callers |-> Garbage]
  /\ gave_up = FALSE /\ disturbed = FALSE /\ wrecked = FALSE
  /\ first = Image /\ latest = Image /\ reading = {}

(***************************************************************************)
(* The disk.  While it is busy its registers do not answer.                *)
(***************************************************************************)
ata_handler == ata_interrupt_received' = TRUE

detect_ata == present /\ device \notin Busy

DeviceReads ==
  /\ device = "reading" /\ device' = "ready" /\ data' = disk[target]
  /\ ata_handler
  /\ UNCHANGED <<atDisk, target, selected, ram, use_ram, read_check_done,
                 write_check_done, calls, history>>

DeviceAsks ==
  /\ device = "starting" /\ device' = "asking"
  /\ UNCHANGED <<atDisk, target, data, selected, ram, flags, calls, history>>

DeviceStores ==
  /\ device = "storing" /\ device' = "idle"
  /\ disk' = [disk EXCEPT ![target] = data]
  /\ ata_handler
  /\ UNCHANGED <<present, target, data, selected, ram, use_ram,
                 read_check_done, write_check_done, calls, history>>

(* A command: one that meets another may be ignored.                       *)
Takes(command) ==
  \/ device' = command /\ target' = selected
  \/ device # "idle" /\ UNCHANGED <<device, target>>

(***************************************************************************)
(* The callers.                                                            *)
(***************************************************************************)
Goes(t, place) == pc' = [pc EXCEPT ![t] = place] /\ UNCHANGED lba
Returns(t) == Goes(t, "idle")
Gets(t, v) == buffer' = [buffer EXCEPT ![t] = v]

Starts(t, l, place) ==
  /\ pc[t] = "idle"
  /\ pc' = [pc EXCEPT ![t] = place] /\ lba' = [lba EXCEPT ![t] = l]
  /\ disturbed' = (disturbed \/ \E u \in Callers : pc[u] # "idle")

(* The first call of each function looks for the disk, which writes to the *)
(* registers.                                                              *)
Looks(check_done) ==
  /\ use_ram' = IF check_done THEN use_ram ELSE ~detect_ata
  /\ IF check_done THEN UNCHANGED selected ELSE selected' \in Lbas

(* The copy is read, whatever is there.                                    *)
read_sector_ram(t, l) ==
  \E v \in IF l \in Kept THEN {ram[l]} ELSE Words : Gets(t, v)

(***************************************************************************)
(* ata_read_sector.                                                        *)
(***************************************************************************)
ReadSector(t, l) ==
  /\ Looks(read_check_done) /\ read_check_done' = TRUE
  /\ \/ use_ram' /\ Starts(t, l, "idle") /\ read_sector_ram(t, l)
     \/ ~use_ram' /\ Starts(t, l, "read select") /\ UNCHANGED buffer
  /\ reading' = {t}
  /\ UNCHANGED <<atDisk, atDevice, ram, ata_interrupt_received,
                 write_check_done, gave_up, wrecked, first, latest>>

(* Mutated: the flag is not cleared.                                       *)
ReadSelectKeeping(t) ==
  /\ pc[t] = "read select" /\ device \notin Busy
  /\ selected' = lba[t]
  /\ Goes(t, "read command")
  /\ UNCHANGED <<atDisk, atDevice, ram, flags, buffer, history>>

(* The disk is free: the registers are set and the flag is cleared.        *)
ReadSelect(t) ==
  /\ pc[t] = "read select" /\ device \notin Busy
  /\ selected' = lba[t]
  /\ ata_interrupt_received' = FALSE
  /\ Goes(t, "read command")
  /\ UNCHANGED <<atDisk, atDevice, ram, use_ram, read_check_done,
                 write_check_done, buffer, history>>

ReadCommand(t) ==
  /\ pc[t] = "read command" /\ Goes(t, "read wait")
  /\ Takes("reading")
  /\ UNCHANGED <<atDisk, data, selected, ram, flags, buffer, history>>

(* Two that read their words from one disk share them out.                 *)
ReadWords(t) ==
  /\ pc[t] = "read wait" /\ ata_interrupt_received
  /\ \E v \in {data} \union (IF disturbed THEN {Garbage} ELSE {}) : Gets(t, v)
  /\ device' = IF device = "ready" THEN "idle" ELSE device
  /\ Returns(t)
  /\ UNCHANGED <<atDisk, target, data, selected, ram, flags, history>>

(* Mutated: the wait for the answer has no limit.                          *)
ReadGivesUpNever(t) ==
  /\ pc[t] = "read select" /\ device \in Busy
  /\ use_ram' = TRUE /\ gave_up' = TRUE
  /\ read_sector_ram(t, lba[t])
  /\ Returns(t)
  /\ UNCHANGED <<atDisk, atDevice, selected, ram, ata_interrupt_received,
                 read_check_done, write_check_done, spoils, first, latest,
                 reading>>

(* The limit ATA_TIMEOUT of a wait is reached: the copy answers.           *)
ReadGivesUp(t) ==
  /\ \/ pc[t] = "read select" /\ device \in Busy
     \/ pc[t] = "read wait" /\ ~ata_interrupt_received
  /\ use_ram' = TRUE /\ gave_up' = TRUE
  /\ read_sector_ram(t, lba[t])
  /\ Returns(t)
  /\ UNCHANGED <<atDisk, atDevice, selected, ram, ata_interrupt_received,
                 read_check_done, write_check_done, spoils, first, latest,
                 reading>>

(***************************************************************************)
(* ata_write_sector.  Every caller reads before it writes.                 *)
(***************************************************************************)
write_sector_ram(l, v) ==
  IF l \in Kept THEN ram' = [ram EXCEPT ![l] = v] /\ UNCHANGED wrecked
                ELSE UNCHANGED ram /\ wrecked' = TRUE

WriteSector(t, l, v) ==
  /\ read_check_done
  /\ Looks(write_check_done) /\ write_check_done' = TRUE
  /\ \/ use_ram' /\ Starts(t, l, "idle") /\ write_sector_ram(l, v)
     \/ ~use_ram' /\ Starts(t, l, "write select") /\ UNCHANGED <<ram, wrecked>>
  /\ Gets(t, v)
  /\ latest' = [latest EXCEPT ![l] = v] /\ reading' = {}
  /\ UNCHANGED <<atDisk, atDevice, ata_interrupt_received, read_check_done,
                 gave_up, first>>

WriteSelect(t) ==
  /\ pc[t] = "write select" /\ device \notin Busy
  /\ selected' = lba[t]
  /\ Goes(t, "write command")
  /\ UNCHANGED <<atDisk, atDevice, ram, flags, buffer, history>>

WriteCommand(t) ==
  /\ pc[t] = "write command" /\ Goes(t, "write data")
  /\ Takes("starting")
  /\ UNCHANGED <<atDisk, data, selected, ram, flags, buffer, history>>

(* A disk that has words to give takes none.                               *)
WriteWords(t) ==
  /\ pc[t] = "write data" /\ device \in Asks
  /\ \/ /\ device = "asking" /\ device' = "storing"
        /\ data' \in {buffer[t]} \union (IF disturbed THEN {Garbage} ELSE {})
     \/ device = "ready" /\ UNCHANGED <<device, data>>
  /\ Goes(t, "write clear")
  /\ UNCHANGED <<atDisk, target, selected, ram, flags, buffer, history>>

(* The flag is cleared behind the data: an interrupt before it is lost.    *)
WriteClear(t) ==
  /\ pc[t] = "write clear" /\ Goes(t, "write wait")
  /\ ata_interrupt_received' = FALSE
  /\ UNCHANGED <<atDisk, atDevice, selected, ram, use_ram, read_check_done,
                 write_check_done, buffer, history>>

WriteEnds(t) ==
  /\ pc[t] = "write wait" /\ ata_interrupt_received
  /\ Returns(t)
  /\ UNCHANGED <<atDisk, atDevice, selected, ram, flags, buffer, history>>

(* The limit of a wait is reached: the caller is not told.                 *)
WriteGivesUp(t) ==
  /\ \/ pc[t] = "write select" /\ device \in Busy
     \/ pc[t] = "write data" /\ device \notin Asks
     \/ pc[t] = "write wait" /\ ~ata_interrupt_received
  /\ use_ram' = TRUE /\ gave_up' = TRUE
  /\ Returns(t)
  /\ UNCHANGED <<atDisk, atDevice, selected, ram, ata_interrupt_received,
                 read_check_done, write_check_done, buffer, spoils, first,
                 latest, reading>>

(***************************************************************************)
(* The task is ended by a signal in the middle of its call.                *)
(***************************************************************************)
Ends(t) ==
  /\ pc[t] # "idle" /\ Returns(t)
  /\ disturbed' = TRUE
  /\ UNCHANGED <<atDisk, atDevice, selected, ram, flags, buffer, gave_up,
                 wrecked, first, latest, reading>>

(***************************************************************************)
(* The power fails, and the kernel is started again.  What a disk that was *)
(* given up, disturbed or still writing holds then is all that there is.   *)
(***************************************************************************)
Doubtful(l) ==
  \/ gave_up \/ disturbed \/ wrecked \/ ~present
  \/ \E t \in Callers : pc[t] # "idle" /\ t \notin reading /\ lba[t] = l

PowerFails ==
  /\ device' = "idle" /\ data' = Garbage
  /\ ram' = Boot
  /\ use_ram' = FALSE /\ ata_interrupt_received' = FALSE
  /\ read_check_done' = FALSE /\ write_check_done' = FALSE
  /\ pc' = [t \in Callers |-> "idle"] /\ buffer' = [t \in Callers |-> Garbage]
  /\ gave_up' = FALSE /\ disturbed' = FALSE /\ wrecked' = FALSE
  /\ first' = disk /\ reading' = {}
  /\ latest' = [l \in Lbas |-> IF Doubtful(l) THEN disk[l] ELSE latest[l]]
  /\ UNCHANGED <<atDisk, target, selected, lba>>

DeviceNext == ~wrecked /\ (DeviceReads \/ DeviceAsks \/ DeviceStores)

(* Mutated: the flag is cleared behind the read command.                   *)
ReadStartLate(t) ==
  \/ /\ pc[t] = "read select" /\ device \notin Busy
     /\ Goes(t, "read command")
     /\ device' = "reading" /\ target' = lba[t]
     /\ UNCHANGED <<atDisk, data, selected, ram, flags, buffer, history>>
  \/ /\ pc[t] = "read command" /\ Goes(t, "read wait")
     /\ ata_interrupt_received' = FALSE
     /\ UNCHANGED <<atDisk, atDevice, selected, ram, use_ram,
                    read_check_done, write_check_done, buffer, history>>

ReadStart(t) == ReadSelect(t) \/ ReadCommand(t)

(* Where the driver's own code has been written over nothing is followed.  *)
DriverNext(t) ==
  /\ ~wrecked
  /\ \/ ReadStart(t) \/ ReadWords(t) \/ ReadGivesUp(t)
     \/ WriteSelect(t) \/ WriteCommand(t) \/ WriteWords(t) \/ WriteClear(t)
     \/ WriteEnds(t) \/ WriteGivesUp(t)

CallsNext(t) ==
  /\ ~wrecked
  /\ \/ \E l \in Lbas : ReadSector(t, l)
     \/ \E w \in Writes : WriteSector(t, w[1], w[2])
     \/ Ends(t)

AtaNext ==
  \/ DeviceNext
  \/ \E t \in Callers : DriverNext(t) \/ CallsNext(t)
  \/ PowerFails

(* The tasks go on, as long as the timer ticks; of the disk nothing is     *)
(* expected.                                                               *)
AtaSpec ==
  /\ AtaInit /\ [][AtaNext]_ataVars
  /\ \A t \in Callers : WF_ataVars(DriverNext(t))
=============================================================================
