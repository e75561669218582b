-------------------------------- MODULE Files --------------------------------
(***************************************************************************)
(* The files of the x86 kernel: fs/fat12 (fat.c, read.c, write.c) under    *)
(* fs/vfs.c, and the commands cat and casm that read them.  A file that    *)
(* the kernel makes has one cluster; files of the image it was booted from *)
(* may have more.  Nothing is ever removed.                                *)
(*                                                                         *)
(* The steps of a call are its reads and writes of sectors, each with the  *)
(* computation up to the next one: interrupts are on while the disk works  *)
(* and another task may run, call and carry out steps of its own.  Two     *)
(* things such a call may not survive: another call of create_file, whose  *)
(* tables are static, and another task's transfer begun before this one is *)
(* over.  Both happen here, and spoiled remembers that they did: nothing   *)
(* is claimed after it.  The power may fail between any two steps: what is *)
(* on the disk stays.                                                      *)
(***************************************************************************)
EXTENDS Integers, Sequences, FiniteSets

CONSTANTS
  Tasks, Names, Contents,  (* a content is what a cluster holds            *)
  Writes,                  (* the names and contents that files are given  *)
  Nothing, Key,            (* no content, and a key that was struck        *)
  DiskEnd,       (* the last cluster there is on the disk                  *)
  FatSectors, PerFatSector,    (* sectors of the FAT, clusters in each     *)
  RootSectors, PerRootSector,  (* sectors of the root, entries in each     *)
  FdEnd, VfsFdEnd,             (* 10 and 32                                *)
  Images,        (* what the disk may hold at first                        *)
  MaxFailures    (* bound: how often the power fails                       *)

TableEnd == 1 + FatSectors * PerFatSector
Table == 2 .. TableEnd                    (* the clusters of the FAT       *)
Slots == 1 .. RootSectors * PerRootSector (* the entries of the root       *)
Fds == 3 .. FdEnd - 1
VfsFds == 0 .. VfsFdEnd - 1

FREE == 0                       (* 0x000                                   *)
LAST == TableEnd + 1            (* 0xFFF: the last cluster of a file       *)

End == [name |-> "end", cluster |-> 0]         (* name[0] = 0x00           *)
Deleted == [name |-> "deleted", cluster |-> 0] (* name[0] = 0xE5           *)

Entries == [name : Names \union {"end", "deleted"}, cluster : Table \union {0}]

IsFile(entry) == entry.name \in Names

ASSUME FilesAssumption ==
  /\ FatSectors \in Nat \ {0} /\ PerFatSector \in Nat \ {0}
  /\ RootSectors \in Nat \ {0} /\ PerRootSector \in Nat \ {0}
  /\ DiskEnd \in Table /\ FdEnd \in Nat /\ VfsFdEnd \in Nat /\ MaxFailures \in Nat
  /\ {"end", "deleted"} \cap Names = {} /\ {Nothing, Key} \cap Contents = {}
  /\ Writes \subseteq Names \X Contents

(* An image as the build makes it (Makefile, mcopy): every file has its    *)
(* clusters through the FAT, alone, and no cluster is marked for nobody.   *)
IsImage(image) ==
  LET Files == {s \in Slots : IsFile(image.root[s])}
      Has(s, k) == \E j \in 1 .. Len(image.chain[s]) : image.chain[s][j] = k
      IsWhole(s) ==
        LET c == image.chain[s]
        IN  /\ c # <<>> /\ image.root[s].cluster = c[1] /\ Len(image.whole[s]) = Len(c)
            /\ \A j \in 1 .. Len(c) :
                 /\ image.fat[c[j]] = IF j = Len(c) THEN LAST ELSE c[j + 1]
                 /\ c[j] <= DiskEnd => image.data[c[j]] = image.whole[s][j]
  IN  /\ image.fat \in [Table -> Table \union {FREE, LAST}]
      /\ image.root \in [Slots -> Entries]
      /\ image.data \in [2 .. DiskEnd -> Contents \union {Nothing}]
      /\ image.chain \in [Slots -> Seq(Table)] /\ image.whole \in [Slots -> Seq(Contents)]
      /\ \A s \in Files : IsWhole(s)
      /\ \A r, s \in Files : r # s => \A k \in Table : ~(Has(r, k) /\ Has(s, k))
      /\ \A r, s \in Slots : r < s /\ s \in Files => image.root[r].name # "end"
      /\ \A k \in Table : image.fat[k] # FREE => \E s \in Files : Has(s, k)

ASSUME ImagesAssumption == \A image \in Images : IsImage(image)

VARIABLES
  fat, root, data,       (* on the disk                                    *)
  fat_table, root_buf,   (* create_file's static buffers                   *)
  cached_fat, disk_initialized,
  fd_cluster,            (* fat12_fd_table: the cluster, 0 if not used     *)
  vfs_fd,                (* vfs_fd_table: the real fd, 0 if not used       *)
  call, pc, sector,      (* what each task does, and the sector it is at   *)
  name, content, cluster,(* its arguments and its local                    *)
  fd,                    (* the descriptor of vfs that a command has       *)
  loaded,                (* what read_file or a command has read           *)
  slot,                  (* history: the entry it found or wrote, 0 if none*)
  chain, whole,          (* history: the clusters and contents of a file   *)
  settled,               (* history: the entries of files that were made   *)
  saved,                 (* history: what was made last under a name       *)
  fd_slot,               (* history: the entry a descriptor was opened for *)
  robbed,                (* history: whose descriptor another task closed  *)
  lost,                  (* history: clusters marked for no file           *)
  failures,              (* history: how often the power failed            *)
  spoiled                (* history: see above                             *)

disk == <<fat, root, data>>
buffers == <<fat_table, root_buf>>
cache == <<cached_fat, disk_initialized>>
fds == <<fd_cluster, vfs_fd, fd_slot, robbed>>
locals == <<call, pc, sector, name, content, cluster, fd, loaded, slot>>
made == <<chain, whole, settled, saved, lost>>
filesVars ==
  <<disk, buffers, cache, fds, locals, made, failures, spoiled>>

(* The smallest of a set of numbers.                                       *)
Least(S) == CHOOSE i \in S : \A j \in S : i <= j

ClustersOf(s) == 2 + (s - 1) * PerFatSector .. 1 + s * PerFatSector
SlotsOf(s) == (s - 1) * PerRootSector + 1 .. s * PerRootSector

-----------------------------------------------------------------------------

MemoryInit ==
  /\ fat_table = [k \in Table |-> FREE]
  /\ root_buf = [i \in 1 .. PerRootSector |-> End]
  /\ cached_fat = [k \in Table |-> FREE]
  /\ disk_initialized = FALSE
  /\ fd_cluster = [f \in Fds |-> 0]
  /\ vfs_fd = [f \in VfsFds |-> 0]
  /\ fd_slot = [f \in Fds |-> 0]
  /\ robbed = {}
  /\ call = [t \in Tasks |-> "none"]
  /\ pc = [t \in Tasks |-> "idle"]
  /\ sector = [t \in Tasks |-> 0]
  /\ name = [t \in Tasks |-> "end"]
  /\ content = [t \in Tasks |-> Nothing]
  /\ cluster = [t \in Tasks |-> 0]
  /\ fd = [t \in Tasks |-> 0]
  /\ loaded = [t \in Tasks |-> <<>>]
  /\ slot = [t \in Tasks |-> 0]

FilesInit ==
  /\ MemoryInit
  /\ \E image \in Images :
       /\ fat = image.fat /\ root = image.root /\ data = image.data
       /\ chain = image.chain /\ whole = image.whole
       /\ settled = {s \in Slots : IsFile(root[s])}
  /\ saved = [n \in Names |-> Nothing]
  /\ lost = {}
  /\ failures = 0
  /\ spoiled = FALSE

-----------------------------------------------------------------------------
(* Calls.                                                                  *)

At(t, what, where) == call[t] = what /\ pc[t] = where

Commands == {"cat", "casm"}
Opening == {"open"} \union Commands

(* Two creations share their tables.  Openings keep theirs on the stack.   *)
Collide(a, b) == {a, b} = {"create"}

Begin(t, what, where, n, c) ==
  /\ ~spoiled
  /\ call[t] = "none"
  /\ call' = [call EXCEPT ![t] = what]
  /\ pc' = [pc EXCEPT ![t] = where]
  /\ sector' = [sector EXCEPT ![t] = 1]
  /\ name' = [name EXCEPT ![t] = n]
  /\ content' = [content EXCEPT ![t] = c]
  /\ loaded' = [loaded EXCEPT ![t] = <<>>]
  /\ spoiled' = \E d \in Tasks : Collide(what, call[d])
  /\ UNCHANGED <<cluster, fd, slot, disk, buffers, cache, fds, made, failures>>

(* The locals end with the call, what was read does not.                   *)
Return(t) ==
  /\ call' = [call EXCEPT ![t] = "none"]
  /\ pc' = [pc EXCEPT ![t] = "idle"]
  /\ sector' = [sector EXCEPT ![t] = 0]
  /\ name' = [name EXCEPT ![t] = "end"]
  /\ content' = [content EXCEPT ![t] = Nothing]
  /\ cluster' = [cluster EXCEPT ![t] = 0]
  /\ fd' = [fd EXCEPT ![t] = 0]
  /\ slot' = [slot EXCEPT ![t] = 0]

Goto(t, where) ==
  /\ pc' = [pc EXCEPT ![t] = where]
  /\ sector' = [sector EXCEPT ![t] = 1]
  /\ UNCHANGED <<call, name, content, fd>>

NextSector(t) ==
  /\ sector' = [sector EXCEPT ![t] = @ + 1]
  /\ UNCHANGED <<call, pc, name, content, fd>>

-----------------------------------------------------------------------------
(* create_file, for fat12_create, SYS_CREATE_FILE and the file window.     *)

Create(t, n, c) == Begin(t, "create", "table", n, c)

(* Mutated: the copy kept for reading is used when it is marked good.      *)
TableReadCached(s) ==
  [k \in Table |-> IF k \notin ClustersOf(s) THEN fat_table[k]
                   ELSE IF disk_initialized THEN cached_fat[k] ELSE fat[k]]

TableRead(s) == [k \in Table |-> IF k \in ClustersOf(s) THEN fat[k] ELSE fat_table[k]]

(* Mutated: the cluster is marked on the disk at once.                     *)
TakeMarking(t, table, k) ==
  /\ cluster' = [cluster EXCEPT ![t] = k]
  /\ fat' = [table EXCEPT ![k] = LAST]
  /\ Goto(t, "entry")
  /\ UNCHANGED slot

(* The table has been read; the cluster is taken.                          *)
Take(t, table, k) ==
  /\ cluster' = [cluster EXCEPT ![t] = k]
  /\ Goto(t, "entry")
  /\ UNCHANGED <<slot, fat>>

(* The FAT is read sector by sector and the first free cluster is taken,   *)
(* be there such a cluster on the disk or not.  When none is free in the   *)
(* table the search goes on behind it, in memory that is something else.   *)
ReadTable(t) ==
  LET table == TableRead(sector[t])
      free == {k \in Table : table[k] = FREE}
  IN  /\ At(t, "create", "table")
      /\ fat_table' = table
      /\ \/ /\ sector[t] < FatSectors
            /\ NextSector(t)
            /\ UNCHANGED <<cluster, slot, fat, spoiled>>
         \/ /\ sector[t] = FatSectors /\ free # {}
            /\ Take(t, table, Least(free))
            /\ UNCHANGED spoiled
         \/ /\ sector[t] = FatSectors /\ free = {}
            /\ Return(t)
            /\ spoiled' \in {spoiled, TRUE}
            /\ UNCHANGED fat
      /\ UNCHANGED <<root_buf, root, data, cache, fds, loaded, made, failures>>

(* Mutated: an entry is looked for from the end of the sector.             *)
VacantLast(buf) ==
  {i \in 1 .. PerRootSector :
     ~IsFile(buf[i]) /\ \A j \in i + 1 .. PerRootSector : IsFile(buf[j])}

Vacant(buf) == {i \in 1 .. PerRootSector : ~IsFile(buf[i])}

(* The FAT to be written, in which the cluster ends a file.                *)
Marked(t) == [fat_table EXCEPT ![cluster[t]] = LAST]

(* The root is read until a sector has a vacant entry, in which the file   *)
(* is entered; a full root is not an error.                                *)
ReadRoot(t) ==
  LET before == (sector[t] - 1) * PerRootSector
      buf == [i \in 1 .. PerRootSector |-> root[before + i]]
      i == Least(Vacant(buf))
  IN  /\ At(t, "create", "entry")
      /\ \/ /\ Vacant(buf) # {}
            /\ root_buf' = [buf EXCEPT ![i] = [name |-> name[t], cluster |-> cluster[t]]]
            /\ slot' = [slot EXCEPT ![t] = before + i]
            /\ pc' = [pc EXCEPT ![t] = "put"]
            /\ UNCHANGED <<call, sector, name, content, fd, fat_table>>
         \/ /\ Vacant(buf) = {} /\ sector[t] < RootSectors
            /\ root_buf' = buf
            /\ NextSector(t)
            /\ UNCHANGED <<fat_table, slot>>
         \/ /\ Vacant(buf) = {} /\ sector[t] = RootSectors
            /\ root_buf' = buf
            /\ fat_table' = Marked(t)
            /\ Goto(t, "mark")
            /\ UNCHANGED slot
      /\ UNCHANGED <<disk, cache, fds, cluster, loaded, made, failures, spoiled>>

(* The sector with the entry is written.                                   *)
PutEntry(t) ==
  /\ At(t, "create", "put")
  /\ root' = [s \in Slots |-> IF s \in SlotsOf(sector[t])
                             THEN root_buf[s - (sector[t] - 1) * PerRootSector] ELSE root[s]]
  /\ fat_table' = Marked(t)
  /\ chain' = [chain EXCEPT ![slot[t]] = <<cluster[t]>>]
  /\ whole' = [whole EXCEPT ![slot[t]] = <<content[t]>>]
  /\ Goto(t, "mark")
  /\ UNCHANGED <<fat, data, root_buf, cache, fds, cluster, loaded, slot, settled, saved,
                 lost, failures, spoiled>>

(* The FAT is written sector by sector.                                    *)
WriteTable(t) ==
  /\ At(t, "create", "mark")
  /\ fat' = [k \in Table |-> IF k \in ClustersOf(sector[t]) THEN fat_table[k] ELSE fat[k]]
  /\ IF sector[t] < FatSectors THEN NextSector(t) ELSE Goto(t, "fill")
  /\ UNCHANGED <<root, data, buffers, cache, fds, cluster, loaded, slot, made, failures,
                 spoiled>>

(* The data are written, if there is such a cluster, and the cache is      *)
(* given up.                                                               *)
WriteData(t) ==
  /\ At(t, "create", "fill")
  /\ data' = IF cluster[t] <= DiskEnd THEN [data EXCEPT ![cluster[t]] = content[t]]
             ELSE data
  /\ disk_initialized' = FALSE
  /\ IF slot[t] # 0
     THEN /\ settled' = settled \union {slot[t]}
          /\ saved' = [saved EXCEPT ![name[t]] = content[t]]
          /\ UNCHANGED lost
     ELSE /\ lost' = lost \union {cluster[t]}
          /\ UNCHANGED <<settled, saved>>
  /\ Return(t)
  /\ UNCHANGED <<fat, root, buffers, cached_fat, fds, loaded, chain, whole, failures,
                 spoiled>>

-----------------------------------------------------------------------------
(* fat12_open and read_file begin alike.  The commands cat and casm open a *)
(* file, read it and close it; forth reads as cat does.                    *)

Look(t, what, n) ==
  Begin(t, what, IF disk_initialized THEN "search" ELSE "cache", n, Nothing)

Open(t, n) == Look(t, "open", n)
ReadFile(t, n) == Look(t, "load", n)
Cat(t, n) == Look(t, "cat", n)
Casm(t, n) == Look(t, "casm", n)

(* Mutated: the copy is marked good before it is complete.                 *)
ReadCacheEarly(t) ==
  /\ pc[t] = "cache"
  /\ cached_fat' =
       [k \in Table |-> IF k \in ClustersOf(sector[t]) THEN fat[k] ELSE cached_fat[k]]
  /\ disk_initialized' = TRUE
  /\ IF sector[t] < FatSectors THEN NextSector(t) ELSE Goto(t, "search")
  /\ UNCHANGED <<disk, buffers, fds, cluster, loaded, slot, made, failures, spoiled>>

ReadCache(t) ==
  /\ pc[t] = "cache"
  /\ cached_fat' =
       [k \in Table |-> IF k \in ClustersOf(sector[t]) THEN fat[k] ELSE cached_fat[k]]
  /\ IF sector[t] < FatSectors
     THEN NextSector(t) /\ UNCHANGED disk_initialized
     ELSE Goto(t, "search") /\ disk_initialized' = TRUE
  /\ UNCHANGED <<disk, buffers, fds, cluster, loaded, slot, made, failures, spoiled>>

(* Mutated: the names are not compared.                                    *)
StopsAtAny(s, n) == {i \in SlotsOf(s) : root[i].name # "deleted"}

(* find_file_in_root: the search ends at the first entry of that name, or  *)
(* where no entry has been yet.                                            *)
Stops(s, n) == {i \in SlotsOf(s) : root[i].name \in {n, "end"}}

FreeFds == {f \in Fds : fd_cluster[f] = 0}
FreeVfsFds == {v \in VfsFds : vfs_fd[v] = 0}

(* fat12_open and vfs_open: a descriptor of each kind.                     *)
Describe(t, s) ==
  IF FreeFds # {} /\ FreeVfsFds # {}
  THEN /\ fd_cluster' = [fd_cluster EXCEPT ![Least(FreeFds)] = root[s].cluster]
       /\ fd_slot' = [fd_slot EXCEPT ![Least(FreeFds)] = s]
       /\ vfs_fd' = [vfs_fd EXCEPT ![Least(FreeVfsFds)] = Least(FreeFds)]
       /\ robbed' = robbed \ {t}
  ELSE UNCHANGED fds

Search(t) ==
  LET stops == Stops(sector[t], name[t])
      s == Least(stops)
      found == stops # {} /\ root[s].name # "end"
  IN  /\ pc[t] = "search"
      /\ \/ /\ stops = {} /\ sector[t] < RootSectors
            /\ NextSector(t)
            /\ UNCHANGED <<cluster, slot, fds>>
         \/ /\ ~found /\ (stops # {} \/ sector[t] = RootSectors)
            /\ Return(t)
            /\ UNCHANGED fds
         \/ /\ found /\ call[t] \in Opening
            /\ Describe(t, s)
            /\ \/ /\ (call[t] = "open" \/ FreeFds = {} \/ FreeVfsFds = {})
                  /\ Return(t)
               \/ /\ ~(call[t] = "open" \/ FreeFds = {} \/ FreeVfsFds = {})
                  /\ fd' = [fd EXCEPT ![t] = Least(FreeVfsFds)]
                  /\ slot' = [slot EXCEPT ![t] = s]
                  /\ pc' = [pc EXCEPT ![t] = "read"]
                  /\ UNCHANGED <<call, sector, name, content, cluster>>
         \/ /\ found /\ call[t] = "load"
            /\ cluster' = [cluster EXCEPT ![t] = root[s].cluster]
            /\ slot' = [slot EXCEPT ![t] = s]
            /\ Goto(t, "chain")
            /\ UNCHANGED fds
      /\ UNCHANGED <<disk, buffers, cache, loaded, made, failures, spoiled>>

(* What a sector that is not on the disk holds is not known.               *)
Holds(k) == IF k <= DiskEnd THEN data[k] ELSE Nothing

(* read_file goes from cluster to cluster through its copy of the FAT; a   *)
(* file the copy does not know of yet ends at its first.                   *)
ReadCluster(t) ==
  LET following == cached_fat[cluster[t]]
  IN  /\ At(t, "load", "chain")
      /\ loaded' = [loaded EXCEPT ![t] = Append(@, Holds(cluster[t]))]
      /\ IF following \in {FREE, LAST}
         THEN Return(t)
         ELSE /\ cluster' = [cluster EXCEPT ![t] = following]
              /\ UNCHANGED <<call, pc, sector, name, content, fd, slot>>
      /\ UNCHANGED <<disk, buffers, cache, fds, made, failures, spoiled>>

(* Commands that have v and have not read it yet: who else closes it takes *)
(* it from them, and another file may be opened under the same number.     *)
Having(v) == {u \in Tasks : pc[u] = "read" /\ fd[u] = v}

(* Mutated: the descriptor of fat12 stays in use.                          *)
CloseVfs(t, v) ==
  IF vfs_fd[v] = 0 THEN UNCHANGED fds
  ELSE /\ vfs_fd' = [vfs_fd EXCEPT ![v] = 0]
       /\ robbed' = robbed \union (Having(v) \ {t})
       /\ UNCHANGED <<fd_cluster, fd_slot>>

(* vfs_close: both descriptors, whoever opened them.                       *)
CloseBoth(t, v) ==
  IF vfs_fd[v] = 0 THEN UNCHANGED fds
  ELSE /\ fd_cluster' = [fd_cluster EXCEPT ![vfs_fd[v]] = 0]
       /\ fd_slot' = [fd_slot EXCEPT ![vfs_fd[v]] = 0]
       /\ vfs_fd' = [vfs_fd EXCEPT ![v] = 0]
       /\ robbed' = robbed \union (Having(v) \ {t})

Close(t, v) ==
  /\ ~spoiled /\ call[t] = "none"
  /\ vfs_fd[v] # 0 /\ CloseBoth(t, v)
  /\ UNCHANGED <<disk, buffers, cache, locals, made, failures, spoiled>>

(* vfs_read: the first sector of the file the descriptor is of now, or     *)
(* nothing if somebody else closed it.                                     *)
vfs_read(v) == IF vfs_fd[v] = 0 THEN <<>> ELSE <<Holds(fd_cluster[vfs_fd[v]])>>

(* SYS_READ: descriptor 0 is the keyboard, whether or not vfs_open gave it *)
(* to a file; what comes is a key, or nothing when none waits.             *)
sys_read(v) == IF v = 0 THEN {<<>>, <<Key>>} ELSE {vfs_read(v)}

(* casm reads by the system call, cat by vfs_read.  Both close the file.   *)
ReadDescribed(t) ==
  /\ pc[t] = "read"
  /\ \E text \in IF call[t] = "casm" THEN sys_read(fd[t]) ELSE {vfs_read(fd[t])} :
       loaded' = [loaded EXCEPT ![t] = text]
  /\ CloseBoth(t, fd[t])
  /\ \/ call[t] = "cat" /\ Return(t)
     \/ /\ call[t] = "casm" /\ Goto(t, "assemble")
        /\ UNCHANGED <<cluster, slot>>
  /\ UNCHANGED <<disk, buffers, cache, made, failures, spoiled>>

(* casm has its text, asks for a name and makes a file of it: a call of    *)
(* create_file, which is Create.                                           *)
assemble_to_bin(t) ==
  /\ At(t, "casm", "assemble")
  /\ Return(t)
  /\ UNCHANGED <<disk, buffers, cache, fds, loaded, made, failures, spoiled>>

-----------------------------------------------------------------------------

(* The clusters marked so far by a creation for which the root has no      *)
(* entry.                                                                  *)
Unentered ==
  {k \in Table :
     /\ fat[k] # FREE
     /\ \E t \in Tasks : /\ pc[t] \in {"mark", "fill"}
                          /\ slot[t] = 0 /\ cluster[t] = k}

PowerFails ==
  /\ ~spoiled
  /\ failures < MaxFailures
  /\ failures' = failures + 1
  /\ fat_table' = [k \in Table |-> FREE]
  /\ root_buf' = [i \in 1 .. PerRootSector |-> End]
  /\ cached_fat' = [k \in Table |-> FREE]
  /\ disk_initialized' = FALSE
  /\ fd_cluster' = [f \in Fds |-> 0]
  /\ vfs_fd' = [f \in VfsFds |-> 0]
  /\ fd_slot' = [f \in Fds |-> 0]
  /\ robbed' = {}
  /\ call' = [t \in Tasks |-> "none"]
  /\ pc' = [t \in Tasks |-> "idle"]
  /\ sector' = [t \in Tasks |-> 0]
  /\ name' = [t \in Tasks |-> "end"]
  /\ content' = [t \in Tasks |-> Nothing]
  /\ cluster' = [t \in Tasks |-> 0]
  /\ fd' = [t \in Tasks |-> 0]
  /\ loaded' = [t \in Tasks |-> <<>>]
  /\ slot' = [t \in Tasks |-> 0]
  /\ lost' = lost \union Unentered
  /\ UNCHANGED <<disk, chain, whole, settled, saved, spoiled>>

(* A step above is a transfer that no other task's transfer disturbs.  But *)
(* the timer may take the processor in the wait for the disk (ata.c        *)
(* 118-125), and then another task's command replaces this one (see Ata);  *)
(* so also between the test of a descriptor's mark and its setting, while  *)
(* an entry of vfs is half filled, and before fat12_read has copied its    *)
(* static buffer.  The other task is in such a step too, or it closes a    *)
(* file, or lists the root for ls or the file window.                      *)
Meet(t, u) ==
  /\ t # u /\ ~spoiled
  /\ pc[t] \notin {"idle", "assemble"} /\ pc[u] # "assemble"
  /\ spoiled' = TRUE
  /\ UNCHANGED <<disk, buffers, cache, fds, locals, made, failures>>

CreateStep(t) ==
  ReadTable(t) \/ ReadRoot(t) \/ PutEntry(t) \/ WriteTable(t) \/ WriteData(t)

ReadStep(t) ==
  ReadCache(t) \/ Search(t) \/ ReadCluster(t) \/ ReadDescribed(t) \/ assemble_to_bin(t)

FilesNext ==
  \/ \E t \in Tasks :
       \/ \E w \in Writes : Create(t, w[1], w[2])
       \/ \E n \in Names : Open(t, n) \/ ReadFile(t, n) \/ Cat(t, n) \/ Casm(t, n)
       \/ \E v \in VfsFds : Close(t, v)
       \/ CreateStep(t) \/ ReadStep(t)
       \/ \E u \in Tasks : Meet(t, u)
  \/ PowerFails

FilesSpec == FilesInit /\ [][FilesNext]_filesVars

=============================================================================
