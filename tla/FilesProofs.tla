----------------------------- MODULE FilesProofs -----------------------------
(***************************************************************************)
(* The files, for every size of the disk, of its sectors and of the tables *)
(* of descriptors, any number of tasks and failures of the power; and its  *)
(* table as bytes, for every table, cluster and value.                     *)
(***************************************************************************)
EXTENDS FilesProps, FatTable, WellFoundedInduction, SequenceTheorems, TLAPS

(* The first cluster, and the first entry, of a sector.                    *)
Cluster0(s) == 2 + (s - 1) * PerFatSector
Slot0(s) == 1 + (s - 1) * PerRootSector

Values == Table \union {FREE, LAST}
Entered == {e \in Entries : IsFile(e) => e.cluster \in Table}

CreatePlaces == {"table", "entry", "put", "mark", "fill"}
ReadPlaces == {"cache", "search", "chain", "read", "assemble"}

(* What the variables hold.                                                *)
DiskTypeOK ==
  /\ fat \in [Table -> Values] /\ root \in [Slots -> Entered]
  /\ data \in [2 .. DiskEnd -> Contents \union {Nothing}]
  /\ chain \in [Slots -> Seq(Table)] /\ whole \in [Slots -> Seq(Contents)]
  /\ settled \subseteq Slots /\ lost \subseteq Table

MemoryTypeOK ==
  /\ fat_table \in [Table -> Values] /\ cached_fat \in [Table -> Values]
  /\ root_buf \in [1 .. PerRootSector -> Entered]
  /\ fd_cluster \in [Fds -> Table \union {0}] /\ vfs_fd \in [VfsFds -> Fds \union {0}]
  /\ fd_slot \in [Fds -> Slots \union {0}] /\ robbed \subseteq Tasks
  /\ loaded \in [Tasks -> Seq(Contents \union {Nothing, Key})]

LocalsTypeOK ==
  /\ call \in [Tasks -> {"none", "create", "load"} \union Opening]
  /\ pc \in [Tasks -> {"idle"} \union CreatePlaces \union ReadPlaces]
  /\ sector \in [Tasks -> Nat]
  /\ name \in [Tasks -> Names \union {"end"}]
  /\ content \in [Tasks -> Contents \union {Nothing}]
  /\ cluster \in [Tasks -> Table \union {0}]
  /\ fd \in [Tasks -> VfsFds \union {0}]
  /\ slot \in [Tasks -> Slots \union {0}]

(* Where a call is and what its locals hold there.                         *)
InPlace(t) ==
  /\ call[t] = "none" <=> pc[t] = "idle"
  /\ call[t] = "create" <=> pc[t] \in CreatePlaces
  /\ call[t] # "none" => name[t] \in Names
  /\ call[t] = "create" => content[t] \in Contents
  /\ pc[t] \in {"idle", "table", "cache", "search"} =>
       cluster[t] = 0 /\ slot[t] = 0
  /\ pc[t] \in {"table", "mark", "cache"} => sector[t] \in 1 .. FatSectors
  /\ pc[t] \in {"entry", "put", "search"} => sector[t] \in 1 .. RootSectors
  /\ pc[t] \in {"entry", "put", "mark", "fill", "chain"} => cluster[t] \in Table
  /\ pc[t] = "entry" => slot[t] = 0
  /\ pc[t] = "put" => slot[t] \in SlotsOf(sector[t])
  /\ pc[t] = "chain" <=> call[t] = "load" /\ slot[t] # 0
  /\ pc[t] = "read" => call[t] \in Commands /\ fd[t] \in VfsFds /\ slot[t] \in Slots
  /\ pc[t] = "assemble" => call[t] = "casm"

Descriptors ==
  /\ \A f \in Fds : fd_cluster[f] # 0 <=> \E v \in VfsFds : vfs_fd[v] = f
  /\ \A v, w \in VfsFds : vfs_fd[v] = vfs_fd[w] /\ vfs_fd[v] # 0 => v = w

Base ==
  /\ DiskTypeOK /\ MemoryTypeOK /\ LocalsTypeOK
  /\ \A t \in Tasks : InPlace(t)
  /\ Descriptors

-----------------------------------------------------------------------------

(* No two creations at once.                                               *)
Apart == \A t, u \in Tasks : t # u => ~Collide(call[t], call[u])

Owns(s, k) == k \in Range(chain[s])

(* The file that is made is entered: its entry holds its cluster.          *)
IsEntered(t) ==
  slot[t] # 0 =>
    /\ root[slot[t]] = [name |-> name[t], cluster |-> cluster[t]]
    /\ chain[slot[t]] = <<cluster[t]>> /\ whole[slot[t]] = <<content[t]>>
    /\ slot[t] \notin settled

(* A creation has a copy of the FAT in which it gives the file a cluster   *)
(* that nobody has, writes the copy from the lower clusters up, and enters *)
(* the file behind entries that are all in use.                            *)
Creation(t) ==
  /\ pc[t] = "table" =>
       \A k \in Table : k < Cluster0(sector[t]) => fat_table[k] = fat[k]
  /\ pc[t] \in {"entry", "put"} => fat_table = fat /\ fat[cluster[t]] = FREE
  /\ pc[t] = "entry" =>
       \A s \in Slots : s < Slot0(sector[t]) => IsFile(root[s])
  /\ pc[t] = "put" =>
       /\ ~IsFile(root[slot[t]])
       /\ \A s \in Slots : s < slot[t] => IsFile(root[s])
       /\ \A s \in SlotsOf(sector[t]) :
            root_buf[s - (sector[t] - 1) * PerRootSector] =
              IF s = slot[t] THEN [name |-> name[t], cluster |-> cluster[t]] ELSE root[s]
  /\ pc[t] \in {"mark", "fill"} =>
       /\ IsEntered(t)
       /\ fat_table = [fat EXCEPT ![cluster[t]] = LAST]
       /\ fat[cluster[t]] \in {FREE, LAST}
  /\ pc[t] = "mark" /\ cluster[t] < Cluster0(sector[t]) => fat[cluster[t]] = LAST
  /\ pc[t] = "fill" => fat[cluster[t]] = LAST
  /\ pc[t] \in {"entry", "put", "mark", "fill"} =>
       \A s \in settled : ~Owns(s, cluster[t])

(* The entries of files that a failure left unfinished.                    *)
Unfinished ==
  \A s \in Slots : IsFile(root[s]) /\ s \notin settled =>
    fat[root[s].cluster] \in {FREE, LAST}

KeptFiles ==
  /\ Apart
  /\ \A t \in Tasks : call[t] = "create" => Creation(t)
  /\ Unfinished
  /\ \A s \in settled : Len(whole[s]) = Len(chain[s])
  /\ FilesStay /\ NothingBehindTheEnd /\ ClustersAccounted

-----------------------------------------------------------------------------

(* The copy of the FAT that reading uses is not older than the last call   *)
(* that filled it, except for ends of files.                               *)
Recent(k) == cached_fat[k] = fat[k] \/ (cached_fat[k] = FREE /\ fat[k] = LAST)

KeptCopy ==
  /\ disk_initialized => \A k \in Table : Recent(k)
  /\ \A t \in Tasks :
       /\ pc[t] = "cache" => \A k \in Table : k < Cluster0(sector[t]) => Recent(k)
       /\ pc[t] \in {"search", "chain"} => \A k \in Table : Recent(k)

(* A file that is open, or being read, is the one that was found, unless   *)
(* another task closed it before it was read.                              *)
KeptOpen ==
  /\ \A f \in Fds :
       fd_cluster[f] # 0 =>
         /\ fd_slot[f] \in Slots /\ IsFile(root[fd_slot[f]])
         /\ fd_cluster[f] = root[fd_slot[f]].cluster
  /\ \A t \in Tasks :
       pc[t] = "read" /\ t \notin robbed =>
         vfs_fd[fd[t]] # 0 /\ fd_slot[vfs_fd[fd[t]]] = slot[t]

(* What read_file has read so far.                                         *)
Loading(t) ==
  LET s == slot[t]
      n == Len(loaded[t])
  IN  /\ IsFile(root[s])
      /\ n = 0 => cluster[t] = root[s].cluster
      /\ n # 0 =>
           /\ s \in settled /\ n < Len(chain[s]) /\ cluster[t] = chain[s][n + 1]
           /\ \A j \in 1 .. n :
                chain[s][j] <= DiskEnd => loaded[t][j] = whole[s][j]

KeptReads ==
  /\ \A t \in Tasks : pc[t] = "chain" => Loading(t)
  /\ \A t \in Tasks : pc[t] \in {"cache", "search"} => loaded[t] = <<>>

FilesInv == Base /\ (~spoiled => KeptFiles /\ KeptCopy /\ KeptOpen /\ KeptReads)

-----------------------------------------------------------------------------
(* Numbers.                                                                *)

LEMMA LeastIs ==
  ASSUME NEW S, S \subseteq Nat, S # {}
  PROVE  Least(S) \in S /\ \A j \in S : Least(S) <= j
<1>1. PICK i \in S : \A j \in S : ~(<<j, i>> \in OpToRel(<, Nat))
  BY NatLessThanWellFounded, WFMin
<1>2. \A j \in S : ~(j < i)
  BY <1>1 DEF OpToRel
<1>3. \A j \in S : i <= j
  BY <1>2
<1>4. QED
  BY <1>3 DEF Least

LEMMA Times ==
  ASSUME NEW a \in Nat, NEW b \in Nat, a <= b, NEW p \in Nat
  PROVE  a * p \in Nat /\ b * p \in Nat /\ a * p <= b * p
<1>1. PICK d \in Nat : b = a + d
  <2>1. b - a \in Nat /\ b = a + (b - a)
    OBVIOUS
  <2>2. QED
    BY <2>1
<1>2. a * p \in Nat /\ d * p \in Nat /\ (a + d) * p = a * p + d * p
  OBVIOUS
<1>3. QED
  BY <1>1, <1>2

(* The clusters of a sector of the FAT follow those of the one before.     *)
LEMMA SectorIs ==
  ASSUME NEW s \in 1 .. FatSectors
  PROVE  /\ Cluster0(s) \in Nat /\ Cluster0(s + 1) \in Nat
         /\ 2 <= Cluster0(s) /\ Cluster0(s) <= Cluster0(s + 1)
         /\ Cluster0(s + 1) <= TableEnd + 1 /\ TableEnd \in Nat
         /\ \A k \in Nat : k \in ClustersOf(s) <=> Cluster0(s) <= k /\ k < Cluster0(s + 1)
         /\ Cluster0(1) = 2 /\ Cluster0(FatSectors + 1) = TableEnd + 1
<1>1. FatSectors \in Nat /\ PerFatSector \in Nat /\ s \in Nat /\ s - 1 \in Nat
  BY FilesAssumption
<1> DEFINE a == (s - 1) * PerFatSector
           b == s * PerFatSector
           e == FatSectors * PerFatSector
<1>2. a \in Nat /\ b \in Nat /\ a <= b
  BY <1>1, Times
<1>3. e \in Nat /\ b <= e
  BY <1>1, Times
<1>4. /\ Cluster0(s) = 2 + a /\ TableEnd = 1 + e
      /\ Cluster0(s + 1) = 2 + b /\ Cluster0(FatSectors + 1) = 2 + e
  <2>1. (s + 1) - 1 = s /\ (FatSectors + 1) - 1 = FatSectors
    BY <1>1
  <2>2. QED
    BY <2>1 DEF Cluster0, TableEnd
<1>5. Cluster0(1) = 2
  BY <1>1 DEF Cluster0
<1>6. ClustersOf(s) = 2 + a .. 1 + b
  BY DEF ClustersOf
<1> HIDE DEF a, b, e
<1>7. QED
  BY <1>2, <1>3, <1>4, <1>5, <1>6

(* So do the entries of a sector of the root.                              *)
LEMMA RootSectorIs ==
  ASSUME NEW s \in 1 .. RootSectors
  PROVE  /\ Slot0(s) \in Nat /\ Slot0(s + 1) \in Nat
         /\ 1 <= Slot0(s) /\ Slot0(s) <= Slot0(s + 1) /\ Slot0(1) = 1
         /\ \A i \in Nat : i \in SlotsOf(s) <=> Slot0(s) <= i /\ i < Slot0(s + 1)
         /\ SlotsOf(s) \subseteq Slots /\ Slots \subseteq Nat \ {0}
         /\ \A i \in Slots : i < Slot0(RootSectors + 1)
         /\ (s - 1) * PerRootSector = Slot0(s) - 1
         /\ Slot0(s + 1) = Slot0(s) + PerRootSector
<1>1. RootSectors \in Nat /\ PerRootSector \in Nat /\ s \in Nat /\ s - 1 \in Nat
  BY FilesAssumption
<1> DEFINE a == (s - 1) * PerRootSector
           b == s * PerRootSector
           e == RootSectors * PerRootSector
<1>2. a \in Nat /\ b \in Nat /\ a <= b /\ b = a + PerRootSector
  <2>1. a \in Nat /\ b \in Nat /\ a <= b
    BY <1>1, Times
  <2>2. b = a + PerRootSector
    BY <1>1
  <2>3. QED
    BY <2>1, <2>2
<1>3. e \in Nat /\ b <= e
  BY <1>1, Times
<1>4. /\ Slot0(s) = 1 + a /\ Slots = 1 .. e
      /\ Slot0(s + 1) = 1 + b /\ Slot0(RootSectors + 1) = 1 + e
  <2>1. (s + 1) - 1 = s /\ (RootSectors + 1) - 1 = RootSectors
    BY <1>1
  <2>2. QED
    BY <2>1 DEF Slot0, Slots
<1>5. Slot0(1) = 1
  BY <1>1 DEF Slot0
<1>6. SlotsOf(s) = a + 1 .. b
  BY DEF SlotsOf
<1> HIDE DEF a, b, e
<1>7. (s - 1) * PerRootSector = Slot0(s) - 1
  BY <1>2, <1>4 DEF a
<1>8. QED
  BY <1>1, <1>2, <1>3, <1>4, <1>5, <1>6, <1>7

LEMMA ConstantsAre ==
  /\ Table \subseteq Nat \ {0, 1} /\ FREE \notin Table /\ LAST \notin Table
  /\ LAST # FREE /\ 0 \notin Fds /\ Fds \subseteq Nat /\ VfsFds \subseteq Nat
  /\ Slots \subseteq Nat \ {0} /\ "end" \notin Names /\ "deleted" \notin Names
  /\ ~IsFile(End) /\ End \in Entered /\ 1 \in 1 .. FatSectors /\ 1 \in 1 .. RootSectors
  /\ PerRootSector \in Nat \ {0}
<1>1. /\ FatSectors \in Nat \ {0} /\ RootSectors \in Nat \ {0}
      /\ PerRootSector \in Nat \ {0} /\ {"end", "deleted"} \cap Names = {}
  BY FilesAssumption
<1>2. 1 \in 1 .. FatSectors /\ 1 \in 1 .. RootSectors
  BY <1>1
<1>3. TableEnd \in Nat
  BY <1>2, SectorIs
<1>4. /\ Table \subseteq Nat \ {0, 1} /\ FREE \notin Table /\ LAST \notin Table
      /\ LAST # FREE
  BY <1>3 DEF Table, FREE, LAST
<1>5. 0 \notin Fds /\ Fds \subseteq Nat /\ VfsFds \subseteq Nat
  BY FilesAssumption DEF Fds, VfsFds
<1>6. Slots \subseteq Nat \ {0}
  BY <1>2, RootSectorIs
<1>7. ~IsFile(End) /\ End \in Entered
  BY <1>1 DEF IsFile, End, Entered, Entries
<1>8. QED
  BY <1>1, <1>2, <1>4, <1>5, <1>6, <1>7

-----------------------------------------------------------------------------
(* What the steps do to the locals of their own task and to those of the   *)
(* others.                                                                 *)

Same(u) ==
  /\ call'[u] = call[u] /\ pc'[u] = pc[u] /\ sector'[u] = sector[u]
  /\ name'[u] = name[u] /\ content'[u] = content[u] /\ cluster'[u] = cluster[u]
  /\ fd'[u] = fd[u] /\ slot'[u] = slot[u]

Idle(t) == call[t] = "none" /\ pc[t] = "idle" /\ cluster[t] = 0 /\ slot[t] = 0

LEMMA OthersInPlace ==
  ASSUME NEW t \in Tasks, \A u \in Tasks : InPlace(u), \A u \in Tasks \ {t} : Same(u),
         InPlace(t)'
  PROVE  \A u \in Tasks : InPlace(u)'
<1>1. ASSUME NEW u \in Tasks, u # t PROVE InPlace(u)'
  BY <1>1 DEF Same, InPlace
<1>2. QED
  BY <1>1

LEMMA ReturnIs ==
  ASSUME LocalsTypeOK, NEW t \in Tasks, Return(t)
  PROVE  LocalsTypeOK' /\ Idle(t)' /\ InPlace(t)' /\ \A u \in Tasks \ {t} : Same(u)
<1>1. LocalsTypeOK'
  BY DEF LocalsTypeOK, Return
<1>2. Idle(t)'
  BY DEF LocalsTypeOK, Return, Idle
<1>3. \A u \in Tasks \ {t} : Same(u)
  BY DEF LocalsTypeOK, Return, Same
<1>4. InPlace(t)'
  BY <1>2 DEF Idle, InPlace, CreatePlaces
<1>5. QED
  BY <1>1, <1>2, <1>3, <1>4

LEMMA GotoIs ==
  ASSUME LocalsTypeOK, NEW t \in Tasks, NEW where \in CreatePlaces \union ReadPlaces,
         Goto(t, where),
         NEW k \in Table \union {0}, cluster' = [cluster EXCEPT ![t] = k],
         NEW s \in Slots \union {0}, slot' = [slot EXCEPT ![t] = s]
  PROVE  /\ LocalsTypeOK' /\ \A u \in Tasks \ {t} : Same(u)
         /\ call'[t] = call[t] /\ pc'[t] = where /\ sector'[t] = 1 /\ name'[t] = name[t]
         /\ content'[t] = content[t] /\ cluster'[t] = k /\ fd'[t] = fd[t] /\ slot'[t] = s
<1>1. LocalsTypeOK'
  BY DEF LocalsTypeOK, Goto
<1>2. \A u \in Tasks \ {t} : Same(u)
  BY DEF LocalsTypeOK, Goto, Same
<1>3. /\ call'[t] = call[t] /\ pc'[t] = where /\ sector'[t] = 1 /\ name'[t] = name[t]
      /\ content'[t] = content[t] /\ cluster'[t] = k /\ fd'[t] = fd[t] /\ slot'[t] = s
  BY DEF LocalsTypeOK, Goto
<1>4. QED
  BY <1>1, <1>2, <1>3

LEMMA GotoStays ==
  ASSUME LocalsTypeOK, NEW t \in Tasks, NEW where \in CreatePlaces \union ReadPlaces,
         Goto(t, where), UNCHANGED <<cluster, slot>>
  PROVE  /\ LocalsTypeOK' /\ \A u \in Tasks \ {t} : Same(u)
         /\ call'[t] = call[t] /\ pc'[t] = where /\ sector'[t] = 1 /\ name'[t] = name[t]
         /\ content'[t] = content[t] /\ cluster'[t] = cluster[t] /\ fd'[t] = fd[t]
         /\ slot'[t] = slot[t]
<1>1. LocalsTypeOK'
  BY DEF LocalsTypeOK, Goto
<1>2. \A u \in Tasks \ {t} : Same(u)
  BY DEF LocalsTypeOK, Goto, Same
<1>3. /\ call'[t] = call[t] /\ pc'[t] = where /\ sector'[t] = 1 /\ name'[t] = name[t]
      /\ content'[t] = content[t] /\ cluster'[t] = cluster[t] /\ fd'[t] = fd[t]
      /\ slot'[t] = slot[t]
  BY DEF LocalsTypeOK, Goto
<1>4. QED
  BY <1>1, <1>2, <1>3

LEMMA NextSectorIs ==
  ASSUME LocalsTypeOK, NEW t \in Tasks, NextSector(t), UNCHANGED <<cluster, slot>>
  PROVE  /\ LocalsTypeOK' /\ \A u \in Tasks \ {t} : Same(u)
         /\ call'[t] = call[t] /\ pc'[t] = pc[t] /\ sector'[t] = sector[t] + 1
         /\ name'[t] = name[t] /\ content'[t] = content[t] /\ cluster'[t] = cluster[t]
         /\ fd'[t] = fd[t] /\ slot'[t] = slot[t]
<1>1. LocalsTypeOK'
  BY DEF LocalsTypeOK, NextSector
<1>2. \A u \in Tasks \ {t} : Same(u)
  BY DEF LocalsTypeOK, NextSector, Same
<1>3. /\ call'[t] = call[t] /\ pc'[t] = pc[t] /\ sector'[t] = sector[t] + 1
      /\ name'[t] = name[t] /\ content'[t] = content[t] /\ cluster'[t] = cluster[t]
      /\ fd'[t] = fd[t] /\ slot'[t] = slot[t]
  BY DEF LocalsTypeOK, NextSector
<1>4. QED
  BY <1>1, <1>2, <1>3

LEMMA BeginIs ==
  ASSUME LocalsTypeOK, NEW t \in Tasks, NEW what \in {"create", "load"} \union Opening,
         NEW where \in CreatePlaces \union ReadPlaces, NEW n \in Names,
         NEW c \in Contents \union {Nothing}, Begin(t, what, where, n, c)
  PROVE  /\ LocalsTypeOK' /\ \A u \in Tasks \ {t} : Same(u)
         /\ call[t] = "none"
         /\ call'[t] = what /\ pc'[t] = where /\ sector'[t] = 1 /\ name'[t] = n
         /\ content'[t] = c /\ cluster'[t] = cluster[t] /\ fd'[t] = fd[t]
         /\ slot'[t] = slot[t]
<1>1. LocalsTypeOK'
  BY DEF LocalsTypeOK, Begin
<1>2. \A u \in Tasks \ {t} : Same(u)
  BY DEF LocalsTypeOK, Begin, Same
<1>3. /\ call'[t] = what /\ pc'[t] = where /\ sector'[t] = 1 /\ name'[t] = n
      /\ content'[t] = c /\ cluster'[t] = cluster[t] /\ fd'[t] = fd[t]
      /\ slot'[t] = slot[t] /\ call[t] = "none"
  BY DEF LocalsTypeOK, Begin
<1>4. QED
  BY <1>1, <1>2, <1>3

-----------------------------------------------------------------------------
(* The types, the places and the tables of descriptors.                    *)

LEMMA BaseBegin ==
  ASSUME Base, NEW t \in Tasks, NEW what \in {"create", "load"} \union Opening,
         NEW where \in {"table", "cache", "search"}, NEW n \in Names,
         NEW c \in Contents \union {Nothing}, Begin(t, what, where, n, c),
         what = "create" <=> where = "table", what = "create" => c \in Contents
  PROVE  Base'
<1>1. LocalsTypeOK /\ InPlace(t) /\ \A u \in Tasks : InPlace(u)
  BY DEF Base
<1>2. where \in CreatePlaces \union ReadPlaces
  BY DEF CreatePlaces, ReadPlaces
<1>3. /\ LocalsTypeOK' /\ \A u \in Tasks \ {t} : Same(u)
      /\ call[t] = "none"
      /\ call'[t] = what /\ pc'[t] = where /\ sector'[t] = 1 /\ name'[t] = n
      /\ content'[t] = c /\ cluster'[t] = cluster[t] /\ fd'[t] = fd[t]
      /\ slot'[t] = slot[t]
  BY <1>1, <1>2, BeginIs
<1>4. InPlace(t)'
  BY <1>1, <1>3, ConstantsAre
     DEF InPlace, CreatePlaces, ReadPlaces, Opening, Commands
<1>5. DiskTypeOK' /\ MemoryTypeOK' /\ Descriptors'
  BY DEF Base, Begin, DiskTypeOK, MemoryTypeOK, Descriptors, disk, buffers, cache, fds, made
<1>6. QED
  BY <1>1, <1>3, <1>4, <1>5, OthersInPlace DEF Base

LEMMA BaseReadTable ==
  ASSUME Base, NEW t \in Tasks, ReadTable(t)
  PROVE  Base'
<1> DEFINE table == TableRead(sector[t])
           free == {k \in Table : table[k] = FREE}
<1>1. LocalsTypeOK /\ InPlace(t) /\ pc[t] = "table" /\ \A u \in Tasks : InPlace(u)
  BY DEF Base, ReadTable, At
<1>2. table \in [Table -> Values]
  BY DEF TableRead, Base, DiskTypeOK, MemoryTypeOK
<1>3. /\ fat_table' = table
      /\ UNCHANGED <<root_buf, root, data, cache, fds, loaded, made, failures>>
      /\ \/ sector[t] < FatSectors /\ NextSector(t) /\ UNCHANGED <<cluster, slot, fat>>
         \/ sector[t] = FatSectors /\ free # {} /\ Take(t, table, Least(free))
         \/ Return(t) /\ UNCHANGED fat
  BY DEF ReadTable
<1>4. free \subseteq Table /\ free \subseteq Nat
  BY ConstantsAre
<1> HIDE DEF table, free
<1>5. fat' = fat
  BY <1>3 DEF Take
<1>6. DiskTypeOK' /\ MemoryTypeOK' /\ Descriptors'
  BY <1>2, <1>3, <1>5
     DEF Base, DiskTypeOK, MemoryTypeOK, Descriptors, cache, fds, made
<1>7. LocalsTypeOK' /\ InPlace(t)' /\ \A u \in Tasks \ {t} : Same(u)
  <2>1. CASE sector[t] < FatSectors /\ NextSector(t) /\ UNCHANGED <<cluster, slot>>
    <3>1. /\ LocalsTypeOK' /\ \A u \in Tasks \ {t} : Same(u)
          /\ call'[t] = call[t] /\ pc'[t] = pc[t] /\ sector'[t] = sector[t] + 1
          /\ name'[t] = name[t] /\ content'[t] = content[t] /\ cluster'[t] = cluster[t]
          /\ fd'[t] = fd[t] /\ slot'[t] = slot[t]
      BY <1>1, <2>1, NextSectorIs
    <3>2. sector'[t] \in 1 .. FatSectors
      BY <1>1, <2>1, <3>1, FilesAssumption DEF InPlace
    <3>3. InPlace(t)'
      BY <1>1, <3>1, <3>2 DEF InPlace
    <3>4. QED
      BY <3>1, <3>3
  <2>2. CASE free # {} /\ Take(t, table, Least(free))
    <3>1. Least(free) \in Table
      BY <1>4, <2>2, LeastIs
    <3>2. /\ Goto(t, "entry") /\ cluster' = [cluster EXCEPT ![t] = Least(free)]
          /\ slot' = [slot EXCEPT ![t] = 0] /\ slot[t] = 0
          /\ "entry" \in CreatePlaces \union ReadPlaces
      BY <1>1, <2>2 DEF Take, InPlace, CreatePlaces, LocalsTypeOK
    <3>3. /\ LocalsTypeOK' /\ \A u \in Tasks \ {t} : Same(u)
          /\ call'[t] = call[t] /\ pc'[t] = "entry" /\ sector'[t] = 1 /\ name'[t] = name[t]
          /\ content'[t] = content[t] /\ cluster'[t] = Least(free) /\ slot'[t] = 0
      BY <1>1, <3>1, <3>2, GotoIs
    <3>4. InPlace(t)'
      BY <1>1, <3>1, <3>3, ConstantsAre DEF InPlace, CreatePlaces, ReadPlaces
    <3>5. QED
      BY <3>3, <3>4
  <2>3. CASE Return(t)
    BY <1>1, <2>3, ReturnIs
  <2>4. QED
    BY <1>3, <2>1, <2>2, <2>3
<1>8. QED
  BY <1>1, <1>6, <1>7, OthersInPlace DEF Base

(* A sector of the root has room for what it holds.                        *)
LEMMA SectorOfRoot ==
  ASSUME NEW s \in 1 .. RootSectors, NEW i \in 1 .. PerRootSector
  PROVE  (s - 1) * PerRootSector + i \in SlotsOf(s) /\ SlotsOf(s) \subseteq Slots
<1> DEFINE a == (s - 1) * PerRootSector
<1>1. a = Slot0(s) - 1 /\ Slot0(s) \in Nat /\ Slot0(s) >= 1 /\ SlotsOf(s) \subseteq Slots
      /\ Slot0(s + 1) = Slot0(s) + PerRootSector
      /\ \A k \in Nat : k \in SlotsOf(s) <=> Slot0(s) <= k /\ k < Slot0(s + 1)
  BY RootSectorIs
<1>2. PerRootSector \in Nat
  BY ConstantsAre
<1> HIDE DEF a
<1>3. a + i \in Nat /\ Slot0(s) <= a + i /\ a + i < Slot0(s + 1)
  BY <1>1, <1>2
<1>4. a + i \in SlotsOf(s) /\ SlotsOf(s) \subseteq Slots
  BY <1>1, <1>3
<1>5. QED
  BY <1>4 DEF a

LEMMA PlaceInSector ==
  ASSUME NEW s \in 1 .. RootSectors, NEW i \in SlotsOf(s)
  PROVE  i - (s - 1) * PerRootSector \in 1 .. PerRootSector
<1> DEFINE a == (s - 1) * PerRootSector
<1>1. a = Slot0(s) - 1 /\ Slot0(s) \in Nat /\ Slot0(s + 1) = Slot0(s) + PerRootSector
      /\ SlotsOf(s) \subseteq Slots /\ Slots \subseteq Nat
      /\ \A k \in Nat : k \in SlotsOf(s) <=> Slot0(s) <= k /\ k < Slot0(s + 1)
  BY RootSectorIs
<1>2. PerRootSector \in Nat /\ i \in Nat
  BY <1>1, ConstantsAre
<1>3. Slot0(s) <= i /\ i < Slot0(s + 1)
  BY <1>1, <1>2
<1> HIDE DEF a
<1>4. i - a \in 1 .. PerRootSector
  BY <1>1, <1>2, <1>3
<1>5. QED
  BY <1>4 DEF a

LEMMA BaseReadRoot ==
  ASSUME Base, NEW t \in Tasks, ReadRoot(t)
  PROVE  Base'
<1> DEFINE before == (sector[t] - 1) * PerRootSector
           buf == [i \in 1 .. PerRootSector |-> root[before + i]]
           i == Least(Vacant(buf))
           new == [name |-> name[t], cluster |-> cluster[t]]
<1>1. LocalsTypeOK /\ InPlace(t) /\ pc[t] = "entry" /\ \A u \in Tasks : InPlace(u)
      /\ call[t] = "create"
  BY DEF Base, ReadRoot, At
<1>2. sector[t] \in 1 .. RootSectors /\ cluster[t] \in Table /\ name[t] \in Names
  BY <1>1 DEF InPlace
<1>3. buf \in [1 .. PerRootSector -> Entered]
  BY <1>2, SectorOfRoot DEF Base, DiskTypeOK
<1>4. new \in Entered
  BY <1>2 DEF Entered, Entries
<1>5. /\ \/ /\ Vacant(buf) # {}
            /\ root_buf' = [buf EXCEPT ![i] = new]
            /\ slot' = [slot EXCEPT ![t] = before + i]
            /\ pc' = [pc EXCEPT ![t] = "put"]
            /\ UNCHANGED <<call, sector, name, content, fd, fat_table>>
         \/ /\ sector[t] < RootSectors /\ root_buf' = buf
            /\ NextSector(t) /\ UNCHANGED <<fat_table, slot>>
         \/ /\ root_buf' = buf /\ fat_table' = Marked(t)
            /\ Goto(t, "mark") /\ UNCHANGED slot
      /\ UNCHANGED <<disk, cache, fds, cluster, loaded, made, failures, spoiled>>
  BY DEF ReadRoot
<1>6. Vacant(buf) \subseteq 1 .. PerRootSector
  BY DEF Vacant
<1> HIDE DEF buf, new
<1>7. Vacant(buf) # {} => i \in 1 .. PerRootSector
  BY <1>6, LeastIs
<1> HIDE DEF i
<1>8. root_buf' \in [1 .. PerRootSector -> Entered]
  BY <1>3, <1>4, <1>5, <1>7
<1>9. fat_table' \in [Table -> Values]
  BY <1>2, <1>5 DEF Marked, Base, MemoryTypeOK, Values
<1>10. DiskTypeOK' /\ MemoryTypeOK' /\ Descriptors'
  BY <1>5, <1>8, <1>9
     DEF Base, DiskTypeOK, MemoryTypeOK, Descriptors, disk, cache, fds, made
<1>11. LocalsTypeOK' /\ InPlace(t)' /\ \A u \in Tasks \ {t} : Same(u)
  <2>1. CASE /\ Vacant(buf) # {} /\ slot' = [slot EXCEPT ![t] = before + i]
             /\ pc' = [pc EXCEPT ![t] = "put"]
             /\ UNCHANGED <<call, sector, name, content, fd, cluster>>
    <3>1. before + i \in SlotsOf(sector[t]) /\ SlotsOf(sector[t]) \subseteq Slots
      BY <1>2, <1>7, <2>1, SectorOfRoot
    <3> HIDE DEF before
    <3>2. LocalsTypeOK' /\ slot'[t] = before + i /\ pc'[t] = "put"
      BY <1>1, <2>1, <3>1 DEF LocalsTypeOK, CreatePlaces
    <3>3. \A u \in Tasks \ {t} : Same(u)
      BY <1>1, <2>1 DEF LocalsTypeOK, Same
    <3>4. InPlace(t)'
      BY <1>1, <2>1, <3>1, <3>2 DEF InPlace, CreatePlaces
    <3>5. QED
      BY <3>2, <3>3, <3>4
  <2>2. CASE sector[t] < RootSectors /\ NextSector(t) /\ UNCHANGED <<cluster, slot>>
    <3>1. /\ LocalsTypeOK' /\ \A u \in Tasks \ {t} : Same(u)
          /\ call'[t] = call[t] /\ pc'[t] = pc[t] /\ sector'[t] = sector[t] + 1
          /\ name'[t] = name[t] /\ content'[t] = content[t] /\ cluster'[t] = cluster[t]
          /\ fd'[t] = fd[t] /\ slot'[t] = slot[t]
      BY <1>1, <2>2, NextSectorIs
    <3>2. sector'[t] \in 1 .. RootSectors
      BY <1>2, <2>2, <3>1, FilesAssumption
    <3>3. InPlace(t)'
      BY <1>1, <3>1, <3>2 DEF InPlace
    <3>4. QED
      BY <3>1, <3>3
  <2>3. CASE Goto(t, "mark") /\ UNCHANGED <<cluster, slot>>
    <3>1. "mark" \in CreatePlaces \union ReadPlaces /\ slot[t] = 0
      BY <1>1 DEF InPlace, CreatePlaces
    <3>2. /\ LocalsTypeOK' /\ \A u \in Tasks \ {t} : Same(u)
          /\ call'[t] = call[t] /\ pc'[t] = "mark" /\ sector'[t] = 1 /\ name'[t] = name[t]
          /\ content'[t] = content[t] /\ cluster'[t] = cluster[t] /\ slot'[t] = 0
      BY <1>1, <2>3, <3>1, GotoStays
    <3>3. InPlace(t)'
      BY <1>1, <3>2, ConstantsAre DEF InPlace, CreatePlaces, ReadPlaces
    <3>4. QED
      BY <3>2, <3>3
  <2>4. QED
    BY <1>5, <2>1, <2>2, <2>3
<1>12. QED
  BY <1>1, <1>10, <1>11, OthersInPlace DEF Base

LEMMA BasePutEntry ==
  ASSUME Base, NEW t \in Tasks, PutEntry(t)
  PROVE  Base'
<1>1. LocalsTypeOK /\ InPlace(t) /\ pc[t] = "put" /\ \A u \in Tasks : InPlace(u)
      /\ call[t] = "create"
  BY DEF Base, PutEntry, At
<1>2. /\ sector[t] \in 1 .. RootSectors /\ cluster[t] \in Table /\ name[t] \in Names
      /\ slot[t] \in SlotsOf(sector[t]) /\ content[t] \in Contents
  BY <1>1 DEF InPlace
<1>3. slot[t] \in Slots
  BY <1>2, RootSectorIs
<1>4. root' \in [Slots -> Entered]
  <2>1. \A s \in SlotsOf(sector[t]) :
          root_buf[s - (sector[t] - 1) * PerRootSector] \in Entered
    BY <1>2, PlaceInSector DEF Base, MemoryTypeOK
  <2>2. QED
    BY <2>1 DEF PutEntry, Base, DiskTypeOK
<1>5. /\ chain' \in [Slots -> Seq(Table)] /\ whole' \in [Slots -> Seq(Contents)]
  <2>1. <<cluster[t]>> \in Seq(Table) /\ <<content[t]>> \in Seq(Contents)
    BY <1>2
  <2>2. QED
    BY <1>3, <2>1 DEF PutEntry, Base, DiskTypeOK
<1>6. fat_table' \in [Table -> Values]
  BY <1>2 DEF PutEntry, Marked, Base, MemoryTypeOK, Values
<1>7. DiskTypeOK' /\ MemoryTypeOK' /\ Descriptors'
  BY <1>4, <1>5, <1>6
     DEF PutEntry, Base, DiskTypeOK, MemoryTypeOK, Descriptors, cache, fds
<1>8. LocalsTypeOK' /\ InPlace(t)' /\ \A u \in Tasks \ {t} : Same(u)
  <2>1. Goto(t, "mark") /\ UNCHANGED <<cluster, slot>>
        /\ "mark" \in CreatePlaces \union ReadPlaces
    BY DEF PutEntry, CreatePlaces
  <2>2. /\ LocalsTypeOK' /\ \A u \in Tasks \ {t} : Same(u)
        /\ call'[t] = call[t] /\ pc'[t] = "mark" /\ sector'[t] = 1 /\ name'[t] = name[t]
        /\ content'[t] = content[t] /\ cluster'[t] = cluster[t] /\ slot'[t] = slot[t]
    BY <1>1, <2>1, GotoStays
  <2>3. InPlace(t)'
    BY <1>1, <2>2, ConstantsAre DEF InPlace, CreatePlaces, ReadPlaces
  <2>4. QED
    BY <2>2, <2>3
<1>9. QED
  BY <1>1, <1>7, <1>8, OthersInPlace DEF Base

LEMMA BaseWriteTable ==
  ASSUME Base, NEW t \in Tasks, WriteTable(t)
  PROVE  Base'
<1>1. LocalsTypeOK /\ InPlace(t) /\ pc[t] = "mark" /\ \A u \in Tasks : InPlace(u)
  BY DEF Base, WriteTable, At
<1>2. sector[t] \in 1 .. FatSectors
  BY <1>1 DEF InPlace
<1>3. DiskTypeOK' /\ MemoryTypeOK' /\ Descriptors'
  BY DEF WriteTable, Base, DiskTypeOK, MemoryTypeOK, Descriptors, buffers, cache, fds, made
<1>4. LocalsTypeOK' /\ InPlace(t)' /\ \A u \in Tasks \ {t} : Same(u)
  <2>1. CASE sector[t] < FatSectors
    <3>1. NextSector(t) /\ UNCHANGED <<cluster, slot>>
      BY <2>1 DEF WriteTable
    <3>2. /\ LocalsTypeOK' /\ \A u \in Tasks \ {t} : Same(u)
          /\ call'[t] = call[t] /\ pc'[t] = pc[t] /\ sector'[t] = sector[t] + 1
          /\ name'[t] = name[t] /\ content'[t] = content[t] /\ cluster'[t] = cluster[t]
          /\ fd'[t] = fd[t] /\ slot'[t] = slot[t]
      BY <1>1, <3>1, NextSectorIs
    <3>3. sector'[t] \in 1 .. FatSectors
      BY <1>2, <2>1, <3>2, FilesAssumption
    <3>4. InPlace(t)'
      BY <1>1, <3>2, <3>3 DEF InPlace
    <3>5. QED
      BY <3>2, <3>4
  <2>2. CASE ~(sector[t] < FatSectors)
    <3>1. /\ Goto(t, "fill") /\ UNCHANGED <<cluster, slot>>
          /\ "fill" \in CreatePlaces \union ReadPlaces
      BY <2>2 DEF WriteTable, CreatePlaces
    <3>2. /\ LocalsTypeOK' /\ \A u \in Tasks \ {t} : Same(u)
          /\ call'[t] = call[t] /\ pc'[t] = "fill" /\ sector'[t] = 1 /\ name'[t] = name[t]
          /\ content'[t] = content[t] /\ cluster'[t] = cluster[t] /\ slot'[t] = slot[t]
      BY <1>1, <3>1, GotoStays
    <3>3. InPlace(t)'
      BY <1>1, <3>2, ConstantsAre DEF InPlace, CreatePlaces, ReadPlaces
    <3>4. QED
      BY <3>2, <3>3
  <2>3. QED
    BY <2>1, <2>2
<1>5. QED
  BY <1>1, <1>3, <1>4, OthersInPlace DEF Base

LEMMA BaseWriteData ==
  ASSUME Base, NEW t \in Tasks, WriteData(t)
  PROVE  Base'
<1>1. LocalsTypeOK /\ InPlace(t) /\ pc[t] = "fill" /\ call[t] = "create"
      /\ \A u \in Tasks : InPlace(u)
  BY DEF Base, WriteData, At
<1>2. /\ cluster[t] \in Table /\ content[t] \in Contents /\ slot[t] \in Slots \union {0}
  BY <1>1 DEF InPlace, LocalsTypeOK
<1>3. data' \in [2 .. DiskEnd -> Contents \union {Nothing}]
  BY <1>2 DEF WriteData, Base, DiskTypeOK
<1>4. settled' \subseteq Slots /\ lost' \subseteq Table
  BY <1>2 DEF WriteData, Base, DiskTypeOK
<1>5. DiskTypeOK'
  BY <1>3, <1>4 DEF WriteData, Base, DiskTypeOK
<1>6. MemoryTypeOK' /\ Descriptors'
  BY DEF WriteData, Base, MemoryTypeOK, Descriptors, buffers, fds
<1>7. Return(t)
  BY DEF WriteData
<1>8. QED
  BY <1>1, <1>5, <1>6, <1>7, ReturnIs, OthersInPlace DEF Base

LEMMA BaseReadCache ==
  ASSUME Base, NEW t \in Tasks, ReadCache(t)
  PROVE  Base'
<1>1. LocalsTypeOK /\ InPlace(t) /\ pc[t] = "cache" /\ \A u \in Tasks : InPlace(u)
  BY DEF Base, ReadCache
<1>2. sector[t] \in 1 .. FatSectors
  BY <1>1 DEF InPlace
<1>3. DiskTypeOK' /\ MemoryTypeOK' /\ Descriptors'
  BY DEF ReadCache, Base, DiskTypeOK, MemoryTypeOK, Descriptors, disk, buffers, fds, made
<1>4. LocalsTypeOK' /\ InPlace(t)' /\ \A u \in Tasks \ {t} : Same(u)
  <2>1. CASE sector[t] < FatSectors
    <3>1. NextSector(t) /\ UNCHANGED <<cluster, slot>>
      BY <2>1 DEF ReadCache
    <3>2. /\ LocalsTypeOK' /\ \A u \in Tasks \ {t} : Same(u)
          /\ call'[t] = call[t] /\ pc'[t] = pc[t] /\ sector'[t] = sector[t] + 1
          /\ name'[t] = name[t] /\ content'[t] = content[t] /\ cluster'[t] = cluster[t]
          /\ fd'[t] = fd[t] /\ slot'[t] = slot[t]
      BY <1>1, <3>1, NextSectorIs
    <3>3. sector'[t] \in 1 .. FatSectors
      BY <1>2, <2>1, <3>2, FilesAssumption
    <3>4. InPlace(t)'
      BY <1>1, <3>2, <3>3 DEF InPlace
    <3>5. QED
      BY <3>2, <3>4
  <2>2. CASE ~(sector[t] < FatSectors)
    <3>1. /\ Goto(t, "search") /\ UNCHANGED <<cluster, slot>>
          /\ "search" \in CreatePlaces \union ReadPlaces
      BY <2>2 DEF ReadCache, ReadPlaces
    <3>2. /\ LocalsTypeOK' /\ \A u \in Tasks \ {t} : Same(u)
          /\ call'[t] = call[t] /\ pc'[t] = "search" /\ sector'[t] = 1 /\ name'[t] = name[t]
          /\ content'[t] = content[t] /\ cluster'[t] = cluster[t] /\ slot'[t] = slot[t]
      BY <1>1, <3>1, GotoStays
    <3>3. InPlace(t)'
      BY <1>1, <3>2, ConstantsAre DEF InPlace, CreatePlaces, ReadPlaces
    <3>4. QED
      BY <3>2, <3>3
  <2>3. QED
    BY <2>1, <2>2
<1>5. QED
  BY <1>1, <1>3, <1>4, OthersInPlace DEF Base

(* The entry where a search ends is a file's of that name.                 *)
LEMMA FoundIs ==
  ASSUME Base, NEW t \in Tasks, pc[t] = "search", Stops(sector[t], name[t]) # {},
         root[Least(Stops(sector[t], name[t]))].name # "end"
  PROVE  LET s == Least(Stops(sector[t], name[t]))
         IN  /\ s \in SlotsOf(sector[t]) /\ s \in Slots /\ IsFile(root[s])
             /\ root[s].cluster \in Table /\ root[s].name = name[t]
             /\ sector[t] \in 1 .. RootSectors
<1> DEFINE stops == Stops(sector[t], name[t])
<1>1. sector[t] \in 1 .. RootSectors /\ name[t] \in Names
  BY DEF Base, InPlace
<1>2. SlotsOf(sector[t]) \subseteq Slots /\ Slots \subseteq Nat
  BY <1>1, RootSectorIs
<1>3. stops \subseteq SlotsOf(sector[t]) /\ stops # {}
      /\ \A i \in stops : root[i].name \in {name[t], "end"}
  BY DEF Stops
<1> HIDE DEF stops
<1>4. Least(stops) \in stops
  BY <1>2, <1>3, LeastIs
<1>5. root[Least(stops)].name = name[t]
  BY <1>3, <1>4 DEF stops
<1>6. Least(stops) \in Slots /\ IsFile(root[Least(stops)])
  BY <1>1, <1>2, <1>3, <1>4, <1>5 DEF IsFile
<1>7. root[Least(stops)].cluster \in Table
  BY <1>6 DEF Base, DiskTypeOK, Entered
<1>8. QED
  BY <1>1, <1>3, <1>4, <1>5, <1>6, <1>7 DEF stops

LEMMA DescribeIs ==
  ASSUME Base, NEW t \in Tasks, NEW s \in Slots, root[s].cluster \in Table,
         Describe(t, s)
  PROVE  /\ Descriptors'
         /\ fd_cluster' \in [Fds -> Table \union {0}]
         /\ vfs_fd' \in [VfsFds -> Fds \union {0}]
         /\ fd_slot' \in [Fds -> Slots \union {0}] /\ robbed' \subseteq Tasks
         /\ FreeVfsFds # {} => Least(FreeVfsFds) \in VfsFds /\ vfs_fd[Least(FreeVfsFds)] = 0
         /\ FreeFds # {} => Least(FreeFds) \in Fds /\ fd_cluster[Least(FreeFds)] = 0
<1> DEFINE f == Least(FreeFds)
           v == Least(FreeVfsFds)
<1>1. FreeFds # {} => f \in Fds /\ fd_cluster[f] = 0
  <2>1. FreeFds \subseteq Nat /\ FreeFds \subseteq Fds
    BY ConstantsAre DEF FreeFds
  <2>2. FreeFds # {} => f \in FreeFds
    BY <2>1, LeastIs
  <2>3. QED
    BY <2>2 DEF FreeFds
<1>2. FreeVfsFds # {} => v \in VfsFds /\ vfs_fd[v] = 0
  <2>1. FreeVfsFds \subseteq Nat /\ FreeVfsFds \subseteq VfsFds
    BY ConstantsAre DEF FreeVfsFds
  <2>2. FreeVfsFds # {} => v \in FreeVfsFds
    BY <2>1, LeastIs
  <2>3. QED
    BY <2>2 DEF FreeVfsFds
<1>3. \/ /\ FreeFds # {} /\ FreeVfsFds # {}
         /\ fd_cluster' = [fd_cluster EXCEPT ![f] = root[s].cluster]
         /\ fd_slot' = [fd_slot EXCEPT ![f] = s]
         /\ vfs_fd' = [vfs_fd EXCEPT ![v] = f] /\ robbed' = robbed \ {t}
      \/ UNCHANGED <<fd_cluster, vfs_fd, fd_slot, robbed>>
  BY DEF Describe, fds
<1>4. /\ fd_cluster \in [Fds -> Table \union {0}] /\ vfs_fd \in [VfsFds -> Fds \union {0}]
      /\ fd_slot \in [Fds -> Slots \union {0}] /\ robbed \subseteq Tasks /\ Descriptors
      /\ 0 \notin Fds /\ 0 \notin Table
  BY ConstantsAre DEF Base, MemoryTypeOK
<1> HIDE DEF f, v
<1>5. /\ fd_cluster' \in [Fds -> Table \union {0}] /\ vfs_fd' \in [VfsFds -> Fds \union {0}]
      /\ fd_slot' \in [Fds -> Slots \union {0}] /\ robbed' \subseteq Tasks
  BY <1>1, <1>2, <1>3, <1>4
<1>6. Descriptors'
  <2>1. CASE UNCHANGED <<fd_cluster, vfs_fd, fd_slot>>
    BY <1>4, <2>1 DEF Descriptors
  <2>2. CASE /\ f \in Fds /\ fd_cluster[f] = 0 /\ v \in VfsFds /\ vfs_fd[v] = 0
             /\ fd_cluster' = [fd_cluster EXCEPT ![f] = root[s].cluster]
             /\ vfs_fd' = [vfs_fd EXCEPT ![v] = f]
    <3>1. \A w \in VfsFds : vfs_fd[w] # f
      BY <1>4, <2>2 DEF Descriptors
    <3>2. \A g \in Fds : fd_cluster'[g] # 0 <=> \E w \in VfsFds : vfs_fd'[w] = g
      BY <1>4, <2>2, <3>1 DEF Descriptors
    <3>3. \A w, x \in VfsFds : vfs_fd'[w] = vfs_fd'[x] /\ vfs_fd'[w] # 0 => w = x
      BY <1>4, <2>2, <3>1 DEF Descriptors
    <3>4. QED
      BY <3>2, <3>3 DEF Descriptors
  <2>3. QED
    BY <1>1, <1>2, <1>3, <2>1, <2>2
<1>7. QED
  BY <1>1, <1>2, <1>5, <1>6 DEF f, v

LEMMA BaseSearch ==
  ASSUME Base, NEW t \in Tasks, Search(t)
  PROVE  Base'
<1> DEFINE stops == Stops(sector[t], name[t])
           s == Least(stops)
           found == stops # {} /\ root[s].name # "end"
           v == Least(FreeVfsFds)
<1>1. LocalsTypeOK /\ InPlace(t) /\ pc[t] = "search" /\ \A u \in Tasks : InPlace(u)
  BY DEF Base, Search
<1>2. sector[t] \in 1 .. RootSectors /\ cluster[t] = 0 /\ slot[t] = 0
  BY <1>1 DEF InPlace
<1>3. found => s \in Slots /\ IsFile(root[s]) /\ root[s].cluster \in Table
  BY <1>1, FoundIs
<1>4. /\ \/ sector[t] < RootSectors /\ NextSector(t) /\ UNCHANGED <<cluster, slot, fds>>
         \/ Return(t) /\ UNCHANGED fds
         \/ found /\ Describe(t, s) /\ Return(t)
         \/ /\ found /\ call[t] \in Opening /\ Describe(t, s) /\ call[t] # "open"
            /\ FreeFds # {} /\ FreeVfsFds # {}
            /\ fd' = [fd EXCEPT ![t] = v]
            /\ slot' = [slot EXCEPT ![t] = s]
            /\ pc' = [pc EXCEPT ![t] = "read"]
            /\ UNCHANGED <<call, sector, name, content, cluster>>
         \/ /\ found /\ call[t] = "load"
            /\ cluster' = [cluster EXCEPT ![t] = root[s].cluster]
            /\ slot' = [slot EXCEPT ![t] = s]
            /\ Goto(t, "chain")
            /\ UNCHANGED fds
      /\ UNCHANGED <<disk, buffers, cache, loaded, made, failures, spoiled>>
  BY DEF Search
<1> HIDE DEF stops, s, found, v
<1>5. DiskTypeOK'
  BY <1>4 DEF Base, DiskTypeOK, disk, made
<1>6. MemoryTypeOK' /\ Descriptors'
  <2>1. CASE UNCHANGED fds
    BY <1>4, <2>1 DEF Base, MemoryTypeOK, Descriptors, fds, buffers, cache
  <2>2. CASE found /\ Describe(t, s)
    <3>1. /\ Descriptors'
          /\ fd_cluster' \in [Fds -> Table \union {0}]
          /\ vfs_fd' \in [VfsFds -> Fds \union {0}]
          /\ fd_slot' \in [Fds -> Slots \union {0}] /\ robbed' \subseteq Tasks
      BY <1>3, <2>2, DescribeIs
    <3>2. QED
      BY <1>4, <3>1 DEF Base, MemoryTypeOK, buffers, cache
  <2>3. QED
    BY <1>4, <2>1, <2>2
<1>7. LocalsTypeOK' /\ InPlace(t)' /\ \A u \in Tasks \ {t} : Same(u)
  <2>1. CASE sector[t] < RootSectors /\ NextSector(t) /\ UNCHANGED <<cluster, slot, fds>>
    <3>1. /\ LocalsTypeOK' /\ \A u \in Tasks \ {t} : Same(u)
          /\ call'[t] = call[t] /\ pc'[t] = pc[t] /\ sector'[t] = sector[t] + 1
          /\ name'[t] = name[t] /\ content'[t] = content[t] /\ cluster'[t] = cluster[t]
          /\ fd'[t] = fd[t] /\ slot'[t] = slot[t]
      BY <1>1, <2>1, NextSectorIs
    <3>2. sector'[t] \in 1 .. RootSectors
      BY <1>2, <2>1, <3>1, FilesAssumption
    <3>3. InPlace(t)'
      BY <1>1, <3>1, <3>2 DEF InPlace
    <3>4. QED
      BY <3>1, <3>3
  <2>2. CASE Return(t)
    BY <1>1, <2>2, ReturnIs
  <2>3. CASE /\ found /\ call[t] \in Opening /\ Describe(t, s) /\ call[t] # "open"
             /\ FreeFds # {} /\ FreeVfsFds # {}
             /\ fd' = [fd EXCEPT ![t] = v]
             /\ slot' = [slot EXCEPT ![t] = s]
             /\ pc' = [pc EXCEPT ![t] = "read"]
             /\ UNCHANGED <<call, sector, name, content, cluster>>
    <3>1. v \in VfsFds /\ s \in Slots
      BY <1>3, <2>3, DescribeIs DEF v
    <3>2. /\ LocalsTypeOK' /\ fd'[t] = v /\ slot'[t] = s /\ pc'[t] = "read"
          /\ call' = call /\ name' = name /\ content' = content
      BY <1>1, <2>3, <3>1 DEF LocalsTypeOK, ReadPlaces
    <3>3. \A u \in Tasks \ {t} : Same(u)
      BY <1>1, <2>3 DEF LocalsTypeOK, Same
    <3>4. call[t] \in Commands
      BY <2>3 DEF Opening
    <3>5. InPlace(t)'
      BY <1>1, <3>1, <3>2, <3>4, ConstantsAre DEF InPlace, Commands, CreatePlaces
    <3>6. QED
      BY <3>2, <3>3, <3>5
  <2>4. CASE /\ found /\ call[t] = "load"
             /\ cluster' = [cluster EXCEPT ![t] = root[s].cluster]
             /\ slot' = [slot EXCEPT ![t] = s]
             /\ Goto(t, "chain")
    <3>1. "chain" \in CreatePlaces \union ReadPlaces
      BY DEF ReadPlaces
    <3>2. /\ LocalsTypeOK' /\ \A u \in Tasks \ {t} : Same(u)
          /\ call'[t] = call[t] /\ pc'[t] = "chain" /\ sector'[t] = 1 /\ name'[t] = name[t]
          /\ content'[t] = content[t] /\ cluster'[t] = root[s].cluster /\ slot'[t] = s
      BY <1>1, <1>3, <2>4, <3>1, GotoIs
    <3>3. InPlace(t)'
      BY <1>1, <1>3, <2>4, <3>2, ConstantsAre DEF InPlace, CreatePlaces, ReadPlaces
    <3>4. QED
      BY <3>2, <3>3
  <2>5. QED
    BY <1>4, <2>1, <2>2, <2>3, <2>4
<1>8. QED
  BY <1>1, <1>5, <1>6, <1>7, OthersInPlace DEF Base

LEMMA HoldsIs ==
  ASSUME Base, NEW k \in Table
  PROVE  Holds(k) \in Contents \union {Nothing}
<1>1. TableEnd \in Nat /\ DiskEnd \in Nat
  BY FilesAssumption, SectorIs, ConstantsAre
<1>2. CASE k <= DiskEnd
  BY <1>1, <1>2 DEF Holds, Base, DiskTypeOK, Table
<1>3. CASE ~(k <= DiskEnd)
  BY <1>3 DEF Holds
<1>4. QED
  BY <1>2, <1>3

LEMMA BaseReadCluster ==
  ASSUME Base, NEW t \in Tasks, ReadCluster(t)
  PROVE  Base'
<1> DEFINE following == cached_fat[cluster[t]]
<1>1. LocalsTypeOK /\ InPlace(t) /\ pc[t] = "chain" /\ \A u \in Tasks : InPlace(u)
  BY DEF Base, ReadCluster, At
<1>2. cluster[t] \in Table
  BY <1>1 DEF InPlace
<1>3. Holds(cluster[t]) \in Contents \union {Nothing, Key}
  BY <1>2, HoldsIs
<1>4. /\ loaded' = [loaded EXCEPT ![t] = Append(loaded[t], Holds(cluster[t]))]
      /\ \/ Return(t)
         \/ /\ following \notin {FREE, LAST}
            /\ cluster' = [cluster EXCEPT ![t] = following]
            /\ UNCHANGED <<call, pc, sector, name, content, fd, slot>>
      /\ UNCHANGED <<disk, buffers, cache, fds, made, failures, spoiled>>
  BY DEF ReadCluster
<1>5. following \in Values
  BY <1>2 DEF Base, MemoryTypeOK
<1> HIDE DEF following
<1>6. loaded' \in [Tasks -> Seq(Contents \union {Nothing, Key})]
  <2>1. loaded \in [Tasks -> Seq(Contents \union {Nothing, Key})]
    BY DEF Base, MemoryTypeOK
  <2>2. Append(loaded[t], Holds(cluster[t])) \in Seq(Contents \union {Nothing, Key})
    BY <1>3, <2>1
  <2>3. QED
    BY <1>4, <2>1, <2>2
<1>7. DiskTypeOK' /\ MemoryTypeOK' /\ Descriptors'
  BY <1>4, <1>6
     DEF Base, DiskTypeOK, MemoryTypeOK, Descriptors, disk, buffers, cache, fds, made
<1>8. LocalsTypeOK' /\ InPlace(t)' /\ \A u \in Tasks \ {t} : Same(u)
  <2>1. CASE Return(t)
    BY <1>1, <2>1, ReturnIs
  <2>2. CASE /\ following \notin {FREE, LAST}
             /\ cluster' = [cluster EXCEPT ![t] = following]
             /\ UNCHANGED <<call, pc, sector, name, content, fd, slot>>
    <3>1. following \in Table
      BY <1>5, <2>2 DEF Values
    <3>2. LocalsTypeOK' /\ cluster'[t] = following
      BY <1>1, <2>2, <3>1 DEF LocalsTypeOK
    <3>3. \A u \in Tasks \ {t} : Same(u)
      BY <1>1, <2>2 DEF LocalsTypeOK, Same
    <3>4. InPlace(t)'
      BY <1>1, <2>2, <3>1, <3>2 DEF InPlace
    <3>5. QED
      BY <3>2, <3>3, <3>4
  <2>3. QED
    BY <1>4, <2>1, <2>2
<1>9. QED
  BY <1>1, <1>7, <1>8, OthersInPlace DEF Base

LEMMA CloseIs ==
  ASSUME Base, NEW t \in Tasks, NEW v \in VfsFds, CloseBoth(t, v)
  PROVE  /\ Descriptors'
         /\ fd_cluster' \in [Fds -> Table \union {0}]
         /\ vfs_fd' \in [VfsFds -> Fds \union {0}]
         /\ fd_slot' \in [Fds -> Slots \union {0}] /\ robbed' \subseteq Tasks
<1>1. /\ fd_cluster \in [Fds -> Table \union {0}] /\ vfs_fd \in [VfsFds -> Fds \union {0}]
      /\ fd_slot \in [Fds -> Slots \union {0}] /\ Descriptors /\ 0 \notin Fds
      /\ robbed \subseteq Tasks
  BY ConstantsAre DEF Base, MemoryTypeOK
<1>2. CASE vfs_fd[v] = 0
  BY <1>1, <1>2 DEF CloseBoth, fds, Descriptors
<1>3. CASE vfs_fd[v] # 0
  <2>1. /\ fd_cluster' = [fd_cluster EXCEPT ![vfs_fd[v]] = 0]
        /\ fd_slot' = [fd_slot EXCEPT ![vfs_fd[v]] = 0]
        /\ vfs_fd' = [vfs_fd EXCEPT ![v] = 0] /\ vfs_fd[v] \in Fds
        /\ robbed' = robbed \union (Having(v) \ {t})
    BY <1>1, <1>3 DEF CloseBoth
  <2>2. /\ fd_cluster' \in [Fds -> Table \union {0}]
        /\ vfs_fd' \in [VfsFds -> Fds \union {0}]
        /\ fd_slot' \in [Fds -> Slots \union {0}] /\ robbed' \subseteq Tasks
    BY <1>1, <2>1 DEF Having
  <2>3. \A g \in Fds : fd_cluster'[g] # 0 <=> \E w \in VfsFds : vfs_fd'[w] = g
    BY <1>1, <1>3, <2>1 DEF Descriptors
  <2>4. \A w, x \in VfsFds : vfs_fd'[w] = vfs_fd'[x] /\ vfs_fd'[w] # 0 => w = x
    BY <1>1, <1>3, <2>1 DEF Descriptors
  <2>5. QED
    BY <2>2, <2>3, <2>4 DEF Descriptors
<1>4. QED
  BY <1>2, <1>3

LEMMA BaseReadDescribed ==
  ASSUME Base, NEW t \in Tasks, ReadDescribed(t)
  PROVE  Base'
<1>1. LocalsTypeOK /\ InPlace(t) /\ pc[t] = "read" /\ \A u \in Tasks : InPlace(u)
  BY DEF Base, ReadDescribed
<1>2. fd[t] \in VfsFds /\ call[t] \in Commands
  BY <1>1 DEF InPlace
<1>3. vfs_read(fd[t]) \in Seq(Contents \union {Nothing, Key})
  <2>1. CASE vfs_fd[fd[t]] = 0
    BY <2>1 DEF vfs_read
  <2>2. CASE vfs_fd[fd[t]] # 0
    <3>1. vfs_fd[fd[t]] \in Fds
      BY <1>2, <2>2 DEF Base, MemoryTypeOK
    <3>2. fd_cluster[vfs_fd[fd[t]]] \in Table
      BY <1>2, <3>1 DEF Base, MemoryTypeOK, Descriptors
    <3>3. Holds(fd_cluster[vfs_fd[fd[t]]]) \in Contents \union {Nothing, Key}
      BY <3>2, HoldsIs
    <3>4. QED
      BY <2>2, <3>3 DEF vfs_read
  <2>3. QED
    BY <2>1, <2>2
<1>4. sys_read(fd[t]) \subseteq Seq(Contents \union {Nothing, Key})
  <2>1. CASE fd[t] = 0
    <3>1. <<>> \in Seq(Contents \union {Nothing, Key})
          /\ <<Key>> \in Seq(Contents \union {Nothing, Key})
      OBVIOUS
    <3>2. QED
      BY <2>1, <3>1 DEF sys_read
  <2>2. CASE fd[t] # 0
    BY <1>3, <2>2 DEF sys_read
  <2>3. QED
    BY <2>1, <2>2
<1>5. loaded' \in [Tasks -> Seq(Contents \union {Nothing, Key})]
  BY <1>3, <1>4 DEF ReadDescribed, Base, MemoryTypeOK
<1>6. CloseBoth(t, fd[t]) /\ UNCHANGED <<disk, buffers, cache, made, failures, spoiled>>
  BY DEF ReadDescribed
<1>7. /\ Descriptors'
      /\ fd_cluster' \in [Fds -> Table \union {0}]
      /\ vfs_fd' \in [VfsFds -> Fds \union {0}]
      /\ fd_slot' \in [Fds -> Slots \union {0}] /\ robbed' \subseteq Tasks
  BY <1>2, <1>6, CloseIs
<1>8. DiskTypeOK' /\ MemoryTypeOK'
  BY <1>5, <1>6, <1>7 DEF Base, DiskTypeOK, MemoryTypeOK, disk, buffers, cache, made
<1>9. LocalsTypeOK' /\ InPlace(t)' /\ \A u \in Tasks \ {t} : Same(u)
  <2>1. CASE Return(t)
    BY <1>1, <2>1, ReturnIs
  <2>2. CASE call[t] = "casm" /\ Goto(t, "assemble") /\ UNCHANGED <<cluster, slot>>
    <3>1. "assemble" \in CreatePlaces \union ReadPlaces
      BY DEF ReadPlaces
    <3>2. /\ LocalsTypeOK' /\ \A u \in Tasks \ {t} : Same(u)
          /\ call'[t] = call[t] /\ pc'[t] = "assemble" /\ name'[t] = name[t]
      BY <1>1, <2>2, <3>1, GotoStays
    <3>3. InPlace(t)'
      BY <1>1, <2>2, <3>2 DEF InPlace, CreatePlaces, Commands
    <3>4. QED
      BY <3>2, <3>3
  <2>3. QED
    BY <2>1, <2>2 DEF ReadDescribed
<1>10. QED
  BY <1>1, <1>7, <1>8, <1>9, OthersInPlace DEF Base

LEMMA BaseAssemble ==
  ASSUME Base, NEW t \in Tasks, assemble_to_bin(t)
  PROVE  Base'
<1>1. /\ LocalsTypeOK /\ Return(t) /\ \A u \in Tasks : InPlace(u)
      /\ UNCHANGED <<disk, buffers, cache, fds, loaded, made, failures, spoiled>>
  BY DEF Base, assemble_to_bin
<1>2. DiskTypeOK' /\ MemoryTypeOK' /\ Descriptors'
  BY <1>1 DEF Base, DiskTypeOK, MemoryTypeOK, Descriptors, disk, buffers, cache, fds, made
<1>3. QED
  BY <1>1, <1>2, ReturnIs, OthersInPlace DEF Base

LEMMA BaseClose ==
  ASSUME Base, NEW t \in Tasks, NEW v \in VfsFds, Close(t, v)
  PROVE  Base'
<1>1. CloseBoth(t, v) /\ UNCHANGED <<disk, buffers, cache, locals, made, failures, spoiled>>
  BY DEF Close
<1>2. /\ Descriptors'
      /\ fd_cluster' \in [Fds -> Table \union {0}]
      /\ vfs_fd' \in [VfsFds -> Fds \union {0}]
      /\ fd_slot' \in [Fds -> Slots \union {0}] /\ robbed' \subseteq Tasks
  BY <1>1, CloseIs
<1>3. DiskTypeOK' /\ MemoryTypeOK' /\ LocalsTypeOK'
  BY <1>1, <1>2
     DEF Base, DiskTypeOK, MemoryTypeOK, LocalsTypeOK, disk, buffers, cache, locals, made
<1>4. \A u \in Tasks : InPlace(u)'
  BY <1>1 DEF Base, InPlace, locals
<1>5. QED
  BY <1>2, <1>3, <1>4 DEF Base

LEMMA BasePowerFails ==
  ASSUME Base, PowerFails
  PROVE  Base'
<1>1. 0 \notin Fds /\ FREE \in Values /\ End \in Entered
  BY ConstantsAre DEF Values
<1>2. MemoryTypeOK'
  BY <1>1 DEF PowerFails, MemoryTypeOK
<1>3. LocalsTypeOK'
  BY DEF PowerFails, LocalsTypeOK
<1>4. Descriptors'
  BY <1>1 DEF PowerFails, Descriptors
<1>5. \A u \in Tasks : InPlace(u)'
  BY DEF PowerFails, InPlace, CreatePlaces
<1>6. Unentered \subseteq Table
  BY DEF Unentered
<1>7. DiskTypeOK'
  BY <1>6 DEF PowerFails, Base, DiskTypeOK, disk
<1>8. QED
  BY <1>2, <1>3, <1>4, <1>5, <1>7 DEF Base

(* A call is one of create_file, or looks for a file.                      *)
LEMMA CallIs ==
  ASSUME NEW t \in Tasks,
         \/ \E w \in Writes : Create(t, w[1], w[2])
         \/ \E n \in Names : Open(t, n) \/ ReadFile(t, n) \/ Cat(t, n) \/ Casm(t, n)
  PROVE  \E n \in Names :
           \/ \E c \in Contents : Begin(t, "create", "table", n, c)
           \/ \E what \in {"load"} \union Opening :
                Begin(t, what, IF disk_initialized THEN "search" ELSE "cache", n, Nothing)
<1>1. ASSUME NEW w \in Writes, Create(t, w[1], w[2])
      PROVE  \E n \in Names : \E c \in Contents : Begin(t, "create", "table", n, c)
  <2>1. w[1] \in Names /\ w[2] \in Contents
    BY FilesAssumption
  <2>2. QED
    BY <1>1, <2>1 DEF Create
<1>2. ASSUME NEW n \in Names, Open(t, n) \/ ReadFile(t, n) \/ Cat(t, n) \/ Casm(t, n)
      PROVE  \E what \in {"load"} \union Opening :
               Begin(t, what, IF disk_initialized THEN "search" ELSE "cache", n, Nothing)
  BY <1>2 DEF Open, ReadFile, Cat, Casm, Look, Opening, Commands
<1>3. QED
  BY <1>1, <1>2

LEMMA BaseNext ==
  ASSUME Base, [FilesNext]_filesVars
  PROVE  Base'
<1>1. CASE UNCHANGED filesVars
  <2>1. DiskTypeOK' /\ MemoryTypeOK' /\ LocalsTypeOK'
    BY <1>1 DEF Base, DiskTypeOK, MemoryTypeOK, LocalsTypeOK, filesVars, disk, buffers,
                cache, fds, locals, made
  <2>2. Descriptors' /\ \A u \in Tasks : InPlace(u)'
    BY <1>1 DEF Base, Descriptors, InPlace, filesVars, fds, locals
  <2>3. QED
    BY <2>1, <2>2 DEF Base
<1>2. ASSUME NEW t \in Tasks,
             \/ \E w \in Writes : Create(t, w[1], w[2])
             \/ \E n \in Names : Open(t, n) \/ ReadFile(t, n) \/ Cat(t, n) \/ Casm(t, n)
      PROVE  Base'
  <2>1. PICK n \in Names :
           \/ \E c \in Contents : Begin(t, "create", "table", n, c)
           \/ \E what \in {"load"} \union Opening :
                Begin(t, what, IF disk_initialized THEN "search" ELSE "cache", n, Nothing)
    BY <1>2, CallIs
  <2>2. ASSUME NEW c \in Contents, Begin(t, "create", "table", n, c)
        PROVE  Base'
    BY <2>2, BaseBegin
  <2>3. ASSUME NEW what \in {"load"} \union Opening,
               Begin(t, what, IF disk_initialized THEN "search" ELSE "cache", n, Nothing)
        PROVE  Base'
    <3>1. what # "create"
      BY DEF Opening, Commands
    <3>2. PICK where \in {"cache", "search"} : Begin(t, what, where, n, Nothing)
      BY <2>3
    <3>3. QED
      BY <3>1, <3>2, BaseBegin
  <2>4. QED
    BY <2>1, <2>2, <2>3
<1>3. ASSUME NEW t \in Tasks, CreateStep(t)
      PROVE  Base'
  BY <1>3, BaseReadTable, BaseReadRoot, BasePutEntry, BaseWriteTable, BaseWriteData
     DEF CreateStep
<1>4. ASSUME NEW t \in Tasks, ReadStep(t)
      PROVE  Base'
  BY <1>4, BaseReadCache, BaseSearch, BaseReadCluster, BaseReadDescribed, BaseAssemble
     DEF ReadStep
<1>5. ASSUME NEW t \in Tasks, NEW u \in Tasks, Meet(t, u)
      PROVE  Base'
  <2>1. DiskTypeOK' /\ MemoryTypeOK' /\ LocalsTypeOK'
    BY <1>5 DEF Base, DiskTypeOK, MemoryTypeOK, LocalsTypeOK, Meet, disk, buffers, cache,
                fds, locals, made
  <2>2. Descriptors' /\ \A d \in Tasks : InPlace(d)'
    BY <1>5 DEF Base, Descriptors, InPlace, Meet, fds, locals
  <2>3. QED
    BY <2>1, <2>2 DEF Base
<1>6. QED
  BY <1>1, <1>2, <1>3, <1>4, <1>5, BaseClose, BasePowerFails DEF FilesNext

LEMMA BaseInit ==
  ASSUME FilesInit
  PROVE  Base
<1>1. PICK image \in Images :
         /\ fat = image.fat /\ root = image.root /\ data = image.data
         /\ chain = image.chain /\ whole = image.whole
         /\ settled = {s \in Slots : IsFile(root[s])}
  BY DEF FilesInit
<1>2. IsImage(image)
  BY ImagesAssumption
<1>3. root \in [Slots -> Entered]
  <2>1. root \in [Slots -> Entries] /\ chain \in [Slots -> Seq(Table)]
    BY <1>1, <1>2 DEF IsImage
  <2>2. ASSUME NEW s \in Slots, IsFile(root[s])
        PROVE  root[s].cluster \in Table
    <3>1. chain[s] # <<>> /\ root[s].cluster = chain[s][1]
      BY <1>1, <1>2, <2>2 DEF IsImage
    <3>2. chain[s][1] \in Table
      BY <2>1, <3>1
    <3>3. QED
      BY <3>1, <3>2
  <2>3. QED
    BY <2>1, <2>2 DEF Entered
<1>4. DiskTypeOK
  BY <1>1, <1>2, <1>3 DEF IsImage, DiskTypeOK, Values, FilesInit
<1>5. 0 \notin Fds /\ FREE \in Values /\ End \in Entered /\ MemoryInit
  BY ConstantsAre DEF Values, FilesInit
<1>6. MemoryTypeOK
  BY <1>5 DEF MemoryInit, MemoryTypeOK
<1>7. LocalsTypeOK
  BY <1>5 DEF MemoryInit, LocalsTypeOK
<1>8. Descriptors
  BY <1>5 DEF MemoryInit, Descriptors
<1>9. \A u \in Tasks : InPlace(u)
  BY <1>5 DEF MemoryInit, InPlace, CreatePlaces
<1>10. QED
  BY <1>4, <1>6, <1>7, <1>8, <1>9 DEF Base

-----------------------------------------------------------------------------
(* The files stay.                                                         *)

(* Entries, files that were made and marks in the FAT are there to stay.   *)
Grows ==
  /\ \A s \in Slots : IsFile(root[s]) => root'[s] = root[s]
  /\ settled \subseteq settled'
  /\ \A s \in settled : chain'[s] = chain[s] /\ whole'[s] = whole[s]
  /\ \A k \in Table : fat'[k] = fat[k] \/ (fat[k] \in {FREE, LAST} /\ fat'[k] = LAST)

LEMMA CollideSwaps == \A a, b : Collide(a, b) <=> Collide(b, a)
  BY DEF Collide

(* While one task makes a file no other does.                              *)
LEMMA OneCreates ==
  ASSUME Apart, NEW t \in Tasks, call[t] = "create"
  PROVE  \A u \in Tasks \ {t} : call[u] # "create"
  BY DEF Apart, Collide

(* The first sectors begin with the first cluster and the first entry.     *)
LEMMA NoneBefore ==
  /\ \A k \in Table : ~(k < Cluster0(1))
  /\ \A s \in Slots : ~(s < Slot0(1))
<1>1. Cluster0(1) = 2 /\ Slot0(1) = 1
  BY SectorIs, RootSectorIs, ConstantsAre
<1>2. \A k \in Nat \ {0, 1} : ~(k < 2)
  OBVIOUS
<1>3. \A s \in Nat \ {0} : ~(s < 1)
  OBVIOUS
<1>4. QED
  BY <1>1, <1>2, <1>3, ConstantsAre

(* A cluster of a file that was made is marked.                            *)
LEMMA OwnedIsMarked ==
  ASSUME DiskTypeOK, ~spoiled, FilesStay, NEW s \in settled, NEW k \in Table, Owns(s, k)
  PROVE  fat[k] # FREE
<1>1. chain[s] \in Seq(Table) /\ Chained(s)
  BY DEF DiskTypeOK, FilesStay
<1>2. PICK j \in 1 .. Len(chain[s]) : chain[s][j] = k
  BY <1>1 DEF Owns, Range
<1>3. fat[k] = IF j = Len(chain[s]) THEN LAST ELSE chain[s][j + 1]
  BY <1>1, <1>2 DEF Chained
<1>4. j # Len(chain[s]) => chain[s][j + 1] \in Table
  <2>1. Len(chain[s]) \in Nat
    BY <1>1
  <2>2. j # Len(chain[s]) => j + 1 \in 1 .. Len(chain[s])
    BY <2>1
  <2>3. QED
    BY <1>1, <2>2
<1>5. QED
  BY <1>3, <1>4, ConstantsAre

(* What is kept of the disk changes only with the disk.                    *)
LEMMA DiskStays ==
  ASSUME KeptFiles, ~spoiled, ~spoiled',
         UNCHANGED <<fat, root, data, chain, whole, settled>>
  PROVE  Unfinished' /\ (\A s \in settled : Len(whole[s]) = Len(chain[s]))'
         /\ FilesStay' /\ NothingBehindTheEnd'
<1>1. Unfinished' /\ (\A s \in settled : Len(whole[s]) = Len(chain[s]))'
  BY DEF KeptFiles, Unfinished
<1>2. FilesStay'
  <2>1. \A s : Chained(s)' <=> Chained(s)
    BY DEF Chained
  <2>2. QED
    BY <2>1 DEF KeptFiles, FilesStay, IsFile
<1>3. NothingBehindTheEnd'
  BY DEF KeptFiles, NothingBehindTheEnd, IsFile
<1>4. QED
  BY <1>1, <1>2, <1>3

(* A step that is not one of creations.                                    *)
LEMMA FilesUntouched ==
  ASSUME KeptFiles, ~spoiled, ~spoiled', Apart',
         UNCHANGED <<fat, root, data, chain, whole, settled, lost, fat_table, root_buf>>,
         \A u \in Tasks : call[u] = "create" \/ call'[u] = "create" => Same(u)
  PROVE  KeptFiles'
<1>1. Unfinished' /\ (\A s \in settled : Len(whole[s]) = Len(chain[s]))'
      /\ FilesStay' /\ NothingBehindTheEnd'
  BY DiskStays
<1>2. ASSUME NEW u \in Tasks, call'[u] = "create"
      PROVE  Creation(u)'
  <2>1. Same(u) /\ call[u] = "create" /\ Creation(u)
    BY <1>2 DEF Same, KeptFiles
  <2>2. QED
    BY <2>1 DEF Same, Creation, IsEntered, IsFile, Owns
<1>3. ClustersAccounted'
  <2>1. \A u \in Tasks : Creating(u) => Creating(u)' /\ cluster'[u] = cluster[u]
    BY DEF Creating, Same
  <2>2. QED
    BY <2>1 DEF KeptFiles, ClustersAccounted, IsFile
<1>4. QED
  BY <1>1, <1>2, <1>3 DEF KeptFiles

LEMMA FilesBegin ==
  ASSUME Base, KeptFiles, ~spoiled', NEW t \in Tasks,
         NEW what \in {"create", "load"} \union Opening,
         NEW where \in {"table", "cache", "search"}, NEW n \in Names,
         NEW c \in Contents \union {Nothing}, Begin(t, what, where, n, c),
         what = "create" => where = "table"
  PROVE  KeptFiles'
<1>1. LocalsTypeOK /\ where \in CreatePlaces \union ReadPlaces /\ ~spoiled
  BY DEF Base, CreatePlaces, ReadPlaces, Begin
<1>2. /\ LocalsTypeOK' /\ \A u \in Tasks \ {t} : Same(u)
      /\ call[t] = "none"
      /\ call'[t] = what /\ pc'[t] = where /\ sector'[t] = 1 /\ name'[t] = n
      /\ content'[t] = c /\ cluster'[t] = cluster[t] /\ fd'[t] = fd[t]
      /\ slot'[t] = slot[t]
  BY <1>1, BeginIs
<1>3. UNCHANGED <<fat, root, data, chain, whole, settled, lost, fat_table, root_buf>>
  BY DEF Begin, disk, made, buffers
<1>4. Apart'
  <2>1. \A d \in Tasks : ~Collide(what, call[d])
    BY DEF Begin
  <2>2. \A u, d \in Tasks : u # d => ~Collide(call'[u], call'[d])
    BY <1>2, <2>1, CollideSwaps DEF KeptFiles, Apart, Same
  <2>3. QED
    BY <2>2 DEF Apart
<1>5. CASE what # "create"
  BY <1>1, <1>2, <1>3, <1>4, <1>5, FilesUntouched
<1>6. CASE what = "create"
  <2>1. Unfinished' /\ (\A s \in settled : Len(whole[s]) = Len(chain[s]))'
        /\ FilesStay' /\ NothingBehindTheEnd'
    BY <1>1, <1>3, DiskStays
  <2>2. \A u \in Tasks \ {t} : call'[u] # "create"
    BY <1>2, <1>4, <1>6 DEF Apart, Collide
  <2>3. Creation(t)'
    <3>1. pc'[t] = "table" /\ sector'[t] = 1
      BY <1>2, <1>6
    <3>2. QED
      BY <3>1, NoneBefore DEF Creation
  <2>4. ClustersAccounted'
    <3>1. \A u \in Tasks : Creating(u) => Creating(u)' /\ cluster'[u] = cluster[u]
      BY <1>2 DEF Creating, Same
    <3>2. QED
      BY <1>1, <1>3, <3>1 DEF KeptFiles, ClustersAccounted, IsFile
  <2>5. QED
    BY <1>4, <2>1, <2>2, <2>3, <2>4 DEF KeptFiles
<1>7. QED
  BY <1>5, <1>6

LEMMA ApartStays ==
  ASSUME Apart, \A u \in Tasks : call'[u] \in {call[u], "none"}
  PROVE  Apart'
<1>1. \A a : ~Collide("none", a) /\ ~Collide(a, "none")
  BY DEF Collide
<1>2. \A u, d \in Tasks : u # d => ~Collide(call'[u], call'[d])
  BY <1>1 DEF Apart
<1>3. QED
  BY <1>2 DEF Apart

LEMMA FilesReadTable ==
  ASSUME Base, KeptFiles, ~spoiled, ~spoiled', NEW t \in Tasks, ReadTable(t)
  PROVE  KeptFiles'
<1> DEFINE table == TableRead(sector[t])
           free == {k \in Table : table[k] = FREE}
<1>1. LocalsTypeOK /\ InPlace(t) /\ pc[t] = "table" /\ call[t] = "create" /\ Creation(t)
      /\ Apart /\ DiskTypeOK /\ FilesStay
  BY DEF Base, KeptFiles, ReadTable, At
<1>2. sector[t] \in 1 .. FatSectors /\ cluster[t] = 0 /\ slot[t] = 0
  BY <1>1 DEF InPlace
<1>3. /\ fat_table' = table
      /\ UNCHANGED <<root_buf, root, data, cache, fds, loaded, made, failures>>
      /\ \/ sector[t] < FatSectors /\ NextSector(t) /\ UNCHANGED <<cluster, slot, fat>>
         \/ sector[t] = FatSectors /\ free # {} /\ Take(t, table, Least(free))
         \/ Return(t) /\ UNCHANGED fat
  BY DEF ReadTable
<1>4. free \subseteq Table /\ free \subseteq Nat
  BY ConstantsAre
<1>5. table \in [Table -> Values] /\ fat \in [Table -> Values]
  BY DEF TableRead, Base, DiskTypeOK, MemoryTypeOK
<1>6. \A k \in Table : k < Cluster0(sector[t] + 1) => table[k] = fat[k]
  <2>1. ASSUME NEW k \in Table, k < Cluster0(sector[t] + 1)
        PROVE  table[k] = fat[k]
    <3>1. k \in ClustersOf(sector[t]) \/ k < Cluster0(sector[t])
      BY <1>2, <2>1, SectorIs, ConstantsAre
    <3>2. CASE k \in ClustersOf(sector[t])
      BY <3>2 DEF TableRead
    <3>3. CASE k \notin ClustersOf(sector[t]) /\ k < Cluster0(sector[t])
      BY <1>1, <3>3 DEF TableRead, Creation
    <3>4. QED
      BY <3>1, <3>2, <3>3
  <2>2. QED
    BY <2>1
<1>7. free # {} => Least(free) \in Table /\ table[Least(free)] = FREE
  <2>1. free # {} => Least(free) \in free
    BY <1>4, LeastIs
  <2>2. QED
    BY <2>1
<1> HIDE DEF table, free
<1>8. UNCHANGED <<fat, root, data, chain, whole, settled, lost>>
  BY <1>3 DEF Take, made
<1>9. Unfinished' /\ (\A s \in settled : Len(whole[s]) = Len(chain[s]))'
      /\ FilesStay' /\ NothingBehindTheEnd'
  BY <1>8, DiskStays
<1>10. \A u \in Tasks \ {t} : Same(u) /\ call[u] # "create"
  <2>1. \A u \in Tasks \ {t} : Same(u)
    <3>1. CASE NextSector(t) /\ UNCHANGED <<cluster, slot>>
      BY <1>1, <3>1, NextSectorIs
    <3>2. CASE Return(t)
      BY <1>1, <3>2, ReturnIs
    <3>3. CASE Take(t, table, Least(free))
      BY <1>1, <3>3 DEF LocalsTypeOK, Take, Goto, Same
    <3>4. QED
      BY <1>3, <3>1, <3>2, <3>3
  <2>2. QED
    BY <1>1, <2>1, OneCreates
<1>11. call'[t] = "create" => Creation(t)'
  <2>1. CASE sector[t] < FatSectors /\ NextSector(t) /\ UNCHANGED <<cluster, slot, fat>>
    <3>1. pc'[t] = "table" /\ sector'[t] = sector[t] + 1
      BY <1>1, <2>1, NextSectorIs
    <3>2. \A k \in Table : k < Cluster0(sector'[t]) => fat_table'[k] = fat'[k]
      BY <1>3, <1>6, <2>1, <3>1
    <3>3. QED
      BY <3>1, <3>2 DEF Creation
  <2>2. CASE sector[t] = FatSectors /\ free # {} /\ Take(t, table, Least(free))
    <3>1. pc'[t] = "entry" /\ sector'[t] = 1 /\ cluster'[t] = Least(free)
      BY <1>1, <2>2 DEF Take, Goto, LocalsTypeOK
    <3>2. \A k \in Table : k < Cluster0(FatSectors + 1)
      BY <1>2, SectorIs DEF Table
    <3>3. table = fat
      BY <1>5, <1>6, <2>2, <3>2
    <3>4. fat_table' = fat' /\ fat'[Least(free)] = FREE
      BY <1>3, <1>7, <1>8, <2>2, <3>3
    <3>6. \A s \in settled : ~Owns(s, Least(free))
      BY <1>1, <1>7, <1>8, <2>2, <3>4, OwnedIsMarked
    <3>7. QED
      BY <1>8, <3>1, <3>4, <3>6, NoneBefore DEF Creation, Owns
  <2>3. CASE Return(t)
    BY <1>1, <2>3, ReturnIs DEF Idle
  <2>4. QED
    BY <1>3, <2>1, <2>2, <2>3
<1>12. call'[t] \in {"create", "none"}
  <2>1. CASE NextSector(t) \/ Take(t, table, Least(free))
    BY <1>1, <2>1 DEF NextSector, Take, Goto
  <2>2. CASE Return(t)
    BY <1>1, <2>2, ReturnIs DEF Idle
  <2>3. QED
    BY <1>3, <2>1, <2>2
<1>13. Apart'
  BY <1>1, <1>10, <1>12, ApartStays DEF Same
<1>14. ClustersAccounted'
  <2>1. \A u \in Tasks : Creating(u) => Creating(u)' /\ cluster'[u] = cluster[u]
    BY <1>2, <1>10 DEF Creating, Same
  <2>2. QED
    BY <1>8, <2>1 DEF KeptFiles, ClustersAccounted, IsFile
<1>15. QED
  BY <1>9, <1>10, <1>11, <1>13, <1>14 DEF KeptFiles, Same

LEMMA FilesReadRoot ==
  ASSUME Base, KeptFiles, ~spoiled, ~spoiled', NEW t \in Tasks, ReadRoot(t)
  PROVE  KeptFiles'
<1> DEFINE before == (sector[t] - 1) * PerRootSector
           buf == [i \in 1 .. PerRootSector |-> root[before + i]]
           i == Least(Vacant(buf))
           new == [name |-> name[t], cluster |-> cluster[t]]
<1>1. LocalsTypeOK /\ InPlace(t) /\ pc[t] = "entry" /\ call[t] = "create" /\ Creation(t)
      /\ Apart
  BY DEF Base, KeptFiles, ReadRoot, At
<1>2. sector[t] \in 1 .. RootSectors /\ cluster[t] \in Table /\ name[t] \in Names
      /\ slot[t] = 0
  BY <1>1 DEF InPlace
<1>3. /\ \/ /\ Vacant(buf) # {}
            /\ root_buf' = [buf EXCEPT ![i] = new]
            /\ slot' = [slot EXCEPT ![t] = before + i]
            /\ pc' = [pc EXCEPT ![t] = "put"]
            /\ UNCHANGED <<call, sector, name, content, fd, fat_table>>
         \/ /\ Vacant(buf) = {} /\ sector[t] < RootSectors /\ root_buf' = buf
            /\ NextSector(t) /\ UNCHANGED <<fat_table, slot>>
         \/ /\ root_buf' = buf /\ fat_table' = Marked(t)
            /\ Goto(t, "mark") /\ UNCHANGED slot
      /\ UNCHANGED <<disk, cache, fds, cluster, loaded, made, failures, spoiled>>
  BY DEF ReadRoot
<1>4. UNCHANGED <<fat, root, data, chain, whole, settled, lost>>
  BY <1>3 DEF disk, made
<1>5. Unfinished' /\ (\A s \in settled : Len(whole[s]) = Len(chain[s]))'
      /\ FilesStay' /\ NothingBehindTheEnd'
  BY <1>4, DiskStays
<1>6. fat_table = fat /\ fat[cluster[t]] = FREE /\ \A s \in settled : ~Owns(s, cluster[t])
  BY <1>1 DEF Creation
<1>6a. \A s \in Slots : s < Slot0(sector[t]) => IsFile(root[s])
  BY <1>1 DEF Creation
<1>7. before = Slot0(sector[t]) - 1 /\ Slot0(sector[t]) \in Nat /\ Slot0(sector[t]) >= 1
      /\ Slot0(sector[t] + 1) = Slot0(sector[t]) + PerRootSector
      /\ PerRootSector \in Nat /\ Slots \subseteq Nat
  BY <1>2, RootSectorIs, ConstantsAre
<1>8. \A s \in Slots : s < Slot0(sector[t] + 1) =>
        s < Slot0(sector[t]) \/ (s - before \in 1 .. PerRootSector /\ root[s] = buf[s - before])
  <2>1. ASSUME NEW s \in Slots, s < Slot0(sector[t] + 1), ~(s < Slot0(sector[t]))
        PROVE  s - before \in 1 .. PerRootSector /\ root[s] = buf[s - before]
    <3>1. s \in Nat
      BY <1>7
    <3> HIDE DEF before
    <3>2. s - before \in 1 .. PerRootSector
      BY <1>7, <2>1, <3>1
    <3>3. before + (s - before) = s
      BY <1>7, <3>1
    <3>4. QED
      BY <3>2, <3>3
  <2>2. QED
    BY <2>1
<1>9. /\ Vacant(buf) \subseteq 1 .. PerRootSector
      /\ \A j \in 1 .. PerRootSector : j \in Vacant(buf) <=> ~IsFile(buf[j])
  BY DEF Vacant
<1>10. buf \in [1 .. PerRootSector -> Entered] /\ \A j \in 1 .. PerRootSector : buf[j] = root[before + j]
  BY <1>2, SectorOfRoot DEF Base, DiskTypeOK
<1> HIDE DEF buf
<1>11. Vacant(buf) # {} => /\ i \in Vacant(buf) /\ i \in 1 .. PerRootSector
                           /\ \A j \in Vacant(buf) : i <= j
  BY <1>9, LeastIs
<1> HIDE DEF i
<1>12. CASE /\ Vacant(buf) # {}
            /\ root_buf' = [buf EXCEPT ![i] = new]
            /\ slot' = [slot EXCEPT ![t] = before + i]
            /\ pc' = [pc EXCEPT ![t] = "put"]
            /\ UNCHANGED <<call, sector, name, content, fd, fat_table, cluster>>
  <2>1. /\ slot'[t] = before + i /\ pc'[t] = "put" /\ call' = call /\ cluster' = cluster
        /\ name' = name /\ sector' = sector /\ fat_table' = fat_table
        /\ \A u \in Tasks \ {t} : Same(u)
    BY <1>1, <1>12 DEF LocalsTypeOK, Same
  <2>2. ~IsFile(root[before + i])
    BY <1>9, <1>10, <1>11, <1>12
  <2>3. \A s \in Slots : s < before + i => IsFile(root[s])
    <3>1. ASSUME NEW s \in Slots, s < before + i
          PROVE  IsFile(root[s])
      <4>1. s < Slot0(sector[t] + 1) /\ before \in Int /\ s \in Nat /\ i \in Nat
        <5> HIDE DEF before
        <5>1. QED
          BY <1>7, <1>11, <1>12, <3>1
      <4>2. CASE s < Slot0(sector[t])
        BY <1>6a, <4>2
      <4>3. CASE s - before \in 1 .. PerRootSector /\ root[s] = buf[s - before]
        <5> HIDE DEF before
        <5>1. ~(i <= s - before)
          BY <3>1, <4>1
        <5>2. s - before \notin Vacant(buf)
          BY <1>11, <1>12, <5>1
        <5>3. QED
          BY <1>9, <4>3, <5>2
      <4>4. QED
        BY <1>8, <4>1, <4>2, <4>3
    <3>2. QED
      BY <3>1
  <2>4. \A s \in SlotsOf(sector[t]) :
          root_buf'[s - before] = IF s = before + i THEN new ELSE root[s]
    <3>1. ASSUME NEW s \in SlotsOf(sector[t])
          PROVE  root_buf'[s - before] = IF s = before + i THEN new ELSE root[s]
      <4>1. s - before \in 1 .. PerRootSector
        BY <1>2, PlaceInSector
      <4>2. s \in Nat /\ before \in Int /\ i \in Nat
        <5>1. s \in Slots
          BY <1>2, RootSectorIs
        <5> HIDE DEF before
        <5>2. QED
          BY <1>7, <1>11, <1>12, <5>1
      <4> HIDE DEF before, new
      <4>3. before + (s - before) = s /\ (s - before = i <=> s = before + i)
        BY <4>2
      <4>4. buf[s - before] = root[s]
        BY <1>10, <4>1, <4>3
      <4>5. QED
        BY <1>10, <1>12, <4>1, <4>3, <4>4
    <3>2. QED
      BY <3>1
  <2>5. Creation(t)'
    BY <1>4, <1>6, <2>1, <2>2, <2>3, <2>4 DEF Creation, Owns, IsFile
  <2>6. \A u \in Tasks \ {t} : call'[u] # "create"
    BY <1>1, <2>1, OneCreates
  <2>7. Apart'
    BY <1>1, <2>1 DEF Apart
  <2>8. ClustersAccounted'
    BY <1>4, <2>1 DEF KeptFiles, ClustersAccounted, Creating, IsFile
  <2>9. QED
    BY <1>5, <2>5, <2>6, <2>7, <2>8 DEF KeptFiles
<1>13. CASE /\ Vacant(buf) = {} /\ sector[t] < RootSectors /\ NextSector(t)
            /\ UNCHANGED <<fat_table, slot, cluster>>
  <2>1. /\ \A u \in Tasks \ {t} : Same(u)
        /\ call'[t] = call[t] /\ pc'[t] = pc[t] /\ sector'[t] = sector[t] + 1
        /\ name'[t] = name[t] /\ content'[t] = content[t] /\ cluster'[t] = cluster[t]
        /\ fd'[t] = fd[t] /\ slot'[t] = slot[t]
    BY <1>1, <1>13, NextSectorIs
  <2>2. \A s \in Slots : s < Slot0(sector[t] + 1) => IsFile(root[s])
    <3>1. \A j \in 1 .. PerRootSector : IsFile(buf[j])
      BY <1>9, <1>13
    <3>2. ASSUME NEW s \in Slots, s < Slot0(sector[t] + 1)
          PROVE  IsFile(root[s])
      <4>1. CASE s < Slot0(sector[t])
        BY <1>6a, <4>1
      <4>2. CASE s - before \in 1 .. PerRootSector /\ root[s] = buf[s - before]
        <5> HIDE DEF before
        <5>1. QED
          BY <3>1, <4>2
      <4>3. QED
        BY <1>8, <3>2, <4>1, <4>2
    <3>3. QED
      BY <3>2
  <2>3. Creation(t)'
    BY <1>1, <1>4, <1>6, <1>13, <2>1, <2>2 DEF Creation, Owns, IsFile
  <2>4. call' = call
    BY <1>13 DEF NextSector
  <2>5. QED
    BY <1>1, <1>4, <1>5, <1>13, <2>3, <2>4, OneCreates
       DEF KeptFiles, Apart, ClustersAccounted, Creating, IsFile
<1>14. CASE fat_table' = Marked(t) /\ Goto(t, "mark") /\ UNCHANGED <<slot, cluster>>
  <2>1. "mark" \in CreatePlaces \union ReadPlaces
    BY DEF CreatePlaces
  <2>2. /\ \A u \in Tasks \ {t} : Same(u)
        /\ call'[t] = call[t] /\ pc'[t] = "mark" /\ sector'[t] = 1
        /\ name'[t] = name[t] /\ content'[t] = content[t] /\ cluster'[t] = cluster[t]
        /\ fd'[t] = fd[t] /\ slot'[t] = slot[t]
    BY <1>1, <1>14, <2>1, GotoStays
  <2>3. fat_table' = [fat EXCEPT ![cluster[t]] = LAST]
    BY <1>6, <1>14 DEF Marked
  <2>4. ~(cluster[t] < Cluster0(1))
    BY <1>2, NoneBefore
  <2>5. IsEntered(t)'
    BY <1>2, <2>2 DEF IsEntered
  <2>6. Creation(t)'
    BY <1>4, <1>6, <2>2, <2>3, <2>4, <2>5 DEF Creation, Owns
  <2>7. call' = call
    BY <1>14 DEF Goto
  <2>8. QED
    BY <1>1, <1>4, <1>5, <1>14, <2>6, <2>7, OneCreates
       DEF KeptFiles, Apart, ClustersAccounted, Creating, IsFile
<1>15. QED
  BY <1>3, <1>12, <1>13, <1>14

LEMMA FilesPutEntry ==
  ASSUME Base, KeptFiles, ~spoiled, ~spoiled', NEW t \in Tasks, PutEntry(t)
  PROVE  KeptFiles' /\ Grows
<1> DEFINE new == [name |-> name[t], cluster |-> cluster[t]]
<1>1. LocalsTypeOK /\ InPlace(t) /\ pc[t] = "put" /\ call[t] = "create" /\ Creation(t)
      /\ Apart /\ DiskTypeOK
  BY DEF Base, KeptFiles, PutEntry, At
<1>2. /\ sector[t] \in 1 .. RootSectors /\ cluster[t] \in Table /\ name[t] \in Names
      /\ slot[t] \in SlotsOf(sector[t]) /\ content[t] \in Contents
      /\ slot[t] \in Slots /\ SlotsOf(sector[t]) \subseteq Slots
  BY <1>1, RootSectorIs DEF InPlace
<1>3. /\ fat_table = fat /\ fat[cluster[t]] = FREE
      /\ \A s \in settled : ~Owns(s, cluster[t])
      /\ ~IsFile(root[slot[t]]) /\ \A s \in Slots : s < slot[t] => IsFile(root[s])
      /\ \A s \in SlotsOf(sector[t]) :
            root_buf[s - (sector[t] - 1) * PerRootSector] = IF s = slot[t] THEN new ELSE root[s]
  BY <1>1 DEF Creation
<1>4. root' = [root EXCEPT ![slot[t]] = new]
  <2>1. root' = [s \in Slots |-> IF s = slot[t] THEN new ELSE root[s]]
    <3>1. \A s \in Slots : root'[s] = IF s = slot[t] THEN new ELSE root[s]
      <4>1. \A s \in SlotsOf(sector[t]) :
              root'[s] = root_buf[s - (sector[t] - 1) * PerRootSector]
        BY <1>2 DEF PutEntry
      <4>2. \A s \in Slots \ SlotsOf(sector[t]) : root'[s] = root[s]
        BY DEF PutEntry
      <4> HIDE DEF new
      <4>3. QED
        BY <1>2, <1>3, <4>1, <4>2
    <3> HIDE DEF new
    <3>2. root' = [s \in Slots |-> root'[s]]
      BY DEF PutEntry
    <3>3. QED
      BY <3>1, <3>2
  <2> HIDE DEF new
  <2>2. QED
    BY <1>1, <1>2, <2>1 DEF DiskTypeOK
<1>5. /\ fat_table' = Marked(t) /\ Goto(t, "mark")
      /\ chain' = [chain EXCEPT ![slot[t]] = <<cluster[t]>>]
      /\ whole' = [whole EXCEPT ![slot[t]] = <<content[t]>>]
      /\ UNCHANGED <<fat, data, cluster, slot, settled, lost>>
  BY DEF PutEntry
<1>6. "mark" \in CreatePlaces \union ReadPlaces
  BY DEF CreatePlaces
<1>7. /\ \A u \in Tasks \ {t} : Same(u)
      /\ call'[t] = call[t] /\ pc'[t] = "mark" /\ sector'[t] = 1
      /\ name'[t] = name[t] /\ content'[t] = content[t] /\ cluster'[t] = cluster[t]
      /\ slot'[t] = slot[t] /\ call' = call
  BY <1>1, <1>5, <1>6, GotoStays DEF Goto
<1>8. slot[t] \notin settled
  BY <1>3 DEF KeptFiles, FilesStay
<1>9. /\ root'[slot[t]] = new /\ \A s \in Slots : s # slot[t] => root'[s] = root[s]
      /\ chain'[slot[t]] = <<cluster[t]>> /\ whole'[slot[t]] = <<content[t]>>
      /\ \A s \in Slots : s # slot[t] => chain'[s] = chain[s] /\ whole'[s] = whole[s]
  BY <1>1, <1>2, <1>4, <1>5 DEF DiskTypeOK
<1>10. \A s \in settled : s \in Slots /\ root'[s] = root[s] /\ chain'[s] = chain[s]
                          /\ whole'[s] = whole[s]
  BY <1>1, <1>8, <1>9 DEF DiskTypeOK
<1>11. Unfinished'
  BY <1>3, <1>5, <1>9 DEF KeptFiles, Unfinished
<1>12. (\A s \in settled : Len(whole[s]) = Len(chain[s]))'
  BY <1>5, <1>10 DEF KeptFiles
<1>13. FilesStay'
  <2>1. \A s \in settled : Chained(s)' <=> Chained(s)
    BY <1>5, <1>10 DEF Chained
  <2>2. \A s \in settled : IsFile(root'[s]) /\ Chained(s)'
                           /\ \A r \in settled \ {s} : Range(chain'[r]) \cap Range(chain'[s]) = {}
    BY <1>10, <2>1 DEF KeptFiles, FilesStay
  <2>3. QED
    BY <1>5, <2>2 DEF FilesStay
<1>14. NothingBehindTheEnd'
  <2>1. ASSUME NEW r \in Slots, NEW s \in Slots, r < s, IsFile(root'[s])
        PROVE  root'[r].name # "end"
    <3>1. CASE r = slot[t]
      BY <1>2, <1>9, <3>1, ConstantsAre
    <3>2. CASE r # slot[t] /\ s = slot[t]
      BY <1>3, <1>9, <2>1, <3>2, ConstantsAre DEF IsFile
    <3>3. CASE r # slot[t] /\ s # slot[t]
      BY <1>9, <2>1, <3>3 DEF KeptFiles, NothingBehindTheEnd
    <3>4. QED
      BY <3>1, <3>2, <3>3
  <2>2. QED
    BY <2>1 DEF NothingBehindTheEnd, IsFile
<1>15. ClustersAccounted'
  <2>1. \A s \in Slots : IsFile(root[s]) => IsFile(root'[s]) /\ chain'[s] = chain[s]
    BY <1>3, <1>9
  <2>2. \A u \in Tasks : Creating(u)' <=> Creating(u)
    BY <1>5, <1>7 DEF Creating
  <2>3. \A k \in Table : fat'[k] # FREE =>
          \/ \E s \in Slots : IsFile(root'[s]) /\ k \in Range(chain'[s])
          \/ k \in lost
          \/ \E u \in Tasks : Creating(u) /\ cluster[u] = k
    BY <1>5, <2>1 DEF KeptFiles, ClustersAccounted
  <2>4. QED
    BY <1>5, <2>2, <2>3 DEF ClustersAccounted, IsFile
<1>16. Creation(t)'
  <2>1. IsEntered(t)'
    BY <1>5, <1>7, <1>8, <1>9 DEF IsEntered
  <2>2. fat_table' = [fat EXCEPT ![cluster[t]] = LAST]
    BY <1>3, <1>5 DEF Marked
  <2>3. ~(cluster[t] < Cluster0(1))
    BY <1>2, NoneBefore
  <2>4. \A s \in settled' : ~Owns(s, cluster[t])'
    BY <1>3, <1>5, <1>10 DEF Owns
  <2>5. QED
    BY <1>3, <1>5, <1>7, <2>1, <2>2, <2>3, <2>4 DEF Creation
<1>17. Grows
  <2>1. \A s \in Slots : IsFile(root[s]) => root'[s] = root[s]
    BY <1>3, <1>9
  <2>2. settled' = settled /\ fat' = fat
    BY <1>5
  <2>3. QED
    BY <1>10, <2>1, <2>2 DEF Grows
<1>18. QED
  BY <1>1, <1>17, <1>7, <1>11, <1>12, <1>13, <1>14, <1>15, <1>16, OneCreates DEF KeptFiles, Apart

LEMMA FilesWriteTable ==
  ASSUME Base, KeptFiles, ~spoiled, ~spoiled', NEW t \in Tasks, WriteTable(t)
  PROVE  KeptFiles' /\ Grows
<1> DEFINE k == cluster[t]
<1>1. LocalsTypeOK /\ InPlace(t) /\ pc[t] = "mark" /\ call[t] = "create" /\ Creation(t)
      /\ Apart /\ DiskTypeOK
  BY DEF Base, KeptFiles, WriteTable, At
<1>2. sector[t] \in 1 .. FatSectors /\ k \in Table
  BY <1>1 DEF InPlace
<1>3. /\ fat_table = [fat EXCEPT ![k] = LAST] /\ fat[k] \in {FREE, LAST}
      /\ k < Cluster0(sector[t]) => fat[k] = LAST
      /\ \A s \in settled : ~Owns(s, k)
      /\ IsEntered(t)
  BY <1>1 DEF Creation
<1>4. /\ UNCHANGED <<root, data, chain, whole, settled, lost, fat_table, cluster, slot>>
      /\ \/ sector[t] < FatSectors /\ NextSector(t)
         \/ sector[t] >= FatSectors /\ Goto(t, "fill")
  BY <1>2, FilesAssumption DEF WriteTable, buffers, made
<1>5. /\ fat' \in [Table -> Values] /\ \A j \in Table : j # k => fat'[j] = fat[j]
      /\ fat'[k] \in {fat[k], LAST}
      /\ k < Cluster0(sector[t] + 1) => fat'[k] = LAST
  <2>1. fat \in [Table -> Values]
    BY <1>1 DEF DiskTypeOK
  <2>2. fat' \in [Table -> Values]
    BY <1>2, <1>3, <2>1 DEF WriteTable, Values
  <2>3. \A j \in Table : fat'[j] = IF j \in ClustersOf(sector[t]) THEN fat_table[j] ELSE fat[j]
    BY DEF WriteTable
  <2>4. \A j \in Table : fat_table[j] = IF j = k THEN LAST ELSE fat[j]
    BY <1>2, <1>3, <2>1
  <2> HIDE DEF k
  <2>5. k < Cluster0(sector[t] + 1) => k \in ClustersOf(sector[t]) \/ k < Cluster0(sector[t])
    <3>1. k \in Nat
      BY <1>2, ConstantsAre
    <3>2. QED
      BY <1>2, <3>1, SectorIs
  <2>6. QED
    BY <1>2, <1>3, <2>2, <2>3, <2>4, <2>5
<1>6. /\ \A u \in Tasks \ {t} : Same(u)
      /\ call'[t] = call[t] /\ name'[t] = name[t] /\ content'[t] = content[t]
      /\ cluster'[t] = k /\ slot'[t] = slot[t] /\ call' = call
      /\ \/ pc'[t] = "mark" /\ sector'[t] = sector[t] + 1
         \/ pc'[t] = "fill" /\ sector[t] = FatSectors
  <2>1. CASE sector[t] < FatSectors /\ NextSector(t)
    BY <1>1, <1>4, <2>1, NextSectorIs DEF NextSector
  <2>2. CASE sector[t] >= FatSectors /\ Goto(t, "fill")
    <3>1. "fill" \in CreatePlaces \union ReadPlaces /\ sector[t] = FatSectors
      BY <1>2, <2>2, FilesAssumption DEF CreatePlaces
    <3>2. QED
      BY <1>1, <1>4, <2>2, <3>1, GotoStays DEF Goto
  <2>3. QED
    BY <1>4, <2>1, <2>2
<1> HIDE DEF k
<1>7. Unfinished'
  BY <1>1, <1>3, <1>4, <1>5 DEF KeptFiles, Unfinished, DiskTypeOK, Entered
<1>8. (\A s \in settled : Len(whole[s]) = Len(chain[s]))'
  BY <1>4 DEF KeptFiles
<1>9. FilesStay'
  <2>1. ASSUME NEW s \in settled
        PROVE  Chained(s)'
    <3>1. Chained(s) /\ chain[s] \in Seq(Table)
      BY <1>1 DEF KeptFiles, FilesStay, DiskTypeOK
    <3>2. \A j \in 1 .. Len(chain[s]) : chain[s][j] \in Table /\ chain[s][j] # k
      BY <1>3, <3>1 DEF Owns, Range
    <3>3. \A j \in 1 .. Len(chain[s]) : fat'[chain[s][j]] = fat[chain[s][j]]
      BY <1>5, <3>2
    <3>4. QED
      BY <1>4, <3>1, <3>3 DEF Chained
  <2>2. QED
    BY <1>4, <2>1 DEF KeptFiles, FilesStay, IsFile
<1>10. NothingBehindTheEnd'
  BY <1>4 DEF KeptFiles, NothingBehindTheEnd, IsFile
<1>11. ClustersAccounted'
  <2>1. \A u \in Tasks : Creating(u)' <=> Creating(u)
    BY <1>4, <1>6 DEF Creating
  <2>2. Creating(t) /\ cluster[t] = k
    BY <1>1, <1>2, ConstantsAre DEF Creating, k
  <2>3. QED
    BY <1>4, <1>5, <2>1, <2>2 DEF KeptFiles, ClustersAccounted, IsFile
<1>12. Creation(t)'
  <2>1. IsEntered(t)'
    BY <1>3, <1>4, <1>6 DEF IsEntered, k
  <2>2. fat_table' = [fat' EXCEPT ![k] = LAST]
    BY <1>1, <1>2, <1>3, <1>4, <1>5 DEF DiskTypeOK
  <2>3. pc'[t] = "fill" => fat'[k] = LAST
    <3>1. k < Cluster0(FatSectors + 1)
      BY <1>2, SectorIs DEF Table
    <3>2. QED
      BY <1>5, <1>6, <3>1
  <2>4. \A s \in settled' : ~(k \in Range(chain'[s]))
    BY <1>3, <1>4 DEF Owns
  <2>5. fat'[k] \in {FREE, LAST}
    BY <1>3, <1>5
  <2>6. pc'[t] = "mark" /\ k < Cluster0(sector'[t]) => fat'[k] = LAST
    BY <1>5, <1>6
  <2>7. QED
    BY <1>6, <2>1, <2>2, <2>3, <2>4, <2>5, <2>6 DEF Creation, Owns
<1>13. Grows
  <2>1. \A j \in Table : fat'[j] = fat[j] \/ (fat[j] \in {FREE, LAST} /\ fat'[j] = LAST)
    BY <1>3, <1>5
  <2>2. QED
    BY <1>4, <2>1 DEF Grows
<1>14. QED
  BY <1>1, <1>13, <1>6, <1>7, <1>8, <1>9, <1>10, <1>11, <1>12, OneCreates DEF KeptFiles, Apart

LEMMA FilesWriteData ==
  ASSUME Base, KeptFiles, ~spoiled, ~spoiled', NEW t \in Tasks, WriteData(t)
  PROVE  KeptFiles'
<1>1. LocalsTypeOK /\ InPlace(t) /\ pc[t] = "fill" /\ call[t] = "create" /\ Creation(t)
      /\ Apart /\ DiskTypeOK
  BY DEF Base, KeptFiles, WriteData, At
<1>2. cluster[t] \in Table /\ content[t] \in Contents /\ slot[t] \in Slots \union {0}
      /\ name[t] \in Names
  BY <1>1 DEF InPlace, LocalsTypeOK
<1>3. /\ IsEntered(t) /\ fat[cluster[t]] = LAST /\ \A s \in settled : ~Owns(s, cluster[t])
  BY <1>1 DEF Creation
<1>4. /\ data' = IF cluster[t] <= DiskEnd THEN [data EXCEPT ![cluster[t]] = content[t]]
                 ELSE data
      /\ \/ slot[t] # 0 /\ settled' = settled \union {slot[t]} /\ UNCHANGED lost
         \/ slot[t] = 0 /\ settled' = settled /\ lost' = lost \union {cluster[t]}
      /\ Return(t) /\ UNCHANGED <<fat, root, chain, whole>>
  BY DEF WriteData
<1>5. \A u \in Tasks \ {t} : Same(u) /\ call[u] # "create"
  BY <1>1, <1>4, ReturnIs, OneCreates
<1>6. call'[t] = "none"
  BY <1>1, <1>4, ReturnIs DEF Idle
<1>7. Apart'
  BY <1>1, <1>5, <1>6, ApartStays DEF Same
<1>8. slot[t] # 0 => /\ root[slot[t]] = [name |-> name[t], cluster |-> cluster[t]]
                     /\ chain[slot[t]] = <<cluster[t]>> /\ whole[slot[t]] = <<content[t]>>
  BY <1>3 DEF IsEntered
<1>9. Unfinished'
  BY <1>4 DEF KeptFiles, Unfinished
<1>10. (\A s \in settled : Len(whole[s]) = Len(chain[s]))'
  <2>1. slot[t] # 0 => Len(whole[slot[t]]) = 1 /\ Len(chain[slot[t]]) = 1
    BY <1>8
  <2>2. QED
    BY <1>4, <2>1 DEF KeptFiles
<1>11. FilesStay'
  <2>1. ASSUME NEW s \in settled
        PROVE  IsFile(root[s]) /\ Chained(s)'
    <3>1. Chained(s) /\ IsFile(root[s]) /\ chain[s] \in Seq(Table)
      BY <1>1 DEF KeptFiles, FilesStay, DiskTypeOK
    <3>2. \A j \in 1 .. Len(chain[s]) : chain[s][j] \in Table /\ chain[s][j] # cluster[t]
      BY <1>3, <3>1 DEF Owns, Range
    <3>3. \A j \in 1 .. Len(chain[s]) : data'[chain[s][j]] = data[chain[s][j]]
      BY <1>1, <1>4, <3>2 DEF DiskTypeOK
    <3>4. QED
      BY <1>4, <3>1, <3>3 DEF Chained
  <2>2. ASSUME slot[t] # 0
        PROVE  /\ IsFile(root[slot[t]]) /\ Range(chain[slot[t]]) = {cluster[t]}
               /\ \A s \in Slots : s = slot[t] => Chained(s)'
    <3>1. IsFile(root[slot[t]])
      BY <1>2, <1>8, <2>2 DEF IsFile
    <3>2. cluster[t] <= DiskEnd => data'[cluster[t]] = content[t]
      <4>1. cluster[t] <= DiskEnd => cluster[t] \in 2 .. DiskEnd
        BY <1>2, FilesAssumption, SectorIs, ConstantsAre DEF Table
      <4>2. QED
        BY <1>1, <1>4, <4>1 DEF DiskTypeOK
    <3>3. Len(chain[slot[t]]) = 1 /\ chain[slot[t]][1] = cluster[t] /\ whole[slot[t]][1] = content[t]
          /\ chain[slot[t]] # <<>>
      <4>1. chain[slot[t]] = <<cluster[t]>> /\ whole[slot[t]] = <<content[t]>>
        BY <1>8, <2>2
      <4>2. \A x : Len(<<x>>) = 1 /\ <<x>>[1] = x /\ <<x>> # <<>>
        OBVIOUS
      <4>3. QED
        BY <4>1, <4>2
    <3>4. \A s \in Slots : s = slot[t] => Chained(s)'
      <4>1. \A j \in 1 .. Len(chain[slot[t]]) : j = 1
        BY <3>3
      <4>2. root[slot[t]].cluster = cluster[t]
        BY <1>8, <2>2
      <4>3. chain[slot[t]] # <<>> /\ root[slot[t]].cluster = chain[slot[t]][1]
            /\ \A j \in 1 .. Len(chain[slot[t]]) :
                 /\ fat[chain[slot[t]][j]] =
                      IF j = Len(chain[slot[t]]) THEN LAST ELSE chain[slot[t]][j + 1]
                 /\ chain[slot[t]][j] <= DiskEnd => data'[chain[slot[t]][j]] = whole[slot[t]][j]
        BY <1>3, <3>2, <3>3, <4>1, <4>2
      <4>4. ASSUME NEW s \in Slots, s = slot[t]
            PROVE  Chained(s)'
        BY <1>4, <4>3, <4>4 DEF Chained
      <4>5. QED
        BY <4>4
    <3>5. Range(chain[slot[t]]) = {cluster[t]}
      BY <1>8, <2>2 DEF Range
    <3>6. QED
      BY <3>1, <3>4, <3>5
  <2>3. \A s \in settled' : IsFile(root[s]) /\ Chained(s)'
    <3>1. settled \subseteq Slots /\ (slot[t] # 0 => slot[t] \in Slots)
      BY <1>1, <1>2 DEF DiskTypeOK
    <3>2. QED
      BY <1>4, <2>1, <2>2, <3>1
  <2>4. \A r, s \in settled' : r # s => Range(chain[r]) \cap Range(chain[s]) = {}
    <3>1. \A r, s \in settled : r # s => Range(chain[r]) \cap Range(chain[s]) = {}
      BY DEF KeptFiles, FilesStay
    <3>2. slot[t] # 0 => \A s \in settled : Range(chain[slot[t]]) \cap Range(chain[s]) = {}
      BY <1>3, <2>2 DEF Owns
    <3>3. QED
      BY <1>4, <3>1, <3>2
  <2>5. QED
    BY <1>4, <2>3, <2>4 DEF FilesStay, IsFile
<1>12. NothingBehindTheEnd'
  BY <1>4 DEF KeptFiles, NothingBehindTheEnd, IsFile
<1>13. ClustersAccounted'
  <2>1. ASSUME NEW k \in Table, fat[k] # FREE
        PROVE  \/ \E s \in Slots : IsFile(root[s]) /\ k \in Range(chain[s])
               \/ k \in lost'
               \/ \E u \in Tasks : Creating(u)' /\ cluster'[u] = k
    <3>1. CASE \E s \in Slots : IsFile(root[s]) /\ k \in Range(chain[s])
      BY <3>1
    <3>2. CASE k \in lost
      BY <1>4, <3>2
    <3>3. ASSUME NEW u \in Tasks, Creating(u), cluster[u] = k
          PROVE  k \in lost' \/ \E s \in Slots : IsFile(root[s]) /\ k \in Range(chain[s])
      <4>1. u = t
        BY <1>5, <3>3 DEF Creating
      <4>2. slot[t] # 0 => IsFile(root[slot[t]]) /\ k \in Range(chain[slot[t]])
        BY <1>2, <1>8, <3>3, <4>1 DEF IsFile, Range
      <4>3. QED
        BY <1>2, <1>4, <3>3, <4>1, <4>2
    <3>4. QED
      BY <2>1, <3>1, <3>2, <3>3 DEF KeptFiles, ClustersAccounted
  <2>2. QED
    BY <1>4, <2>1 DEF ClustersAccounted, IsFile
<1>14. QED
  BY <1>5, <1>6, <1>7, <1>9, <1>10, <1>11, <1>12, <1>13 DEF KeptFiles, Same

LEMMA FilesPowerFails ==
  ASSUME Base, KeptFiles, ~spoiled, ~spoiled', PowerFails
  PROVE  KeptFiles'
<1>1. UNCHANGED <<fat, root, data, chain, whole, settled>>
      /\ lost' = lost \union Unentered /\ call' = [t \in Tasks |-> "none"]
  BY DEF PowerFails, disk
<1>2. Unfinished' /\ (\A s \in settled : Len(whole[s]) = Len(chain[s]))'
      /\ FilesStay' /\ NothingBehindTheEnd'
  BY <1>1, DiskStays
<1>3. Apart'
  BY <1>1 DEF Apart, Collide
<1>4. ASSUME NEW u \in Tasks, Creating(u), NEW k \in Table, fat[k] # FREE, cluster[u] = k
      PROVE  k \in lost' \/ \E s \in Slots : IsFile(root[s]) /\ k \in Range(chain[s])
  <2>1. call[u] = "create" /\ cluster[u] # 0 /\ InPlace(u) /\ Creation(u)
        /\ slot[u] \in Slots \union {0}
    BY <1>4 DEF Creating, Base, KeptFiles, LocalsTypeOK
  <2>2. pc[u] \in {"mark", "fill"}
    BY <1>4, <2>1 DEF InPlace, Creation, CreatePlaces
  <2>3. CASE slot[u] = 0
    BY <1>1, <1>4, <2>2, <2>3 DEF Unentered
  <2>4. CASE slot[u] # 0
    <3>1. root[slot[u]].name = name[u] /\ chain[slot[u]] = <<cluster[u]>>
          /\ name[u] \in Names
      BY <2>1, <2>2, <2>4 DEF Creation, IsEntered, InPlace
    <3>2. IsFile(root[slot[u]]) /\ k \in Range(chain[slot[u]])
      BY <1>4, <3>1 DEF IsFile, Range
    <3>3. QED
      BY <2>1, <2>4, <3>2
  <2>5. QED
    BY <2>3, <2>4
<1>5. ClustersAccounted'
  <2>1. ASSUME NEW k \in Table, fat[k] # FREE
        PROVE  k \in lost' \/ \E s \in Slots : IsFile(root[s]) /\ k \in Range(chain[s])
    BY <1>1, <1>4, <2>1 DEF KeptFiles, ClustersAccounted
  <2>2. QED
    BY <1>1, <2>1 DEF ClustersAccounted, IsFile
<1>6. QED
  BY <1>1, <1>2, <1>3, <1>5 DEF KeptFiles

(* A step of a creation, and one of a call that reads.                     *)
LEMMA CreateStepIs ==
  ASSUME Base, NEW t \in Tasks, CreateStep(t)
  PROVE  /\ call[t] = "create" /\ call'[t] \in {"create", "none"}
         /\ \A u \in Tasks \ {t} : Same(u)
         /\ UNCHANGED <<cached_fat, fds, loaded, failures>>
         /\ disk_initialized' => disk_initialized
<1>1. LocalsTypeOK
  BY DEF Base
<1>2. CASE ReadTable(t)
  <2>1. /\ call[t] = "create" /\ UNCHANGED <<cache, fds, loaded, failures>>
        /\ \/ NextSector(t) /\ UNCHANGED <<cluster, slot>>
           \/ Goto(t, "entry") /\ UNCHANGED slot
              /\ \E k : cluster' = [cluster EXCEPT ![t] = k]
           \/ Return(t)
    BY <1>2 DEF ReadTable, At, Take
  <2>2. CASE NextSector(t) /\ UNCHANGED <<cluster, slot>>
    BY <1>1, <2>1, <2>2, NextSectorIs DEF cache
  <2>3. CASE Goto(t, "entry") /\ UNCHANGED slot
             /\ \E k : cluster' = [cluster EXCEPT ![t] = k]
    <3>1. \A u \in Tasks \ {t} : Same(u)
      BY <1>1, <2>3 DEF Goto, Same, LocalsTypeOK
    <3>2. QED
      BY <2>1, <2>3, <3>1 DEF Goto, cache
  <2>4. CASE Return(t)
    BY <1>1, <2>1, <2>4, ReturnIs DEF cache, Idle
  <2>5. QED
    BY <2>1, <2>2, <2>3, <2>4
<1>3. CASE ReadRoot(t)
  <2>1. /\ call[t] = "create" /\ UNCHANGED <<cache, fds, loaded, failures, call, cluster>>
        /\ \/ /\ \E x : slot' = [slot EXCEPT ![t] = x]
              /\ pc' = [pc EXCEPT ![t] = "put"] /\ UNCHANGED <<sector, name, content, fd>>
           \/ NextSector(t) /\ UNCHANGED slot
           \/ Goto(t, "mark") /\ UNCHANGED slot
    BY <1>3 DEF ReadRoot, At, NextSector, Goto
  <2>2. \A u \in Tasks \ {t} : Same(u)
    BY <1>1, <2>1 DEF NextSector, Goto, Same, LocalsTypeOK
  <2>3. QED
    BY <2>1, <2>2 DEF cache
<1>4. CASE PutEntry(t)
  <2>1. /\ call[t] = "create" /\ UNCHANGED <<cache, fds, loaded, failures, cluster, slot>>
        /\ Goto(t, "mark")
    BY <1>4 DEF PutEntry, At
  <2>2. \A u \in Tasks \ {t} : Same(u)
    BY <1>1, <2>1 DEF Goto, Same, LocalsTypeOK
  <2>3. QED
    BY <2>1, <2>2 DEF cache, Goto
<1>5. CASE WriteTable(t)
  <2>1. /\ call[t] = "create" /\ UNCHANGED <<cache, fds, loaded, failures, cluster, slot>>
        /\ NextSector(t) \/ Goto(t, "fill")
    BY <1>5 DEF WriteTable, At
  <2>2. \A u \in Tasks \ {t} : Same(u)
    BY <1>1, <2>1 DEF NextSector, Goto, Same, LocalsTypeOK
  <2>3. QED
    BY <2>1, <2>2 DEF cache, Goto, NextSector
<1>6. CASE WriteData(t)
  <2>1. /\ call[t] = "create" /\ UNCHANGED <<cached_fat, fds, loaded, failures>>
        /\ Return(t) /\ disk_initialized' = FALSE
    BY <1>6 DEF WriteData, At
  <2>2. QED
    BY <1>1, <2>1, ReturnIs DEF Idle
<1>7. QED
  BY <1>2, <1>3, <1>4, <1>5, <1>6 DEF CreateStep

LEMMA ReadStepIs ==
  ASSUME Base, NEW t \in Tasks, ReadStep(t)
  PROVE  /\ call[t] \in {"load"} \union Opening /\ call'[t] \in {call[t], "none"}
         /\ \A u \in Tasks \ {t} : Same(u)
         /\ UNCHANGED <<disk, buffers, made, failures, spoiled>>
<1>1. LocalsTypeOK /\ InPlace(t)
  BY DEF Base
<1>2. pc[t] \in ReadPlaces /\ UNCHANGED <<disk, buffers, made, failures, spoiled>>
  BY DEF ReadStep, ReadCache, Search, ReadCluster, ReadDescribed, assemble_to_bin, At,
         ReadPlaces
<1>3. call[t] \in {"load"} \union Opening
  BY <1>1, <1>2 DEF InPlace, LocalsTypeOK, ReadPlaces, CreatePlaces
<1>4. call'[t] \in {call[t], "none"} /\ \A u \in Tasks \ {t} : Same(u)
  <2>1. CASE ReadCache(t)
    BY <1>1, <2>1 DEF ReadCache, NextSector, Goto, Same, LocalsTypeOK
  <2>2. CASE Search(t)
    <3>1. \/ Return(t)
          \/ NextSector(t) /\ UNCHANGED <<cluster, slot>>
          \/ /\ \E v : fd' = [fd EXCEPT ![t] = v]
             /\ \E s : slot' = [slot EXCEPT ![t] = s]
             /\ pc' = [pc EXCEPT ![t] = "read"]
             /\ UNCHANGED <<call, sector, name, content, cluster>>
          \/ /\ \E k : cluster' = [cluster EXCEPT ![t] = k]
             /\ \E s : slot' = [slot EXCEPT ![t] = s]
             /\ Goto(t, "chain")
      BY <2>2 DEF Search
    <3>2. CASE Return(t)
      BY <1>1, <3>2, ReturnIs DEF Idle
    <3>3. CASE NextSector(t) /\ UNCHANGED <<cluster, slot>>
      BY <1>1, <3>3, NextSectorIs
    <3>4. CASE /\ \E v : fd' = [fd EXCEPT ![t] = v]
               /\ \E s : slot' = [slot EXCEPT ![t] = s]
               /\ pc' = [pc EXCEPT ![t] = "read"]
               /\ UNCHANGED <<call, sector, name, content, cluster>>
      BY <1>1, <3>4 DEF Same, LocalsTypeOK
    <3>5. CASE /\ \E k : cluster' = [cluster EXCEPT ![t] = k]
               /\ \E s : slot' = [slot EXCEPT ![t] = s]
               /\ Goto(t, "chain")
      BY <1>1, <3>5 DEF Same, LocalsTypeOK, Goto
    <3>6. QED
      BY <3>1, <3>2, <3>3, <3>4, <3>5
  <2>3. CASE ReadCluster(t)
    <3>1. CASE Return(t)
      BY <1>1, <3>1, ReturnIs DEF Idle
    <3>2. CASE /\ \E k : cluster' = [cluster EXCEPT ![t] = k]
               /\ UNCHANGED <<call, pc, sector, name, content, fd, slot>>
      BY <1>1, <3>2 DEF Same, LocalsTypeOK
    <3>3. QED
      BY <2>3, <3>1, <3>2 DEF ReadCluster
  <2>4. CASE ReadDescribed(t)
    <3>1. CASE Return(t)
      BY <1>1, <3>1, ReturnIs DEF Idle
    <3>2. CASE Goto(t, "assemble") /\ UNCHANGED <<cluster, slot>>
      BY <1>1, <3>2 DEF Same, LocalsTypeOK, Goto
    <3>3. QED
      BY <2>4, <3>1, <3>2 DEF ReadDescribed
  <2>5. CASE assemble_to_bin(t)
    BY <1>1, <2>5, ReturnIs DEF Idle, assemble_to_bin
  <2>6. QED
    BY <2>1, <2>2, <2>3, <2>4, <2>5 DEF ReadStep
<1>5. QED
  BY <1>2, <1>3, <1>4

LEMMA FilesNextKept ==
  ASSUME Base, KeptFiles, ~spoiled, ~spoiled', [FilesNext]_filesVars
  PROVE  KeptFiles' /\ Grows
<1>1. ASSUME UNCHANGED <<fat, root, chain, whole>>, settled \subseteq settled'
      PROVE  Grows
  BY <1>1 DEF Grows
<1>2. CASE UNCHANGED filesVars
  <2>1. UNCHANGED <<fat, root, data, chain, whole, settled, lost, fat_table, root_buf>>
        /\ UNCHANGED <<call, pc, sector, name, content, cluster, fd, slot>>
    BY <1>2 DEF filesVars, disk, made, buffers, locals
  <2>2. Apart' /\ \A u \in Tasks : Same(u)
    BY <2>1 DEF KeptFiles, Apart, Same
  <2>3. QED
    BY <1>1, <2>1, <2>2, FilesUntouched
<1>3. ASSUME NEW t \in Tasks,
             \/ \E w \in Writes : Create(t, w[1], w[2])
             \/ \E n \in Names : Open(t, n) \/ ReadFile(t, n) \/ Cat(t, n) \/ Casm(t, n)
      PROVE  KeptFiles' /\ Grows
  <2>1. PICK n \in Names :
           \/ \E c \in Contents : Begin(t, "create", "table", n, c)
           \/ \E what \in {"load"} \union Opening :
                Begin(t, what, IF disk_initialized THEN "search" ELSE "cache", n, Nothing)
    BY <1>3, CallIs
  <2>2. ASSUME NEW c \in Contents, Begin(t, "create", "table", n, c)
        PROVE  KeptFiles' /\ Grows
    <3>1. UNCHANGED <<fat, root, chain, whole>> /\ settled \subseteq settled'
      BY <2>2 DEF Begin, disk, made
    <3>2. QED
      BY <1>1, <2>2, <3>1, FilesBegin
  <2>3. ASSUME NEW what \in {"load"} \union Opening,
               Begin(t, what, IF disk_initialized THEN "search" ELSE "cache", n, Nothing)
        PROVE  KeptFiles' /\ Grows
    <3>1. what # "create"
      BY DEF Opening, Commands
    <3>2. PICK where \in {"cache", "search"} : Begin(t, what, where, n, Nothing)
      BY <2>3
    <3>3. UNCHANGED <<fat, root, chain, whole>> /\ settled \subseteq settled'
      BY <3>2 DEF Begin, disk, made
    <3>4. QED
      BY <1>1, <3>1, <3>2, <3>3, FilesBegin
  <2>4. QED
    BY <2>1, <2>2, <2>3
<1>4. ASSUME NEW t \in Tasks, CreateStep(t)
      PROVE  KeptFiles' /\ Grows
  <2>1. CASE ReadTable(t)
    <3>1. UNCHANGED <<fat, root, chain, whole>> /\ settled \subseteq settled'
      BY <2>1 DEF ReadTable, Take, made
    <3>2. QED
      BY <1>1, <2>1, <3>1, FilesReadTable
  <2>2. CASE ReadRoot(t)
    <3>1. UNCHANGED <<fat, root, chain, whole>> /\ settled \subseteq settled'
      BY <2>2 DEF ReadRoot, disk, made
    <3>2. QED
      BY <1>1, <2>2, <3>1, FilesReadRoot
  <2>3. CASE WriteData(t)
    <3>1. UNCHANGED <<fat, root, chain, whole>> /\ settled \subseteq settled'
      BY <2>3 DEF WriteData
    <3>2. QED
      BY <1>1, <2>3, <3>1, FilesWriteData
  <2>4. QED
    BY <1>4, <2>1, <2>2, <2>3, FilesPutEntry, FilesWriteTable DEF CreateStep
<1>5. ASSUME NEW t \in Tasks, ReadStep(t)
      PROVE  KeptFiles' /\ Grows
  <2>1. /\ call[t] \in {"load"} \union Opening /\ call'[t] \in {call[t], "none"}
        /\ \A u \in Tasks \ {t} : Same(u)
        /\ UNCHANGED <<disk, buffers, made, failures, spoiled>>
    BY <1>5, ReadStepIs
  <2>2. call[t] # "create" /\ call'[t] # "create"
    BY <2>1 DEF Opening, Commands
  <2>3. UNCHANGED <<fat, root, data, chain, whole, settled, lost, fat_table, root_buf>>
    BY <2>1 DEF disk, made, buffers
  <2>4. Apart'
    BY <2>1, ApartStays DEF KeptFiles, Same
  <2>5. QED
    BY <1>1, <2>1, <2>2, <2>3, <2>4, FilesUntouched
<1>6. ASSUME NEW t \in Tasks, NEW v \in VfsFds, Close(t, v)
      PROVE  KeptFiles' /\ Grows
  <2>1. UNCHANGED <<fat, root, data, chain, whole, settled, lost, fat_table, root_buf>>
        /\ UNCHANGED <<call, pc, sector, name, content, cluster, fd, slot>>
    BY <1>6 DEF Close, disk, made, buffers, locals
  <2>2. Apart' /\ \A u \in Tasks : Same(u)
    BY <2>1 DEF KeptFiles, Apart, Same
  <2>3. QED
    BY <1>1, <2>1, <2>2, FilesUntouched
<1>7. CASE PowerFails
  <2>1. UNCHANGED <<fat, root, chain, whole>> /\ settled \subseteq settled'
    BY <1>7 DEF PowerFails, disk
  <2>2. QED
    BY <1>1, <1>7, <2>1, FilesPowerFails
<1>8. QED
  BY <1>2, <1>3, <1>4, <1>5, <1>6, <1>7 DEF FilesNext, Meet

-----------------------------------------------------------------------------
(* The copy of the FAT.                                                    *)

LEMMA CopyStays ==
  ASSUME KeptCopy, \A k \in Table : Recent(k) => Recent(k)',
         disk_initialized' => disk_initialized,
         \A u \in Tasks :
           \/ pc'[u] \notin {"cache", "search", "chain"}
           \/ pc'[u] = "cache" /\ sector'[u] = 1
           \/ pc'[u] = "cache" /\ pc[u] = "cache" /\ sector'[u] = sector[u]
           \/ pc[u] \in {"search", "chain"}
           \/ pc'[u] = "search" /\ disk_initialized
  PROVE  KeptCopy'
<1>1. disk_initialized' => \A k \in Table : Recent(k)'
  BY DEF KeptCopy
<1>2. ASSUME NEW u \in Tasks
      PROVE  /\ pc'[u] = "cache" => \A k \in Table : k < Cluster0(sector'[u]) => Recent(k)'
             /\ pc'[u] \in {"search", "chain"} => \A k \in Table : Recent(k)'
  <2>1. CASE pc'[u] = "cache" /\ sector'[u] = 1
    BY <2>1, NoneBefore
  <2>2. CASE pc'[u] = "cache" /\ pc[u] = "cache" /\ sector'[u] = sector[u]
    BY <2>2 DEF KeptCopy
  <2>3. CASE pc[u] \in {"search", "chain"} \/ disk_initialized
    BY <2>3 DEF KeptCopy
  <2>4. QED
    BY <2>1, <2>2, <2>3
<1>3. QED
  BY <1>1, <1>2 DEF KeptCopy, Recent

LEMMA CopyReadCache ==
  ASSUME Base, KeptCopy, NEW t \in Tasks, ReadCache(t)
  PROVE  KeptCopy'
<1>1. LocalsTypeOK /\ InPlace(t) /\ pc[t] = "cache" /\ DiskTypeOK /\ MemoryTypeOK
  BY DEF Base, ReadCache
<1>2. sector[t] \in 1 .. FatSectors
  BY <1>1 DEF InPlace
<1>3. fat' = fat /\ UNCHANGED <<cluster, slot>>
      /\ \A k \in Table :
           cached_fat'[k] = IF k \in ClustersOf(sector[t]) THEN fat[k] ELSE cached_fat[k]
  BY DEF ReadCache, disk
<1>4. \A k \in Table : Recent(k) => Recent(k)'
  BY <1>3 DEF Recent
<1>5. \A k \in Table : k < Cluster0(sector[t] + 1) => Recent(k)'
  <2>1. ASSUME NEW k \in Table, k < Cluster0(sector[t] + 1)
        PROVE  Recent(k)'
    <3>1. k \in Nat
      BY ConstantsAre
    <3>2. k \in ClustersOf(sector[t]) \/ k < Cluster0(sector[t])
      BY <1>2, <2>1, <3>1, SectorIs
    <3>3. CASE k \in ClustersOf(sector[t])
      BY <1>3, <3>3 DEF Recent
    <3>4. CASE k < Cluster0(sector[t])
      BY <1>1, <1>4, <3>4 DEF KeptCopy
    <3>5. QED
      BY <3>2, <3>3, <3>4
  <2>2. QED
    BY <2>1
<1>6. CASE sector[t] < FatSectors
  <2>1. NextSector(t) /\ disk_initialized' = disk_initialized
    BY <1>6 DEF ReadCache
  <2>2. pc'[t] = "cache" /\ sector'[t] = sector[t] + 1 /\ \A u \in Tasks \ {t} : Same(u)
    BY <1>1, <1>3, <2>1, NextSectorIs
  <2>3. \A u \in Tasks :
          /\ pc'[u] = "cache" => \A k \in Table : k < Cluster0(sector'[u]) => Recent(k)'
          /\ pc'[u] \in {"search", "chain"} => \A k \in Table : Recent(k)'
    BY <1>4, <1>5, <2>2 DEF KeptCopy, Same
  <2>4. disk_initialized' => \A k \in Table : Recent(k)'
    BY <1>4, <2>1 DEF KeptCopy
  <2>5. QED
    BY <2>3, <2>4 DEF KeptCopy, Recent
<1>7. CASE ~(sector[t] < FatSectors)
  <2>1. Goto(t, "search") /\ sector[t] = FatSectors
        /\ "search" \in CreatePlaces \union ReadPlaces
    BY <1>2, <1>7, FilesAssumption DEF ReadCache, ReadPlaces
  <2>2. pc'[t] = "search" /\ \A u \in Tasks \ {t} : Same(u)
    BY <1>1, <1>3, <2>1, GotoStays
  <2>3. \A k \in Table : k < Cluster0(FatSectors + 1)
    BY <1>2, SectorIs DEF Table
  <2>4. \A k \in Table : Recent(k)'
    BY <1>5, <2>1, <2>3
  <2>5. QED
    BY <2>4 DEF KeptCopy, Recent
<1>8. QED
  BY <1>6, <1>7

-----------------------------------------------------------------------------
(* Files that are open.                                                    *)

LEMMA OpenStays ==
  ASSUME MemoryTypeOK, KeptOpen, Grows, UNCHANGED fds,
         \A u \in Tasks :
           pc'[u] = "read" => pc[u] = "read" /\ fd'[u] = fd[u] /\ slot'[u] = slot[u]
  PROVE  KeptOpen'
<1>1. UNCHANGED <<fd_cluster, vfs_fd, fd_slot, robbed>>
  BY DEF fds
<1>2. ASSUME NEW f \in Fds, fd_cluster'[f] # 0
      PROVE  /\ fd_slot'[f] \in Slots /\ IsFile(root'[fd_slot'[f]])
             /\ fd_cluster'[f] = root'[fd_slot'[f]].cluster
  BY <1>1, <1>2 DEF KeptOpen, Grows
<1>3. \A u \in Tasks :
        pc'[u] = "read" /\ u \notin robbed' =>
          vfs_fd'[fd'[u]] # 0 /\ fd_slot'[vfs_fd'[fd'[u]]] = slot'[u]
  BY <1>1 DEF KeptOpen
<1>4. QED
  BY <1>2, <1>3 DEF KeptOpen, IsFile

LEMMA OpenSearch ==
  ASSUME Base, KeptOpen, NEW t \in Tasks, Search(t)
  PROVE  KeptOpen'
<1> DEFINE s == Least(Stops(sector[t], name[t]))
           f == Least(FreeFds)
           v == Least(FreeVfsFds)
<1>1. LocalsTypeOK /\ MemoryTypeOK /\ InPlace(t) /\ pc[t] = "search" /\ root' = root
      /\ \A u \in Tasks : InPlace(u)
  BY DEF Base, Search, disk
<1>2. \A u \in Tasks \ {t} : Same(u)
  BY ReadStepIs DEF ReadStep
<1>3. CASE UNCHANGED fds /\ pc'[t] # "read"
  <2>1. UNCHANGED <<fd_cluster, vfs_fd, fd_slot, robbed>>
    BY <1>3 DEF fds
  <2>2. QED
    BY <1>1, <1>2, <1>3, <2>1 DEF KeptOpen, IsFile, Same
<1>4. CASE /\ Stops(sector[t], name[t]) # {} /\ root[s].name # "end"
           /\ call[t] \in Opening /\ Describe(t, s)
           /\ \/ pc'[t] # "read"
              \/ /\ FreeFds # {} /\ FreeVfsFds # {}
                 /\ fd' = [fd EXCEPT ![t] = v] /\ slot' = [slot EXCEPT ![t] = s]
  <2>1. s \in Slots /\ IsFile(root[s]) /\ root[s].cluster \in Table
    BY <1>1, <1>4, FoundIs
  <2>2. /\ FreeFds # {} => f \in Fds /\ fd_cluster[f] = 0
        /\ FreeVfsFds # {} => v \in VfsFds /\ vfs_fd[v] = 0
    BY <1>4, <2>1, DescribeIs
  <2>3. \A u \in Tasks \ {t} : pc[u] = "read" => fd[u] \in VfsFds
    BY <1>1 DEF InPlace
  <2>4. \/ UNCHANGED <<fd_cluster, vfs_fd, fd_slot, robbed>>
           /\ (FreeFds = {} \/ FreeVfsFds = {})
        \/ /\ f \in Fds /\ v \in VfsFds /\ fd_cluster[f] = 0 /\ vfs_fd[v] = 0
           /\ fd_cluster' = [fd_cluster EXCEPT ![f] = root[s].cluster]
           /\ fd_slot' = [fd_slot EXCEPT ![f] = s]
           /\ vfs_fd' = [vfs_fd EXCEPT ![v] = f] /\ robbed' = robbed \ {t}
    BY <1>4, <2>2 DEF Describe, fds
  <2> HIDE DEF s, f, v
  <2>5. \A g \in Fds : fd_cluster'[g] # 0 =>
          /\ fd_slot'[g] \in Slots /\ IsFile(root[fd_slot'[g]])
          /\ fd_cluster'[g] = root[fd_slot'[g]].cluster
    <3>1. CASE UNCHANGED <<fd_cluster, vfs_fd, fd_slot>>
      BY <3>1 DEF KeptOpen
    <3>2. CASE /\ f \in Fds /\ v \in VfsFds
               /\ fd_cluster' = [fd_cluster EXCEPT ![f] = root[s].cluster]
               /\ fd_slot' = [fd_slot EXCEPT ![f] = s]
               /\ vfs_fd' = [vfs_fd EXCEPT ![v] = f]
      <4>1. fd_cluster \in [Fds -> Table \union {0}] /\ fd_slot \in [Fds -> Slots \union {0}]
        BY <1>1 DEF MemoryTypeOK
      <4>2. fd_cluster'[f] = root[s].cluster /\ fd_slot'[f] = s
            /\ \A g \in Fds : g # f => fd_cluster'[g] = fd_cluster[g] /\ fd_slot'[g] = fd_slot[g]
        BY <3>2, <4>1
      <4>3. QED
        BY <2>1, <4>2 DEF KeptOpen
    <3>3. QED
      BY <2>4, <3>1, <3>2
  <2>6. \A u \in Tasks : pc'[u] = "read" /\ u \notin robbed' =>
          vfs_fd'[fd'[u]] # 0 /\ fd_slot'[vfs_fd'[fd'[u]]] = slot'[u]
    <3>1. ASSUME pc'[t] = "read"
          PROVE  vfs_fd'[fd'[t]] # 0 /\ fd_slot'[vfs_fd'[fd'[t]]] = slot'[t]
      <4>1. /\ f \in Fds /\ v \in VfsFds
            /\ fd_slot' = [fd_slot EXCEPT ![f] = s]
            /\ vfs_fd' = [vfs_fd EXCEPT ![v] = f]
            /\ fd' = [fd EXCEPT ![t] = v] /\ slot' = [slot EXCEPT ![t] = s]
        BY <1>4, <2>4, <3>1
      <4>2. fd'[t] = v /\ slot'[t] = s
        BY <1>1, <4>1 DEF LocalsTypeOK
      <4>3. vfs_fd'[v] = f /\ fd_slot'[f] = s /\ f # 0
        BY <1>1, <4>1, ConstantsAre DEF MemoryTypeOK
      <4>4. QED
        BY <4>2, <4>3
    <3>2. ASSUME NEW u \in Tasks \ {t}, pc'[u] = "read", u \notin robbed'
          PROVE  vfs_fd'[fd'[u]] # 0 /\ fd_slot'[vfs_fd'[fd'[u]]] = slot'[u]
      <4>1. /\ pc[u] = "read" /\ u \notin robbed /\ fd'[u] = fd[u] /\ slot'[u] = slot[u]
            /\ fd[u] \in VfsFds
        BY <1>2, <2>3, <2>4, <3>2 DEF Same
      <4>2. vfs_fd[fd[u]] # 0 /\ fd_slot[vfs_fd[fd[u]]] = slot[u] /\ vfs_fd[fd[u]] \in Fds
        BY <1>1, <4>1 DEF KeptOpen, MemoryTypeOK
      <4>3. fd_cluster[vfs_fd[fd[u]]] # 0
        BY <4>1, <4>2 DEF Base, Descriptors
      <4>4. CASE UNCHANGED <<fd_cluster, vfs_fd, fd_slot, robbed>>
        BY <4>1, <4>2, <4>4
      <4>5. CASE /\ f \in Fds /\ v \in VfsFds /\ fd_cluster[f] = 0 /\ vfs_fd[v] = 0
                 /\ fd_slot' = [fd_slot EXCEPT ![f] = s]
                 /\ vfs_fd' = [vfs_fd EXCEPT ![v] = f]
        <5>1. fd[u] # v /\ vfs_fd[fd[u]] # f
          BY <4>2, <4>3, <4>5
        <5>2. /\ vfs_fd'[fd[u]] = vfs_fd[fd[u]]
              /\ fd_slot'[vfs_fd[fd[u]]] = fd_slot[vfs_fd[fd[u]]]
          BY <1>1, <4>1, <4>2, <4>5, <5>1 DEF MemoryTypeOK
        <5>3. QED
          BY <4>1, <4>2, <5>2
      <4>6. QED
        BY <2>4, <4>4, <4>5
    <3>3. QED
      BY <3>1, <3>2
  <2>7. QED
    BY <1>1, <2>5, <2>6 DEF KeptOpen, IsFile
<1>5. \/ UNCHANGED fds /\ pc'[t] # "read"
      \/ /\ Stops(sector[t], name[t]) # {} /\ root[s].name # "end"
         /\ call[t] \in Opening /\ Describe(t, s)
         /\ \/ pc'[t] # "read"
            \/ /\ FreeFds # {} /\ FreeVfsFds # {}
               /\ fd' = [fd EXCEPT ![t] = v] /\ slot' = [slot EXCEPT ![t] = s]
  <2>1. Return(t) => pc'[t] = "idle"
    BY <1>1 DEF Return, LocalsTypeOK
  <2>2. NextSector(t) => pc'[t] = "search"
    BY <1>1 DEF NextSector
  <2>3. Goto(t, "chain") => pc'[t] = "chain"
    BY <1>1 DEF Goto, LocalsTypeOK
  <2>4. QED
    BY <2>1, <2>2, <2>3 DEF Search
<1>6. QED
  BY <1>3, <1>4, <1>5

LEMMA OpenCloses ==
  ASSUME Base, KeptOpen, root' = root, NEW t \in Tasks, NEW v \in VfsFds,
         CloseBoth(t, v), pc'[t] # "read",
         \A u \in Tasks :
           pc'[u] = "read" => pc[u] = "read" /\ fd'[u] = fd[u] /\ slot'[u] = slot[u]
  PROVE  KeptOpen'
<1>1. /\ fd_cluster \in [Fds -> Table \union {0}] /\ vfs_fd \in [VfsFds -> Fds \union {0}]
      /\ fd_slot \in [Fds -> Slots \union {0}] /\ Descriptors
  BY DEF Base, MemoryTypeOK
<1>2. CASE vfs_fd[v] = 0
  <2>1. UNCHANGED <<fd_cluster, vfs_fd, fd_slot, robbed>>
    BY <1>2 DEF CloseBoth, fds
  <2>2. QED
    BY <2>1 DEF KeptOpen, IsFile
<1>3. CASE vfs_fd[v] # 0
  <2>1. /\ fd_cluster' = [fd_cluster EXCEPT ![vfs_fd[v]] = 0]
        /\ fd_slot' = [fd_slot EXCEPT ![vfs_fd[v]] = 0]
        /\ vfs_fd' = [vfs_fd EXCEPT ![v] = 0] /\ vfs_fd[v] \in Fds
        /\ robbed' = robbed \union (Having(v) \ {t})
    BY <1>1, <1>3 DEF CloseBoth
  <2>2. /\ fd_cluster'[vfs_fd[v]] = 0 /\ vfs_fd'[v] = 0
        /\ \A g \in Fds : g # vfs_fd[v] => fd_cluster'[g] = fd_cluster[g]
                                            /\ fd_slot'[g] = fd_slot[g]
        /\ \A w \in VfsFds : w # v => vfs_fd'[w] = vfs_fd[w]
    BY <1>1, <2>1
  <2>3. \A g \in Fds : fd_cluster'[g] # 0 =>
          /\ fd_slot'[g] \in Slots /\ IsFile(root[fd_slot'[g]])
          /\ fd_cluster'[g] = root[fd_slot'[g]].cluster
    BY <2>2 DEF KeptOpen
  <2>4. ASSUME NEW u \in Tasks, pc'[u] = "read", u \notin robbed'
        PROVE  vfs_fd'[fd'[u]] # 0 /\ fd_slot'[vfs_fd'[fd'[u]]] = slot'[u]
    <3>1. pc[u] = "read" /\ fd'[u] = fd[u] /\ slot'[u] = slot[u] /\ fd[u] \in VfsFds
          /\ u \notin robbed /\ u # t
      BY <2>1, <2>4 DEF Base, InPlace
    <3>2. vfs_fd[fd[u]] # 0 /\ fd_slot[vfs_fd[fd[u]]] = slot[u]
      BY <3>1 DEF KeptOpen
    <3>3. fd[u] # v
      BY <2>1, <2>4, <3>1 DEF Having
    <3>4. vfs_fd[fd[u]] # vfs_fd[v] /\ vfs_fd[fd[u]] \in Fds
      BY <1>1, <1>3, <3>1, <3>2, <3>3 DEF Descriptors
    <3>5. QED
      BY <2>2, <3>1, <3>2, <3>3, <3>4
  <2>5. QED
    BY <2>3, <2>4 DEF KeptOpen, IsFile
<1>4. QED
  BY <1>2, <1>3

-----------------------------------------------------------------------------
(* What read_file has read.                                                *)

LEMMA ReadsStay ==
  ASSUME Base, KeptReads, Grows,
         \A u \in Tasks :
           /\ pc'[u] = "chain" =>
                pc[u] = "chain" /\ slot'[u] = slot[u] /\ cluster'[u] = cluster[u]
                /\ loaded'[u] = loaded[u]
           /\ pc'[u] \in {"cache", "search"} => loaded'[u] = <<>>
  PROVE  KeptReads'
<1>1. ASSUME NEW u \in Tasks, pc'[u] = "chain"
      PROVE  Loading(u)'
  <2>1. /\ pc[u] = "chain" /\ slot'[u] = slot[u] /\ cluster'[u] = cluster[u]
        /\ loaded'[u] = loaded[u] /\ slot[u] \in Slots /\ Loading(u)
    BY <1>1 DEF Base, InPlace, LocalsTypeOK, KeptReads
  <2>2. IsFile(root[slot[u]]) /\ root'[slot[u]] = root[slot[u]]
    BY <2>1 DEF Loading, Grows
  <2>3. slot[u] \in settled => /\ slot[u] \in settled'
                               /\ chain'[slot[u]] = chain[slot[u]]
                               /\ whole'[slot[u]] = whole[slot[u]]
    BY DEF Grows
  <2>4. QED
    BY <2>1, <2>2, <2>3 DEF Loading, IsFile
<1>2. QED
  BY <1>1 DEF KeptReads

(* Where the copy of the FAT leads from a cluster of a file.               *)
LEMMA FollowingIs ==
  ASSUME Base, ~spoiled, KeptFiles, KeptCopy, KeptReads, NEW t \in Tasks, pc[t] = "chain"
  PROVE  LET s == slot[t]
             n == Len(loaded[t])
             following == cached_fat[cluster[t]]
         IN  /\ s \in Slots /\ n \in Nat /\ cluster[t] \in Table
             /\ following \notin {FREE, LAST} =>
                  s \in settled /\ n + 1 < Len(chain[s]) /\ following = chain[s][n + 2]
             /\ s \in settled =>
                  /\ n < Len(chain[s]) /\ cluster[t] = chain[s][n + 1]
                  /\ following \in {FREE, LAST} => n + 1 = Len(chain[s])
<1> DEFINE s == slot[t]
           n == Len(loaded[t])
           following == cached_fat[cluster[t]]
<1>1. s \in Slots /\ cluster[t] \in Table
  BY DEF Base, InPlace, LocalsTypeOK
<1>2. n \in Nat
  <2>1. loaded[t] \in Seq(Contents \union {Nothing, Key})
    BY DEF Base, MemoryTypeOK
  <2>2. QED
    BY <2>1
<1>3. Loading(t) /\ Recent(cluster[t])
  BY <1>1 DEF KeptReads, KeptCopy
<1>4. chain[s] \in Seq(Table) /\ fat \in [Table -> Values]
  BY <1>1 DEF Base, DiskTypeOK
<1>5. Len(chain[s]) \in Nat
  BY <1>4
<1>6. s \in settled => Chained(s)
  BY DEF KeptFiles, FilesStay
<1>7. s \in settled => n < Len(chain[s]) /\ cluster[t] = chain[s][n + 1]
  <2>1. CASE n = 0
    <3>1. cluster[t] = root[s].cluster
      BY <1>3, <2>1 DEF Loading
    <3>2. s \in settled => chain[s] # <<>> /\ root[s].cluster = chain[s][1]
      BY <1>6 DEF Chained
    <3>3. chain[s] # <<>> => Len(chain[s]) > 0
      BY <1>4, EmptySeq, <1>5
    <3>4. 0 + 1 = 1
      OBVIOUS
    <3>5. QED
      BY <2>1, <3>1, <3>2, <3>3, <3>4
  <2>2. CASE n # 0
    BY <1>3, <2>2 DEF Loading
  <2>3. QED
    BY <2>1, <2>2
<1>8. fat[cluster[t]] \in Values /\ cached_fat[cluster[t]] \in Values
  BY <1>1, <1>4 DEF Base, MemoryTypeOK
<1>9. following \notin {FREE, LAST} => following = fat[cluster[t]]
  BY <1>3, ConstantsAre DEF Recent
<1>10. s \in settled =>
         fat[cluster[t]] = IF n + 1 = Len(chain[s]) THEN LAST ELSE chain[s][n + 2]
  <2>1. s \in settled => n + 1 \in 1 .. Len(chain[s])
    BY <1>2, <1>5, <1>7
  <2>2. n + 1 + 1 = n + 2
    BY <1>2
  <2> HIDE DEF n
  <2>3. QED
    BY <1>6, <1>7, <2>1, <2>2 DEF Chained
<1>11. s \in settled /\ n + 1 # Len(chain[s]) => chain[s][n + 2] \in Table
  <2>1. s \in settled /\ n + 1 # Len(chain[s]) => n + 2 \in 1 .. Len(chain[s])
    BY <1>2, <1>5, <1>7
  <2> HIDE DEF n
  <2>2. QED
    BY <1>4, <2>1
<1>12. following \notin {FREE, LAST} => s \in settled
  <2>1. SUFFICES ASSUME following \notin {FREE, LAST}, s \notin settled
                 PROVE  FALSE
    OBVIOUS
  <2>2. n = 0 /\ cluster[t] = root[s].cluster /\ IsFile(root[s])
    BY <1>3, <2>1 DEF Loading
  <2>3. fat[cluster[t]] \in {FREE, LAST}
    BY <1>1, <2>1, <2>2 DEF KeptFiles, Unfinished
  <2>4. QED
    BY <1>9, <2>1, <2>3
<1>13. following \in {FREE, LAST} /\ s \in settled => n + 1 = Len(chain[s])
  <2>1. following \in {FREE, LAST} => fat[cluster[t]] \in {FREE, LAST}
    BY <1>3 DEF Recent
  <2>2. QED
    BY <1>10, <1>11, <2>1, ConstantsAre
<1>14. following \notin {FREE, LAST} => n + 1 < Len(chain[s]) /\ following = chain[s][n + 2]
  <2>1. following \notin {FREE, LAST} => n + 1 # Len(chain[s])
    BY <1>9, <1>10, <1>12
  <2>2. s \in settled /\ n + 1 # Len(chain[s]) => n + 1 < Len(chain[s])
    BY <1>2, <1>5, <1>7
  <2>3. QED
    BY <1>9, <1>10, <1>12, <2>1, <2>2
<1>15. QED
  BY <1>1, <1>2, <1>7, <1>12, <1>13, <1>14

LEMMA ReadsCluster ==
  ASSUME Base, ~spoiled, KeptFiles, KeptCopy, KeptReads, NEW t \in Tasks, ReadCluster(t)
  PROVE  KeptReads'
<1> DEFINE s == slot[t]
           n == Len(loaded[t])
           following == cached_fat[cluster[t]]
<1>1. LocalsTypeOK /\ pc[t] = "chain" /\ UNCHANGED <<fat, root, data, chain, whole, settled>>
      /\ loaded' = [loaded EXCEPT ![t] = Append(loaded[t], Holds(cluster[t]))]
  BY DEF Base, ReadCluster, At, disk, made
<1>2. \A u \in Tasks \ {t} : Same(u)
  BY ReadStepIs DEF ReadStep
<1>3. loaded \in [Tasks -> Seq(Contents \union {Nothing, Key})]
  BY DEF Base, MemoryTypeOK
<1>4. ASSUME NEW u \in Tasks, u # t
      PROVE  /\ pc'[u] = "chain" => Loading(u)'
             /\ pc'[u] \in {"cache", "search"} => loaded'[u] = <<>>
  <2>1. Same(u) /\ loaded'[u] = loaded[u]
    BY <1>1, <1>2, <1>3, <1>4
  <2>2. pc'[u] = "chain" => Loading(u)'
    <3>1. /\ pc'[u] = pc[u] /\ slot'[u] = slot[u] /\ cluster'[u] = cluster[u]
          /\ pc[u] = "chain" => Loading(u)
      BY <2>1 DEF Same, KeptReads
    <3>2. Loading(u) => Loading(u)'
      BY <1>1, <2>1, <3>1 DEF Loading, IsFile
    <3>3. QED
      BY <3>1, <3>2
  <2>3. QED
    BY <2>1, <2>2 DEF Same, KeptReads
<1>5. CASE Return(t)
  <2>1. pc'[t] = "idle"
    BY <1>1, <1>5, ReturnIs DEF Idle
  <2>2. QED
    BY <1>4, <2>1 DEF KeptReads
<1>6. CASE /\ following \notin {FREE, LAST}
           /\ cluster' = [cluster EXCEPT ![t] = following]
           /\ UNCHANGED <<call, pc, sector, name, content, fd, slot>>
  <2>1. /\ s \in settled /\ n + 1 < Len(chain[s]) /\ following = chain[s][n + 2]
        /\ s \in Slots /\ n \in Nat /\ cluster[t] \in Table
        /\ n < Len(chain[s]) /\ cluster[t] = chain[s][n + 1]
    BY <1>1, <1>6, FollowingIs
  <2>2. Holds(cluster[t]) \in Contents \union {Nothing, Key}
    BY <2>1, HoldsIs
  <2>3. loaded'[t] = Append(loaded[t], Holds(cluster[t]))
    BY <1>1, <1>3
  <2>4. /\ Len(loaded'[t]) = n + 1 /\ loaded'[t][n + 1] = Holds(cluster[t])
        /\ \A j \in 1 .. n : loaded'[t][j] = loaded[t][j]
    BY <1>3, <2>2, <2>3
  <2>5. cluster'[t] = chain[s][n + 2] /\ slot'[t] = s /\ pc' = pc
    BY <1>1, <1>6, <2>1 DEF LocalsTypeOK
  <2>6. Loading(t) /\ Chained(s)
    BY <1>1, <2>1 DEF KeptReads, KeptFiles, FilesStay
  <2>7. \A j \in 1 .. n : chain[s][j] <= DiskEnd => loaded[t][j] = whole[s][j]
    BY <2>1, <2>6 DEF Loading
  <2>8. Len(chain[s]) \in Nat
    BY <2>1 DEF Base, DiskTypeOK
  <2>9. chain[s][n + 1] <= DiskEnd => loaded'[t][n + 1] = whole[s][n + 1]
    <3>1. n + 1 \in 1 .. Len(chain[s])
      BY <2>1, <2>8
    <3> HIDE DEF n, s
    <3>2. chain[s][n + 1] <= DiskEnd => data[chain[s][n + 1]] = whole[s][n + 1]
      BY <2>6, <3>1 DEF Chained
    <3>3. QED
      BY <2>1, <2>4, <3>2 DEF Holds
  <2>10. \A j \in 1 .. n + 1 : chain[s][j] <= DiskEnd => loaded'[t][j] = whole[s][j]
    <3> HIDE DEF n, s
    <3>1. \A j \in 1 .. n + 1 : j \in 1 .. n \/ j = n + 1
      BY <2>1
    <3>2. QED
      BY <2>4, <2>7, <2>9, <3>1
  <2>11. Loading(t)'
    <3>1. IsFile(root[s])
      BY <2>6 DEF Loading
    <3>2. n + 1 + 1 = n + 2 /\ n + 1 # 0
      BY <2>1
    <3> HIDE DEF n, s
    <3>3. QED
      BY <1>1, <2>1, <2>4, <2>5, <2>10, <3>1, <3>2 DEF Loading, IsFile
  <2>12. QED
    BY <1>1, <1>4, <2>5, <2>11 DEF KeptReads
<1>7. QED
  BY <1>5, <1>6 DEF ReadCluster

LEMMA ReadsSearch ==
  ASSUME Base, KeptReads, NEW t \in Tasks, Search(t)
  PROVE  KeptReads'
<1> DEFINE s == Least(Stops(sector[t], name[t]))
<1>1. LocalsTypeOK /\ pc[t] = "search" /\ UNCHANGED <<root, chain, whole, settled, loaded>>
  BY DEF Base, Search, disk, made
<1>2. \A u \in Tasks \ {t} : Same(u)
  BY ReadStepIs DEF ReadStep
<1>3. loaded[t] = <<>>
  BY <1>1 DEF KeptReads
<1>4. ASSUME NEW u \in Tasks, u # t
      PROVE  /\ pc'[u] = "chain" => Loading(u)'
             /\ pc'[u] \in {"cache", "search"} => loaded'[u] = <<>>
  <2>1. /\ pc'[u] = pc[u] /\ slot'[u] = slot[u] /\ cluster'[u] = cluster[u]
        /\ pc[u] = "chain" => Loading(u)
    BY <1>2, <1>4 DEF Same, KeptReads
  <2>2. Loading(u) => Loading(u)'
    BY <1>1, <2>1 DEF Loading, IsFile
  <2>3. QED
    BY <1>1, <2>1, <2>2 DEF KeptReads
<1>5. pc'[t] = "chain" => Loading(t)'
  <2>1. SUFFICES ASSUME pc'[t] = "chain"
                 PROVE  Loading(t)'
    OBVIOUS
  <2>2. /\ Stops(sector[t], name[t]) # {} /\ root[s].name # "end"
        /\ cluster' = [cluster EXCEPT ![t] = root[s].cluster]
        /\ slot' = [slot EXCEPT ![t] = s]
    <3>1. Return(t) => pc'[t] = "idle"
      BY <1>1 DEF Return, LocalsTypeOK
    <3>2. NextSector(t) => pc'[t] = "search"
      BY <1>1 DEF NextSector
    <3>3. pc' = [pc EXCEPT ![t] = "read"] => pc'[t] = "read"
      BY <1>1 DEF LocalsTypeOK
    <3>4. QED
      BY <2>1, <3>1, <3>2, <3>3 DEF Search
  <2>3. s \in Slots /\ IsFile(root[s])
    BY <1>1, <2>2, FoundIs
  <2>4. cluster'[t] = root[s].cluster /\ slot'[t] = s
    BY <1>1, <2>2 DEF LocalsTypeOK
  <2>5. Len(loaded'[t]) = 0
    BY <1>1, <1>3
  <2> HIDE DEF s
  <2>6. QED
    BY <1>1, <2>3, <2>4, <2>5 DEF Loading, IsFile
<1>6. QED
  BY <1>1, <1>3, <1>4, <1>5 DEF KeptReads

LEMMA ReadingInit ==
  ASSUME FilesInit
  PROVE  KeptFiles /\ KeptCopy /\ KeptOpen /\ KeptReads
<1>1. PICK image \in Images :
         /\ fat = image.fat /\ root = image.root /\ data = image.data
         /\ chain = image.chain /\ whole = image.whole
         /\ settled = {s \in Slots : IsFile(root[s])}
  BY DEF FilesInit
<1>2. IsImage(image) /\ DiskTypeOK
  BY ImagesAssumption, BaseInit DEF Base
<1>3. /\ call = [t \in Tasks |-> "none"] /\ pc = [t \in Tasks |-> "idle"]
      /\ disk_initialized = FALSE /\ fd_cluster = [f \in Fds |-> 0]
  BY DEF FilesInit, MemoryInit
<1>4. Apart /\ \A t \in Tasks : call[t] # "create"
  BY <1>3 DEF Apart, Collide
<1>5. Unfinished
  BY <1>1 DEF Unfinished
<1>6. \A s \in settled : Chained(s) /\ IsFile(root[s]) /\ Len(whole[s]) = Len(chain[s])
  <2>1. ASSUME NEW s \in settled
        PROVE  Chained(s) /\ IsFile(root[s]) /\ Len(whole[s]) = Len(chain[s])
    <3>1. s \in Slots /\ IsFile(image.root[s])
      BY <1>1
    <3>2. /\ chain[s] # <<>> /\ root[s].cluster = chain[s][1]
          /\ Len(whole[s]) = Len(chain[s])
          /\ \A j \in 1 .. Len(chain[s]) :
               /\ fat[chain[s][j]] = IF j = Len(chain[s]) THEN LAST ELSE chain[s][j + 1]
               /\ chain[s][j] <= DiskEnd => data[chain[s][j]] = whole[s][j]
      BY <1>1, <1>2, <3>1 DEF IsImage
    <3>3. QED
      BY <1>1, <3>1, <3>2 DEF Chained
  <2>2. QED
    BY <2>1
<1>7. \A r, s \in settled : r # s => Range(chain[r]) \cap Range(chain[s]) = {}
  <2>1. ASSUME NEW r \in settled, NEW s \in settled, r # s,
               NEW k \in Range(chain[r]) \cap Range(chain[s])
        PROVE  FALSE
    <3>1. PICK i \in 1 .. Len(chain[r]) : chain[r][i] = k
      BY <1>1, <1>2, <2>1 DEF DiskTypeOK, Range
    <3>2. PICK j \in 1 .. Len(chain[s]) : chain[s][j] = k
      BY <1>1, <1>2, <2>1 DEF DiskTypeOK, Range
    <3>3. k \in Table
      BY <1>1, <1>2, <3>1 DEF DiskTypeOK
    <3>4. r \in Slots /\ s \in Slots /\ IsFile(image.root[r]) /\ IsFile(image.root[s])
      BY <1>1
    <3>5. QED
      BY <1>1, <1>2, <2>1, <3>1, <3>2, <3>3, <3>4 DEF IsImage
  <2>2. QED
    BY <2>1
<1>8. FilesStay
  BY <1>6, <1>7 DEF FilesStay
<1>9. NothingBehindTheEnd
  BY <1>1, <1>2 DEF IsImage, NothingBehindTheEnd
<1>10. ClustersAccounted
  <2>1. ASSUME NEW k \in Table, fat[k] # FREE
        PROVE  \E s \in Slots : IsFile(root[s]) /\ k \in Range(chain[s])
    <3>1. PICK s \in Slots : /\ IsFile(image.root[s])
                             /\ \E j \in 1 .. Len(image.chain[s]) : image.chain[s][j] = k
      BY <1>1, <1>2, <2>1 DEF IsImage
    <3>2. chain[s] \in Seq(Table)
      BY <1>2 DEF DiskTypeOK
    <3>3. k \in Range(chain[s])
      BY <1>1, <3>1, <3>2 DEF Range
    <3>4. QED
      BY <1>1, <3>1, <3>3
  <2>2. QED
    BY <2>1 DEF ClustersAccounted
<1>11. KeptFiles
  BY <1>4, <1>5, <1>6, <1>8, <1>9, <1>10 DEF KeptFiles
<1>12. KeptCopy
  BY <1>3 DEF KeptCopy
<1>13. KeptOpen
  BY <1>3 DEF KeptOpen
<1>14. KeptReads
  BY <1>3 DEF KeptReads
<1>15. QED
  BY <1>11, <1>12, <1>13, <1>14

-----------------------------------------------------------------------------
(* The whole.                                                              *)

LEMMA StaysSpoiled ==
  ASSUME [FilesNext]_filesVars, ~spoiled'
  PROVE  ~spoiled
<1>1. ASSUME NEW t \in Tasks, CreateStep(t)
      PROVE  ~spoiled
  BY <1>1 DEF CreateStep, ReadTable, ReadRoot, PutEntry, WriteTable, WriteData
<1>2. ASSUME NEW t \in Tasks, ReadStep(t)
      PROVE  ~spoiled
  BY <1>2 DEF ReadStep, ReadCache, Search, ReadCluster, ReadDescribed, assemble_to_bin
<1>3. ASSUME NEW t \in Tasks,
             \/ \E w \in Writes : Create(t, w[1], w[2])
             \/ \E n \in Names : Open(t, n) \/ ReadFile(t, n) \/ Cat(t, n) \/ Casm(t, n)
             \/ \E v \in VfsFds : Close(t, v)
      PROVE  ~spoiled
  BY <1>3 DEF Create, Open, ReadFile, Cat, Casm, Look, Begin, Close
<1>4. QED
  BY <1>1, <1>2, <1>3 DEF FilesNext, PowerFails, Meet, filesVars

LEMMA ReadingBegin ==
  ASSUME Base, KeptCopy, KeptOpen, KeptReads, Grows, NEW t \in Tasks,
         NEW what \in {"create", "load"} \union Opening,
         NEW where \in {"table", "cache", "search"}, NEW n \in Names,
         NEW c \in Contents \union {Nothing}, Begin(t, what, where, n, c),
         where = "search" => disk_initialized
  PROVE  KeptCopy' /\ KeptOpen' /\ KeptReads'
<1>1. LocalsTypeOK /\ where \in CreatePlaces \union ReadPlaces /\ MemoryTypeOK
  BY DEF Base, CreatePlaces, ReadPlaces
<1>2. /\ LocalsTypeOK' /\ \A u \in Tasks \ {t} : Same(u)
      /\ call[t] = "none"
      /\ call'[t] = what /\ pc'[t] = where /\ sector'[t] = 1 /\ name'[t] = n
      /\ content'[t] = c /\ cluster'[t] = cluster[t] /\ fd'[t] = fd[t]
      /\ slot'[t] = slot[t]
  BY <1>1, BeginIs
<1>3. /\ UNCHANGED <<cached_fat, disk_initialized, fat, fds>>
      /\ loaded' = [loaded EXCEPT ![t] = <<>>]
  BY DEF Begin, disk, cache
<1>4. KeptCopy'
  <2>1. \A u \in Tasks :
           \/ pc'[u] \notin {"cache", "search", "chain"}
           \/ pc'[u] = "cache" /\ sector'[u] = 1
           \/ pc'[u] = "cache" /\ pc[u] = "cache" /\ sector'[u] = sector[u]
           \/ pc[u] \in {"search", "chain"}
           \/ pc'[u] = "search" /\ disk_initialized
    BY <1>2 DEF Same
  <2>2. \A k \in Table : Recent(k) => Recent(k)'
    BY <1>3 DEF Recent
  <2>3. QED
    BY <1>3, <2>1, <2>2, CopyStays
<1>5. KeptOpen'
  <2>1. \A u \in Tasks :
           pc'[u] = "read" => pc[u] = "read" /\ fd'[u] = fd[u] /\ slot'[u] = slot[u]
    BY <1>2 DEF Same
  <2>2. QED
    BY <1>1, <1>3, <2>1, OpenStays
<1>6. KeptReads'
  <2>1. loaded'[t] = <<>> /\ \A u \in Tasks \ {t} : loaded'[u] = loaded[u]
    BY <1>1, <1>3 DEF MemoryTypeOK
  <2>2. \A u \in Tasks :
           /\ pc'[u] = "chain" =>
                pc[u] = "chain" /\ slot'[u] = slot[u] /\ cluster'[u] = cluster[u]
                /\ loaded'[u] = loaded[u]
           /\ pc'[u] \in {"cache", "search"} => loaded'[u] = <<>>
    BY <1>2, <2>1 DEF Same, KeptReads
  <2>3. QED
    BY <2>2, ReadsStay
<1>7. QED
  BY <1>4, <1>5, <1>6

LEMMA ReadingCreates ==
  ASSUME Base, Base', KeptCopy, KeptOpen, KeptReads, Grows, NEW t \in Tasks, CreateStep(t)
  PROVE  KeptCopy' /\ KeptOpen' /\ KeptReads'
<1>1. /\ call[t] = "create" /\ call'[t] \in {"create", "none"}
      /\ \A u \in Tasks \ {t} : Same(u)
      /\ UNCHANGED <<cached_fat, fds, loaded, failures>>
      /\ disk_initialized' => disk_initialized
  BY CreateStepIs
<1>2. pc'[t] \notin ReadPlaces
  <2>1. InPlace(t)'
    BY DEF Base
  <2>2. QED
    BY <1>1, <2>1 DEF InPlace, ReadPlaces, CreatePlaces
<1>3. \A k \in Table : Recent(k) => Recent(k)'
  BY <1>1, ConstantsAre DEF Recent, Grows
<1>4. KeptCopy'
  <2>1. \A u \in Tasks :
           \/ pc'[u] \notin {"cache", "search", "chain"}
           \/ pc'[u] = "cache" /\ sector'[u] = 1
           \/ pc'[u] = "cache" /\ pc[u] = "cache" /\ sector'[u] = sector[u]
           \/ pc[u] \in {"search", "chain"}
           \/ pc'[u] = "search" /\ disk_initialized
    BY <1>1, <1>2 DEF Same, ReadPlaces
  <2>2. QED
    BY <1>1, <1>3, <2>1, CopyStays
<1>5. KeptOpen'
  <2>1. \A u \in Tasks :
           pc'[u] = "read" => pc[u] = "read" /\ fd'[u] = fd[u] /\ slot'[u] = slot[u]
    BY <1>1, <1>2 DEF Same, ReadPlaces
  <2>2. QED
    BY <1>1, <2>1, OpenStays DEF Base
<1>6. KeptReads'
  <2>1. \A u \in Tasks :
           /\ pc'[u] = "chain" =>
                pc[u] = "chain" /\ slot'[u] = slot[u] /\ cluster'[u] = cluster[u]
                /\ loaded'[u] = loaded[u]
           /\ pc'[u] \in {"cache", "search"} => loaded'[u] = <<>>
    BY <1>1, <1>2 DEF Same, KeptReads, ReadPlaces
  <2>2. QED
    BY <2>1, ReadsStay
<1>7. QED
  BY <1>4, <1>5, <1>6

LEMMA ReadingReads ==
  ASSUME Base, ~spoiled, KeptFiles, KeptCopy, KeptOpen, KeptReads, Grows,
         NEW t \in Tasks, ReadStep(t)
  PROVE  KeptCopy' /\ KeptOpen' /\ KeptReads'
<1>1. /\ LocalsTypeOK /\ MemoryTypeOK /\ Apart /\ \A u \in Tasks \ {t} : Same(u)
      /\ UNCHANGED <<fat, root>>
  BY ReadStepIs DEF Base, KeptFiles, disk
<1>2. ASSUME UNCHANGED cache,
             \/ pc'[t] \notin {"cache", "search", "chain"} \/ pc[t] \in {"search", "chain"}
      PROVE  KeptCopy'
  <2>1. \A u \in Tasks :
           \/ pc'[u] \notin {"cache", "search", "chain"}
           \/ pc'[u] = "cache" /\ sector'[u] = 1
           \/ pc'[u] = "cache" /\ pc[u] = "cache" /\ sector'[u] = sector[u]
           \/ pc[u] \in {"search", "chain"}
           \/ pc'[u] = "search" /\ disk_initialized
    BY <1>1, <1>2 DEF Same
  <2>2. UNCHANGED <<cached_fat, disk_initialized, fat>>
    BY <1>1, <1>2 DEF cache
  <2>3. \A k \in Table : Recent(k) => Recent(k)'
    BY <2>2 DEF Recent
  <2>4. QED
    BY <2>1, <2>2, <2>3, CopyStays
<1>3. ASSUME pc'[t] # "read"
      PROVE  \A u \in Tasks :
               pc'[u] = "read" => pc[u] = "read" /\ fd'[u] = fd[u] /\ slot'[u] = slot[u]
  BY <1>1, <1>3 DEF Same
<1>4. ASSUME pc'[t] # "chain",
             \A u \in Tasks \ {t} : loaded'[u] = loaded[u],
             pc'[t] \in {"cache", "search"} => loaded'[t] = <<>>
      PROVE  KeptReads'
  <2>1. \A u \in Tasks :
           /\ pc'[u] = "chain" =>
                pc[u] = "chain" /\ slot'[u] = slot[u] /\ cluster'[u] = cluster[u]
                /\ loaded'[u] = loaded[u]
           /\ pc'[u] \in {"cache", "search"} => loaded'[u] = <<>>
    BY <1>1, <1>4 DEF Same, KeptReads
  <2>2. QED
    BY <2>1, ReadsStay
<1>5. CASE ReadCache(t)
  <2>1. /\ pc[t] = "cache" /\ UNCHANGED <<fds, loaded>> /\ pc'[t] \in {"cache", "search"}
    BY <1>1, <1>5 DEF ReadCache, NextSector, Goto, LocalsTypeOK
  <2>2. loaded'[t] = <<>> /\ \A u \in Tasks \ {t} : loaded'[u] = loaded[u]
    BY <2>1 DEF KeptReads
  <2>3. QED
    BY <1>1, <1>3, <1>4, <1>5, <2>1, <2>2, CopyReadCache, OpenStays
<1>6. CASE Search(t)
  <2>1. pc[t] = "search" /\ UNCHANGED cache
    BY <1>6 DEF Search
  <2>2. QED
    BY <1>1, <1>2, <1>6, <2>1, OpenSearch, ReadsSearch
<1>7. CASE ReadCluster(t)
  <2>1. pc[t] = "chain" /\ UNCHANGED <<cache, fds>>
    BY <1>7 DEF ReadCluster, At
  <2>2. pc'[t] # "read"
    <3>1. Return(t) => pc'[t] = "idle"
      BY <1>1 DEF Return, LocalsTypeOK
    <3>2. QED
      BY <1>7, <2>1, <3>1 DEF ReadCluster
  <2>3. QED
    BY <1>1, <1>2, <1>3, <1>7, <2>1, <2>2, OpenStays, ReadsCluster
<1>8. CASE ReadDescribed(t)
  <2>1. /\ pc[t] = "read" /\ UNCHANGED cache /\ CloseBoth(t, fd[t])
        /\ \E text : loaded' = [loaded EXCEPT ![t] = text]
    BY <1>8 DEF ReadDescribed
  <2>2. pc'[t] \in {"idle", "assemble"}
    BY <1>1, <1>8 DEF ReadDescribed, Return, Goto, LocalsTypeOK
  <2>3. fd[t] \in VfsFds
    BY <2>1 DEF Base, InPlace
  <2>4. \A u \in Tasks \ {t} : loaded'[u] = loaded[u]
    BY <1>1, <2>1 DEF MemoryTypeOK
  <2>5. QED
    BY <1>1, <1>2, <1>3, <1>4, <2>1, <2>2, <2>3, <2>4, OpenCloses
<1>9. CASE assemble_to_bin(t)
  <2>1. UNCHANGED <<cache, fds, loaded>> /\ pc'[t] = "idle"
    BY <1>1, <1>9 DEF assemble_to_bin, Return, LocalsTypeOK
  <2>2. QED
    BY <1>1, <1>2, <1>3, <1>4, <2>1, OpenStays
<1>10. QED
  BY <1>5, <1>6, <1>7, <1>8, <1>9 DEF ReadStep

LEMMA ReadingNext ==
  ASSUME Base, Base', ~spoiled, ~spoiled', KeptFiles, KeptCopy, KeptOpen, KeptReads,
         Grows, [FilesNext]_filesVars
  PROVE  KeptCopy' /\ KeptOpen' /\ KeptReads'
<1>1. ASSUME UNCHANGED <<pc, sector, cluster, fd, slot, loaded, cache, fat>>
      PROVE  KeptCopy' /\ KeptReads'
  <2>1. UNCHANGED <<cached_fat, disk_initialized, fat>>
    BY <1>1 DEF cache
  <2>2. \A k \in Table : Recent(k) => Recent(k)'
    BY <2>1 DEF Recent
  <2>3. KeptCopy'
    BY <1>1, <2>1, <2>2, CopyStays
  <2>4. KeptReads'
    <3>1. \A u \in Tasks : pc[u] \in {"cache", "search"} => loaded[u] = <<>>
      BY DEF KeptReads
    <3>2. QED
      BY <1>1, <3>1, ReadsStay
  <2>5. QED
    BY <2>3, <2>4
<1>2. CASE UNCHANGED filesVars
  <2>1. UNCHANGED <<pc, sector, cluster, fd, slot, loaded, cache, fat, fds>>
    BY <1>2 DEF filesVars, locals, disk
  <2>2. QED
    BY <1>1, <2>1, OpenStays DEF Base
<1>3. ASSUME NEW t \in Tasks,
             \/ \E w \in Writes : Create(t, w[1], w[2])
             \/ \E n \in Names : Open(t, n) \/ ReadFile(t, n) \/ Cat(t, n) \/ Casm(t, n)
      PROVE  KeptCopy' /\ KeptOpen' /\ KeptReads'
  <2>1. PICK n \in Names :
           \/ \E c \in Contents : Begin(t, "create", "table", n, c)
           \/ \E what \in {"load"} \union Opening :
                Begin(t, what, IF disk_initialized THEN "search" ELSE "cache", n, Nothing)
    BY <1>3, CallIs
  <2>2. ASSUME NEW c \in Contents, Begin(t, "create", "table", n, c)
        PROVE  KeptCopy' /\ KeptOpen' /\ KeptReads'
    BY <2>2, ReadingBegin
  <2>3. ASSUME NEW what \in {"load"} \union Opening,
               Begin(t, what, IF disk_initialized THEN "search" ELSE "cache", n, Nothing)
        PROVE  KeptCopy' /\ KeptOpen' /\ KeptReads'
    <3>1. PICK where \in {"cache", "search"} : /\ Begin(t, what, where, n, Nothing)
                                               /\ where = "search" => disk_initialized
      BY <2>3
    <3>2. QED
      BY <3>1, ReadingBegin
  <2>4. QED
    BY <2>1, <2>2, <2>3
<1>4. ASSUME NEW t \in Tasks, NEW v \in VfsFds, Close(t, v)
      PROVE  KeptCopy' /\ KeptOpen' /\ KeptReads'
  <2>1. /\ UNCHANGED <<pc, sector, cluster, fd, slot, loaded, cache, fat, root>>
        /\ CloseBoth(t, v) /\ call[t] = "none"
    BY <1>4 DEF Close, locals, disk
  <2>2. pc'[t] # "read"
    BY <2>1 DEF Base, InPlace
  <2>3. QED
    BY <1>1, <2>1, <2>2, OpenCloses
<1>5. CASE PowerFails
  <2>1. /\ pc' = [t \in Tasks |-> "idle"] /\ fd_cluster' = [f \in Fds |-> 0]
        /\ disk_initialized' = FALSE
    BY <1>5 DEF PowerFails
  <2>2. KeptCopy'
    BY <2>1 DEF KeptCopy
  <2>3. KeptOpen'
    BY <2>1 DEF KeptOpen
  <2>4. KeptReads'
    BY <2>1 DEF KeptReads
  <2>5. QED
    BY <2>2, <2>3, <2>4
<1>6. QED
  BY <1>2, <1>3, <1>4, <1>5, ReadingCreates, ReadingReads DEF FilesNext, Meet

LEMMA FilesInvNext ==
  ASSUME FilesInv, [FilesNext]_filesVars
  PROVE  FilesInv'
<1>1. Base'
  BY BaseNext DEF FilesInv
<1>2. ASSUME ~spoiled'
      PROVE  KeptFiles' /\ KeptCopy' /\ KeptOpen' /\ KeptReads'
  <2>1. ~spoiled
    BY <1>2, StaysSpoiled
  <2>2. Base /\ KeptFiles /\ KeptCopy /\ KeptOpen /\ KeptReads
    BY <2>1 DEF FilesInv
  <2>3. KeptFiles' /\ Grows
    BY <1>2, <2>1, <2>2, FilesNextKept
  <2>4. QED
    BY <1>1, <1>2, <2>1, <2>2, <2>3, ReadingNext
<1>3. QED
  BY <1>1, <1>2 DEF FilesInv

(* The inductive invariant: what is true of the files, of the copy of the  *)
(* FAT, of open files and of what was read, at every step of every call.   *)
THEOREM FilesInvHolds == FilesSpec => []FilesInv
<1>1. FilesInit => FilesInv
  BY BaseInit, ReadingInit DEF FilesInv
<1>2. FilesInv /\ [FilesNext]_filesVars => FilesInv'
  BY FilesInvNext
<1>3. QED
  BY <1>1, <1>2, PTL DEF FilesSpec

(* A file that was made keeps its clusters, their order and what they      *)
(* hold, and shares none with another file, whatever is called and         *)
(* wherever the power fails in create_file (write.c 11-92).                *)
THEOREM FilesStayHolds == FilesSpec => []FilesStay
<1>1. FilesInv => FilesStay
  BY DEF FilesInv, KeptFiles, FilesStay
<1>2. QED
  BY <1>1, FilesInvHolds, PTL

(* No file lies behind the entry where a search ends (fat.c 49).           *)
THEOREM NothingBehindTheEndHolds == FilesSpec => []NothingBehindTheEnd
<1>1. FilesInv => NothingBehindTheEnd
  BY DEF FilesInv, KeptFiles, NothingBehindTheEnd
<1>2. QED
  BY <1>1, FilesInvHolds, PTL

(* No cluster is marked for nobody but those that a full root lost: the    *)
(* entry is written before the mark (write.c 48-77).                       *)
THEOREM ClustersAccountedHolds == FilesSpec => []ClustersAccounted
<1>1. FilesInv => ClustersAccounted
  BY DEF FilesInv, KeptFiles, ClustersAccounted
<1>2. QED
  BY <1>1, FilesInvHolds, PTL

(* The two tables of descriptors agree and a descriptor has the first      *)
(* cluster of the file it was opened for (vfs.c, read.c).                  *)
THEOREM DescriptorsMatchHolds == FilesSpec => []DescriptorsMatch
<1>1. ASSUME FilesInv
      PROVE  DescriptorsMatch
  <2>1. Descriptors
    BY <1>1 DEF FilesInv, Base
  <2>2. ASSUME NEW f \in Fds, fd_cluster[f] # 0, ~spoiled, fd_slot[f] \in settled
        PROVE  fd_cluster[f] = chain[fd_slot[f]][1]
    <3>1. KeptOpen /\ FilesStay
      BY <1>1, <2>2 DEF FilesInv, KeptFiles
    <3>2. fd_cluster[f] = root[fd_slot[f]].cluster
      BY <2>2, <3>1 DEF KeptOpen
    <3>3. root[fd_slot[f]].cluster = chain[fd_slot[f]][1]
      BY <2>2, <3>1 DEF FilesStay, Chained
    <3>4. QED
      BY <3>2, <3>3
  <2>3. QED
    BY <2>1, <2>2 DEF DescriptorsMatch, Descriptors
<1>2. FilesInv => DescriptorsMatch
  BY <1>1
<1>3. QED
  BY <1>2, FilesInvHolds, PTL

-----------------------------------------------------------------------------
(* The last step of a call that reads.                                     *)

LEMMA LoadsAtLast ==
  ASSUME FilesInv, ~spoiled, NEW t \in Tasks, ReadCluster(t), call'[t] = "none",
         slot[t] \in settled, \A k \in Range(chain[slot[t]]) : k <= DiskEnd
  PROVE  loaded'[t] = whole[slot[t]]
<1> DEFINE s == slot[t]
           n == Len(loaded[t])
           following == cached_fat[cluster[t]]
<1>1. Base /\ KeptFiles /\ KeptCopy /\ KeptReads /\ pc[t] = "chain"
  BY DEF FilesInv, ReadCluster, At
<1>2. call[t] = "load"
  BY DEF ReadCluster, At
<1>3. following \in {FREE, LAST}
  BY <1>2 DEF ReadCluster
<1>4. /\ s \in Slots /\ n \in Nat /\ cluster[t] \in Table
      /\ n < Len(chain[s]) /\ cluster[t] = chain[s][n + 1] /\ n + 1 = Len(chain[s])
  BY <1>1, <1>3, FollowingIs
<1>5. Chained(s) /\ Len(whole[s]) = Len(chain[s]) /\ whole[s] \in Seq(Contents)
      /\ chain[s] \in Seq(Table) /\ loaded[t] \in Seq(Contents \union {Nothing, Key})
      /\ loaded \in [Tasks -> Seq(Contents \union {Nothing, Key})]
  BY <1>1, <1>4 DEF KeptFiles, FilesStay, Base, DiskTypeOK, MemoryTypeOK
<1>6. \A j \in 1 .. Len(chain[s]) : chain[s][j] <= DiskEnd
  BY <1>5 DEF Range
<1>7. \A j \in 1 .. n : loaded[t][j] = whole[s][j]
  <2>1. Loading(t)
    BY <1>1 DEF KeptReads
  <2>2. \A j \in 1 .. n : j \in 1 .. Len(chain[s]) /\ n # 0
    BY <1>4
  <2> HIDE DEF n, s
  <2>3. QED
    BY <1>6, <2>1, <2>2 DEF Loading, n, s
<1>8. Holds(cluster[t]) = whole[s][n + 1]
  <2>1. n + 1 \in 1 .. Len(chain[s])
    BY <1>4
  <2> HIDE DEF n, s
  <2>2. data[chain[s][n + 1]] = whole[s][n + 1] /\ chain[s][n + 1] <= DiskEnd
    BY <1>5, <1>6, <2>1 DEF Chained
  <2>3. QED
    BY <1>4, <2>2 DEF Holds
<1>9. Holds(cluster[t]) \in Contents \union {Nothing, Key}
  BY <1>1, <1>4, HoldsIs
<1>10. loaded'[t] = Append(loaded[t], Holds(cluster[t]))
  BY <1>5 DEF ReadCluster
<1>11. /\ loaded'[t] \in Seq(Contents \union {Nothing, Key}) /\ Len(loaded'[t]) = n + 1
       /\ loaded'[t][n + 1] = Holds(cluster[t])
       /\ \A j \in 1 .. n : loaded'[t][j] = loaded[t][j]
  BY <1>5, <1>9, <1>10
<1> HIDE DEF n, s, following
<1>12. \A j \in 1 .. n + 1 : loaded'[t][j] = whole[s][j]
  <2>1. \A j \in 1 .. n + 1 : j \in 1 .. n \/ j = n + 1
    BY <1>4
  <2>2. QED
    BY <1>7, <1>8, <1>11, <2>1
<1>13. whole[s] \in Seq(Contents \union {Nothing, Key}) /\ Len(whole[s]) = n + 1
  BY <1>4, <1>5
<1>14. QED
  BY <1>11, <1>12, <1>13, SeqEqual DEF s

LEMMA CatsAtLast ==
  ASSUME FilesInv, ~spoiled, NEW t \in Tasks, ReadDescribed(t), call[t] = "cat",
         t \notin robbed,
         slot[t] \in settled, \A k \in Range(chain[slot[t]]) : k <= DiskEnd
  PROVE  loaded'[t] = <<whole[slot[t]][1]>>
<1> DEFINE s == slot[t]
           f == vfs_fd[fd[t]]
<1>1. Base /\ KeptFiles /\ KeptOpen /\ pc[t] = "read"
  BY DEF FilesInv, ReadDescribed
<1>2. fd[t] \in VfsFds /\ s \in Slots /\ loaded'[t] = vfs_read(fd[t])
  BY <1>1 DEF Base, InPlace, ReadDescribed, MemoryTypeOK
<1>3. f # 0 /\ f \in Fds /\ fd_cluster[f] # 0 /\ fd_slot[f] = s
  BY <1>1, <1>2 DEF Base, MemoryTypeOK, Descriptors, KeptOpen
<1>4. fd_cluster[f] = root[s].cluster
  BY <1>1, <1>3 DEF KeptOpen
<1>5. Chained(s) /\ chain[s] \in Seq(Table)
  BY <1>1, <1>2 DEF KeptFiles, FilesStay, Base, DiskTypeOK
<1>6. root[s].cluster = chain[s][1] /\ 1 \in 1 .. Len(chain[s])
  BY <1>5 DEF Chained
<1>7. chain[s][1] <= DiskEnd
  BY <1>5, <1>6 DEF Range
<1>8. Holds(fd_cluster[f]) = whole[s][1]
  BY <1>4, <1>5, <1>6, <1>7 DEF Chained, Holds
<1>9. QED
  BY <1>2, <1>3, <1>8 DEF vfs_read

(* Every call that reads ends with one of these two steps.                 *)
LEMMA ReadsAtLast ==
  ASSUME FilesInv, failures \in Nat, FilesNext, NEW t \in Tasks,
         ~spoiled, call'[t] = "none", failures' = failures, slot[t] \in settled
  PROVE  /\ call[t] = "load" => ReadCluster(t)
         /\ call[t] = "cat" => ReadDescribed(t)
<1>1. Base /\ LocalsTypeOK /\ InPlace(t) /\ slot[t] # 0
  BY ConstantsAre DEF FilesInv, Base, DiskTypeOK
<1>2. ~PowerFails
  BY DEF PowerFails
<1>3. ASSUME NEW u \in Tasks,
             \/ \E w \in Writes : Create(u, w[1], w[2])
             \/ \E n \in Names : Open(u, n) \/ ReadFile(u, n) \/ Cat(u, n) \/ Casm(u, n)
      PROVE  call[t] = "none"
  <2>1. call[u] = "none" /\ \E what : call' = [call EXCEPT ![u] = what]
    BY <1>3 DEF Create, Open, ReadFile, Cat, Casm, Look, Begin
  <2>2. CASE u = t
    BY <2>1, <2>2
  <2>3. CASE u # t
    BY <1>1, <2>1, <2>3 DEF LocalsTypeOK
  <2>4. QED
    BY <2>2, <2>3
<1>4. ASSUME NEW u \in Tasks, CreateStep(u)
      PROVE  call[t] \in {"none", "create"}
  BY <1>1, <1>4, CreateStepIs DEF Same
<1>5. ASSUME NEW u \in Tasks, ReadStep(u), u # t
      PROVE  call[t] = "none"
  BY <1>1, <1>5, ReadStepIs DEF Same
<1>6. ASSUME NEW u \in Tasks, NEW v \in VfsFds, Close(u, v)
      PROVE  call[t] = "none"
  BY <1>6 DEF Close, locals
<1>7. ASSUME NEW u \in Tasks, NEW d \in Tasks, Meet(u, d)
      PROVE  call[t] = "none"
  BY <1>7 DEF Meet, locals
<1>8. CASE ReadStep(t)
  <2>1. CASE call[t] = "load"
    <3>1. pc[t] = "chain"
      BY <1>1, <2>1 DEF InPlace
    <3>2. QED
      BY <1>8, <2>1, <3>1
         DEF ReadStep, ReadCache, Search, ReadDescribed, assemble_to_bin, At
  <2>2. CASE call[t] = "cat"
    <3>1. pc[t] \notin {"cache", "search", "chain", "assemble"}
      BY <1>1, <2>2 DEF InPlace
    <3>2. QED
      BY <1>8, <2>2, <3>1
         DEF ReadStep, ReadCache, Search, ReadCluster, assemble_to_bin, At
  <2>3. QED
    BY <2>1, <2>2
<1>9. ReadStep(t) \/ call[t] \in {"none", "create"}
  BY <1>2, <1>3, <1>4, <1>5, <1>6, <1>7 DEF FilesNext
<1>10. QED
  BY <1>8, <1>9

(* A program loaded by read_file, and what cat shows, is the file as it    *)
(* was made, although the copy of the FAT may be older (fat.c 77-81,       *)
(* read.c 18-22, write.c 79-81) and other files may be opened and closed   *)
(* before cat reads (manual_x86.c 56-64).                                  *)
THEOREM LoadsWholeHolds == FilesSpec => LoadsWhole
<1> DEFINE Failed == failures \in Nat
<1>1. FilesInit => Failed
  BY DEF FilesInit
<1>2. Failed /\ FilesInv /\ [FilesNext]_filesVars => Failed'
  <2>1. SUFFICES ASSUME Failed, FilesInv, [FilesNext]_filesVars
                 PROVE  failures' \in {failures, failures + 1}
    OBVIOUS
  <2>2. ASSUME NEW t \in Tasks,
               \/ \E w \in Writes : Create(t, w[1], w[2])
               \/ \E n \in Names : Open(t, n) \/ ReadFile(t, n) \/ Cat(t, n) \/ Casm(t, n)
               \/ \E v \in VfsFds : Close(t, v)
               \/ \E u \in Tasks : Meet(t, u)
        PROVE  failures' = failures
    BY <2>2 DEF Create, Open, ReadFile, Cat, Casm, Look, Begin, Close, Meet
  <2>3. ASSUME NEW t \in Tasks, CreateStep(t) \/ ReadStep(t)
        PROVE  failures' = failures
    BY <2>1, <2>3, CreateStepIs, ReadStepIs DEF FilesInv
  <2>4. PowerFails => failures' = failures + 1
    BY DEF PowerFails
  <2>5. UNCHANGED filesVars => failures' = failures
    BY DEF filesVars
  <2>6. QED
    BY <2>1, <2>2, <2>3, <2>4, <2>5 DEF FilesNext
<1>3. FilesSpec => []Failed
  BY <1>1, <1>2, FilesInvHolds, PTL DEF FilesSpec
<1>4. ASSUME FilesInv, Failed, FilesNext, NEW t \in Tasks,
             ~spoiled, call'[t] = "none", failures' = failures, slot[t] \in settled,
             \A k \in Range(chain[slot[t]]) : k <= DiskEnd
      PROVE  /\ call[t] = "load" => loaded'[t] = whole[slot[t]]
             /\ call[t] = "cat" /\ t \notin robbed => loaded'[t] = <<whole[slot[t]][1]>>
  <2>1. /\ call[t] = "load" => ReadCluster(t)
        /\ call[t] = "cat" => ReadDescribed(t)
    BY <1>4, ReadsAtLast
  <2>2. QED
    BY <1>4, <2>1, LoadsAtLast, CatsAtLast
<1> DEFINE Whole ==
      \A t \in Tasks :
       /\ ~spoiled /\ call'[t] = "none" /\ failures' = failures
       /\ slot[t] \in settled
       /\ \A k \in Range(chain[slot[t]]) : k <= DiskEnd
       => /\ call[t] = "load" => loaded'[t] = whole[slot[t]]
          /\ call[t] = "cat" /\ t \notin robbed => loaded'[t] = <<whole[slot[t]][1]>>
<1>5. FilesInv /\ Failed /\ [FilesNext]_filesVars => [Whole]_filesVars
  BY <1>4
<1> HIDE DEF Failed, Whole
<1>6. FilesSpec => [][Whole]_filesVars
  BY <1>3, <1>5, FilesInvHolds, PTL DEF FilesSpec
<1>7. QED
  BY <1>6 DEF LoadsWhole, Whole

-----------------------------------------------------------------------------
(* The store of FileStore.                                                 *)

(* What the locals of a call hold that the store sees: a task without a    *)
(* call asks for nothing, a creation has read nothing, and a file that is  *)
(* read has the name that was asked for.                                   *)
Called(t) ==
  /\ call[t] = "none" => name[t] = "end" /\ content[t] = Nothing
  /\ call[t] = "create" => loaded[t] = <<>>
  /\ ~spoiled /\ pc[t] \in {"chain", "read"} => root[slot[t]].name = name[t]

CallsInv == \A t \in Tasks : Called(t)

LEMMA OtherCalled ==
  ASSUME Base, NEW u \in Tasks, Called(u), Same(u), loaded'[u] = loaded[u],
         ~spoiled' => ~spoiled /\ Grows
  PROVE  Called(u)'
<1>1. ASSUME ~spoiled', pc'[u] \in {"chain", "read"}
      PROVE  root'[slot[u]].name = name[u]
  <2>1. ~spoiled /\ Grows /\ pc[u] \in {"chain", "read"} /\ InPlace(u) /\ LocalsTypeOK
    BY <1>1 DEF Same, Base
  <2>2. call[u] \in {"load"} \union Commands
    BY <2>1 DEF InPlace
  <2>3. name[u] \in Names /\ slot[u] \in Slots /\ root[slot[u]].name = name[u]
    BY <2>1, <2>2, ConstantsAre DEF InPlace, LocalsTypeOK, Called, Commands
  <2>4. QED
    BY <2>1, <2>3 DEF Grows, IsFile
<1>2. QED
  BY <1>1 DEF Called, Same

(* A step of a call ends it or leaves what was asked for.                  *)
LEMMA ReturnsOrGoesOn ==
  ASSUME NEW t \in Tasks, CreateStep(t) \/ ReadStep(t)
  PROVE  Return(t) \/ UNCHANGED <<call, name, content>>
<1>1. CASE CreateStep(t)
  BY <1>1 DEF CreateStep, ReadTable, Take, ReadRoot, PutEntry, WriteTable, WriteData,
              NextSector, Goto
<1>2. CASE ReadCache(t) \/ ReadCluster(t)
  BY <1>2 DEF ReadCache, ReadCluster, NextSector, Goto
<1>3. CASE Search(t)
  BY <1>3 DEF Search, NextSector, Goto
<1>4. CASE ReadDescribed(t) \/ assemble_to_bin(t)
  BY <1>4 DEF ReadDescribed, assemble_to_bin, Goto
<1>5. QED
  BY <1>1, <1>2, <1>3, <1>4 DEF ReadStep

LEMMA CalledBegin ==
  ASSUME Base, CallsInv, ~spoiled' => ~spoiled /\ Grows, NEW t \in Tasks,
         NEW what \in {"create", "load"} \union Opening,
         NEW where \in {"table", "cache", "search"}, NEW n \in Names,
         NEW c \in Contents \union {Nothing}, Begin(t, what, where, n, c)
  PROVE  CallsInv'
<1>1. LocalsTypeOK /\ MemoryTypeOK /\ where \in CreatePlaces \union ReadPlaces
  BY DEF Base, CreatePlaces, ReadPlaces
<1>2. /\ \A u \in Tasks \ {t} : Same(u)
      /\ call'[t] = what /\ pc'[t] = where
  BY <1>1, BeginIs
<1>3. loaded' = [loaded EXCEPT ![t] = <<>>]
  BY DEF Begin
<1>4. loaded'[t] = <<>> /\ \A u \in Tasks \ {t} : loaded'[u] = loaded[u]
  BY <1>1, <1>3 DEF MemoryTypeOK
<1>5. Called(t)'
  BY <1>2, <1>4 DEF Called, Opening, Commands
<1>6. \A u \in Tasks \ {t} : Called(u)'
  BY <1>2, <1>4, OtherCalled DEF CallsInv
<1>7. QED
  BY <1>5, <1>6 DEF CallsInv

LEMMA CalledReturn ==
  ASSUME LocalsTypeOK, NEW t \in Tasks, Return(t)
  PROVE  Called(t)'
<1>1. Idle(t)'
  BY ReturnIs
<1>2. name'[t] = "end" /\ content'[t] = Nothing
  BY DEF Return, LocalsTypeOK
<1>3. QED
  BY <1>1, <1>2 DEF Called, Idle

LEMMA CalledCreates ==
  ASSUME Base, Base', CallsInv, ~spoiled' => ~spoiled /\ Grows, NEW t \in Tasks,
         CreateStep(t)
  PROVE  CallsInv'
<1>1. /\ call[t] = "create" /\ \A u \in Tasks \ {t} : Same(u)
      /\ loaded' = loaded /\ LocalsTypeOK
  BY CreateStepIs DEF Base
<1>2. \A u \in Tasks \ {t} : Called(u)'
  BY <1>1, OtherCalled DEF CallsInv
<1>3. CASE UNCHANGED <<call, name, content>>
  <2>1. InPlace(t)' /\ call'[t] = "create" /\ loaded[t] = <<>>
    BY <1>1, <1>3 DEF Base, CallsInv, Called
  <2>2. pc'[t] \notin {"chain", "read"}
    BY <2>1 DEF InPlace, CreatePlaces
  <2>3. Called(t)'
    BY <1>1, <2>1, <2>2 DEF Called
  <2>4. QED
    BY <1>2, <2>3 DEF CallsInv
<1>4. CASE Return(t)
  BY <1>1, <1>2, <1>4, CalledReturn DEF CallsInv
<1>5. QED
  BY <1>3, <1>4, ReturnsOrGoesOn

LEMMA CalledReads ==
  ASSUME Base, CallsInv, ~spoiled' => ~spoiled /\ Grows, NEW t \in Tasks,
         ReadStep(t)
  PROVE  CallsInv'
<1>1. /\ call[t] \in {"load"} \union Opening /\ \A u \in Tasks \ {t} : Same(u)
      /\ root' = root /\ LocalsTypeOK /\ spoiled' = spoiled
  BY ReadStepIs DEF Base, disk
<1>2. \A u \in Tasks \ {t} : loaded'[u] = loaded[u]
  BY DEF Base, MemoryTypeOK, ReadStep, ReadCache, Search, ReadCluster, ReadDescribed,
         assemble_to_bin
<1>3. \A u \in Tasks \ {t} : Called(u)'
  BY <1>1, <1>2, OtherCalled DEF CallsInv
<1>4. ASSUME UNCHANGED <<call, name, content>>, ~spoiled', pc'[t] \in {"chain", "read"}
      PROVE  root[slot'[t]].name = name[t]
  <2>1. CASE pc[t] \in {"chain", "read"} /\ slot'[t] = slot[t]
    BY <1>1, <1>4, <2>1 DEF CallsInv, Called
  <2>2. CASE ReadCache(t)
    <3>1. FALSE
      BY <1>1, <1>4, <2>2 DEF ReadCache, NextSector, Goto, LocalsTypeOK
    <3>2. QED
      BY <3>1
  <2>3. CASE Search(t)
    <3> DEFINE s == Least(Stops(sector[t], name[t]))
    <3>1. Return(t) => pc'[t] = "idle"
      BY <1>1 DEF Return, LocalsTypeOK
    <3>2. NextSector(t) => pc'[t] = "search"
      BY <2>3 DEF NextSector, Search
    <3>3. /\ pc[t] = "search" /\ Stops(sector[t], name[t]) # {} /\ root[s].name # "end"
          /\ slot' = [slot EXCEPT ![t] = s]
      BY <1>4, <2>3, <3>1, <3>2 DEF Search
    <3>4. root[s].name = name[t]
      BY <3>3, FoundIs
    <3>5. slot'[t] = s
      BY <1>1, <3>3 DEF LocalsTypeOK
    <3>6. QED
      BY <3>4, <3>5
  <2>4. CASE ReadCluster(t)
    <3>1. Return(t) => pc'[t] = "idle"
      BY <1>1 DEF Return, LocalsTypeOK
    <3>2. slot' = slot /\ pc[t] = "chain"
      BY <1>4, <2>4, <3>1 DEF ReadCluster, At
    <3>3. QED
      BY <2>1, <3>2
  <2>5. CASE ReadDescribed(t) \/ assemble_to_bin(t)
    <3>1. FALSE
      BY <1>1, <1>4, <2>5 DEF ReadDescribed, assemble_to_bin, Return, Goto, LocalsTypeOK
    <3>2. QED
      BY <3>1
  <2>6. QED
    BY <2>2, <2>3, <2>4, <2>5 DEF ReadStep
<1>5. CASE UNCHANGED <<call, name, content>>
  <2>1. call'[t] \notin {"none", "create"} /\ name'[t] = name[t]
    BY <1>1, <1>5 DEF Opening, Commands
  <2>2. Called(t)'
    BY <1>1, <1>4, <1>5, <2>1 DEF Called
  <2>3. QED
    BY <1>3, <2>2 DEF CallsInv
<1>6. CASE Return(t)
  BY <1>1, <1>3, <1>6, CalledReturn DEF CallsInv
<1>7. QED
  BY <1>5, <1>6, ReturnsOrGoesOn

(* What calls leave as it is.                                              *)
LEMMA GrowsNext ==
  ASSUME FilesInv, [FilesNext]_filesVars
  PROVE  ~spoiled' => ~spoiled /\ Grows
<1>1. ~spoiled' => ~spoiled
  BY StaysSpoiled
<1>2. QED
  BY <1>1, FilesNextKept DEF FilesInv

LEMMA CalledNext ==
  ASSUME FilesInv, FilesInv', CallsInv, [FilesNext]_filesVars
  PROVE  CallsInv'
<1>1. Base /\ Base' /\ (~spoiled' => ~spoiled /\ Grows)
  BY GrowsNext DEF FilesInv
<1>2. ASSUME UNCHANGED <<locals, spoiled>>
      PROVE  CallsInv'
  <2>1. \A u \in Tasks : Same(u) /\ loaded'[u] = loaded[u]
    BY <1>2 DEF locals, Same
  <2>2. QED
    BY <1>1, <2>1, OtherCalled DEF CallsInv
<1>3. CASE UNCHANGED filesVars
  BY <1>2, <1>3 DEF filesVars
<1>4. ASSUME NEW t \in Tasks,
             \/ \E w \in Writes : Create(t, w[1], w[2])
             \/ \E n \in Names : Open(t, n) \/ ReadFile(t, n) \/ Cat(t, n) \/ Casm(t, n)
      PROVE  CallsInv'
  <2>1. PICK n \in Names :
           \/ \E c \in Contents : Begin(t, "create", "table", n, c)
           \/ \E what \in {"load"} \union Opening :
                Begin(t, what, IF disk_initialized THEN "search" ELSE "cache", n, Nothing)
    BY <1>4, CallIs
  <2>2. ASSUME NEW c \in Contents, Begin(t, "create", "table", n, c)
        PROVE  CallsInv'
    BY <1>1, <2>2, CalledBegin
  <2>3. ASSUME NEW what \in {"load"} \union Opening,
               Begin(t, what, IF disk_initialized THEN "search" ELSE "cache", n, Nothing)
        PROVE  CallsInv'
    <3>1. PICK where \in {"cache", "search"} : Begin(t, what, where, n, Nothing)
      BY <2>3
    <3>2. QED
      BY <1>1, <3>1, CalledBegin
  <2>4. QED
    BY <2>1, <2>2, <2>3
<1>5. ASSUME NEW t \in Tasks, CreateStep(t)
      PROVE  CallsInv'
  BY <1>1, <1>5, CalledCreates
<1>6. ASSUME NEW t \in Tasks, ReadStep(t)
      PROVE  CallsInv'
  BY <1>1, <1>6, CalledReads
<1>7. ASSUME NEW t \in Tasks, NEW v \in VfsFds, Close(t, v)
      PROVE  CallsInv'
  BY <1>2, <1>7 DEF Close
<1>8. CASE PowerFails
  BY <1>8 DEF PowerFails, CallsInv, Called
<1>9. ASSUME NEW t \in Tasks, NEW d \in Tasks, Meet(t, d)
      PROVE  CallsInv'
  <2>1. \A u \in Tasks : Same(u) /\ loaded'[u] = loaded[u]
    BY <1>9 DEF Meet, locals, Same
  <2>2. QED
    BY <1>1, <2>1, OtherCalled DEF CallsInv
<1>10. QED
  BY <1>3, <1>4, <1>5, <1>6, <1>7, <1>8, <1>9 DEF FilesNext

-----------------------------------------------------------------------------
(* What the store sees of a step.                                          *)

(* What is on the disk of a file that was made stays there.                *)
LEMMA TextsStay ==
  ASSUME FilesInv, FilesInv', ~spoiled, ~spoiled', Grows
  PROVE  \A s \in settled : OnDisk(s)' = OnDisk(s)
<1>1. SUFFICES ASSUME NEW s \in settled
               PROVE  OnDisk(s)' = OnDisk(s)
  OBVIOUS
<1>2. Chained(s) /\ Chained(s)' /\ chain'[s] = chain[s] /\ whole'[s] = whole[s]
  BY DEF FilesInv, KeptFiles, FilesStay, Grows
<1>3. \A j \in 1 .. Len(chain[s]) : Holds(chain[s][j])' = Holds(chain[s][j])
  <2>1. ASSUME NEW j \in 1 .. Len(chain[s]), chain[s][j] <= DiskEnd
        PROVE  data'[chain[s][j]] = data[chain[s][j]]
    <3>1. data[chain[s][j]] = whole[s][j] /\ data'[chain[s][j]] = whole[s][j]
      BY <1>2, <2>1 DEF Chained
    <3>2. QED
      BY <3>1
  <2>2. QED
    BY <1>2, <2>1 DEF Holds
<1>4. QED
  BY <1>2, <1>3 DEF OnDisk

LEMMA TextsSame ==
  ASSUME FilesInv, FilesInv', ~spoiled, ~spoiled', Grows, settled' = settled
  PROVE  Texts' = Texts
BY TextsStay DEF Texts

LEMMA OthersAsk ==
  ASSUME NEW t \in Tasks, \A u \in Tasks \ {t} : Same(u) /\ loaded'[u] = loaded[u]
  PROVE  \A u \in Tasks \ {t} : Asked'[u] = Asked[u] /\ Answers'[u] = Answers[u]
BY DEF Asked, Answers, Same

(* A step that neither begins nor ends a call.                             *)
LEMMA NothingAsked ==
  ASSUME UNCHANGED <<call, name, content>>,
         \A u \in Tasks : call[u] = "none" => loaded'[u] = loaded[u]
  PROVE  Asked' = Asked /\ Answers' = Answers
<1>1. Asked' = Asked
  BY DEF Asked
<1>2. Answers' = Answers
  BY DEF Answers
<1>3. QED
  BY <1>1, <1>2

(* The end of a call.                                                      *)
LEMMA ReturnIsOver ==
  ASSUME LocalsTypeOK, NEW t \in Tasks, Return(t), call[t] # "none",
         \A u \in Tasks \ {t} : loaded'[u] = loaded[u]
  PROVE  /\ Store!Over(t) /\ Asked[t].call = call[t] /\ Asked[t].name = name[t]
         /\ Asked[t].content = content[t]
         /\ Answers'[t] = loaded'[t] /\ Answers[t] = <<>>
         /\ \A u \in Tasks \ {t} : Answers'[u] = Answers[u]
<1>1. \A u \in Tasks \ {t} : Same(u)
  BY ReturnIs
<1>2. \A u \in Tasks \ {t} : Asked'[u] = Asked[u] /\ Answers'[u] = Answers[u]
  BY <1>1, OthersAsk
<1>3. call'[t] = "none" /\ name'[t] = "end" /\ content'[t] = Nothing
  BY DEF Return, LocalsTypeOK
<1>4. /\ Asked[t].call = call[t] /\ Asked[t].name = name[t] /\ Asked[t].content = content[t]
      /\ Asked'[t] = [call |-> "none", name |-> "end", content |-> Nothing]
  BY <1>3 DEF Asked
<1>5. Answers'[t] = loaded'[t] /\ Answers[t] = <<>>
  BY <1>3 DEF Answers
<1>6. Store!Over(t)
  <2>1. Asked[t] # [call |-> "none", name |-> "end", content |-> Nothing]
    BY <1>4
  <2>2. QED
    BY <1>2, <1>4, <2>1 DEF Store!Over, Store!Quiet
<1>7. QED
  BY <1>2, <1>4, <1>5, <1>6

LEMMA BeginIsAsk ==
  ASSUME Base, CallsInv, NEW t \in Tasks,
         NEW what \in {"create", "load"} \union Opening,
         NEW where \in {"table", "cache", "search"}, NEW n \in Names,
         NEW c \in Contents \union {Nothing}, Begin(t, what, where, n, c)
  PROVE  Store!Ask(t)
<1>1. LocalsTypeOK /\ MemoryTypeOK /\ where \in CreatePlaces \union ReadPlaces
  BY DEF Base, CreatePlaces, ReadPlaces
<1>2. /\ \A u \in Tasks \ {t} : Same(u)
      /\ call[t] = "none" /\ call'[t] = what /\ name'[t] = n /\ content'[t] = c
  BY <1>1, BeginIs
<1>3. loaded' = [loaded EXCEPT ![t] = <<>>] /\ UNCHANGED <<root, data, chain, settled>>
  BY DEF Begin, disk, made
<1>4. \A u \in Tasks \ {t} : loaded'[u] = loaded[u]
  BY <1>1, <1>3 DEF MemoryTypeOK
<1>5. \A u \in Tasks \ {t} : Asked'[u] = Asked[u] /\ Answers'[u] = Answers[u]
  BY <1>2, <1>4, OthersAsk
<1>6. Asked[t] = [call |-> "none", name |-> "end", content |-> Nothing]
  BY <1>2 DEF Asked, CallsInv, Called
<1>7. /\ Asked'[t] = [call |-> what, name |-> n, content |-> c] /\ Answers'[t] = <<>>
  BY <1>2 DEF Asked, Answers, Opening, Commands
<1>8. Named' = Named /\ Texts' = Texts
  BY <1>3 DEF Named, Texts, OnDisk, Holds
<1>9. what \in {"create", "open", "load", "cat", "casm"}
  BY DEF Opening, Commands
<1>10. QED
  BY <1>5, <1>6, <1>7, <1>8, <1>9 DEF Store!Ask, Store!Quiet, Store!Calls

LEMMA PutEntryIsEnter ==
  ASSUME FilesInv, FilesInv', ~spoiled, ~spoiled', Grows, NEW t \in Tasks, PutEntry(t)
  PROVE  Store!Enter(t)
<1> DEFINE new == [name |-> name[t], cluster |-> cluster[t]]
<1>1. LocalsTypeOK /\ InPlace(t) /\ pc[t] = "put" /\ call[t] = "create" /\ Creation(t)
      /\ DiskTypeOK
  BY DEF FilesInv, Base, KeptFiles, PutEntry, At
<1>2. /\ name[t] \in Names /\ slot[t] \in SlotsOf(sector[t])
      /\ slot[t] \in Slots /\ SlotsOf(sector[t]) \subseteq Slots
  BY <1>1, RootSectorIs DEF InPlace
<1>3. /\ ~IsFile(root[slot[t]])
      /\ \A s \in SlotsOf(sector[t]) :
            root_buf[s - (sector[t] - 1) * PerRootSector] = IF s = slot[t] THEN new ELSE root[s]
  BY <1>1 DEF Creation
<1> HIDE DEF new
<1>4. \A s \in Slots : root'[s] = IF s = slot[t] THEN new ELSE root[s]
  <2>1. \A s \in SlotsOf(sector[t]) :
          root'[s] = root_buf[s - (sector[t] - 1) * PerRootSector]
    BY <1>2 DEF PutEntry
  <2>2. \A s \in Slots \ SlotsOf(sector[t]) : root'[s] = root[s]
    BY DEF PutEntry
  <2>3. QED
    BY <1>2, <1>3, <2>1, <2>2
<1>5. new.name = name[t]
  BY DEF new
<1>6. {r \in Slots : IsFile(root'[r])} = {r \in Slots : IsFile(root[r])} \union {slot[t]}
  BY <1>2, <1>4, <1>5 DEF IsFile
<1>7. Asked[t].call = "create" /\ Asked[t].name = name[t]
  BY <1>1 DEF Asked
<1>8. Named' = [q \in DOMAIN Named \union {slot[t]} |->
                 IF q = slot[t] THEN Asked[t].name ELSE Named[q]]
  <2>1. Named' = [q \in {r \in Slots : IsFile(root[r])} \union {slot[t]} |-> root'[q].name]
    BY <1>6 DEF Named, IsFile
  <2>2. DOMAIN Named = {r \in Slots : IsFile(root[r])}
    BY DEF Named
  <2>3. \A q \in DOMAIN Named \union {slot[t]} :
          root'[q].name = IF q = slot[t] THEN Asked[t].name ELSE Named[q]
    BY <1>2, <1>4, <1>5, <1>7, <2>2 DEF Named
  <2>4. QED
    BY <2>1, <2>2, <2>3
<1>9. slot[t] \in (DOMAIN Named' \ DOMAIN Named) \intersect Slots
  <2>1. slot[t] \in DOMAIN Named'
    BY <1>8
  <2>2. slot[t] \notin DOMAIN Named
    BY <1>3 DEF Named
  <2>3. QED
    BY <1>2, <2>1, <2>2
<1>10. Asked' = Asked /\ Answers' = Answers
  BY NothingAsked DEF PutEntry, Goto
<1>11. Texts' = Texts
  BY TextsSame DEF PutEntry
<1>12. QED
  BY <1>7, <1>8, <1>9, <1>10, <1>11 DEF Store!Enter, Store!With

(* The end of a creation, with a file or without.                          *)
LEMMA CreationIsOver ==
  ASSUME LocalsTypeOK, CallsInv, NEW t \in Tasks, call[t] = "create", Return(t),
         UNCHANGED <<root, loaded>>
  PROVE  /\ Asked[t].call = "create" /\ Store!Over(t) /\ Named' = Named
         /\ Answers' = Answers /\ Asked[t].name = name[t] /\ Asked[t].content = content[t]
<1>1. loaded[t] = <<>>
  BY DEF CallsInv, Called
<1>2. /\ Store!Over(t) /\ Asked[t].call = call[t] /\ Asked[t].name = name[t]
      /\ Asked[t].content = content[t]
      /\ Answers'[t] = loaded'[t] /\ Answers[t] = <<>>
      /\ \A u \in Tasks \ {t} : Answers'[u] = Answers[u]
  BY ReturnIsOver
<1>3. \A u \in Tasks : Answers'[u] = Answers[u]
  BY <1>1, <1>2
<1>4. Answers' = Answers
  BY <1>3 DEF Answers
<1>5. Named' = Named
  BY DEF Named
<1>6. QED
  BY <1>2, <1>4, <1>5

LEMMA WriteDataIsMake ==
  ASSUME FilesInv, FilesInv', CallsInv, ~spoiled, ~spoiled', Grows, NEW t \in Tasks,
         WriteData(t)
  PROVE  Store!Make(t) \/ Store!Refuse(t)
<1>1. LocalsTypeOK /\ InPlace(t) /\ pc[t] = "fill" /\ call[t] = "create" /\ Creation(t)
      /\ DiskTypeOK
  BY DEF FilesInv, Base, KeptFiles, WriteData, At
<1>2. cluster[t] \in Table /\ content[t] \in Contents /\ slot[t] \in Slots \union {0}
      /\ name[t] \in Names /\ IsEntered(t)
  BY <1>1 DEF InPlace, LocalsTypeOK, Creation
<1>3. /\ Asked[t].call = "create" /\ Store!Over(t) /\ Named' = Named
      /\ Answers' = Answers /\ Asked[t].name = name[t] /\ Asked[t].content = content[t]
  BY <1>1, CreationIsOver DEF WriteData
<1>4. CASE slot[t] = 0
  <2>1. Texts' = Texts
    BY <1>4, TextsSame DEF WriteData
  <2>2. QED
    BY <1>3, <2>1 DEF Store!Refuse
<1>5. CASE slot[t] # 0
  <2>1. PICK p \in Slots : p = slot[t]
    BY <1>2, <1>5
  <2>2. PICK k \in Table : k = cluster[t]
    BY <1>2
  <2>3. PICK c \in Contents : c = content[t]
    BY <1>2
  <2>4. root[p].name = name[t] /\ p \notin settled /\ chain[p] = <<k>>
    BY <1>2, <1>5, <2>1, <2>2 DEF IsEntered
  <2>5. p \in DOMAIN Named /\ Named[p] = Asked[t].name
    BY <1>2, <1>3, <2>4 DEF Named, IsFile
  <2>6. /\ settled' = settled \union {p} /\ chain' = chain
        /\ data' = IF k <= DiskEnd THEN [data EXCEPT ![k] = c] ELSE data
    BY <1>5, <2>1, <2>2, <2>3 DEF WriteData
  <2>7. Holds(k)' \in {c, Nothing}
    <3>1. k <= DiskEnd => k \in 2 .. DiskEnd
      BY ConstantsAre, FilesAssumption DEF Table
    <3>2. QED
      BY <1>1, <2>6, <3>1 DEF Holds, DiskTypeOK
  <2>8. OnDisk(p)' = <<Holds(k)'>>
    <3>1. Len(chain'[p]) = 1 /\ chain'[p][1] = k
      BY <2>4, <2>6
    <3>2. OnDisk(p)' = [j \in 1 .. 1 |-> Holds(k)']
      BY <3>1 DEF OnDisk, Holds
    <3>3. QED
      BY <3>2
  <2>9. \A q \in settled : OnDisk(q)' = OnDisk(q)
    BY TextsStay
  <2>10. Texts' = [q \in DOMAIN Texts \union {p} |-> IF q = p THEN <<Holds(k)'>> ELSE Texts[q]]
    <3>1. Texts' = [q \in settled \union {p} |-> OnDisk(q)'] /\ DOMAIN Texts = settled
      BY <2>6 DEF Texts
    <3>2. \A q \in settled \union {p} :
            OnDisk(q)' = IF q = p THEN <<Holds(k)'>> ELSE Texts[q]
      BY <2>8, <2>9 DEF Texts
    <3>3. QED
      BY <3>1, <3>2
  <2>11. p \in (DOMAIN Texts' \ DOMAIN Texts) \intersect DOMAIN Named
    <3>1. p \in DOMAIN Texts' /\ p \notin DOMAIN Texts
      BY <2>4, <2>10 DEF Texts
    <3>2. QED
      BY <2>5, <3>1
  <2>12. Holds(k)' \in {Asked[t].content, Nothing}
    BY <1>3, <2>3, <2>7
  <2>13. QED
    BY <1>3, <2>5, <2>10, <2>11, <2>12 DEF Store!Make, Store!With
<1>6. QED
  BY <1>4, <1>5

LEMMA CreationInStore ==
  ASSUME FilesInv, FilesInv', CallsInv, ~spoiled, ~spoiled', Grows, NEW t \in Tasks,
         CreateStep(t)
  PROVE  \/ Store!Enter(t) \/ Store!Make(t) \/ Store!Refuse(t)
         \/ UNCHANGED <<Named, Texts, Asked, Answers, spoiled>>
<1>1. LocalsTypeOK
  BY DEF FilesInv, Base
<1>2. ASSUME UNCHANGED <<call, name, content, loaded, root, settled, spoiled>>
      PROVE  UNCHANGED <<Named, Texts, Asked, Answers, spoiled>>
  <2>1. Asked' = Asked /\ Answers' = Answers
    BY <1>2, NothingAsked
  <2>2. Texts' = Texts
    BY <1>2, TextsSame
  <2>3. Named' = Named
    BY <1>2 DEF Named
  <2>4. QED
    BY <1>2, <2>1, <2>2, <2>3
<1>3. CASE ReadTable(t)
  <2>1. /\ call[t] = "create" /\ UNCHANGED <<root, loaded, settled>>
        /\ \/ UNCHANGED <<call, name, content, spoiled>>
           \/ Return(t)
    BY <1>3 DEF ReadTable, At, made, NextSector, Take, Goto
  <2>2. CASE UNCHANGED <<call, name, content, spoiled>>
    BY <1>2, <2>1, <2>2
  <2>3. CASE Return(t)
    <3>1. /\ Asked[t].call = "create" /\ Store!Over(t) /\ Named' = Named
          /\ Answers' = Answers
      BY <1>1, <2>1, <2>3, CreationIsOver
    <3>2. Texts' = Texts
      BY <2>1, TextsSame
    <3>3. QED
      BY <3>1, <3>2 DEF Store!Refuse
  <2>4. QED
    BY <2>1, <2>2, <2>3
<1>4. CASE ReadRoot(t) \/ WriteTable(t)
  <2>1. UNCHANGED <<call, name, content, loaded, root, settled, spoiled>>
    BY <1>4 DEF ReadRoot, WriteTable, NextSector, Goto, disk, made
  <2>2. QED
    BY <1>2, <2>1
<1>5. CASE PutEntry(t)
  BY <1>5, PutEntryIsEnter
<1>6. CASE WriteData(t)
  BY <1>6, WriteDataIsMake
<1>7. QED
  BY <1>3, <1>4, <1>5, <1>6 DEF CreateStep

(* The end of a call that reads: an answer, if the store has it to give.   *)
LEMMA ReadingIsOver ==
  ASSUME FilesInv, FilesInv', ~spoiled, ~spoiled', Grows, NEW t \in Tasks,
         ReadStep(t), Return(t), Store!Gives(Asked[t], loaded'[t], t \in robbed)
  PROVE  Store!Answer(t)
<1>1. /\ LocalsTypeOK /\ MemoryTypeOK /\ call[t] \in {"load"} \union Opening
      /\ UNCHANGED <<root, settled>>
  BY ReadStepIs DEF FilesInv, Base, disk, made
<1>2. \A u \in Tasks \ {t} : loaded'[u] = loaded[u]
  BY <1>1 DEF MemoryTypeOK, ReadStep, ReadCache, Search, ReadCluster, ReadDescribed,
              assemble_to_bin
<1>3. call[t] \notin {"none", "create"}
  BY <1>1 DEF Opening, Commands
<1>4. /\ Store!Over(t) /\ Asked[t].call = call[t] /\ Answers'[t] = loaded'[t]
      /\ \A u \in Tasks \ {t} : Answers'[u] = Answers[u]
  BY <1>1, <1>2, <1>3, ReturnIsOver
<1>5. Named' = Named /\ Texts' = Texts
  BY <1>1, TextsSame DEF Named
<1>6. QED
  BY <1>3, <1>4, <1>5 DEF Store!Answer

(* What read_file has read at last, cluster by cluster.                    *)
LEMMA LoadAgrees ==
  ASSUME FilesInv, ~spoiled, NEW t \in Tasks, ReadCluster(t), Return(t),
         slot[t] \in settled
  PROVE  Store!Agrees(loaded'[t], OnDisk(slot[t]))
<1> DEFINE s == slot[t]
           n == Len(loaded[t])
           following == cached_fat[cluster[t]]
<1>1. Base /\ KeptFiles /\ KeptCopy /\ KeptReads /\ pc[t] = "chain" /\ call[t] = "load"
      /\ LocalsTypeOK
  BY DEF FilesInv, ReadCluster, At, Base
<1>2. following \in {FREE, LAST}
  BY <1>1 DEF ReadCluster, Return, LocalsTypeOK
<1>3. /\ s \in Slots /\ n \in Nat /\ cluster[t] \in Table
      /\ n < Len(chain[s]) /\ cluster[t] = chain[s][n + 1] /\ n + 1 = Len(chain[s])
  BY <1>1, <1>2, FollowingIs
<1>4. /\ Chained(s) /\ chain[s] \in Seq(Table)
      /\ loaded \in [Tasks -> Seq(Contents \union {Nothing, Key})]
  BY <1>1, <1>3 DEF KeptFiles, FilesStay, Base, DiskTypeOK, MemoryTypeOK
<1>5. loaded'[t] = Append(loaded[t], Holds(cluster[t]))
  BY <1>4 DEF ReadCluster
<1>6. Holds(cluster[t]) \in Contents \union {Nothing, Key}
  BY <1>1, <1>3, HoldsIs
<1>7. /\ Len(loaded'[t]) = n + 1 /\ loaded'[t][n + 1] = Holds(cluster[t])
      /\ \A j \in 1 .. n : loaded'[t][j] = loaded[t][j]
  <2>1. loaded[t] \in Seq(Contents \union {Nothing, Key})
    BY <1>4
  <2>2. QED
    BY <1>5, <1>6, <2>1
<1>8. \A j \in 1 .. n : chain[s][j] <= DiskEnd => loaded[t][j] = data[chain[s][j]]
  <2>1. Loading(t)
    BY <1>1 DEF KeptReads
  <2>2. \A j \in 1 .. n : j \in 1 .. Len(chain[s]) /\ n # 0
    BY <1>3
  <2>3. \A j \in 1 .. n : chain[s][j] <= DiskEnd => loaded[t][j] = whole[s][j]
    BY <2>1, <2>2 DEF Loading
  <2> HIDE DEF n, s
  <2>4. QED
    BY <1>4, <2>2, <2>3 DEF Chained
<1> HIDE DEF n, s, following
<1>9. \A j \in 1 .. n + 1 : Holds(chain[s][j]) \in {loaded'[t][j], Nothing}
  <2>1. \A j \in 1 .. n + 1 : j \in 1 .. n \/ j = n + 1
    BY <1>3
  <2>2. \A j \in 1 .. n : Holds(chain[s][j]) \in {loaded'[t][j], Nothing}
    BY <1>7, <1>8 DEF Holds
  <2>3. QED
    BY <1>3, <1>7, <2>1, <2>2
<1>10. Len(OnDisk(s)) = n + 1 /\ \A j \in 1 .. n + 1 : OnDisk(s)[j] = Holds(chain[s][j])
  BY <1>3 DEF OnDisk
<1>11. QED
  BY <1>7, <1>9, <1>10 DEF Store!Agrees, s

(* What cat has read: the file it opened, or, if another task closed that, *)
(* the one the descriptor is of now.                                       *)
LEMMA CatAgrees ==
  ASSUME FilesInv, ~spoiled, NEW t \in Tasks, ReadDescribed(t), call[t] = "cat",
         loaded'[t] # <<>>
  PROVE  \E s \in Slots :
           /\ IsFile(root[s]) /\ (s = slot[t] \/ t \in robbed)
           /\ s \in settled => Store!Agrees(loaded'[t], <<OnDisk(s)[1]>>)
<1> DEFINE f == vfs_fd[fd[t]]
           s == fd_slot[f]
<1>1. Base /\ KeptFiles /\ KeptOpen /\ pc[t] = "read"
  BY DEF FilesInv, ReadDescribed
<1>2. fd[t] \in VfsFds /\ loaded'[t] = vfs_read(fd[t])
  BY <1>1 DEF Base, InPlace, ReadDescribed, MemoryTypeOK
<1>3. f # 0
  BY <1>2 DEF vfs_read
<1>4. f \in Fds /\ fd_cluster[f] # 0
  BY <1>1, <1>2, <1>3 DEF Base, MemoryTypeOK, Descriptors
<1>5. s \in Slots /\ IsFile(root[s]) /\ fd_cluster[f] = root[s].cluster
  BY <1>1, <1>4 DEF KeptOpen
<1>6. loaded'[t] = <<Holds(root[s].cluster)>>
  BY <1>2, <1>3, <1>5 DEF vfs_read
<1>7. ASSUME s \in settled
      PROVE  Store!Agrees(loaded'[t], <<OnDisk(s)[1]>>)
  <2>1. Chained(s) /\ chain[s] \in Seq(Table)
    BY <1>1, <1>5, <1>7 DEF KeptFiles, FilesStay, Base, DiskTypeOK
  <2>2. root[s].cluster = chain[s][1] /\ 1 \in 1 .. Len(chain[s])
    BY <2>1 DEF Chained
  <2>3. OnDisk(s)[1] = Holds(root[s].cluster)
    BY <2>2 DEF OnDisk
  <2>4. QED
    BY <1>6, <2>3 DEF Store!Agrees
<1>8. s = slot[t] \/ t \in robbed
  BY <1>1, <1>2 DEF KeptOpen
<1>9. QED
  BY <1>5, <1>7, <1>8

LEMMA WhatIsGiven ==
  ASSUME FilesInv, CallsInv, ~spoiled, NEW t \in Tasks, ReadStep(t), Return(t)
  PROVE  Store!Gives(Asked[t], loaded'[t], t \in robbed)
<1>1. LocalsTypeOK /\ InPlace(t) /\ Asked[t].call = call[t] /\ Asked[t].name = name[t]
  BY DEF FilesInv, Base, Asked
<1>2. CASE loaded'[t] = <<>> \/ call[t] = "casm"
  BY <1>1, <1>2 DEF Store!Gives
<1>3. ASSUME NEW s \in Slots, IsFile(root[s]), call[t] \in {"load", "cat"},
             pc[t] \in {"chain", "read"},
             s = slot[t] \/ (call[t] = "cat" /\ t \in robbed),
             s \in settled =>
               /\ call[t] = "load" => Store!Agrees(loaded'[t], OnDisk(s))
               /\ call[t] = "cat" => Store!Agrees(loaded'[t], <<OnDisk(s)[1]>>)
      PROVE  Store!Gives(Asked[t], loaded'[t], t \in robbed)
  <2>1. s = slot[t] => root[s].name = name[t]
    BY <1>3 DEF CallsInv, Called
  <2>2. s \in DOMAIN Named /\ Named[s] = root[s].name
    BY <1>3 DEF Named
  <2>3. Named[s] = Asked[t].name \/ (t \in robbed /\ Asked[t].call = "cat")
    BY <1>1, <1>3, <2>1, <2>2
  <2>4. s \in DOMAIN Texts => s \in settled /\ Texts[s] = OnDisk(s)
    BY DEF Texts
  <2>5. s \in DOMAIN Texts =>
          Store!Agrees(loaded'[t],
                       IF Asked[t].call = "load" THEN Texts[s] ELSE <<Texts[s][1]>>)
    BY <1>1, <1>3, <2>4
  <2>6. QED
    BY <2>2, <2>3, <2>5 DEF Store!Gives
<1>4. pc'[t] = "idle"
  BY <1>1 DEF Return, LocalsTypeOK
<1>5. CASE ReadCache(t)
  <2>1. FALSE
    BY <1>1, <1>4, <1>5 DEF ReadCache, NextSector, Goto, LocalsTypeOK
  <2>2. QED
    BY <2>1
<1>6. CASE Search(t)
  <2>1. loaded'[t] = loaded[t] /\ loaded[t] = <<>>
    BY <1>6 DEF Search, FilesInv, KeptReads
  <2>2. QED
    BY <1>2, <2>1
<1>7. CASE ReadCluster(t)
  <2>1. call[t] = "load" /\ pc[t] = "chain" /\ slot[t] \in Slots
    BY <1>1, <1>7 DEF ReadCluster, At, InPlace, LocalsTypeOK
  <2>2. IsFile(root[slot[t]])
    BY <2>1 DEF FilesInv, KeptReads, Loading
  <2>3. slot[t] \in settled => Store!Agrees(loaded'[t], OnDisk(slot[t]))
    BY <1>7, LoadAgrees
  <2>4. QED
    BY <1>3, <2>1, <2>3, <2>2
<1>8. CASE ReadDescribed(t)
  <2>1. pc[t] = "read" /\ call[t] \in {"cat", "casm"}
    BY <1>8 DEF ReadDescribed
  <2>2. ASSUME call[t] = "cat", loaded'[t] # <<>>
        PROVE  Store!Gives(Asked[t], loaded'[t], t \in robbed)
    <3>1. PICK s \in Slots :
             /\ IsFile(root[s]) /\ (s = slot[t] \/ t \in robbed)
             /\ s \in settled => Store!Agrees(loaded'[t], <<OnDisk(s)[1]>>)
      BY <1>8, <2>2, CatAgrees
    <3>2. QED
      BY <1>3, <2>1, <2>2, <3>1
  <2>3. QED
    BY <1>2, <2>1, <2>2
<1>9. CASE assemble_to_bin(t)
  BY <1>2, <1>9 DEF assemble_to_bin, At
<1>10. QED
  BY <1>5, <1>6, <1>7, <1>8, <1>9 DEF ReadStep

LEMMA ReadingInStore ==
  ASSUME FilesInv, FilesInv', CallsInv, ~spoiled, ~spoiled', Grows, NEW t \in Tasks,
         ReadStep(t)
  PROVE  Store!Answer(t) \/ UNCHANGED <<Named, Texts, Asked, Answers, spoiled>>
<1>1. CASE UNCHANGED <<call, name, content>>
  <2>1. /\ call[t] \in {"load"} \union Opening
        /\ UNCHANGED <<root, settled, spoiled>>
    BY ReadStepIs DEF FilesInv, disk, made
  <2>2. \A u \in Tasks \ {t} : loaded'[u] = loaded[u]
    BY DEF FilesInv, Base, MemoryTypeOK, ReadStep, ReadCache, Search, ReadCluster,
           ReadDescribed, assemble_to_bin
  <2>3. \A u \in Tasks : call[u] = "none" => loaded'[u] = loaded[u]
    BY <2>1, <2>2 DEF Opening, Commands
  <2>4. Asked' = Asked /\ Answers' = Answers
    BY <1>1, <2>3, NothingAsked
  <2>5. Named' = Named /\ Texts' = Texts
    BY <2>1, TextsSame DEF Named
  <2>6. QED
    BY <2>1, <2>4, <2>5
<1>2. CASE Return(t)
  BY <1>2, WhatIsGiven, ReadingIsOver
<1>3. QED
  BY <1>1, <1>2, ReturnsOrGoesOn

LEMMA PowerFailsInStore ==
  ASSUME FilesInv, FilesInv', ~spoiled, ~spoiled', Grows, PowerFails
  PROVE  Store!PowerFails
<1>1. /\ call' = [t \in Tasks |-> "none"] /\ name' = [t \in Tasks |-> "end"]
      /\ content' = [t \in Tasks |-> Nothing] /\ loaded' = [t \in Tasks |-> <<>>]
      /\ UNCHANGED <<root, settled>>
  BY DEF PowerFails, disk
<1>2. Asked' = [t \in Tasks |-> [call |-> "none", name |-> "end", content |-> Nothing]]
  BY <1>1 DEF Asked
<1>3. Answers' = [t \in Tasks |-> <<>>]
  BY <1>1 DEF Answers
<1>4. Named' = Named /\ Texts' = Texts
  BY <1>1, TextsSame DEF Named
<1>5. QED
  BY <1>2, <1>3, <1>4 DEF Store!PowerFails, Store!Quiet

LEMMA StepInStore ==
  ASSUME FilesInv, FilesInv', CallsInv, [FilesNext]_filesVars
  PROVE  [Store!StoreNext]_(Store!storeVars)
<1>1. CASE spoiled'
  BY <1>1 DEF Store!StoreNext
<1>2. ASSUME ~spoiled'
      PROVE  Store!StoreNext \/ UNCHANGED <<Named, Texts, Asked, Answers, spoiled>>
  <2>1. ~spoiled /\ Grows /\ Base
    BY <1>2, GrowsNext DEF FilesInv
  <2>2. ASSUME UNCHANGED <<locals, root, settled, spoiled>>
        PROVE  UNCHANGED <<Named, Texts, Asked, Answers, spoiled>>
    <3>1. Asked' = Asked /\ Answers' = Answers
      BY <2>2 DEF Asked, Answers, locals
    <3>2. Named' = Named /\ Texts' = Texts
      BY <1>2, <2>1, <2>2, TextsSame DEF Named
    <3>3. QED
      BY <2>2, <3>1, <3>2
  <2>3. CASE UNCHANGED filesVars
    BY <2>2, <2>3 DEF filesVars, disk, made
  <2>4. ASSUME NEW t \in Tasks,
               \/ \E w \in Writes : Create(t, w[1], w[2])
               \/ \E n \in Names : Open(t, n) \/ ReadFile(t, n) \/ Cat(t, n) \/ Casm(t, n)
        PROVE  Store!StoreNext
    <3>1. PICK n \in Names :
             \/ \E c \in Contents : Begin(t, "create", "table", n, c)
             \/ \E what \in {"load"} \union Opening :
                  Begin(t, what, IF disk_initialized THEN "search" ELSE "cache", n, Nothing)
      BY <2>4, CallIs
    <3>2. ASSUME NEW c \in Contents, Begin(t, "create", "table", n, c)
          PROVE  Store!Ask(t)
      BY <2>1, <3>2, BeginIsAsk
    <3>3. ASSUME NEW what \in {"load"} \union Opening,
                 Begin(t, what, IF disk_initialized THEN "search" ELSE "cache", n, Nothing)
          PROVE  Store!Ask(t)
      <4>1. PICK where \in {"cache", "search"} : Begin(t, what, where, n, Nothing)
        BY <3>3
      <4>2. QED
        BY <2>1, <4>1, BeginIsAsk
    <3>4. QED
      BY <3>1, <3>2, <3>3 DEF Store!StoreNext
  <2>5. ASSUME NEW t \in Tasks, CreateStep(t)
        PROVE  Store!StoreNext \/ UNCHANGED <<Named, Texts, Asked, Answers, spoiled>>
    BY <1>2, <2>1, <2>5, CreationInStore DEF Store!StoreNext
  <2>6. ASSUME NEW t \in Tasks, ReadStep(t)
        PROVE  Store!StoreNext \/ UNCHANGED <<Named, Texts, Asked, Answers, spoiled>>
    BY <1>2, <2>1, <2>6, ReadingInStore DEF Store!StoreNext
  <2>7. ASSUME NEW t \in Tasks, NEW v \in VfsFds, Close(t, v)
        PROVE  UNCHANGED <<Named, Texts, Asked, Answers, spoiled>>
    BY <2>2, <2>7 DEF Close, disk, made
  <2>8. CASE PowerFails
    BY <1>2, <2>1, <2>8, PowerFailsInStore DEF Store!StoreNext
  <2>9. QED
    BY <1>2, <2>3, <2>4, <2>5, <2>6, <2>7, <2>8 DEF FilesNext, Meet
<1>3. QED
  BY <1>1, <1>2 DEF Store!storeVars

(* The files, with their sectors, their tables and the copies of them,     *)
(* implement the store of FileStore: a text that was made is there for     *)
(* good, every answer is a file of the name that was asked for, whole as   *)
(* it is on the disk, whatever else is called between the sectors and      *)
(* wherever the power fails (vfs.c, fat.c, read.c, write.c).               *)
THEOREM FilesRefinement == FilesSpec => ImplementsStore
<1>1. FilesInit => Store!StoreInit
  <2>1. SUFFICES ASSUME FilesInit
                 PROVE  Store!StoreInit
    OBVIOUS
  <2>2. /\ call = [t \in Tasks |-> "none"] /\ name = [t \in Tasks |-> "end"]
        /\ content = [t \in Tasks |-> Nothing] /\ loaded = [t \in Tasks |-> <<>>]
        /\ settled = {s \in Slots : IsFile(root[s])} /\ spoiled = FALSE
    BY <2>1 DEF FilesInit, MemoryInit
  <2>3. Asked = [t \in Tasks |-> [call |-> "none", name |-> "end", content |-> Nothing]]
        /\ Answers = [t \in Tasks |-> <<>>]
    BY <2>2 DEF Asked, Answers
  <2>4. DOMAIN Named \subseteq Slots /\ DOMAIN Texts \subseteq DOMAIN Named
    BY <2>2 DEF Named, Texts
  <2>5. QED
    BY <2>2, <2>3, <2>4 DEF Store!StoreInit, Store!Quiet
<1>2. FilesInit => CallsInv
  BY DEF FilesInit, MemoryInit, CallsInv, Called
<1>3. FilesInv /\ FilesInv' /\ CallsInv /\ [FilesNext]_filesVars => CallsInv'
  BY CalledNext
<1>4. FilesInv /\ FilesInv' /\ CallsInv /\ [FilesNext]_filesVars
        => [Store!StoreNext]_(Store!storeVars)
  BY StepInStore
<1>5. FilesSpec => []CallsInv
  BY <1>2, <1>3, FilesInvHolds, PTL DEF FilesSpec
<1>6. QED
  BY <1>1, <1>4, <1>5, FilesInvHolds, PTL DEF FilesSpec, ImplementsStore, Store!StoreSpec

-----------------------------------------------------------------------------
(* The table as bytes, which the array of values in Files stands for.      *)

-----------------------------------------------------------------------------
(* Quotients and remainders by the constants of the code.                  *)
LEMMA Split16 ==
  ASSUME NEW w \in Nat
  PROVE  w \div 16 \in Nat /\ w % 16 \in 0 .. 15 /\ w = (w % 16) + 16 * (w \div 16)
<1>1. w \div 16 \in Int /\ w \div 16 >= 0
  OBVIOUS
<1>2. w = (w % 16) + 16 * (w \div 16) /\ w % 16 \in 0 .. 15
  OBVIOUS
<1>3. QED
  BY <1>1, <1>2

LEMMA Split256 ==
  ASSUME NEW w \in Nat
  PROVE  w \div 256 \in Nat /\ w % 256 \in Byte /\ w = (w % 256) + 256 * (w \div 256)
<1>1. w \div 256 \in Int /\ w \div 256 >= 0
  OBVIOUS
<1>2. w = (w % 256) + 256 * (w \div 256) /\ w % 256 \in 0 .. 255
  OBVIOUS
<1>3. QED
  BY <1>1, <1>2 DEF Byte

LEMMA Split4096 ==
  ASSUME NEW w \in Nat
  PROVE  w \div 4096 \in Nat /\ w % 4096 \in Value /\ w = (w % 4096) + 4096 * (w \div 4096)
<1>1. w \div 4096 \in Int /\ w \div 4096 >= 0
  OBVIOUS
<1>2. w = (w % 4096) + 4096 * (w \div 4096) /\ w % 4096 \in 0 .. 4095
  OBVIOUS
<1>3. QED
  BY <1>1, <1>2 DEF Value

LEMMA Bytes2 ==
  ASSUME NEW a \in Byte, NEW b \in Byte
  PROVE  a + 256 * b \in Nat /\ a + 256 * b <= 65535
BY DEF Byte

LEMMA Join16 ==
  ASSUME NEW q \in Nat, NEW r \in 0 .. 15
  PROVE  (16 * q + r) \div 16 = q /\ (16 * q + r) % 16 = r
OBVIOUS

LEMMA Join4096 ==
  ASSUME NEW q \in Nat, NEW r \in Value
  PROVE  (4096 * q + r) % 4096 = r /\ (4096 * q + r) \div 4096 = q
BY DEF Value

LEMMA Shifted ==
  ASSUME NEW v \in Value
  PROVE  v % 4096 = v /\ (v * 16) % 65536 = 16 * v
BY DEF Value

-----------------------------------------------------------------------------
LEMMA OffsetIs ==
  ASSUME NEW n \in Nat
  PROVE  /\ Offset(n) \in Nat
         /\ n % 2 = 0 => 2 * Offset(n) = 3 * n
         /\ n % 2 # 0 => n % 2 = 1 /\ 2 * Offset(n) = 3 * n - 1
BY DEF Offset

(* The two bytes of a cluster are in the table.                            *)
LEMMA InTable ==
  ASSUME NEW n \in Cluster
  PROVE  n \in Nat /\ Offset(n) \in Bytes /\ Offset(n) + 1 \in Bytes /\ Offset(n) \in Nat
<1>1. n \in Nat /\ n < Clusters /\ Clusters \in Nat
  BY FatTableAssumption DEF Cluster
<1>2. Offset(n) \in Nat /\ Offset(n) <= Offset(Clusters) /\ Offset(Clusters) \in Nat
  BY <1>1, OffsetIs
<1>3. QED
  BY <1>1, <1>2 DEF Bytes

LEMMA WordIs ==
  ASSUME NEW t \in FatTables, NEW i \in Bytes, i + 1 \in Bytes
  PROVE  /\ Word(t, i) \in Nat /\ Word(t, i) <= 65535
         /\ t[i] \in Byte /\ t[i + 1] \in Byte
<1>1. t[i] \in Byte /\ t[i + 1] \in Byte
  BY DEF FatTables
<1>2. QED
  BY <1>1, Bytes2 DEF Word

(* The word that was put is the word that is read.                         *)
LEMMA PutWordIs ==
  ASSUME NEW t \in FatTables, NEW n \in Cluster, NEW w \in Nat, w <= 65535
  PROVE  LET o == Offset(n)
             u == PutWord(t, o, w)
         IN  /\ u \in FatTables /\ u[o] = w % 256 /\ u[o + 1] = w \div 256
             /\ Word(u, o) = w
             /\ \A j \in Bytes \ {o, o + 1} : u[j] = t[j]
<1> DEFINE o == Offset(n)
           k == o + 1
           x == w % 256
           y == w \div 256
           u == PutWord(t, o, w)
<1>1. o \in Bytes /\ k \in Bytes /\ o # k
  BY InTable
<1>2. x \in Byte /\ y \in Nat /\ w = x + 256 * y
  BY Split256
<1>3. y \in Byte
  <2> HIDE DEF x, y
  <2>1. QED
    BY <1>2 DEF Byte
<1>4. u = [t EXCEPT ![o] = x, ![k] = y]
  BY DEF PutWord
<1> HIDE DEF x, y, k, o, u
<1>5. /\ u \in FatTables /\ u[o] = x /\ u[k] = y
      /\ \A j \in Bytes \ {o, k} : u[j] = t[j]
  <2>1. x \in Byte /\ t \in FatTables
    BY <1>2
  <2>2. QED
    BY <1>1, <1>3, <1>4, <2>1 DEF FatTables
<1>6. x + 256 * y = w
  BY <1>2, <1>3 DEF Byte
<1>7. QED
  BY <1>5, <1>6 DEF Word, x, y, k, o, u

-----------------------------------------------------------------------------
(* The word that set_fat_entry puts: the value beside the other cluster's  *)
(* part of the word.                                                       *)
LEMMA EvenWord ==
  ASSUME NEW w \in Nat, w <= 65535, NEW v \in Value
  PROVE  /\ (w - (w % 4096)) + (v % 4096) = 4096 * (w \div 4096) + v
         /\ 4096 * (w \div 4096) + v \in Nat /\ 4096 * (w \div 4096) + v <= 65535
<1> DEFINE h == w \div 4096
           l == w % 4096
<1>1. h \in Nat /\ l \in Nat /\ w = l + 4096 * h
  BY Split4096 DEF Value
<1>2. v % 4096 = v /\ v \in Nat /\ v <= 4095
  BY Shifted DEF Value
<1> HIDE DEF h, l
<1>3. h <= 15
  BY <1>1
<1> DEFINE m == v % 4096
<1>4. (w - l) + m = 4096 * h + v
  <2>1. m = v
    BY <1>2
  <2> HIDE DEF m
  <2>2. QED
    BY <1>1, <1>2, <2>1
<1>5. 4096 * h + v \in Nat /\ 4096 * h + v <= 65535
  BY <1>1, <1>2, <1>3
<1>6. QED
  BY <1>4, <1>5 DEF h, l

LEMMA OddWord ==
  ASSUME NEW w \in Nat, NEW v \in Value
  PROVE  /\ (w % 16) + ((v * 16) % 65536) = 16 * v + (w % 16)
         /\ 16 * v + (w % 16) \in Nat /\ 16 * v + (w % 16) <= 65535
<1> DEFINE l == w % 16
<1>1. l \in Nat /\ l <= 15
  BY Split16
<1>2. (v * 16) % 65536 = 16 * v /\ v \in Nat /\ v <= 4095
  BY Shifted DEF Value
<1> HIDE DEF l
<1> DEFINE m == (v * 16) % 65536
<1>3. l + m = 16 * v + l /\ 16 * v + l \in Nat /\ 16 * v + l <= 65535
  <2>1. m = 16 * v
    BY <1>2
  <2> HIDE DEF m
  <2>2. QED
    BY <1>1, <1>2, <2>1
<1>4. QED
  BY <1>3 DEF l

LEMMA SetEven ==
  ASSUME NEW t \in FatTables, NEW n \in Cluster, NEW v \in Value, n % 2 = 0
  PROVE  set_fat_entry(n, v, t) =
           PutWord(t, Offset(n), 4096 * (Word(t, Offset(n)) \div 4096) + v)
<1>1. Word(t, Offset(n)) \in Nat /\ Word(t, Offset(n)) <= 65535
  BY InTable, WordIs
<1> DEFINE w == Word(t, Offset(n))
           new == (w - (w % 4096)) + (v % 4096)
<1>2. set_fat_entry(n, v, t) = PutWord(t, Offset(n), new)
  BY DEF set_fat_entry
<1> HIDE DEF w
<1>3. new = 4096 * (w \div 4096) + v
  BY <1>1, EvenWord DEF w
<1> HIDE DEF new
<1>4. QED
  BY <1>2, <1>3 DEF w

LEMMA SetOdd ==
  ASSUME NEW t \in FatTables, NEW n \in Cluster, NEW v \in Value, n % 2 # 0
  PROVE  set_fat_entry(n, v, t) =
           PutWord(t, Offset(n), 16 * v + (Word(t, Offset(n)) % 16))
<1>1. Word(t, Offset(n)) \in Nat
  BY InTable, WordIs
<1> DEFINE w == Word(t, Offset(n))
           new == (w % 16) + ((v * 16) % 65536)
<1>2. set_fat_entry(n, v, t) = PutWord(t, Offset(n), new)
  BY DEF set_fat_entry
<1> HIDE DEF w
<1>3. new = 16 * v + (w % 16)
  BY <1>1, OddWord DEF w
<1> HIDE DEF new
<1>4. QED
  BY <1>2, <1>3 DEF w

-----------------------------------------------------------------------------
(* What was set is what is found (write.c 14-23, fat.c 17-27).             *)
THEOREM GetAfterSet ==
  ASSUME NEW t \in FatTables, NEW n \in Cluster, NEW v \in Value
  PROVE  /\ set_fat_entry(n, v, t) \in FatTables
         /\ get_fat_entry(n, set_fat_entry(n, v, t)) = v
<1> DEFINE w == Word(t, Offset(n))
           h == w \div 4096
           l == w % 16
           u == set_fat_entry(n, v, t)
<1>1. w \in Nat /\ w <= 65535
  BY InTable, WordIs
<1> HIDE DEF w
<1>2. h \in Nat /\ l \in 0 .. 15 /\ v \in Nat
  BY <1>1, Split4096, Split16 DEF Value
<1>3. CASE n % 2 = 0
  <2>1. u = PutWord(t, Offset(n), 4096 * h + v)
    BY <1>3, SetEven DEF w
  <2>2. 4096 * h + v \in Nat /\ 4096 * h + v <= 65535
    BY <1>1, EvenWord
  <2> HIDE DEF u, h
  <2>3. u \in FatTables /\ Word(u, Offset(n)) = 4096 * h + v
    BY <2>1, <2>2, PutWordIs
  <2>4. (4096 * h + v) % 4096 = v
    BY <1>2, Join4096
  <2>5. QED
    BY <1>3, <2>3, <2>4 DEF get_fat_entry, u
<1>4. CASE n % 2 # 0
  <2>1. u = PutWord(t, Offset(n), 16 * v + l)
    BY <1>4, SetOdd DEF w
  <2>2. 16 * v + l \in Nat /\ 16 * v + l <= 65535
    BY <1>1, OddWord
  <2> HIDE DEF u, l
  <2>3. u \in FatTables /\ Word(u, Offset(n)) = 16 * v + l
    BY <2>1, <2>2, PutWordIs
  <2>4. (16 * v + l) \div 16 = v
    BY <1>2, Join16
  <2>5. QED
    BY <1>4, <2>3, <2>4 DEF get_fat_entry, u
<1>5. QED
  BY <1>3, <1>4

(* The higher half of a byte that an even cluster shares with the next.    *)
LEMMA UpperKept ==
  ASSUME NEW a \in Byte, NEW b \in Byte, NEW c \in Byte, NEW d \in Byte,
         NEW e \in Byte, NEW v \in Value,
         c + 256 * d = 4096 * ((a + 256 * b) \div 4096) + v
  PROVE  (d + 256 * e) \div 16 = (b + 256 * e) \div 16
<1> DEFINE q == b \div 16
           r == b % 16
<1>1. /\ a \in Nat /\ b \in Nat /\ c \in Nat /\ d \in Nat /\ e \in Nat /\ v \in Nat
      /\ a <= 255 /\ c <= 255 /\ v <= 4095
  BY DEF Byte, Value
<1>2. q \in Nat /\ r \in Nat /\ r <= 15 /\ b = r + 16 * q
  BY <1>1, Split16
<1> HIDE DEF q, r
<1>3. (a + 256 * b) \div 4096 = q
  <2>1. a + 256 * r \in Value /\ a + 256 * b = 4096 * q + (a + 256 * r)
    BY <1>1, <1>2 DEF Value
  <2>2. QED
    BY <1>2, <2>1, Join4096
<1> DEFINE k == d - 16 * q
<1>4. k \in 0 .. 15 /\ d = 16 * q + k
  <2>1. c + 256 * d = 4096 * q + v
    BY <1>3
  <2>2. k \in Int /\ 256 * k = v - c
    BY <1>1, <1>2, <2>1
  <2>3. d = 16 * q + k
    BY <1>1, <1>2
  <2> HIDE DEF k
  <2>4. k >= 0 /\ k <= 15
    BY <1>1, <2>2
  <2>5. QED
    BY <2>2, <2>3, <2>4
<1> HIDE DEF k
<1>5. d + 256 * e = 16 * (q + 16 * e) + k /\ b + 256 * e = 16 * (q + 16 * e) + r
  BY <1>1, <1>2, <1>4
<1> DEFINE both == q + 16 * e
<1>6. both \in Nat /\ r \in 0 .. 15
  BY <1>1, <1>2
<1> HIDE DEF both
<1>7. (16 * both + k) \div 16 = both /\ (16 * both + r) \div 16 = both
  BY <1>4, <1>6, Join16
<1>8. QED
  BY <1>5, <1>7 DEF both

(* The lower half of a byte that an odd cluster shares with the one before.*)
LEMMA LowerKept ==
  ASSUME NEW a \in Byte, NEW b \in Byte, NEW c \in Byte, NEW d \in Byte,
         NEW e \in Byte, NEW v \in Value,
         c + 256 * d = 16 * v + ((a + 256 * b) % 16)
  PROVE  (e + 256 * c) % 4096 = (e + 256 * a) % 4096
<1> DEFINE q == a \div 16
           r == a % 16
<1>1. /\ a \in Nat /\ b \in Nat /\ c \in Nat /\ d \in Nat /\ e \in Nat /\ v \in Nat
      /\ e <= 255
  BY DEF Byte, Value
<1>2. q \in Nat /\ r \in Nat /\ r <= 15 /\ a = r + 16 * q
  BY <1>1, Split16
<1> HIDE DEF q, r
<1>3. (a + 256 * b) % 16 = r
  <2>1. r \in 0 .. 15 /\ q + 16 * b \in Nat /\ a + 256 * b = 16 * (q + 16 * b) + r
    BY <1>1, <1>2
  <2>2. QED
    BY <2>1, Join16
<1> DEFINE part == (a + 256 * b) % 16
<1>0. c + 256 * d = 16 * v + r
  <2>1. part = r /\ c + 256 * d = 16 * v + part
    BY <1>3
  <2> HIDE DEF part
  <2>2. QED
    BY <2>1
<1> DEFINE k == v - 16 * d
<1>4. k \in Nat /\ c = r + 16 * k
  <2>1. k \in Int /\ c + 256 * d = 16 * v + r
    BY <1>0, <1>1
  <2>2. c = r + 16 * k
    <3>1. 16 * k = 16 * v - 256 * d
      BY <1>1
    <3> HIDE DEF k
    <3>2. QED
      BY <1>1, <1>2, <2>1, <3>1
  <2> HIDE DEF k
  <2>3. k \in Nat
    BY <1>1, <1>2, <2>1, <2>2
  <2>4. QED
    BY <2>2, <2>3
<1> HIDE DEF k
<1>5. /\ e + 256 * c = 4096 * k + (e + 256 * r)
      /\ e + 256 * a = 4096 * q + (e + 256 * r)
      /\ e + 256 * r \in Value
  BY <1>1, <1>2, <1>4 DEF Value
<1>6. QED
  BY <1>2, <1>4, <1>5, Join4096

(* Two clusters share a byte only if they are an even one and the next.    *)
LEMMA Neighbours ==
  ASSUME NEW m \in Nat, NEW n \in Nat, m # n
  PROVE  \/ n % 2 = 0 /\ m % 2 # 0 /\ Offset(m) = Offset(n) + 1
         \/ n % 2 # 0 /\ m % 2 = 0 /\ Offset(n) = Offset(m) + 1
         \/ Offset(m) + 1 < Offset(n)
         \/ Offset(n) + 1 < Offset(m)
<1>1. Offset(m) \in Nat /\ Offset(n) \in Nat
  BY OffsetIs
<1>2. CASE n % 2 = 0 /\ m % 2 # 0
  <2>1. 2 * Offset(n) = 3 * n /\ 2 * Offset(m) = 3 * m - 1
    BY <1>2, OffsetIs
  <2>2. QED
    BY <1>1, <1>2, <2>1
<1>3. CASE n % 2 # 0 /\ m % 2 = 0
  <2>1. 2 * Offset(n) = 3 * n - 1 /\ 2 * Offset(m) = 3 * m
    BY <1>3, OffsetIs
  <2>2. QED
    BY <1>1, <1>3, <2>1
<1>4. CASE n % 2 = 0 /\ m % 2 = 0
  <2>1. 2 * Offset(n) = 3 * n /\ 2 * Offset(m) = 3 * m
    BY <1>4, OffsetIs
  <2>2. QED
    BY <1>1, <2>1
<1>5. CASE n % 2 # 0 /\ m % 2 # 0
  <2>1. 2 * Offset(n) = 3 * n - 1 /\ 2 * Offset(m) = 3 * m - 1
    BY <1>5, OffsetIs
  <2>2. QED
    BY <1>1, <2>1
<1>6. QED
  BY <1>2, <1>3, <1>4, <1>5

(* No update changes another cluster's value (write.c 18-22).              *)
THEOREM OthersKept ==
  ASSUME NEW t \in FatTables, NEW n \in Cluster, NEW v \in Value,
         NEW m \in Cluster, m # n
  PROVE  get_fat_entry(m, set_fat_entry(n, v, t)) = get_fat_entry(m, t)
<1> DEFINE i == Offset(n)
           j == Offset(m)
           u == set_fat_entry(n, v, t)
<1>1. /\ m \in Nat /\ n \in Nat /\ i \in Nat /\ j \in Nat
      /\ i \in Bytes /\ i + 1 \in Bytes /\ j \in Bytes /\ j + 1 \in Bytes
  BY InTable
<1>2. /\ n % 2 = 0 => u = PutWord(t, i, 4096 * (Word(t, i) \div 4096) + v)
      /\ n % 2 # 0 => u = PutWord(t, i, 16 * v + (Word(t, i) % 16))
  BY SetEven, SetOdd
<1> DEFINE new == IF n % 2 = 0 THEN 4096 * (Word(t, i) \div 4096) + v
                  ELSE 16 * v + (Word(t, i) % 16)
<1>3. u = PutWord(t, i, new)
  BY <1>2
<1>4. new \in Nat /\ new <= 65535
  <2>1. Word(t, i) \in Nat /\ Word(t, i) <= 65535
    BY <1>1, WordIs
  <2>2. CASE n % 2 = 0
    BY <2>1, <2>2, EvenWord
  <2>3. CASE n % 2 # 0
    BY <2>1, <2>3, OddWord
  <2>4. QED
    BY <2>2, <2>3
<1> HIDE DEF u, i, new
<1>5. /\ u \in FatTables /\ u[i] + 256 * u[i + 1] = new
      /\ \A k \in Bytes \ {i, i + 1} : u[k] = t[k]
  <2>1. /\ u \in FatTables /\ Word(u, i) = new
        /\ \A k \in Bytes \ {i, i + 1} : u[k] = t[k]
    BY <1>3, <1>4, PutWordIs DEF i
  <2>2. QED
    BY <2>1 DEF Word
<1>6. /\ t[i] \in Byte /\ t[i + 1] \in Byte /\ t[j] \in Byte /\ t[j + 1] \in Byte
      /\ u[i] \in Byte /\ u[i + 1] \in Byte
  BY <1>1, <1>5 DEF FatTables
<1> HIDE DEF j
<1>7. CASE n % 2 = 0 /\ m % 2 # 0 /\ j = i + 1
  <2>1. u[j + 1] = t[j + 1]
    BY <1>1, <1>5, <1>7
  <2>2. u[i] + 256 * u[i + 1] = 4096 * ((t[i] + 256 * t[i + 1]) \div 4096) + v
    BY <1>5, <1>7 DEF new, Word
  <2>3. (u[i + 1] + 256 * t[j + 1]) \div 16 = (t[i + 1] + 256 * t[j + 1]) \div 16
    BY <1>6, <2>2, UpperKept
  <2>4. QED
    BY <1>7, <2>1, <2>3 DEF get_fat_entry, Word, j, u
<1>8. CASE n % 2 # 0 /\ m % 2 = 0 /\ i = j + 1
  <2>1. u[j] = t[j]
    BY <1>1, <1>5, <1>8
  <2>2. u[i] + 256 * u[i + 1] = 16 * v + ((t[i] + 256 * t[i + 1]) % 16)
    BY <1>5, <1>8 DEF new, Word
  <2>3. (t[j] + 256 * u[i]) % 4096 = (t[j] + 256 * t[i]) % 4096
    BY <1>6, <2>2, LowerKept
  <2>4. QED
    BY <1>8, <2>1, <2>3 DEF get_fat_entry, Word, j, u
<1>9. CASE j + 1 < i \/ i + 1 < j
  <2>1. u[j] = t[j] /\ u[j + 1] = t[j + 1]
    BY <1>1, <1>5, <1>9
  <2>2. QED
    BY <2>1 DEF get_fat_entry, Word, j, u
<1>10. QED
  BY <1>1, <1>7, <1>8, <1>9, Neighbours DEF i, j

(* The bytes are as good as one value for each cluster: to set one is to   *)
(* change it in the function (Marked of Files).                            *)
THEOREM SetIsUpdate ==
  ASSUME NEW t \in FatTables, NEW n \in Cluster, NEW v \in Value
  PROVE  Unpacked(set_fat_entry(n, v, t)) = [Unpacked(t) EXCEPT ![n] = v]
<1>1. get_fat_entry(n, set_fat_entry(n, v, t)) = v
  BY GetAfterSet
<1>2. \A m \in Cluster \ {n} :
        get_fat_entry(m, set_fat_entry(n, v, t)) = get_fat_entry(m, t)
  BY OthersKept
<1>3. QED
  BY <1>1, <1>2 DEF Unpacked

(* A mark of which only the lower byte is there.                           *)
LEMMA TornEven ==
  ASSUME NEW a \in Byte, NEW b \in Byte, NEW c \in Byte, NEW d \in Byte,
         (a + 256 * b) % 4096 = 0,
         c + 256 * d = 4096 * ((a + 256 * b) \div 4096) + 4095
  PROVE  (c + 256 * b) % 4096 = 255
<1> DEFINE h == (a + 256 * b) \div 4096
<1>1. /\ a \in Nat /\ b \in Nat /\ c \in Nat /\ d \in Nat /\ a <= 255 /\ c <= 255
  BY DEF Byte
<1>2. h \in Nat /\ a + 256 * b = 4096 * h
  BY <1>1, Split4096
<1>3. c + 256 * d = 4096 * h + 4095
  OBVIOUS
<1> HIDE DEF h
<1>4. b = 16 * h
  BY <1>1, <1>2
<1>5. c = 255
  BY <1>1, <1>2, <1>3
<1>6. c + 256 * b = 4096 * h + 255 /\ 255 \in Value
  BY <1>2, <1>4, <1>5 DEF Value
<1>7. QED
  BY <1>2, <1>6, Join4096

LEMMA TornOdd ==
  ASSUME NEW a \in Byte, NEW b \in Byte, NEW c \in Byte, NEW d \in Byte,
         (a + 256 * b) \div 16 = 0,
         c + 256 * d = 16 * 4095 + ((a + 256 * b) % 16)
  PROVE  (c + 256 * b) \div 16 = 15
<1> DEFINE r == (a + 256 * b) % 16
<1>1. /\ a \in Nat /\ b \in Nat /\ c \in Nat /\ d \in Nat /\ c <= 255
  BY DEF Byte
<1>2. r \in Nat /\ r <= 15 /\ a + 256 * b = r
  BY <1>1, Split16
<1>3. c + 256 * d = 65520 + r
  OBVIOUS
<1> HIDE DEF r
<1>4. b = 0
  BY <1>1, <1>2
<1>5. c = 240 + r
  BY <1>1, <1>2, <1>3
<1>6. c + 256 * b = 16 * 15 + r /\ r \in 0 .. 15
  BY <1>2, <1>4, <1>5
<1>7. QED
  BY <1>6, Join16

(* A file's cluster is marked by 0xFFF in place of 0, and the sectors of   *)
(* the table are written in ascending order.  A cluster whose mark was cut *)
(* in two by a failure of the power is not taken for a free one; it looks  *)
(* as if the file went on in cluster 255 or 15 (write.c 63-65).            *)
THEOREM MarkTorn ==
  ASSUME NEW t \in FatTables, NEW n \in Cluster, get_fat_entry(n, t) = 0,
         NEW s \in Nat
  PROVE  LET found == get_fat_entry(n, WrittenTo(s, t, set_fat_entry(n, 4095, t)))
         IN  /\ found = 0 <=> Offset(n) >= s * SectorSize
             /\ found \in {0, 4095, 255, 15}
<1> DEFINE i == Offset(n)
           w == Word(t, i)
           u == set_fat_entry(n, 4095, t)
           new == IF n % 2 = 0 THEN 4096 * (w \div 4096) + 4095 ELSE 16 * 4095 + (w % 16)
           torn == WrittenTo(s, t, u)
           limit == s * SectorSize
<1>1. i \in Nat /\ i \in Bytes /\ i + 1 \in Bytes /\ w \in Nat /\ w <= 65535
  BY InTable, WordIs
<1>2. 4095 \in Value /\ limit \in Nat
  BY FatTableAssumption DEF Value
<1>3. u = PutWord(t, i, new) /\ new \in Nat /\ new <= 65535
  <2>1. CASE n % 2 = 0
    BY <1>1, <1>2, <2>1, SetEven, EvenWord
  <2>2. CASE n % 2 # 0
    BY <1>1, <1>2, <2>2, SetOdd, OddWord
  <2>3. QED
    BY <2>1, <2>2
<1> HIDE DEF u, limit
<1>4. /\ torn[i] = IF i < limit THEN u[i] ELSE t[i]
      /\ torn[i + 1] = IF i + 1 < limit THEN u[i + 1] ELSE t[i + 1]
  BY <1>1 DEF WrittenTo, limit
<1> HIDE DEF torn, new
<1>5. u \in FatTables /\ u[i] + 256 * u[i + 1] = new
  <2>1. u \in FatTables /\ Word(u, i) = new
    BY <1>3, PutWordIs
  <2>2. QED
    BY <2>1 DEF Word
<1>6. /\ t[i] \in Byte /\ t[i + 1] \in Byte /\ u[i] \in Byte /\ u[i + 1] \in Byte
      /\ w = t[i] + 256 * t[i + 1]
  BY <1>1, <1>5 DEF FatTables, Word
<1>7. (u[i] + 256 * t[i + 1]) % 4096 = 255 \/ n % 2 # 0
  <2>1. CASE n % 2 = 0
    <3>1. w % 4096 = 0
      BY <2>1 DEF get_fat_entry
    <3>2. new = 4096 * (w \div 4096) + 4095
      BY <2>1 DEF new
    <3> HIDE DEF w, i
    <3>3. QED
      BY <1>5, <1>6, <3>1, <3>2, TornEven
  <2>2. QED
    BY <2>1
<1>8. (u[i] + 256 * t[i + 1]) \div 16 = 15 \/ n % 2 = 0
  <2>1. CASE n % 2 # 0
    <3>1. w \div 16 = 0
      BY <2>1 DEF get_fat_entry
    <3>2. new = 16 * 4095 + (w % 16)
      BY <2>1 DEF new
    <3> HIDE DEF w, i
    <3>3. QED
      BY <1>5, <1>6, <3>1, <3>2, TornOdd
  <2>2. QED
    BY <2>1
<1>9. CASE limit <= i
  <2>1. get_fat_entry(n, torn) = get_fat_entry(n, t)
    <3>1. torn[i] = t[i] /\ torn[i + 1] = t[i + 1]
      BY <1>1, <1>2, <1>4, <1>9
    <3>2. QED
      BY <3>1 DEF get_fat_entry, Word
  <2>2. QED
    BY <1>1, <1>2, <1>9, <2>1 DEF torn, u, limit
<1>10. CASE i < limit /\ ~(i + 1 < limit)
  <2>1. Word(torn, i) = u[i] + 256 * t[i + 1]
    BY <1>4, <1>10 DEF Word
  <2>2. get_fat_entry(n, torn) \in {255, 15}
    BY <1>7, <1>8, <2>1 DEF get_fat_entry
  <2>3. QED
    BY <1>1, <1>2, <1>10, <2>2 DEF torn, u, limit
<1>11. CASE i + 1 < limit
  <2>1. get_fat_entry(n, torn) = get_fat_entry(n, u)
    <3>1. torn[i] = u[i] /\ torn[i + 1] = u[i + 1]
      BY <1>1, <1>2, <1>4, <1>11
    <3>2. QED
      BY <3>1 DEF get_fat_entry, Word
  <2>2. get_fat_entry(n, u) = 4095
    BY <1>2, GetAfterSet DEF u
  <2>3. QED
    BY <1>1, <1>2, <1>11, <2>1, <2>2 DEF torn, u, limit
<1>12. QED
  BY <1>1, <1>2, <1>9, <1>10, <1>11

=============================================================================
