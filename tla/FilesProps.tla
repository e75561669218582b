----------------------------- MODULE FilesProps -----------------------------
(***************************************************************************)
(* What the files keep as long as no two calls of create_file were in      *)
(* progress at once and no two transfers overlapped in time.  The steps of *)
(* calls come in any order otherwise.                                      *)
(***************************************************************************)
EXTENDS Files, Functions

(* The clusters of a file, from its entry through the FAT on the disk.     *)
Chained(s) ==
  LET c == chain[s]
  IN  /\ c # <<>> /\ root[s].cluster = c[1]
      /\ \A j \in 1 .. Len(c) :
           /\ fat[c[j]] = IF j = Len(c) THEN LAST ELSE c[j + 1]
           /\ c[j] <= DiskEnd => data[c[j]] = whole[s][j]

(* A file that was made stays as it was made: its clusters, their order    *)
(* and what they hold survive every later call and every failure of the    *)
(* power, at any moment, in it, and no two files have a cluster in common. *)
(* So also an entry that a failure left without a mark in the FAT, whose   *)
(* cluster is given to the next file, does the other files no harm         *)
(* (write.c 48-77).  A file without room on the disk is no worse than      *)
(* empty.                                                                  *)
FilesStay ==
  ~spoiled =>
    \A s \in settled :
      /\ IsFile(root[s]) /\ Chained(s)
      /\ \A r \in settled \ {s} : Range(chain[r]) \cap Range(chain[s]) = {}

(* Every file on the disk can be found: no entry lies behind one that has  *)
(* not been used yet, where the search ends (fat.c 49).                    *)
NothingBehindTheEnd ==
  ~spoiled =>
    \A r, s \in Slots : r < s /\ IsFile(root[s]) => root[r].name # "end"

Creating(t) == call[t] = "create" /\ cluster[t] # 0

(* No cluster is marked for nobody, except those of creations the root had *)
(* no entry for, and of creations under way: otherwise a failure of the    *)
(* power costs no cluster, since the entry is written before the mark.     *)
ClustersAccounted ==
  ~spoiled =>
    \A k \in Table :
      fat[k] # FREE =>
        \/ \E s \in Slots : IsFile(root[s]) /\ k \in Range(chain[s])
        \/ k \in lost
        \/ \E t \in Tasks : Creating(t) /\ cluster[t] = k

(* A descriptor reads the file it was opened for, whatever was opened,     *)
(* closed and made since, and the two tables of descriptors agree.         *)
DescriptorsMatch ==
  /\ \A f \in Fds : fd_cluster[f] # 0 <=> \E v \in VfsFds : vfs_fd[v] = f
  /\ \A v, w \in VfsFds : vfs_fd[v] = vfs_fd[w] /\ vfs_fd[v] # 0 => v = w
  /\ \A f \in Fds :
       fd_cluster[f] # 0 /\ ~spoiled /\ fd_slot[f] \in settled =>
         fd_cluster[f] = chain[fd_slot[f]][1]

(* read_file reads the whole file and nothing else, although the FAT it    *)
(* keeps may be older than the file: while it fills its copy a file may be *)
(* made whose end leaves the copy marked as good (fat.c 77-81, read.c      *)
(* 18-22, write.c 79-81).  cat shows the beginning of the file it opened,  *)
(* whatever is opened, made and closed between its opening and its reading *)
(* (manual_x86.c 56-64), unless another task closed the very descriptor;   *)
(* ImplementsStore says what cat may show then.                            *)
LoadsWhole ==
  [][\A t \in Tasks :
       /\ ~spoiled /\ call'[t] = "none" /\ failures' = failures
       /\ slot[t] \in settled
       /\ \A k \in Range(chain[slot[t]]) : k <= DiskEnd
       => /\ call[t] = "load" => loaded'[t] = whole[slot[t]]
          /\ call[t] = "cat" /\ t \notin robbed =>
               loaded'[t] = <<whole[slot[t]][1]>>]_filesVars

(* The text of a file, from the disk.                                      *)
OnDisk(s) == [j \in 1 .. Len(chain[s]) |-> Holds(chain[s][j])]

(* What the store sees of the files.                                       *)
Named == [s \in {r \in Slots : IsFile(root[r])} |-> root[s].name]
Texts == [s \in settled |-> OnDisk(s)]
Asked == [t \in Tasks |-> [call |-> call[t], name |-> name[t], content |-> content[t]]]
Answers == [t \in Tasks |-> IF call[t] = "none" THEN loaded[t] ELSE <<>>]

Store == INSTANCE FileStore WITH
  Places <- Slots, named <- Named, text <- Texts, asked <- Asked, answer <- Answers

(* The files implement a store: only a creation enters a name and gives it *)
(* its text, both on the disk for good, and every call that reads answers  *)
(* with a file of the name it was asked for.  Only a command whose         *)
(* descriptor another task closed may answer with a file of another name,  *)
(* or with nothing (vfs.c, fat.c, read.c, write.c).                        *)
ImplementsStore == Store!StoreSpec

Found(n) ==
  LET stops == {s \in Slots : root[s].name = n}
  IN  IF stops = {} THEN Nothing ELSE whole[Least(stops)][1]

(* What was saved last under a name is what one gets under that name.      *)
SavedIsRead ==
  \A n \in Names :
    saved[n] # Nothing /\ (\A t \in Tasks : call[t] # "create") => Found(n) = saved[n]

(* casm assembles the text of the file it is given ("Usage: casm           *)
(* <asm_file>", manual_x86.c 24).                                          *)
AssemblesTheFile ==
  \A t \in Tasks :
    At(t, "casm", "assemble") /\ ~spoiled /\ t \notin robbed /\ slot[t] \in settled
      /\ chain[slot[t]][1] <= DiskEnd
    => loaded[t] = <<whole[slot[t]][1]>>

=============================================================================
