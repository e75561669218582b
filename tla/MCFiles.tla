------------------------------ MODULE MCFiles ------------------------------
EXTENDS FilesProps, FatTable, TLC

TwoNames == {"a", "b"}
TwoContents == {"x", "y"}
OneNew == {<<"b", "x">>}
OneName == {<<"a", "x">>, <<"a", "y">>}

(* The disk as it is made, and one with a program of two clusters behind   *)
(* an entry that was deleted elsewhere, and one cluster left.              *)
Unused == [k \in Table |-> FREE]
Empty ==
  [fat |-> Unused, root |-> [s \in Slots |-> End],
   data |-> [k \in 2 .. DiskEnd |-> Nothing],
   chain |-> [s \in Slots |-> <<>>], whole |-> [s \in Slots |-> <<>>]]

WithProgram ==
  [fat |-> [k \in Table |-> CASE k = 4 -> 2 [] k = 2 -> LAST [] OTHER -> FREE],
   root |-> [s \in Slots |-> CASE s = 1 -> Deleted
                               [] s = 2 -> [name |-> "a", cluster |-> 4] [] OTHER -> End],
   data |-> [k \in 2 .. DiskEnd |-> CASE k = 4 -> "x" [] k = 2 -> "y" [] OTHER -> Nothing],
   chain |-> [s \in Slots |-> IF s = 2 THEN <<4, 2>> ELSE <<>>],
   whole |-> [s \in Slots |-> IF s = 2 THEN <<"x", "y">> ELSE <<>>]]

(* One more entry and one more cluster, which the disk has no room for.    *)
NearlyFull ==
  [fat |-> [k \in Table |-> IF k = 5 THEN FREE ELSE LAST],
   root |-> [s \in Slots |-> CASE s = 1 -> [name |-> "a", cluster |-> 3]
                               [] s = 2 -> [name |-> "b", cluster |-> 2]
                               [] s = 3 -> [name |-> "b", cluster |-> 4] [] OTHER -> End],
   data |-> [k \in 2 .. DiskEnd |-> IF k = 3 THEN "x" ELSE "y"],
   chain |-> [s \in Slots |-> CASE s = 1 -> <<3>> [] s = 2 -> <<2>> [] s = 3 -> <<4>>
                                [] OTHER -> <<>>],
   whole |-> [s \in Slots |-> CASE s = 1 -> <<"x">> [] s \in {2, 3} -> <<"y">>
                                [] OTHER -> <<>>]]

SomeImages == {WithProgram, NearlyFull}
OnlyEmpty == {Empty}

Alike == Permutations(Tasks)

Unspoiled == ~spoiled

(* What no later step looks at is left out: what was read before the       *)
(* present call, what was saved, the tables of create_file when nobody is  *)
(* in it, a copy of the FAT that is not good and not in use.               *)
Creates == \E t \in Tasks : call[t] = "create"
Uses == disk_initialized \/ \E t \in Tasks : pc[t] \in {"cache", "search", "chain"}

Present ==
  <<disk, IF Creates THEN buffers ELSE <<>>, IF Uses THEN cached_fat ELSE <<>>,
    disk_initialized, fd_cluster, vfs_fd, fd_slot,
    {t \in robbed : pc[t] \in {"read", "assemble"}},
    call, pc, sector, name, content, cluster, fd,
    [t \in Tasks |-> IF call[t] = "none" THEN <<>> ELSE loaded[t]],
    slot, chain, whole, settled, lost, failures, spoiled>>

(* The packing of the table, over all tables of three clusters with bytes  *)
(* from three, before it is proved for every table.                        *)
ASSUME PackingIsUpdate ==
  \A t \in [Bytes -> {0, 90, 255}], n \in Cluster, v \in {0, 1365, 4095} :
    Unpacked(set_fat_entry(n, v, t)) = [Unpacked(t) EXCEPT ![n] = v]
=============================================================================
