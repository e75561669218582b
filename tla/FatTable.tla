------------------------------ MODULE FatTable ------------------------------
(***************************************************************************)
(* The file allocation table as bytes: two clusters share three of them    *)
(* (get_fat_entry of fat.c, set_fat_entry of write.c).  Files has one      *)
(* value for each cluster.                                                 *)
(***************************************************************************)
EXTENDS Integers

CONSTANTS
  Clusters,          (* the clusters have numbers below it                 *)
  SectorSize         (* bytes of a sector, 512                             *)

ASSUME FatTableAssumption == Clusters \in Nat /\ SectorSize \in Nat \ {0}

Byte == 0 .. 255
Cluster == 0 .. Clusters - 1
Value == 0 .. 4095

Offset(n) == n + n \div 2

(* The table has room for both bytes of the last cluster.                  *)
Bytes == 0 .. Offset(Clusters) + 1
FatTables == [Bytes -> Byte]

(* A 16-bit word at any address, its lower byte first.                     *)
Word(t, i) == t[i] + 256 * t[i + 1]

PutWord(t, i, w) == [t EXCEPT ![i] = w % 256, ![i + 1] = w \div 256]

get_fat_entry(n, t) ==
  LET value == Word(t, Offset(n))
  IN  IF n % 2 = 0 THEN value % 4096 ELSE value \div 16

set_fat_entry(n, value, t) ==
  LET w == Word(t, Offset(n))
  IN  PutWord(t, Offset(n),
        IF n % 2 = 0 THEN (w - (w % 4096)) + (value % 4096)
        ELSE (w % 16) + ((value * 16) % 65536))

(* The table on a disk that lost its power when the sectors below s were   *)
(* written: create_file writes them in ascending order.                    *)
WrittenTo(s, t, u) == [i \in Bytes |-> IF i < s * SectorSize THEN u[i] ELSE t[i]]

(* What Files has of a table: the value of each cluster.                   *)
Unpacked(t) == [n \in Cluster |-> get_fat_entry(n, t)]
=============================================================================
