------------------------------- MODULE Disque -------------------------------
(***************************************************************************)
(* The virtual disk and its file allocation table: sgf-disk.c, sgf-fat.c.  *)
(*                                                                         *)
(* A volume is a record: fat, the FAT, and disk, the content of the other  *)
(* blocks.  A block is what was last written there: an inode, a directory  *)
(* block or data (TBLOCK is their union; which one a block is follows from *)
(* who owns it, property BlocksOwned of Sgf).  One function stands for the *)
(* FAT in memory and the one on disk: Montage shows that set_fat() keeps   *)
(* them the same.                                                          *)
(*                                                                         *)
(* In a call the volume also has passe, what was on the disk before each   *)
(* block write of the call, in their order: what a program leaves that is  *)
(* killed there.                                                           *)
(***************************************************************************)
EXTENDS Integers, Sequences, FiniteSetsExt

CONSTANTS
  DISK_SIZE,   \* blocks of the disk
  FAT_SIZE,    \* blocks the FAT takes on it, fat_size_in_blocks
  Blank        \* what a block holds that nothing has written since it was free

FAT_FREE == -1
FAT_RESERVED == -2
FAT_INODE == -3
FAT_EOF == -4
ADR_BLOCK_FAT == 1

ASSUME DisqueAssumption ==
  /\ DISK_SIZE \in Nat /\ FAT_SIZE \in Nat \ {0}
  /\ ADR_BLOCK_FAT + FAT_SIZE < DISK_SIZE

Blocs == 0 .. DISK_SIZE - 1

(* create_empty_fat() gives the first block after the FAT to the directory *)
(* and writes its address in the super block, which nothing changes after. *)
ADR_DIR == ADR_BLOCK_FAT + FAT_SIZE

create_empty_fat ==
  [n \in Blocs |-> IF n < ADR_DIR THEN FAT_RESERVED
                   ELSE IF n = ADR_DIR THEN FAT_EOF ELSE FAT_FREE]

(* The addresses read_block() and write_block() do not panic about. *)
NU_BLOC_OK(n) == n \in Blocs

OnDisk(v) == [fat |-> v.fat, disk |-> v.disk]

write_block(v, n, b) == [v EXCEPT !.disk[n] = b, !.passe = Append(@, OnDisk(v))]

set_fat(v, n, valeur) ==
  [v EXCEPT !.fat[n] = valeur, !.passe = Append(@, OnDisk(v)),
            !.disk[n] = IF valeur = FAT_FREE THEN Blank ELSE @]

(* What a free block holds is not known. *)
Forgotten(v) == [v EXCEPT !.disk = [n \in Blocs |-> IF v.fat[n] = FAT_FREE THEN Blank ELSE @[n]]]

Free(f) == {n \in Blocs : f[n] = FAT_FREE}

(* The first free block, -1 if there is none: the caller marks it. *)
alloc_block(f) == IF Free(f) = {} THEN -1 ELSE Min(Free(f))

(* Where k calls of get_fat() lead from block a: FAT_EOF from the moment   *)
(* that get_fat() would panic.                                             *)
Links(f) ==
  [n \in FAT_EOF .. DISK_SIZE - 1 |-> IF NU_BLOC_OK(n) THEN f[n] ELSE FAT_EOF]
Walk(f, a, k) ==
  LET w[j \in Nat] == IF j = 0 THEN a ELSE Links(f)[w[j - 1]] IN w[k]

ChainBlocks(f, a) ==
  LET c[k \in Nat] == IF k = 0 THEN {a} ELSE UNION {{n, Links(f)[n]} : n \in c[k - 1]}
  IN  c[DISK_SIZE - 1] \cap Blocs

(* The chain comes to its mark: it neither runs into a free block nor goes *)
(* round.                                                                  *)
ChainEnds(f, a) == a = FAT_EOF \/ \E n \in ChainBlocks(f, a) : f[n] = FAT_EOF
=============================================================================
