------------------------------ MODULE Montage -------------------------------
(***************************************************************************)
(* The FAT twice: on the disk, in blocks of FAT_PER_BLOCK entries, and in  *)
(* memory (sgf-fat.c).  The disk is formatted and mounted; then a program  *)
(* changes the directory and takes and gives back blocks for its files.    *)
(* fat and disk are what is on the disk.  A step writes one block; the     *)
(* program may be killed before and after each, the format too, and a disk *)
(* in use may be formatted again.                                          *)
(***************************************************************************)
EXTENDS Repertoire, SequencesExt

CONSTANT FAT_PER_BLOCK   \* BLOCK_SIZE / sizeof(int)

ASSUME MontageAssumption ==
  /\ FAT_PER_BLOCK \in Nat \ {0}
  /\ FAT_SIZE = (DISK_SIZE + FAT_PER_BLOCK - 1) \div FAT_PER_BLOCK

VARIABLES
  super,   \* the super block on the disk has the signature
  phase,   \* "arret" (no program), "format", "marche", or "sauve" in save_fat()
  k,       \* of the format: the FAT block it writes next, then what follows
  tab,     \* the FAT in memory,
  modif,   \* and which of its blocks are to be saved
  todo     \* the volumes that the other block writes of the call lead to

montage == <<volume, super, phase, k, tab, modif, todo>>

FatBlock(n) == n \div FAT_PER_BLOCK
FatBlocks == 0 .. FAT_SIZE - 1

create_memory_fat == [n \in Blocs |-> IF n < ADR_DIR THEN FAT_RESERVED ELSE FAT_FREE]
NoFat == <<>>

(* f, with the entries of FAT block b as in g. *)
CopyBlock(f, g, b) == [n \in Blocs |-> IF FatBlock(n) = b THEN g[n] ELSE f[n]]

(* The disk is made by dd if=/dev/zero: zeroes are no signature, no FAT,   *)
(* and read as a directory block they are an empty one.                    *)
MontageInit ==
  /\ fat = [n \in Blocs |-> 0]
  /\ disk = [n \in Blocs |-> IF n = ADR_DIR THEN EmptyDir ELSE Blank]
  /\ super = FALSE /\ phase = "arret" /\ k = 0
  /\ tab = NoFat /\ modif = NoFat /\ todo = <<>>

-----------------------------------------------------------------------------
InMemory == <<tab, modif, todo>>
Saved(f) == Becomes(Forgotten([fat |-> f, disk |-> disk]))

(* The program format: create_empty_fat(), then create_empty_directory(). *)
Format ==
  /\ phase = "arret"
  /\ phase' = "format" /\ k' = 0
  /\ UNCHANGED <<volume, super, InMemory>>

FormatFat ==
  /\ phase = "format" /\ k < FAT_SIZE
  /\ Saved(CopyBlock(fat, create_empty_fat, k))
  /\ k' = k + 1
  /\ UNCHANGED <<super, phase, InMemory>>

FormatSuper ==
  /\ phase = "format" /\ k = FAT_SIZE
  /\ super' = TRUE /\ k' = k + 1
  /\ UNCHANGED <<volume, phase, InMemory>>

create_empty_directory ==
  /\ phase = "format" /\ k = FAT_SIZE + 1
  /\ disk' = [disk EXCEPT ![ADR_DIR] = EmptyDir]
  /\ phase' = "arret" /\ k' = 0
  /\ UNCHANGED <<fat, super, InMemory>>

(* Without the signature it panics.  The FAT is read block by block. *)
init_sgf_fat ==
  LET lu[b \in Nat] == IF b = 0 THEN create_memory_fat ELSE CopyBlock(lu[b - 1], fat, b - 1) IN
  /\ phase = "arret" /\ super
  /\ phase' = "marche"
  /\ tab' = lu[FAT_SIZE]
  /\ modif' = [b \in FatBlocks |-> FALSE]
  /\ UNCHANGED <<volume, super, k, todo>>

(* A call that leads to volume v. *)
Mounted == [fat |-> tab, disk |-> disk, passe |-> <<>>]
Call(v) ==
  /\ v.passe # <<>>
  /\ todo' = Append(Tail(v.passe), OnDisk(v))
  /\ UNCHANGED <<volume, super, phase, k, tab, modif>>

Calls ==
  /\ phase = "marche" /\ todo = <<>>
  /\ \/ \E nom \in NOMS, inode \in {1, 2} : Call(add_inode(Mounted, nom, inode).vol)
     \/ \E nom \in NOMS : Call(delete_inode(Mounted, nom))
     \/ Free(tab) # {} /\ Call(set_fat(Mounted, alloc_block(tab), FAT_INODE))
     \/ \E n \in Blocs : tab[n] = FAT_INODE /\ Call(set_fat(Mounted, n, FAT_FREE))

WriteBlock ==
  /\ phase = "marche" /\ todo # <<>> /\ Head(todo).fat = tab
  /\ disk' = Head(todo).disk
  /\ todo' = Tail(todo)
  /\ UNCHANGED <<fat, super, phase, k, tab, modif>>

(* The entry in memory, and the bit of its block; the broken variant takes *)
(* BLOCK_SIZE for the entries of a block.                                  *)
ModifBit_of_bytes(n) == n \div (4 * FAT_PER_BLOCK)
ModifBit(n) == n \div FAT_PER_BLOCK
SetFat ==
  /\ phase = "marche" /\ todo # <<>> /\ Head(todo).fat # tab
  /\ tab' = Head(todo).fat
  /\ modif' = [b \in FatBlocks |->
                 modif[b] \/ \E n \in Blocs : ModifBit(n) = b /\ tab'[n] # tab[n]]
  /\ phase' = "sauve"
  /\ UNCHANGED <<volume, super, k, todo>>

save_fat ==
  LET dirty == {b \in FatBlocks : modif[b]} IN
  /\ phase = "sauve" /\ dirty # {}
  /\ Saved(CopyBlock(fat, tab, Min(dirty)))
  /\ modif' = [modif EXCEPT ![Min(dirty)] = FALSE]
  /\ UNCHANGED <<super, phase, k, tab, todo>>

SaveReturns ==
  /\ phase = "sauve" /\ \A b \in FatBlocks : ~modif[b]
  /\ phase' = "marche" /\ todo' = Tail(todo)
  /\ UNCHANGED <<volume, super, k, tab, modif>>

(* Killed, or ended. *)
Kill ==
  /\ phase # "arret"
  /\ phase' = "arret" /\ k' = 0
  /\ tab' = NoFat /\ modif' = NoFat /\ todo' = <<>>
  /\ Becomes(Forgotten(Volume))
  /\ UNCHANGED super

MontageNext ==
  \/ Format \/ FormatFat \/ FormatSuper \/ create_empty_directory
  \/ init_sgf_fat \/ Calls \/ WriteBlock \/ SetFat \/ save_fat \/ SaveReturns
  \/ Kill

MontageSpec == MontageInit /\ [][MontageNext]_montage

-----------------------------------------------------------------------------
(* Between two calls the FAT on the disk is the one in memory, and in a    *)
(* call it is behind by the entry that is being saved at most: one         *)
(* function may stand for both, as in Sgf.                                 *)
MountedAsOnDisk ==
  phase \in {"marche", "sauve"} =>
    /\ Cardinality({n \in Blocs : tab[n] # fat[n]}) <= (IF phase = "sauve" THEN 1 ELSE 0)
    /\ tab = fat <=> \A b \in FatBlocks : ~modif[b]

(* A disk that can be mounted has a whole directory, whoever was killed    *)
(* and when, also in a format: its chain ends and is made of blocks that   *)
(* nobody else may take, and a name is in one entry at most, so that       *)
(* find_inode() sees the entry that add_inode() replaces.                  *)
DirectoryWhole ==
  super =>
    /\ ChainEnds(fat, ADR_DIR)
    /\ \A n \in DirBlocks : fat[n] # FAT_FREE /\ fat[n] # FAT_INODE
    /\ \A nom \in NOMS : Cardinality(Named(Volume, nom)) <= 1

(* A call that writes a directory block changes what the directory says of *)
(* exactly one name, any other call of none: no entry is lost when another *)
(* takes the place of a deleted one or when a block is linked, and none is *)
(* written where find_inode() does not look.  On the disk the change is    *)
(* one block write: a kill leaves the name as it was or as it is to be.    *)
OneNameStep ==
  LET Changed(v, w) == {nom \in NOMS : find_inode(v, nom) # find_inode(w, nom)}
      dirs == {n \in Blocs : Last(todo').disk[n] # disk[n] /\ Last(todo').fat[n] # FAT_FREE}
  IN  /\ todo = <<>> /\ todo' # <<>> =>
           Cardinality(Changed(Volume, Last(todo'))) = IF dirs = {} THEN 0 ELSE 1
      /\ phase \in {"marche", "sauve"} /\ volume' # volume =>
           Listing(Volume)' \in {Listing(Volume), Listing(Last(todo))}
OneNameAtATime == [][OneNameStep]_montage
=============================================================================
