----------------------------- MODULE Repertoire -----------------------------
(***************************************************************************)
(* The directory: sgf-dir.c.  It is a chain of blocks of BLOCK_DIR_SIZE    *)
(* entries <name, inode>; an entry is in use when its inode is positive.   *)
(* Sgf uses these operators as they are; Montage does their block writes   *)
(* one by one.                                                             *)
(***************************************************************************)
EXTENDS Disque

CONSTANTS
  BLOCK_DIR_SIZE,   \* entries of a directory block
  NOMS,             \* names
  NOMS_LONGS,       \* those add_inode() refuses, longer than LONG_FILENAME
  NoName            \* the name of an entry that is not in use: never read

(* What a directory block holds. *)
Entries == [name : NOMS \cup {NoName}, inode : Nat]
DirContents == [0 .. BLOCK_DIR_SIZE - 1 -> Entries]

ASSUME RepertoireAssumption ==
  /\ BLOCK_DIR_SIZE \in Nat \ {0}
  /\ NOMS_LONGS \subseteq NOMS
  /\ NoName \notin NOMS
  /\ Blank \notin DirContents

VARIABLES fat, disk

volume == <<fat, disk>>
Volume == [fat |-> fat, disk |-> disk, passe |-> <<>>]

EmptyDir == [j \in 0 .. BLOCK_DIR_SIZE - 1 |-> [name |-> NoName, inode |-> 0]]

(* create_empty_fat() and create_empty_directory(), as the program format  *)
(* leaves the disk.                                                        *)
FormattedVolume ==
  [fat |-> create_empty_fat, passe |-> <<>>,
   disk |-> [n \in Blocs |-> IF n = ADR_DIR THEN EmptyDir ELSE Blank]]
Formatted == fat = FormattedVolume.fat /\ disk = FormattedVolume.disk

-----------------------------------------------------------------------------
(* Place p is entry p % BLOCK_DIR_SIZE of block p \div BLOCK_DIR_SIZE of   *)
(* the directory: the order of the loops.                                  *)
Places(v) == 0 .. Cardinality(ChainBlocks(v.fat, ADR_DIR)) * BLOCK_DIR_SIZE - 1
DirBlock(v, p) == Walk(v.fat, ADR_DIR, p \div BLOCK_DIR_SIZE)
Entry(v, p) == v.disk[DirBlock(v, p)][p % BLOCK_DIR_SIZE]
SetEntry(v, p, e) ==
  write_block(v, DirBlock(v, p), [v.disk[DirBlock(v, p)] EXCEPT ![p % BLOCK_DIR_SIZE] = e])

Named(v, nom) == {p \in Places(v) : Entry(v, p).inode > 0 /\ Entry(v, p).name = nom}
Unused(v) == {p \in Places(v) : Entry(v, p).inode <= 0}

find_inode(v, nom) ==
  IF Named(v, nom) = {} THEN -1 ELSE Entry(v, Min(Named(v, nom))).inode

(* Broken variants that the properties are tried on: the new block is not  *)
(* linked to the directory, or before it is marked.                        *)
GrowDir_unlinked(v, e) ==
  set_fat(write_block(v, alloc_block(v.fat), [EmptyDir EXCEPT ![0] = e]),
          alloc_block(v.fat), FAT_EOF)
GrowDir_links_first(v, e) ==
  LET adr == alloc_block(v.fat)
      b == [EmptyDir EXCEPT ![0] = e]
  IN  set_fat(set_fat(write_block(v, adr, b), DirBlock(v, Max(Places(v))), adr), adr, FAT_EOF)

(* A block more for the directory, with its first entry in use. *)
GrowDir(v, e) ==
  LET adr == alloc_block(v.fat)
      padr == DirBlock(v, Max(Places(v)))
      b == [EmptyDir EXCEPT ![0] = e]
  IN  set_fat(set_fat(write_block(v, adr, b), adr, FAT_EOF), padr, adr)

(* The inode the name had, or -1: for a new name, for one too long and for *)
(* a directory that cannot grow.  Of the entries not in use the last one   *)
(* is taken.                                                               *)
add_inode(v, nom, inode) ==
  LET e == [name |-> nom, inode |-> inode]
      fails == [vol |-> v, ret |-> -1]
  IN  CASE nom \in NOMS_LONGS -> fails
        [] nom \notin NOMS_LONGS /\ Named(v, nom) # {} ->
             [vol |-> SetEntry(v, Min(Named(v, nom)), e), ret |-> find_inode(v, nom)]
        [] nom \notin NOMS_LONGS /\ Named(v, nom) = {} /\ Unused(v) # {} ->
             [vol |-> SetEntry(v, Max(Unused(v)), e), ret |-> -1]
        [] OTHER -> IF Free(v.fat) = {} THEN fails ELSE [vol |-> GrowDir(v, e), ret |-> -1]

delete_inode(v, nom) ==
  IF Named(v, nom) = {} THEN v
  ELSE SetEntry(v, Min(Named(v, nom)), [name |-> NoName, inode |-> 0])

-----------------------------------------------------------------------------
Becomes(v) == fat' = v.fat /\ disk' = v.disk

DirBlocks == ChainBlocks(fat, ADR_DIR)

(* What the directory says of each name. *)
Listing(v) == [nom \in NOMS |-> find_inode(v, nom)]
=============================================================================
