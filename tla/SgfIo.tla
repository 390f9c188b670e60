-------------------------------- MODULE SgfIo --------------------------------
(***************************************************************************)
(* Files: the functions of sgf-io.c on the FAT and the directory.  Each    *)
(* takes a volume and an OFILE and returns both; Sgf has the programs that *)
(* call them.                                                              *)
(***************************************************************************)
EXTENDS Repertoire

CONSTANTS
  BLOCK_SIZE,   \* characters of a block
  CHARS,
  TEXTES,       \* what programs write
  MAX_LENGTH,   \* bound of the model: no text is begun that would exceed it
  Junk,         \* a byte of memory or disk that nobody has written
  NULL

READ_MODE == 0
WRITE_MODE == 1
APPEND_MODE == 2

ASSUME SgfAssumption ==
  /\ BLOCK_SIZE \in Nat \ {0, 1}
  /\ TEXTES \subseteq Seq(CHARS) \ {<<>>}
  /\ MAX_LENGTH \in Nat
  /\ Junk \notin CHARS
  /\ Blank \notin [0 .. BLOCK_SIZE - 1 -> CHARS \cup {Junk}]

Indices == 0 .. BLOCK_SIZE - 1
JunkBuffer == [k \in Indices |-> Junk]
Octets(b) == IF b = Blank THEN JunkBuffer ELSE b
Blocks(length) == (length + BLOCK_SIZE - 1) \div BLOCK_SIZE

OFiles == [length : 0 .. MAX_LENGTH, first : Blocs \cup {FAT_EOF},
           last : Blocs \cup {FAT_EOF}, inode : Blocs, ptr : 0 .. MAX_LENGTH,
           current : Blocs \cup {FAT_EOF}, mode : {READ_MODE, WRITE_MODE, APPEND_MODE},
           buffer : [Indices -> CHARS \cup {Junk}]]

ASSUME NullAssumption == NULL \notin OFiles

-----------------------------------------------------------------------------
(* What a function returns: the volume, the OFILE, whether a failure was   *)
(* dropped on the way and whether the program ended.                       *)
Result(v, fl) == [vol |-> v, file |-> fl, perdu |-> FALSE, panique |-> FALSE]
Lost(v, fl) == [Result(v, fl) EXCEPT !.perdu = TRUE]
Panic(v, fl) == [Result(v, fl) EXCEPT !.panique = TRUE]

(* Broken variants, here and below, that the properties are tried on: each *)
(* is named for what it does wrong.                                        *)
SetLength_forgotten(v, fl) == v

SetLength(v, fl) == write_block(v, fl.inode, [v.disk[fl.inode] EXCEPT !.length = fl.length])

(* The block in the buffer, by the position: the one before at a multiple  *)
(* of BLOCK_SIZE.  -1 at the start of the file.                            *)
LastBlock(ptr) == (ptr \div BLOCK_SIZE) - (IF ptr % BLOCK_SIZE = 0 THEN 1 ELSE 0)

SeekBlock_of_next(pos) == pos \div BLOCK_SIZE
(* C divides towards zero: position 0 is in block 0, as is position 1. *)
SeekBlock(pos) == IF pos = 0 THEN 0 ELSE (pos - 1) \div BLOCK_SIZE

(* Logical block nubloc into the buffer.  The walk starts from the current *)
(* block if that is not past nubloc, else from the first.                  *)
sgf_read_bloc(v, fl, nubloc) ==
  LET last_block == Max({0, LastBlock(fl.ptr)})
      adr == IF last_block <= nubloc THEN Walk(v.fat, fl.current, nubloc - last_block)
             ELSE Walk(v.fat, fl.first, nubloc)
  IN  IF nubloc < Blocks(fl.length) /\ NU_BLOC_OK(adr)
      THEN Result(v, [fl EXCEPT !.current = adr, !.buffer = Octets(v.disk[adr])])
      ELSE Panic(v, fl)

sgf_append_block_tests_late(v, fl) ==
  LET adr == alloc_block(v.fat)
      linked == IF fl.current = FAT_EOF THEN v ELSE set_fat(v, fl.current, adr)
      ino == v.disk[fl.inode]
      newino == [length |-> fl.length, last |-> adr,
                 first |-> IF ino.first = FAT_EOF THEN adr ELSE ino.first]
  IN  IF Free(v.fat) = {} THEN Lost(linked, fl)
      ELSE Result(write_block(set_fat(linked, adr, FAT_EOF), fl.inode, newino),
                  [fl EXCEPT !.current = adr, !.last = adr])

sgf_append_block(v, fl) ==
  LET adr == alloc_block(v.fat)
      linked == IF fl.current = FAT_EOF THEN v ELSE set_fat(v, fl.current, adr)
      ino == v.disk[fl.inode]
      newino == [length |-> fl.length, last |-> adr,
                 first |-> IF ino.first = FAT_EOF THEN adr ELSE ino.first]
  IN  IF Free(v.fat) = {} THEN Lost(v, fl)
      ELSE Result(write_block(set_fat(linked, adr, FAT_EOF), fl.inode, newino),
                  [fl EXCEPT !.current = adr, !.last = adr])

Flush_length_first(v, fl) ==
  IF NU_BLOC_OK(fl.current)
  THEN Result(write_block(SetLength(v, fl), fl.current, fl.buffer), fl)
  ELSE Panic(v, fl)

(* The buffer to the current block, and the length to the inode. *)
Flush(v, fl) ==
  IF NU_BLOC_OK(fl.current)
  THEN Result(SetLength(write_block(v, fl.current, fl.buffer), fl), fl)
  ELSE Panic(v, fl)

sgf_putc(v, fl, c) ==
  LET k == fl.ptr % BLOCK_SIZE
      put == [fl EXCEPT !.buffer[k] = c, !.length = @ + 1]
      r == IF k = BLOCK_SIZE - 1 THEN Flush(v, put)
           ELSE IF k = 0 THEN sgf_append_block(v, put)
           ELSE Result(v, put)
  IN  [r EXCEPT !.file.ptr = @ + 1]

(* The part of a text that sgf_write() puts into one block. *)
Chunk(fl, t) == SubSeq(t, 1, Min({Len(t), BLOCK_SIZE - (fl.ptr % BLOCK_SIZE)}))
WriteChunk(v, fl, s) ==
  LET k == fl.ptr % BLOCK_SIZE
      r == IF k = 0 THEN sgf_append_block(v, fl) ELSE Result(v, fl)
      n == fl.length + Len(s)
      w == Flush(r.vol, [r.file EXCEPT
             !.length = n, !.ptr = n,
             !.buffer = [j \in Indices |-> IF j \in k .. k + Len(s) - 1
                                           THEN s[j - k + 1] ELSE @[j]]])
  IN  [w EXCEPT !.perdu = r.perdu]

sgf_remove_first_only(v, inode) ==
  Result(set_fat(IF v.disk[inode].first = FAT_EOF THEN v
                 ELSE set_fat(v, v.disk[inode].first, FAT_FREE), inode, FAT_FREE), NULL)
sgf_remove_keeps_inode(v, inode) ==
  Result([v EXCEPT !.fat = [n \in Blocs |-> IF n \in ChainBlocks(v.fat, v.disk[inode].first)
                                            THEN FAT_FREE ELSE v.fat[n]]], NULL)

(* All blocks of a file become free, one by one along the chain, its inode *)
(* last.  get_fat() panics where the chain has no end.                     *)
Release(r) ==
  IF NU_BLOC_OK(r.adr) THEN [vol |-> set_fat(r.vol, r.adr, FAT_FREE), adr |-> r.vol.fat[r.adr]]
  ELSE r
sgf_remove(v, inode) ==
  LET first == v.disk[inode].first
      r[k \in Nat] == IF k = 0 THEN [vol |-> v, adr |-> first] ELSE Release(r[k - 1])
      freed == r[Cardinality(ChainBlocks(v.fat, first))]
  IN  IF freed.adr = FAT_EOF THEN Result(set_fat(freed.vol, inode, FAT_FREE), NULL)
      ELSE Panic(freed.vol, NULL)

OFile(inode, ino, current, ptr, m) ==
  [length |-> ino.length, first |-> ino.first, last |-> ino.last, inode |-> inode,
   ptr |-> ptr, current |-> current, mode |-> m, buffer |-> JunkBuffer]

NewFile_removes_first(v, nom) ==
  LET old == find_inode(v, nom)
      r == IF old > 0 THEN sgf_remove(v, old) ELSE Result(v, NULL)
      inode == alloc_block(r.vol.fat)
      ino == [length |-> 0, first |-> FAT_EOF, last |-> FAT_EOF]
      add == add_inode(set_fat(write_block(r.vol, inode, ino), inode, FAT_INODE), nom, inode)
  IN  [r EXCEPT !.vol = add.vol, !.file = OFile(inode, ino, FAT_EOF, 0, WRITE_MODE),
                !.perdu = find_inode(add.vol, nom) # inode]

(* A new inode, entered in the directory; then the file that had the name  *)
(* is destroyed.                                                           *)
NewFile(v, nom) ==
  LET inode == alloc_block(v.fat)
      ino == [length |-> 0, first |-> FAT_EOF, last |-> FAT_EOF]
      add == add_inode(set_fat(write_block(v, inode, ino), inode, FAT_INODE), nom, inode)
      r == IF add.ret > 0 THEN sgf_remove(add.vol, add.ret) ELSE Result(add.vol, NULL)
  IN  [r EXCEPT !.file = OFile(inode, ino, FAT_EOF, 0, WRITE_MODE),
                !.perdu = find_inode(add.vol, nom) # inode]

(* In every mode, a buffer that is partly used is written to its block. *)
CloseFile(v, fl) ==
  [(IF fl.ptr % BLOCK_SIZE # 0 THEN Flush(v, fl) ELSE Result(v, fl)) EXCEPT !.file = NULL]
=============================================================================
