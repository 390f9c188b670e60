--------------------------------- MODULE Sgf ---------------------------------
(***************************************************************************)
(* Files: sgf-io.c on the FAT and the directory.  A program mounts the     *)
(* disk (init_sgf) and has one file open at a time, as main.c does; each   *)
(* call is a step, but the loops of sgf_puts() and sgf_write() take one    *)
(* step per character and per block.  Two things end the program, which    *)
(* may be started again: a chain that is followed off its end, in panic()  *)
(* or the assert of the walk ("panique"), and an assert about the call, of *)
(* the file's mode or that there is a block for the inode ("abandon").     *)
(*                                                                         *)
(* perte tells that something was lost and nobody told: sgf_append_block() *)
(* found no block and its caller went on, the name could not be entered in *)
(* the directory, or an assert ended a program with text in the buffer.    *)
(* It is not in the code, which goes on as if nothing had happened; so     *)
(* does the model.                                                         *)
(***************************************************************************)
EXTENDS SgfIo

VARIABLES
  mode,    \* "arret", "marche", "panique" or "abandon"
  file,    \* the OFILE of the open file, NULL if there is none
  appel,   \* the loop the program is in ("puts", "write") and its remaining text
  ret,     \* the last call of open, getc or seek and what it returned
  perte

sgf == <<volume, mode, file, appel, ret, perte>>

Idle == [op |-> "rien", reste |-> <<>>]
Reply(op, arg, val) == [op |-> op, arg |-> arg, val |-> val]
NoReply == Reply("rien", 0, 0)

SgfInit ==
  /\ Formatted
  /\ mode = "arret" /\ file = NULL /\ appel = Idle /\ ret = NoReply /\ perte = FALSE

-----------------------------------------------------------------------------
(* What a call leaves. *)
Leaves(r) ==
  /\ Becomes(r.vol)
  /\ mode' = IF r.panique THEN "panique" ELSE mode
  /\ file' = IF r.panique THEN NULL ELSE r.file
  /\ perte' = (perte \/ r.perdu)

(* A program is between two calls, with no file or with one open. *)
Ready == mode = "marche" /\ appel = Idle
Closed == Ready /\ file = NULL
Reading == Ready /\ file # NULL /\ file.mode = READ_MODE
Writing == Ready /\ file # NULL /\ file.mode # READ_MODE

init_sgf ==
  /\ mode # "marche"
  /\ mode' = "marche" /\ file' = NULL /\ appel' = Idle
  /\ UNCHANGED <<volume, ret, perte>>

(* sgf_open() in a mode that does not exist. *)
OpenUnknown(nom) ==
  /\ Closed
  /\ ret' = Reply("open", nom, NULL)
  /\ UNCHANGED <<volume, mode, file, appel, perte>>

(* To read or to append: NULL for a name that is not in the directory. *)
OpenFails(op, nom) ==
  /\ Closed /\ find_inode(Volume, nom) < 0
  /\ ret' = Reply(op, nom, NULL)
  /\ UNCHANGED <<volume, mode, file, appel, perte>>

sgf_open_read(nom) ==
  LET i == find_inode(Volume, nom) IN
  /\ Closed /\ i >= 0
  /\ file' = OFile(i, disk[i], disk[i].first, 0, READ_MODE)
  /\ ret' = Reply("open_read", nom, 0)
  /\ UNCHANGED <<volume, mode, appel, perte>>

sgf_open_append_unread(nom) ==
  LET i == find_inode(Volume, nom) IN
  /\ Closed /\ i >= 0
  /\ file' = OFile(i, disk[i], disk[i].last, disk[i].length, APPEND_MODE)
  /\ ret' = Reply("open_append", nom, 0)
  /\ UNCHANGED <<volume, mode, appel, perte>>

(* The last block is read if characters are to be added to it. *)
sgf_open_append(nom) ==
  LET i == find_inode(Volume, nom)
      fl == OFile(i, disk[i], disk[i].last, disk[i].length, APPEND_MODE)
  IN
  /\ Closed /\ i >= 0
  /\ Leaves(IF fl.length % BLOCK_SIZE # 0
            THEN sgf_read_bloc(Volume, fl, fl.ptr \div BLOCK_SIZE)
            ELSE Result(Volume, fl))
  /\ ret' = Reply("open_append", nom, 0)
  /\ UNCHANGED appel

(* assert (inode >= 0) *)
sgf_open_write_full ==
  /\ Closed /\ Free(fat) = {}
  /\ mode' = "abandon"
  /\ UNCHANGED <<volume, file, appel, ret, perte>>

sgf_open_write(nom) ==
  /\ Closed /\ Free(fat) # {}
  /\ Leaves(NewFile(Volume, nom))
  /\ ret' = Reply("open_write", nom, 0)
  /\ UNCHANGED appel

sgf_getc_past_end ==
  /\ Reading
  /\ LET r == IF file.ptr % BLOCK_SIZE = 0
              THEN sgf_read_bloc(Volume, file, file.ptr \div BLOCK_SIZE)
              ELSE Result(Volume, file)
     IN  Leaves([r EXCEPT !.file.ptr = @ + 1])
  /\ UNCHANGED <<appel, ret>>

(* -1 at the end of the file, else the character at ptr. *)
sgf_getc ==
  /\ Reading
  /\ IF file.ptr >= file.length
     THEN ret' = Reply("getc", 0, -1) /\ UNCHANGED <<volume, mode, file, perte>>
     ELSE LET r == IF file.ptr % BLOCK_SIZE = 0
                   THEN sgf_read_bloc(Volume, file, file.ptr \div BLOCK_SIZE)
                   ELSE Result(Volume, file)
          IN  /\ ret' = IF r.panique THEN ret
                        ELSE Reply("getc", 0, r.file.buffer[file.ptr % BLOCK_SIZE])
              /\ Leaves([r EXCEPT !.file.ptr = @ + 1])
  /\ UNCHANGED appel

SeekRefused(pos) == ret' = Reply("seek", pos, -1) /\ UNCHANGED <<volume, mode, file, perte>>

sgf_seek_unread(pos) ==
  /\ Reading
  /\ IF pos < 0 \/ pos >= file.length THEN SeekRefused(pos)
     ELSE /\ ret' = Reply("seek", pos, 0)
          /\ file' = [file EXCEPT !.ptr = pos] /\ UNCHANGED <<volume, mode, perte>>
  /\ UNCHANGED appel

sgf_seek_stays(pos) ==
  /\ Reading
  /\ IF pos < 0 \/ pos >= file.length THEN SeekRefused(pos)
     ELSE /\ ret' = Reply("seek", pos, 0)
          /\ Leaves(IF SeekBlock(pos) # LastBlock(file.ptr)
                    THEN sgf_read_bloc(Volume, file, SeekBlock(pos))
                    ELSE Result(Volume, file))
  /\ UNCHANGED appel

sgf_seek(pos) ==
  /\ Reading
  /\ IF pos < 0 \/ pos >= file.length THEN SeekRefused(pos)
     ELSE /\ ret' = Reply("seek", pos, 0)
          /\ Leaves(LET r == IF SeekBlock(pos) # LastBlock(file.ptr)
                             THEN sgf_read_bloc(Volume, file, SeekBlock(pos))
                             ELSE Result(Volume, file)
                    IN  [r EXCEPT !.file.ptr = pos])
  /\ UNCHANGED appel

(* The loops of sgf_puts() and sgf_write(). *)
Begin(op, t) ==
  /\ Writing /\ file.length + Len(t) <= MAX_LENGTH
  /\ appel' = [op |-> op, reste |-> t]
  /\ UNCHANGED <<volume, mode, file, ret, perte>>

Advance(r, n) ==
  /\ Leaves(r)
  /\ appel' = IF r.panique \/ n = Len(appel.reste) THEN Idle
              ELSE [appel EXCEPT !.reste = SubSeq(@, n + 1, Len(@))]
  /\ UNCHANGED ret

sgf_puts ==
  /\ mode = "marche" /\ appel.op = "puts"
  /\ Advance(sgf_putc(Volume, file, Head(appel.reste)), 1)

sgf_write ==
  /\ mode = "marche" /\ appel.op = "write"
  /\ LET s == Chunk(file, appel.reste) IN Advance(WriteChunk(Volume, file, s), Len(s))

sgf_close == Ready /\ file # NULL /\ Leaves(CloseFile(Volume, file)) /\ UNCHANGED <<appel, ret>>

(* getc or seek on a file open to be written, putc, puts or write on one   *)
(* open to be read: each asserts the mode first.  Nothing is closed.       *)
WrongMode ==
  /\ Ready /\ file # NULL
  /\ mode' = "abandon" /\ file' = NULL
  /\ perte' = (perte \/ (Writing /\ file.ptr % BLOCK_SIZE # 0))
  /\ UNCHANGED <<volume, appel, ret>>

SgfNext ==
  \/ init_sgf
  \/ \E nom \in NOMS : \/ OpenUnknown(nom)
                       \/ \E op \in {"open_read", "open_append"} : OpenFails(op, nom)
                       \/ sgf_open_read(nom)
                       \/ sgf_open_append(nom)
                       \/ sgf_open_write(nom)
  \/ sgf_open_write_full
  \/ sgf_getc
  \/ Reading /\ \E pos \in -1 .. file.length : sgf_seek(pos)
  \/ \E op \in {"puts", "write"}, t \in TEXTES : Begin(op, t)
  \/ sgf_puts
  \/ sgf_write
  \/ sgf_close
  \/ WrongMode

SgfSpec == SgfInit /\ [][SgfNext]_sgf

-----------------------------------------------------------------------------
Inodes == {n \in Blocs : fat[n] = FAT_INODE}
Written(i) == file # NULL /\ file.mode # READ_MODE /\ file.inode = i
Data(i) == ChainBlocks(fat, disk[i].first)

TypeOK ==
  /\ fat \in [Blocs -> FAT_EOF .. DISK_SIZE - 1]
  /\ DOMAIN disk = Blocs
  /\ mode \in {"arret", "marche", "panique", "abandon"}
  /\ file = NULL \/ file \in OFiles
  /\ appel.op \in {"rien", "puts", "write"} /\ appel.reste \in Seq(CHARS)
  /\ perte \in BOOLEAN

(* Who owns the blocks: those that are not free are the directory's, an    *)
(* inode or one file's data, and never of two; every chain ends.  This     *)
(* holds whatever fails: a block is neither lost nor given twice, by the   *)
(* overwriting of a file while its old blocks are freed, the growth of the *)
(* directory, or a disk that fills up.                                     *)
BlocksOwned ==
  /\ \A n \in ADR_DIR .. DISK_SIZE - 1 :
       fat[n] # FAT_FREE /\ fat[n] # FAT_INODE =>
         \/ n \in DirBlocks /\ \A i \in Inodes : n \notin Data(i)
         \/ n \notin DirBlocks /\ Cardinality({i \in Inodes : n \in Data(i)}) = 1
  /\ \A i \in Inodes : ChainEnds(fat, disk[i].first)
  /\ \A i \in Inodes : \A n \in Data(i) : fat[n] # FAT_FREE
  /\ ChainEnds(fat, ADR_DIR)

(* Names and inodes correspond one to one while no failure was dropped: no *)
(* name leads to a block that has been freed, and overwriting leaves no    *)
(* inode that no name leads to.                                            *)
InodesListed ==
  ~perte => /\ Inodes = {find_inode(Volume, nom) : nom \in NOMS} \ {-1}
            /\ \A a, b \in NOMS : find_inode(Volume, a) = find_inode(Volume, b)
                                  /\ find_inode(Volume, a) # -1 => a = b

(* The length in the inode, the chain and its last block agree; of the     *)
(* file being written, those in memory do, and the inode is behind by the  *)
(* buffer at most.  Reading and appending rely on it.                      *)
LengthAgrees(i) ==
  LET length == IF Written(i) THEN file.length ELSE disk[i].length
      last == IF length = 0 THEN FAT_EOF
              ELSE Walk(fat, disk[i].first, Blocks(length) - 1)
  IN  /\ Cardinality(Data(i)) = Blocks(length)
      /\ disk[i].last = last
      /\ length - disk[i].length \in 0 .. BLOCK_SIZE - 1
      /\ Written(i) => file.last = last /\ file.current = last
LengthsAgree == ~perte => \A i \in Inodes : LengthAgrees(i)

(* While reading, current stands for the block that sgf_read_bloc() and    *)
(* sgf_seek() infer from ptr, and within a block the buffer is its copy.   *)
ReadPosition ==
  file # NULL /\ file.mode = READ_MODE /\ ~perte =>
    /\ file.current = Walk(fat, file.first, Max({0, LastBlock(file.ptr)}))
    /\ file.ptr % BLOCK_SIZE # 0 => file.buffer = disk[file.current]

(* Reading leaves the disk as it is; so does sgf_close(), though it writes *)
(* the buffer and the length back whatever the mode.                       *)
ReadingChangesNothing ==
  [][file # NULL /\ file.mode = READ_MODE /\ ~perte => UNCHANGED volume]_sgf

(* No chain is followed off its end, where panic() or the assert of the    *)
(* walk would stop the program, unless something was lost before.  A full  *)
(* disk alone, or a program that asserts, leaves no such chain.            *)
PanicOnlyAfterLoss == mode = "panique" => perte

(* A call changes the blocks of the open file only, even when it goes on   *)
(* after a full disk, overwrites the block in current and counts on: of    *)
(* every other file the inode, the data and the chain stay as they are, as *)
(* long as it is there.                                                    *)
Intact(i) == /\ disk'[i] = disk[i]
             /\ \A n \in Data(i) : fat'[n] = fat[n] /\ disk'[n] = disk[n]
OthersUntouched ==
  [][\A i \in Inodes \cap Inodes' : file = NULL \/ i # file.inode => Intact(i)]_sgf

-----------------------------------------------------------------------------
(* The files this disk stands for.  Of the file being written, what is in  *)
(* the buffer belongs to it already.                                       *)
Content ==
  [i \in Inodes |->
     LET length == IF Written(i) THEN file.length ELSE disk[i].length
         InBuffer(k) == /\ Written(i) /\ length % BLOCK_SIZE # 0
                        /\ (k \div BLOCK_SIZE) = (length \div BLOCK_SIZE)
     IN  [k \in 1 .. length |->
            IF InBuffer(k - 1) THEN file.buffer[(k - 1) % BLOCK_SIZE]
            ELSE Octets(disk[Walk(fat, disk[i].first, (k - 1) \div BLOCK_SIZE)])
                   [(k - 1) % BLOCK_SIZE]]]

NameOf(i) == CHOOSE nom \in NOMS : find_inode(Volume, nom) = i

Files ==
  [nom \in NOMS |-> IF perte \/ find_inode(Volume, nom) < 0 THEN Blank
                    ELSE Content[find_inode(Volume, nom)]]
Handle ==
  IF perte \/ file = NULL THEN NULL
  ELSE [nom |-> NameOf(file.inode), pos |-> file.ptr,
        mode |-> IF file.mode = READ_MODE THEN "lecture" ELSE "ecriture"]

(* No text is taken for an absent file, nor an open file for none. *)
ASSUME AbstractAssumption ==
  /\ Blank \notin Seq(CHARS \cup {Junk})
  /\ NULL \notin [nom : NOMS, pos : Nat, mode : {"lecture", "ecriture"}]

Abstract == INSTANCE Fichiers WITH
  Absent <- Blank, Inconnu <- Junk, TAMPON <- BLOCK_SIZE,
  contenu <- Files, ouvert <- Handle, reste <- IF perte THEN <<>> ELSE appel.reste,
  ret <- IF perte THEN NoReply ELSE ret, sain <- ~perte, tues <- 0

(* As long as no failure is dropped, the calls do what Fichiers says: a    *)
(* file reads as it was written, through overwriting, appending, seeking   *)
(* and whatever else is done to the other files.                           *)
FilesSpec == Abstract!FicSpec

-----------------------------------------------------------------------------
(* What a comment says and the code does not do: sgf_open_write() answers  *)
(* NULL "si echec".  add_inode() gives -1 for a name that it enters and    *)
(* for one that it cannot; the open file is one that no name leads to.     *)
OpenFileHasName ==
  file # NULL => \E nom \in NOMS : find_inode(Volume, nom) = file.inode

(* Another: sgf_open() answers NULL "si echec".  It never ends the program.  *)
OpenTellsFailure == [][Closed => mode' \notin {"abandon", "panique"}]_sgf
=============================================================================
