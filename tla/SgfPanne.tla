------------------------------ MODULE SgfPanne ------------------------------
(***************************************************************************)
(* Programs that use the files of Sgf and are killed: between two calls,   *)
(* or in a call between two of its block writes.  The next program mounts  *)
(* the disk as it was left; nothing in the code repairs it.                *)
(*                                                                         *)
(* A file that is killed in sgf_append_block() may have a chain that does  *)
(* not fit its length, and ends in a free block if the new block was       *)
(* linked and not marked.  Reading it is safe.  abime tells that it was    *)
(* opened to be written again, or overwritten by a call that was killed:   *)
(* sgf_remove() then frees blocks of whoever has taken the free one, and   *)
(* sgf_write() puts text out of its place.  The behaviours end there.      *)
(***************************************************************************)
EXTENDS Sgf

CONSTANT KILLS   \* bound of the model: how often a program is killed

ASSUME SgfPanneAssumption ==
  /\ KILLS \in Nat
  \* Blank, a block in none of the forms, is no inode record either
  /\ Blank \notin [length : 0 .. MAX_LENGTH, first : Blocs \cup {FAT_EOF}, last : Blocs \cup {FAT_EOF}]

VARIABLES tues, abime

panne == <<sgf, tues, abime>>

PanneInit == SgfInit /\ tues = 0 /\ abime = FALSE

-----------------------------------------------------------------------------
(* What the program's call would do. *)
InCall ==
  CASE mode # "marche" -> {}
    [] mode = "marche" /\ appel.op = "puts" -> {sgf_putc(Volume, file, Head(appel.reste))}
    [] mode = "marche" /\ appel.op = "write" ->
         {WriteChunk(Volume, file, Chunk(file, appel.reste))}
    [] Ready /\ file # NULL -> {CloseFile(Volume, file)}
    [] Closed -> IF Free(fat) = {} THEN {} ELSE {NewFile(Volume, nom) : nom \in NOMS}

Nommes == {find_inode(Volume, nom) : nom \in NOMS} \ {-1}
Sains == {i \in Nommes : fat[i] = FAT_INODE /\ LengthAgrees(i) /\ ChainEnds(fat, disk[i].first)}

(* The names of damaged files, which one is appended to or overwritten, *)
(* and what is overwritten when the call r is killed.                   *)
Abimes == {nom \in NOMS : find_inode(Volume, nom) \in Nommes \ Sains}
Reopens == tues > 0 /\ \E nom \in Abimes : sgf_open_append(nom) \/ sgf_open_write(nom)
Overwrites(r) == Closed /\ \E nom \in Abimes : r = NewFile(Volume, nom)

Killed ==
  /\ mode' = "arret" /\ file' = NULL /\ appel' = Idle
  /\ UNCHANGED ret

Kill ==
  /\ mode = "marche" /\ tues < KILLS
  /\ tues' = tues + 1
  /\ Killed
  /\ \/ UNCHANGED <<volume, perte, abime>>
     \/ \E r \in InCall : \E k \in DOMAIN r.vol.passe :
          /\ Becomes(Forgotten(r.vol.passe[k]))
          /\ perte' = (perte \/ r.perdu) /\ abime' = (abime \/ Overwrites(r))

PanneNext ==
  \/ Kill
  \/ ~perte /\ ~abime /\ SgfNext /\ tues' = tues /\ abime' = Reopens

PanneSpec == PanneInit /\ [][PanneNext]_panne

-----------------------------------------------------------------------------
(* A kill damages one file at most, the one being written.  All others     *)
(* have their blocks to themselves, with chains that end where the length  *)
(* says, every name leads to its own inode and the directory is whole,     *)
(* whatever is written afterwards.                                         *)
KillHarmsOne ==
  ~perte /\ ~abime =>
    /\ Nommes \subseteq Inodes
    /\ Cardinality(Nommes) = Cardinality({nom \in NOMS : find_inode(Volume, nom) # -1})
    /\ Cardinality(Nommes \ Sains) <= tues
    /\ \A i, k \in Sains : i # k => Data(i) \cap Data(k) = {}
    /\ \A i \in Sains : Data(i) \cap (DirBlocks \cup Free(fat)) = {}
    /\ ChainEnds(fat, ADR_DIR)

(* What a kill leaves of the files: all of them but less than a block of   *)
(* the one being written, for ever after.                                  *)
Survivors == INSTANCE Fichiers WITH
  Absent <- Blank, Inconnu <- Junk, TAMPON <- BLOCK_SIZE,
  contenu <- IF abime THEN [nom \in NOMS |-> Blank] ELSE Files,
  ouvert <- IF abime THEN NULL ELSE Handle,
  reste <- IF perte \/ abime THEN <<>> ELSE appel.reste,
  ret <- IF perte \/ abime THEN NoReply ELSE ret,
  sain <- ~perte /\ ~abime, tues <- IF perte \/ abime THEN 0 ELSE tues

FilesSurvive == Survivors!FicSpec
=============================================================================
