------------------------------ MODULE Fichiers ------------------------------
(***************************************************************************)
(* What the calls of sgf-io.h promise, without a disk: files are sequences *)
(* of characters.  Opening to write empties the file, opening to append    *)
(* goes on at its end, what is written comes next in the order given, and  *)
(* reading gives it back from any position.                                *)
(*                                                                         *)
(* sain becomes FALSE when a call fails without telling; nothing is        *)
(* promised from there on.  A program that is killed loses less than TAMPON *)
(* characters of what it wrote last, and those only.                       *)
(***************************************************************************)
EXTENDS Integers, Sequences

CONSTANTS NOMS, CHARS, NULL, Absent, Inconnu, TAMPON

VARIABLES
  contenu,   \* the text of each file, Absent if there is none of that name
  ouvert,    \* NULL, or the name, mode and position of the open file
  reste,     \* what is left of the text being written
  ret,       \* the last request that is answered, and its answer
  sain,
  tues       \* how often a program was killed

Reply(op, arg, val) == [op |-> op, arg |-> arg, val |-> val]
NoReply == Reply("rien", 0, 0)

fichiers == <<sain, reste, ret, ouvert, contenu, tues>>

FicInit ==
  /\ \A nom \in NOMS : contenu[nom] = Absent \/ contenu[nom] \in Seq(CHARS)
  /\ ouvert = NULL /\ reste = <<>> /\ ret = NoReply /\ sain = TRUE /\ tues = 0

At(nom, m, pos) == [nom |-> nom, mode |-> m, pos |-> pos]
Idle == sain /\ reste = <<>>
Text == contenu[ouvert.nom]
Reading == Idle /\ ouvert # NULL /\ ouvert.mode = "lecture"

(* No such file; or a mode that does not exist. *)
OpenNone(nom) ==
  /\ \/ contenu[nom] = Absent /\ \E op \in {"open_read", "open_append"} : ret' = Reply(op, nom, NULL)
     \/ ret' = Reply("open", nom, NULL)
  /\ UNCHANGED <<sain, reste, ouvert, contenu>>

OpenRead(nom) ==
  /\ contenu[nom] # Absent
  /\ ret' = Reply("open_read", nom, 0) /\ ouvert' = At(nom, "lecture", 0)
  /\ UNCHANGED <<sain, reste, contenu>>

OpenAppend(nom) ==
  /\ contenu[nom] # Absent
  /\ ret' = Reply("open_append", nom, 0) /\ ouvert' = At(nom, "ecriture", Len(contenu[nom]))
  /\ UNCHANGED <<sain, reste, contenu>>

OpenWrite(nom) ==
  /\ ret' = Reply("open_write", nom, 0) /\ ouvert' = At(nom, "ecriture", 0)
  /\ contenu' = [contenu EXCEPT ![nom] = <<>>]
  /\ UNCHANGED <<sain, reste>>

Open ==
  /\ Idle /\ ouvert = NULL
  /\ \E nom \in NOMS : OpenNone(nom) \/ OpenRead(nom) \/ OpenAppend(nom) \/ OpenWrite(nom)

Read ==
  /\ Reading
  /\ IF ouvert.pos = Len(Text) THEN ret' = Reply("getc", 0, -1) /\ UNCHANGED ouvert
     ELSE ret' = Reply("getc", 0, Text[ouvert.pos + 1]) /\ ouvert' = [ouvert EXCEPT !.pos = @ + 1]
  /\ UNCHANGED <<sain, reste, contenu>>

(* To the position asked for, if it is one of the file; any other is       *)
(* refused and leaves the position as it is.                               *)
Seek ==
  LET pos == ret'.arg IN
  /\ Reading
  /\ ret'.op = "seek"
  /\ IF pos \in 0 .. Len(Text) - 1
     THEN ret' = Reply("seek", pos, 0) /\ ouvert' = [ouvert EXCEPT !.pos = pos]
     ELSE ret' = Reply("seek", pos, -1) /\ UNCHANGED ouvert
  /\ UNCHANGED <<sain, reste, contenu>>

Ask ==
  /\ Idle /\ ouvert # NULL /\ ouvert.mode = "ecriture"
  /\ reste' \in Seq(CHARS) \ {<<>>}
  /\ UNCHANGED <<sain, ret, ouvert, contenu>>

(* Part of the text goes to the file: nothing skipped, nothing twice. *)
Write ==
  /\ sain /\ reste # <<>>
  /\ \E n \in 1 .. Len(reste) :
       /\ reste' = SubSeq(reste, n + 1, Len(reste))
       /\ ouvert' = [ouvert EXCEPT !.pos = @ + n]
       /\ contenu' = [contenu EXCEPT ![ouvert.nom] = @ \o SubSeq(reste, 1, n)]
  /\ UNCHANGED <<sain, ret>>

Close == Idle /\ ouvert' = NULL /\ UNCHANGED <<sain, reste, ret, contenu>>

(* Something is lost and nobody told, when a file is opened or written and *)
(* never otherwise.  The variables then say nothing any more.              *)
Fail ==
  /\ sain /\ (ouvert = NULL \/ ouvert.mode = "ecriture")
  /\ sain' = FALSE
  /\ contenu' = [n \in NOMS |-> Absent]
  /\ ouvert' = NULL /\ reste' = <<>> /\ ret' = NoReply /\ tues' = 0

(* What is left of a text that was being written: its beginning, whose     *)
(* last character may never have been put in its place.                    *)
Cuts(text, next) ==
  UNION {{SubSeq(text \o next, 1, n), Append(SubSeq(text \o next, 1, n - 1), Inconnu)} :
           n \in {k \in 1 .. Len(text \o next) : k > Len(text) - TAMPON}}

(* Killed before it began to write, while it emptied a file, or while it   *)
(* wrote one.  All other files stay as they are.                           *)
Kill ==
  /\ tues' = tues + 1 /\ sain
  /\ ouvert' = NULL /\ reste' = <<>>
  /\ \/ UNCHANGED contenu
     \/ ouvert = NULL /\ \E nom \in NOMS : contenu' = [contenu EXCEPT ![nom] = <<>>]
     \/ /\ ouvert # NULL /\ ouvert.mode = "ecriture"
        /\ \E t \in {<<>>} \cup Cuts(Text, reste) :
             /\ t = <<>> => Len(Text) < TAMPON
             /\ contenu' = [contenu EXCEPT ![ouvert.nom] = t]
  /\ UNCHANGED <<sain, ret>>

FicNext ==
  \/ UNCHANGED tues /\ (Open \/ Read \/ Seek \/ Ask \/ Write \/ Close)
  \/ Fail \/ Kill

FicSpec == FicInit /\ [][FicNext]_fichiers
=============================================================================
