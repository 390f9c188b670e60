-------------------------------- MODULE Demo --------------------------------
(***************************************************************************)
(* The program of TP9-10, main.c, on a disk that has essai.txt or not.  It *)
(* is run as any program of SgfPanne: killed and started again.            *)
(*                                                                         *)
(* Its calls, in their order, are the sequence Main; the loops of main.c   *)
(* are turns in place.  The lines, the number of appended characters and   *)
(* the distance of the seeks are constants, so that a block of the model   *)
(* holds some of them as 128 bytes do.                                     *)
(***************************************************************************)
EXTENDS SgfPanne, SequencesExt

CONSTANTS
  ESSAI,    \* the name essai.txt
  LIGNES,   \* the texts of write_file()
  AJOUTS,   \* 500, and the character 'c' that is appended
  CAR,
  PAS,      \* 8
  FINAL     \* the text of final_write_file()

ASSUME DemoAssumption ==
  /\ ESSAI \in NOMS /\ CAR \in CHARS /\ AJOUTS \in Nat /\ PAS \in Nat \ {0}
  /\ FINAL \in Seq(CHARS) \ {<<>>}
  /\ LIGNES \in Seq(Seq(CHARS) \ {<<>>})

VARIABLES
  prog,      \* the program of this behaviour: "main", or "libre", any other
  pas,       \* the call of Main that is next
  i,         \* of seek_8_file()
  affiche,   \* what read_file() and seek_8_file() have printed
  avant      \* what essai.txt held when main was started, Blank if absent

demo == <<panne, prog, pas, i, affiche, avant>>

-----------------------------------------------------------------------------
Call(op, arg) == <<[op |-> op, arg |-> arg]>>
Open(m) == Call("open", m)
Puts(t) == Call("puts", t)
Close == Call("close", 0)

empty_file == Open(WRITE_MODE) \o Close
read_file == Open(READ_MODE) \o Call("read", 0) \o Close
append_file == Open(APPEND_MODE) \o Puts(<<CAR>>) \o Close
mutliple_append_file == FlattenSeq([k \in 1 .. AJOUTS |-> append_file])
write_file == Open(WRITE_MODE) \o FlattenSeq([k \in DOMAIN LIGNES |-> Puts(LIGNES[k])]) \o Close
seek_8_file == Open(READ_MODE) \o Call("seek", 0) \o Call("getc", 0) \o Close
final_write_file == Open(WRITE_MODE) \o Call("write", FINAL) \o Close

Main ==
  read_file \o seek_8_file \o write_file \o read_file \o empty_file
    \o mutliple_append_file \o read_file \o empty_file \o final_write_file \o read_file

(* The disk before: formatted, perhaps with essai.txt. *)
WithFile(t) ==
  LET put == FoldLeft(LAMBDA r, c : sgf_putc(r.vol, r.file, c),
                      NewFile(FormattedVolume, ESSAI), t)
  IN  CloseFile(put.vol, put.file).vol

DemoInit ==
  /\ \/ prog = "libre" /\ PanneInit
     \/ prog = "main" /\ PanneInit
     \/ /\ prog = "main"
        /\ \E t \in {<<>>, <<CAR>>, FINAL} :
             fat = WithFile(t).fat /\ disk = WithFile(t).disk
        /\ mode = "arret" /\ file = NULL /\ appel = Idle /\ ret = NoReply /\ perte = FALSE
        /\ tues = 0 /\ abime = FALSE
  /\ pas = 0 /\ i = 0 /\ affiche = <<>> /\ avant = Blank

-----------------------------------------------------------------------------
Goes(p) == pas' = p /\ UNCHANGED <<i, affiche, prog, avant>>
Prints(c) == affiche' = Append(affiche, c)

(* init_sgf(); the listing that follows only reads the directory. *)
Start ==
  /\ mode = "arret" /\ init_sgf
  /\ pas' = 1 /\ i' = 0 /\ affiche' = <<>> /\ avant' = Files[ESSAI]
  /\ UNCHANGED prog

Is(op) == mode = "marche" /\ appel = Idle /\ pas \in DOMAIN Main /\ Main[pas].op = op
Arg == Main[pas].arg

DoOpen ==
  /\ Is("open")
  /\ \/ Arg = READ_MODE /\ sgf_open_read(ESSAI)
     \/ Arg = WRITE_MODE /\ (sgf_open_write(ESSAI) \/ sgf_open_write_full)
     \/ Arg = APPEND_MODE /\ sgf_open_append(ESSAI)
     \/ Arg = READ_MODE /\ OpenFails("open_read", ESSAI)
     \/ Arg = APPEND_MODE /\ OpenFails("open_append", ESSAI)
  /\ Goes(pas + 1)

(* No call tests what sgf_open() returned. *)
NullFile ==
  /\ Is("read") \/ Is("seek") \/ Is("puts")
  /\ file = NULL
  /\ mode' = "faute"
  /\ UNCHANGED <<volume, file, appel, ret, perte>> /\ Goes(pas)

(* while ((c = sgf_getc(file)) > 0): the characters of a text are          *)
(* positive; a byte nobody wrote may be, or not.                           *)
DoRead ==
  /\ Is("read") /\ sgf_getc
  /\ \/ ret'.val \notin {-1} /\ Prints(ret'.val) /\ UNCHANGED <<pas, i, prog, avant>>
     \/ ret'.val \in {-1, Junk} /\ Goes(pas + 1)

DoSeek ==
  /\ Is("seek") /\ sgf_seek(PAS * i)
  /\ Goes(IF ret'.val = -1 THEN pas + 2 ELSE pas + 1)

DoGetc ==
  /\ Is("getc") /\ sgf_getc
  /\ Prints(ret'.val) /\ i' = i + 1 /\ pas' = pas - 1
  /\ UNCHANGED <<prog, avant>>

DoPut == (Is("puts") \/ Is("write")) /\ Begin(Main[pas].op, Arg) /\ Goes(pas + 1)

DoClose == Is("close") /\ sgf_close /\ Goes(pas + 1)

Return ==
  /\ Ready /\ pas = Len(Main) + 1
  /\ mode' = "fini"
  /\ UNCHANGED <<volume, file, appel, ret, perte>> /\ Goes(pas)

MainCalls ==
  \/ DoOpen \/ NullFile \/ DoRead \/ DoSeek \/ DoGetc \/ DoPut \/ DoClose \/ Return
  \/ (sgf_puts \/ sgf_write) /\ Goes(pas)

Runs(A) == prog = "main" /\ A /\ tues' = tues /\ abime' = (abime \/ Reopens)

Running == prog = "main" /\ mode = "marche"
Over == IF prog = "main" THEN mode \in {"fini", "faute", "panique", "abandon"} ELSE perte \/ abime

DemoNext ==
  \/ Runs(Start)
  \/ Runs(MainCalls)
  \/ prog = "main" /\ Kill /\ Goes(pas)
  \/ prog = "libre" /\ PanneNext /\ Goes(pas)
  \/ Over /\ UNCHANGED demo

(* The program runs on while it can; nobody must kill it or start it       *)
(* again.  This is weak fairness of Runs(MainCalls): once killed KILLS     *)
(* times main can do nothing else while it is running, and a state where   *)
(* it could not even do that would be a deadlock.                          *)
Fairness == []<>~Running \/ []<><<Running /\ tues' = tues>>_demo

DemoSpec == DemoInit /\ [][DemoNext]_demo /\ Fairness

-----------------------------------------------------------------------------
(* What main prints after it has read the file it finds. *)
Written3 == FlattenSeq(LIGNES) \o [k \in 1 .. AJOUTS |-> CAR] \o FINAL
Sampled(t) == [k \in 1 .. (Len(t) + PAS - 1) \div PAS |-> t[PAS * (k - 1) + 1]]
Shown ==
  IF Junk \in Range(avant) THEN IsSuffix(Written3, affiche)
  ELSE affiche = avant \o Sampled(avant) \o Written3

(* Once started main ends, and has then shown the file it found, every     *)
(* eighth character of it, and each text it wrote as it wrote it.  On a    *)
(* disk without essai.txt it stops at its first call with the NULL that it *)
(* does not test.  Killed and started again it does the same, unless the   *)
(* kill damaged the file it overwrites or left too few free blocks.        *)
DemoEnds ==
  Running ~>
    \/ mode = "arret"
    \/ mode = "fini" /\ (Shown \/ perte)
    \/ mode = "faute" /\ avant = Blank
    \/ mode = "panique" /\ tues > 0 /\ (abime \/ perte)
    \/ mode = "abandon" /\ tues > 0 /\ Free(fat) = {}
=============================================================================
