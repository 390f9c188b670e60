------------------------------ MODULE MCPanne ------------------------------
(***************************************************************************)
(* Killed programs with the small blocks of MCSgf, and main with texts     *)
(* that cross a block: of three characters, of one and of two.             *)
(***************************************************************************)
EXTENDS Demo, TLC

CONSTANTS x, y, f, g

MCChars == {x, y}
MCNoms == {f, g}
MCNoLongs == {}
MCTextes == {<<x, y, y>>}
MCLignes == <<<<x>>, <<y, x>>>>
MCFinal == <<x, y, x>>

(* What a later step reads: not what free blocks hold, nor the last block  *)
(* in memory, which only the inode's copy of is used, nor bytes of the     *)
(* buffer that are not written yet, nor former results.  Behaviours of the *)
(* free program end where a failure was dropped or a damaged file opened.  *)
LiveView ==
  IF prog = "libre" /\ (perte \/ abime) THEN <<>>
  ELSE <<prog, pas, i, affiche, avant, perte, abime, mode, tues, appel, fat,
    [n \in Blocs |-> IF fat[n] = FAT_FREE THEN Blank ELSE disk[n]],
    IF file = NULL THEN <<>>
    ELSE [file EXCEPT !.last = 0, !.buffer =
            [k \in Indices |-> IF file.mode = READ_MODE \/ k < file.ptr % BLOCK_SIZE THEN @[k] ELSE Junk]]>>
=============================================================================
