------------------------------- MODULE MCSgf -------------------------------
(***************************************************************************)
(* Sgf with blocks of two characters and one entry per directory block.    *)
(* No step depends on a character, so two texts that differ in length and  *)
(* at each position stand for all.                                         *)
(***************************************************************************)
EXTENDS Sgf, TLC

CONSTANTS x, y, f, g, trop_long

MCChars == {x, y}
MCNoms == {f, g}
MCNomsLongs == {f, g, trop_long}
MCLongs == {trop_long}
MCNoLongs == {}
MCTextes == {<<x>>, <<y, x, y>>}
Symmetry == Permutations({f, g})

(* What the next steps and the properties depend on.  Not read again: what *)
(* is in free blocks, past the end of a file, in the buffer past ptr, on   *)
(* disk of the block that is in the buffer to be written, and the former   *)
(* ret.  After a failure no property is about characters.  That reads do   *)
(* not go past the end is FilesSpec.                                       *)
Control ==
  <<fat, mode, perte, appel.op, Len(appel.reste),
    [n \in Blocs |-> IF n \in Inodes \cup DirBlocks THEN disk[n] ELSE Blank],
    IF file = NULL THEN <<>>
    ELSE <<file.length, file.inode, file.first, file.current, file.ptr, file.mode>> >>
Characters == <<appel.reste, Content,
                IF file # NULL /\ file.mode = READ_MODE THEN file.buffer ELSE <<>> >>
LiveView == <<Control, IF perte THEN <<>> ELSE Characters>>
=============================================================================
