----------------------------- MODULE MCMontage ------------------------------
(* Names are not told apart but for their length.                          *)
EXTENDS Montage, TLC

CONSTANTS f, g, h, trop_long

MCNoms == {f, g, h, trop_long}
MCNomsLongs == {trop_long}
MCSymmetry == Permutations({f, g, h})
=============================================================================
