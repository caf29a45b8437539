------------------------------ MODULE MCDataProxy ------------------------------
(***************************************************************************)
(* Instances of DataProxy for TLC.                                         *)
(***************************************************************************)
EXTENDS DataProxy, TLC

CONSTANTS c1, c2, a, i1, i2, i3

MCSymmetry == Permutations(Columns) \cup Permutations(Ids)
=============================================================================
