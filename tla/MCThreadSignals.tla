--------------------------- MODULE MCThreadSignals ---------------------------
(***************************************************************************)
(* Instances of ThreadSignals for TLC.                                     *)
(***************************************************************************)
EXTENDS ThreadSignals, TLC

Symmetry == Permutations(Specs)
=============================================================================
