--------------------------- MODULE MCThreadWrapper ---------------------------
(***************************************************************************)
(* Instances of ThreadWrapper for TLC: clients are interchangeable.        *)
(***************************************************************************)
EXTENDS ThreadWrapper, TLC

ClientSymmetry == Permutations(Clients)
=============================================================================
