--------------------------- MODULE MCConnectionLife ---------------------------
(***************************************************************************)
(* Instances of ConnectionLife for TLC.                                    *)
(***************************************************************************)
EXTENDS ConnectionLife
=============================================================================
