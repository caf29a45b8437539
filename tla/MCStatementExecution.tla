------------------------- MODULE MCStatementExecution -------------------------
(***************************************************************************)
(* Instances of StatementExecution for TLC.                                *)
(***************************************************************************)
EXTENDS StatementExecution, TLC

CONSTANTS p, q, t1, t2

MCEventObjects == 1 .. 11
MCSymmetry == Permutations({t1, t2}) \cup Permutations({p, q})
=============================================================================
