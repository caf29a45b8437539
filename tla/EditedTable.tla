------------------------------ MODULE EditedTable ------------------------------
(***************************************************************************)
(* What a data proxy promises: a table, and changes to its rows that are   *)
(* kept apart until they are applied or given up.                          *)
(*                                                                         *)
(* Rows are known by an identity that the program does not have: it knows  *)
(* them by their number, which changes when other rows come and go.        *)
(***************************************************************************)
CONSTANT
    Blank   \* the values of a row to which none has been given

VARIABLES
    base,   \* the values of each row of the table
    pend    \* the pending change of each row that has one

vars == <<base, pend>>

Except(f, S) == [i \in DOMAIN f \ S |-> f[i]]
Differing(f, g) == {i \in DOMAIN f \cup DOMAIN g :
                      i \in DOMAIN f \cap DOMAIN g => f[i] # g[i]}
OneAtMost(S) == \A i, j \in S : i = j

\* A row with a change applied to it.
Before(i) == IF i \in DOMAIN base THEN base[i] ELSE Blank
Written(i) == [c \in DOMAIN Blank |->
                 IF c \in DOMAIN pend[i].values THEN pend[i].values[c] ELSE Before(i)[c]]

-----------------------------------------------------------------------------
\* A row is changed, added, marked as deleted, or its change is given up.
Change == base' = base /\ OneAtMost(Differing(pend, pend'))

CancelAll == pend' = << >> /\ base' = base

\* The changes of some rows are applied: all of each, and nothing else.
Apply ==
    LET S     == DOMAIN pend \ DOMAIN pend'
        gone  == {i \in S : pend[i].deleted}
        added == {i \in S : pend[i].new}
    IN  /\ pend' = Except(pend, S)
        /\ base' = [i \in (DOMAIN base \ gone) \cup added |->
                      IF i \in S THEN Written(i) ELSE base[i]]

\* A row of the table is changed, added or removed by somebody else: a pending
\* change of that row is given up, those of the other rows are kept.
Outside ==
    LET S == Differing(base, base') \cup (DOMAIN pend \ DOMAIN pend')
    IN  OneAtMost(S) /\ pend' = Except(pend, S)

Next == Change \/ CancelAll \/ Apply \/ Outside
=============================================================================
