--------------------------- MODULE MCXaTransaction ---------------------------
(***************************************************************************)
(* Instances of XaTransaction for TLC: a and b are connections to the same *)
(* server, c and n to another one; n has no XA methods.                    *)
(***************************************************************************)
EXTENDS XaTransaction, TLC

CONSTANTS a, b, c, n, s1, s2

MCCncs     == {a, b, c, n}
MCServers  == {s1, s2}
MCServerOf == a :> s1 @@ b :> s1 @@ c :> s2 @@ n :> s2
=============================================================================
