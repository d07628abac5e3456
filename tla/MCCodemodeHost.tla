--------------------------- MODULE MCCodemodeHost ---------------------------
(* Model checking of CodemodeHost: a script that tries one call too many,  *)
(* and one that calls nothing, on the same sandbox.                        *)
EXTENDS CodemodeHost, TLC

CONSTANTS r1, r2

Budgets == r1 :> 1 @@ r2 :> 1
Tries == r1 :> 2 @@ r2 :> 0
=============================================================================
