----------------------------- MODULE MCRevert -----------------------------
(* Instances of Revert for TLC.                                            *)
EXTENDS Revert, TLC

\* Files are interchangeable, and no liveness is checked with it.
Symmetric == Permutations(Paths)
=============================================================================
