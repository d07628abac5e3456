------------------------------ MODULE MCGoals ------------------------------
(* Instances of Goals for TLC.                                             *)
EXTENDS Goals, TLC

\* Processes and sessions are interchangeable, and no liveness is checked.
Symmetric == Permutations(Procs) \cup Permutations(Sessions)
=============================================================================
