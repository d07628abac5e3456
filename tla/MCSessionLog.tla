--------------------------- MODULE MCSessionLog ---------------------------
(* Instances of SessionLog for TLC.                                        *)
EXTENDS SessionLog, TLC

\* Only the first state says which process created the session: no step
\* and no property tells the processes apart, and no liveness is checked.
Symmetric == Permutations(Procs)
=============================================================================
