------------------------- MODULE MCBackgroundTasks -------------------------
EXTENDS BackgroundTasks, TLC

\* Processes, tasks and sessions are interchangeable; no liveness is checked.
Symmetric ==
  Permutations(Procs) \cup Permutations(Tasks) \cup Permutations(Sessions)
=============================================================================
