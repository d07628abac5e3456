--------------------------- MODULE MCMcpConnection ---------------------------
(* McpConnection on a few tasks and clients, which are interchangeable.    *)
(* The properties say nothing of what follows an excuse: those states are  *)
(* reached, but not followed.                                              *)
EXTENDS McpConnection, TLC

Symmetry == Permutations(Tasks) \cup Permutations(Clients)
Unexcused == excuses = {}
=============================================================================
