----------------------------- MODULE MCAgentTurn -----------------------------
(* AgentTurn on a few calls and chunks.  Calls are interchangeable, and so *)
(* are stream indexes; the runs without temporal properties use that.      *)
EXTENDS AgentTurn, TLC

Symmetry == Permutations(Calls) \cup Permutations(Indexes)
=============================================================================
