----------------------------- MODULE MCAgentLoop -----------------------------
(* AgentLoop on one or two calls, tasks, turns and runs.                   *)
EXTENDS AgentLoop
=============================================================================
