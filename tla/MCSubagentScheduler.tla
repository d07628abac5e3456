------------------------ MODULE MCSubagentScheduler ------------------------
(* SubagentScheduler on four dispatches and the limits 1 and 2.            *)
EXTENDS SubagentScheduler
============================================================================
