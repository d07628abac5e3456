---------------------------- MODULE MCPromptQueues ----------------------------
(* PromptQueues on a few prompts and sessions, which are interchangeable. *)
EXTENDS PromptQueues, TLC

Symmetric == Permutations(Sessions)
=============================================================================
