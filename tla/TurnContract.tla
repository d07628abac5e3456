---------------------------- MODULE TurnContract ----------------------------
(***************************************************************************)
(* What one turn of the engine promises to the loop that consumes its      *)
(* events (run_agent_turn in vtx/agent/agent_runner.py, TurnEndEvent in    *)
(* vtx/core/events.py).  A turn reports its outcome in TurnEndEvents:      *)
(* some without a message, when no request could be opened, and at most    *)
(* one with the assistant message, which is the last one and answers each  *)
(* of the message's tool calls with one result, in the message's order.    *)
(* A turn finishes with at least one TurnEndEvent, or raises.              *)
(***************************************************************************)
EXTENDS Naturals, Sequences, FiniteSets, SequencesExt

CONSTANT Calls  \* the ids of tool calls a model can make in one turn

VARIABLES ends,   \* the TurnEndEvents emitted so far
          status, \* whether the generator is running, finished or raised
          cancel  \* the cancel event the turn shares with its caller

StopReasons == {"stop", "length", "tool_use", "error", "interrupted"}

(* A TurnEndEvent.  `answers` names the calls its tool_results answer.  An *)
(* InterruptedEvent comes with the end whose stop is "interrupted".        *)
Fruitless(stop) ==
  [message |-> FALSE, calls |-> <<>>, answers |-> <<>>, stop |-> stop]

MessageEnd(calls, stop) ==
  [message |-> TRUE, calls |-> calls, answers |-> calls, stop |-> stop]

CallLists == UNION {[1..n -> Calls] : n \in 0..Cardinality(Calls)}

Init ==
  /\ ends = <<>>
  /\ status = "running"

(* No request could be opened, or the turn was cancelled before one was.   *)
EndWithoutMessage ==
  /\ status = "running"
  /\ \E stop \in {"error", "interrupted"} :
       /\ stop = "interrupted" => cancel
       /\ ends' = Append(ends, Fruitless(stop))
  /\ status' \in {"running", "finished"}

(* A message with calls asks to be continued, unless it was cut short.     *)
EndWithMessage ==
  /\ status = "running"
  /\ \E calls \in CallLists, stop \in StopReasons :
       /\ stop = "interrupted" => cancel
       /\ calls # <<>> => stop # "stop"
       /\ ends' = Append(ends, MessageEnd(calls, stop))
  /\ status' = "finished"

Raise ==
  /\ status = "running"
  /\ status' = "raised"
  /\ UNCHANGED ends

Next == EndWithoutMessage \/ EndWithMessage \/ Raise

Spec == Init /\ [][Next]_<<ends, status>>
=============================================================================
