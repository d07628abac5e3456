----------------------------- MODULE AgentTurn -----------------------------
(***************************************************************************)
(* One streaming turn of the agent (vtx/agent/turn.py, class _TurnRunner): *)
(* open a provider stream with retries, drain it into prose and tool       *)
(* calls, answer every collected call, then end the turn or request again  *)
(* after an empty, truncated or interrupted-by-a-follow-up attempt.        *)
(*                                                                         *)
(* The runner is a coroutine: an action is the code between two points     *)
(* where it waits for the provider, the user, a tool or its consumer.  The *)
(* user may set the cancel event at any of those points.  Hooks,           *)
(* extensions' observers, token counters and the UI events of a block are  *)
(* left out: they change nothing here.                                     *)
(***************************************************************************)
EXTENDS Naturals, Sequences, FiniteSets, SequencesExt

CONSTANTS
  Calls,                \* ids of the tool calls the model can make
  Indexes,              \* stream indexes that identify a call being streamed
  Kinds,                \* the kinds of tools that get called, see KindSet
  NoCall,               \* "no tool call in the text being collected"
  RetryDelays,          \* how many delays _retry_delays has
  MaxEmptyRetries,      \* _MAX_EMPTY_RETRIES
  MaxLengthRecoveries,  \* _MAX_LENGTH_RECOVERIES
  MaxInjectionCycles,   \* _MAX_INJECTION_CYCLES
  MaxChunks,            \* bound: content chunks the provider sends in the turn
  MaxInjections         \* bound: polls at which a follow-up is waiting

(* A tool that runs unasked, one whose call prompts, ask_user, no such tool *)
KindSet == {"plain", "guarded", "ask", "unknown"}

ASSUME NoCallAssumption == NoCall \notin Calls
ASSUME CallsAssumption == IsFiniteSet(Calls)
ASSUME KindsAssumption == Kinds \subseteq KindSet
ASSUME LimitsAssumption ==
  /\ RetryDelays \in Nat /\ MaxEmptyRetries \in Nat
  /\ MaxLengthRecoveries \in Nat /\ MaxInjectionCycles \in Nat
  /\ MaxChunks \in Nat /\ MaxInjections \in Nat

VARIABLES
  pc,          \* where the coroutine waits
  cancel,      \* whether the cancel event is set
  stream,      \* _stream: none yet, live, closing (its end was sent), over
  current,     \* _current_state
  textCall,    \* the call written as markup in _text_buffer, if any
  prose,       \* whether _content holds text or thinking (has_text)
  active,      \* _active_tool_calls, in insertion order
  pending,     \* _pending_tool_calls
  calls,       \* the tool calls in _content
  data,        \* what the stream delivered for each call
  refused,     \* the calls finalised with a preflight_error
  results,     \* _tool_results
  stop,        \* _stop_reason
  interrupted, \* _interrupted
  tries,       \* retries of the request and of the turn
  spent,       \* how much of each bound has been used
  checkpoint,  \* the snapshot last given to the checkpoint callback
  turnEnds,    \* the TurnEndEvents yielded
  executed,    \* history: the calls whose tool was run
  approved     \* history: the calls the user approved

buffers == <<current, textCall, prose, active, pending, calls, refused, results, stop>>
history == <<executed, approved>>
vars == <<pc, cancel, stream, buffers, data, interrupted, tries, spent,
          checkpoint, turnEnds, history>>

----------------------------------------------------------------------------
(* Types *)

States == {"start", "open", "requesting", "sleeping", "consume", "prepare", "tools",
           "asking", "approving", "starting", "executing", "settle", "final",
           "done", "raised"}
StopReasons == {"stop", "length", "tool_use", "error", "interrupted"}
Outcomes == {"interrupted", "refused", "denied", "unanswered", "answered",
             "blocked", "unknown", "ran"}

(* The arguments collected for a call: nothing, the snapshot its start     *)
(* carried, text that does not parse, the whole JSON object, or JSON that  *)
(* is no object.                                                           *)
Arguments == {"empty", "snapshot", "cut", "whole", "scalar"}
CallData == [kind : KindSet, arguments : Arguments, snapshot : BOOLEAN, stalled : BOOLEAN]
Result == [call : Calls, outcome : Outcomes]
TurnEnd == [message : BOOLEAN, calls : Seq(Calls), results : Seq(Result),
            stop : StopReasons]

TypeOK ==
  /\ pc \in States /\ cancel \in BOOLEAN
  /\ stream \in {"none", "live", "closing", "over"}
  /\ current \in {"none", "think", "text", "tool"}
  /\ textCall \in Calls \cup {NoCall}
  /\ prose \in BOOLEAN
  /\ active \in Seq([index : Indexes, call : Calls])
  /\ pending \in Seq(Calls) /\ calls \in Seq(Calls)
  /\ data \in [Calls -> CallData]
  /\ refused \subseteq Calls
  /\ results \in Seq(Result)
  /\ stop \in StopReasons /\ interrupted \in BOOLEAN
  /\ tries \in [attempt : Nat, empty : Nat, length : Nat, injections : Nat]
  /\ spent \in [chunks : Nat, injections : Nat, calls : SUBSET Calls]
  /\ checkpoint \in Seq(Result)
  /\ turnEnds \in Seq(TurnEnd)
  /\ executed \subseteq Calls /\ approved \subseteq Calls

----------------------------------------------------------------------------
Init ==
  /\ pc = "start" /\ cancel = FALSE
  /\ stream = "none" /\ current = "none" /\ textCall = NoCall /\ prose = FALSE
  /\ active = <<>> /\ pending = <<>> /\ calls = <<>> /\ refused = {} /\ results = <<>>
  /\ data \in [Calls -> [kind : Kinds, arguments : {"empty"}, snapshot : {FALSE},
                         stalled : {FALSE}]]
  /\ stop = "stop" /\ interrupted = FALSE
  /\ tries = [attempt |-> 0, empty |-> 0, length |-> 0, injections |-> 0]
  /\ spent = [chunks |-> 0, injections |-> 0, calls |-> {}]
  /\ checkpoint = <<>> /\ turnEnds = <<>>
  /\ executed = {} /\ approved = {}

(* The user presses ESC. *)
Cancel ==
  /\ ~cancel /\ pc \notin {"done", "raised"}
  /\ cancel' = TRUE
  /\ UNCHANGED <<pc, stream, buffers, data, interrupted, tries, spent, checkpoint,
                 turnEnds, history>>

EndWithoutMessage(reason) ==
  turnEnds' = Append(turnEnds, [message |-> FALSE, calls |-> <<>>, results |-> <<>>,
                                stop |-> reason])

----------------------------------------------------------------------------
(* Phase 1: open the stream *)

Start ==
  /\ pc = "start"
  /\ IF cancel
     THEN pc' = "done" /\ EndWithoutMessage("interrupted")
     ELSE pc' = "open" /\ UNCHANGED turnEnds
  /\ UNCHANGED <<cancel, stream, buffers, data, interrupted, tries, spent,
                 checkpoint, history>>

(* _open_stream returned without a stream: the turn is over, unless a      *)
(* stream of an earlier request is still in _stream.                       *)
NotOpened(reason) ==
  /\ EndWithoutMessage(reason)
  /\ pc' = IF stream = "none" THEN "done" ELSE "consume"

OpenCancelled ==
  /\ cancel
  /\ pc \in {"open", "sleeping"}
  /\ NotOpened("interrupted")
  /\ UNCHANGED <<cancel, stream, buffers, data, interrupted, tries, spent,
                 checkpoint, history>>

Request ==
  /\ pc = "open" /\ ~cancel
  /\ pc' = "requesting"
  /\ UNCHANGED <<cancel, stream, buffers, data, interrupted, tries, spent,
                 checkpoint, turnEnds, history>>

RequestOk ==
  /\ pc = "requesting"
  /\ pc' = "consume" /\ stream' = "live"
  /\ UNCHANGED <<cancel, buffers, data, interrupted, tries, spent, checkpoint,
                 turnEnds, history>>

RequestRetried ==
  /\ pc = "requesting" /\ tries.attempt < RetryDelays
  /\ pc' = "sleeping"
  /\ tries' = [tries EXCEPT !.attempt = @ + 1]
  /\ UNCHANGED <<cancel, stream, buffers, data, interrupted, spent, checkpoint,
                 turnEnds, history>>

(* The error is not retryable, or no delay is left. *)
RequestFailed ==
  /\ pc = "requesting"
  /\ NotOpened("error")
  /\ UNCHANGED <<cancel, stream, buffers, data, interrupted, tries, spent,
                 checkpoint, history>>

SleepOver ==
  /\ pc = "sleeping" /\ ~cancel
  /\ pc' = "open"
  /\ UNCHANGED <<cancel, stream, buffers, data, interrupted, tries, spent,
                 checkpoint, turnEnds, history>>

----------------------------------------------------------------------------
(* Phase 2: drain the stream.  A chunk that arrives together with a cancel *)
(* is as if it came just before it.                                        *)

(* Mutant: the entries with their stream index are queued as calls. *)
ActiveEntries == active
ActiveCalls == [n \in DOMAIN active |-> active[n].call]

(* _finalize_current_state: the block being collected joins the content    *)
(* and its calls the pending ones.  Text beside a call written as markup   *)
(* is not tracked: a turn with a call never asks whether it has text.      *)
FlushedProse == prose \/ (current \in {"think", "text"} /\ textCall = NoCall)
FlushedPending ==
  pending \o (CASE current = "tool" -> ActiveCalls
                [] current = "text" /\ textCall # NoCall -> <<textCall>>
                [] OTHER -> <<>>)
Flush ==
  /\ prose' = FlushedProse /\ pending' = FlushedPending
  /\ active' = (IF current = "tool" THEN <<>> ELSE active)
  /\ current' = "none" /\ textCall' = NoCall

CanSend == pc = "consume" /\ ~cancel /\ stream = "live" /\ spent.chunks < MaxChunks
FreshCalls == Calls \ spent.calls

(* _on_think_part and _on_text_part: a block of another kind is finalised  *)
(* first.  Blank chunks that open no block change nothing and are left out.*)
ProseChunk(kind, call) ==
  /\ CanSend
  /\ call # NoCall => kind = "text" /\ call \in FreshCalls /\ textCall = NoCall
  /\ IF current = kind
     THEN /\ textCall' = IF call = NoCall THEN textCall ELSE call
          /\ UNCHANGED <<prose, pending, active>>
     ELSE /\ prose' = FlushedProse /\ pending' = FlushedPending
          /\ active' = (IF current = "tool" THEN <<>> ELSE active)
          /\ textCall' = call
  /\ current' = kind
  /\ data' = IF call = NoCall THEN data ELSE [data EXCEPT ![call].arguments = "whole"]
  /\ spent' = [spent EXCEPT !.chunks = @ + 1,
                            !.calls = IF call = NoCall THEN @ ELSE @ \cup {call}]
  /\ UNCHANGED <<pc, cancel, stream, calls, refused, results, stop, interrupted, tries,
                 checkpoint, turnEnds, history>>

(* _on_tool_call_start: the call takes the place of an active one with the *)
(* same index.                                                             *)
WithStarted(i, c) ==
  LET entry == [index |-> i, call |-> c]
  IN IF \E n \in DOMAIN active : active[n].index = i
     THEN [n \in DOMAIN active |-> IF active[n].index = i THEN entry ELSE active[n]]
     ELSE Append(active, entry)

CallStart(i, c, snapshot) ==
  /\ CanSend
  /\ c \in FreshCalls
  /\ IF current = "tool" THEN UNCHANGED <<prose, pending>>
     ELSE prose' = FlushedProse /\ pending' = FlushedPending
  /\ active' = WithStarted(i, c)
  /\ current' = "tool" /\ textCall' = NoCall
  /\ data' = [data EXCEPT ![c].snapshot = snapshot,
                          ![c].arguments = IF snapshot THEN "snapshot" ELSE "empty"]
  /\ spent' = [spent EXCEPT !.chunks = @ + 1, !.calls = @ \cup {c}]
  /\ UNCHANGED <<pc, cancel, stream, calls, refused, results, stop, interrupted, tries,
                 checkpoint, turnEnds, history>>

(* What a piece of arguments can make of those collected so far: whatever  *)
(* follows a complete JSON text spoils it.                                 *)
Extended(arguments, replace) ==
  IF replace \/ arguments \in {"empty", "cut"} THEN {"cut", "whole", "scalar"} ELSE {"cut"}

(* _on_tool_call_delta: a delta for an index that is not active is dropped *)
CallDelta(n, replace) ==
  /\ CanSend
  /\ n \in DOMAIN active
  /\ \E arguments \in Extended(data[active[n].call].arguments, replace) :
       data' = [data EXCEPT ![active[n].call].arguments = arguments]
  /\ spent' = [spent EXCEPT !.chunks = @ + 1]
  /\ UNCHANGED <<pc, cancel, stream, buffers, interrupted, tries, checkpoint, turnEnds,
                 history>>

StreamDone(reason) ==
  /\ pc = "consume" /\ ~cancel /\ stream = "live"
  /\ stream' = "closing" /\ stop' = reason
  /\ Flush
  /\ UNCHANGED <<pc, cancel, calls, data, refused, results, interrupted, tries, spent,
                 checkpoint, turnEnds, history>>

StreamError ==
  /\ pc = "consume" /\ ~cancel /\ stream = "live"
  /\ stream' = "closing" /\ stop' = "error"
  /\ UNCHANGED <<pc, cancel, current, textCall, prose, active, pending, calls, data,
                 refused, results, interrupted, tries, spent, checkpoint, turnEnds,
                 history>>

(* Mutant: the provider's own stop reason is kept. *)
AsReported(reason, toolCalls) == reason

(* _promote_tool_use_stop_reason *)
Promoted(reason, toolCalls) ==
  IF toolCalls # <<>> /\ reason = "stop" THEN "tool_use" ELSE reason

(* The iterator is at its end, at once if it was consumed before. *)
Exhausted ==
  /\ pc = "consume" /\ ~cancel
  /\ pc' = "prepare" /\ stream' = "over"
  /\ Flush
  /\ stop' = Promoted(stop, pending')
  /\ UNCHANGED <<cancel, calls, data, refused, results, interrupted, tries, spent,
                 checkpoint, turnEnds, history>>

(* No chunk for tool_call_idle_timeout_seconds while calls are collected.  *)
Stall ==
  /\ pc = "consume" /\ ~cancel /\ stream \in {"live", "closing"}
  /\ current = "tool" \/ pending # <<>>
  /\ pc' = "prepare" /\ stream' = "over"
  /\ data' = [c \in Calls |-> IF \E n \in DOMAIN active : active[n].call = c
                              THEN [data[c] EXCEPT !.stalled = TRUE] ELSE data[c]]
  /\ Flush
  /\ stop' = Promoted(stop, pending')
  /\ UNCHANGED <<cancel, calls, refused, results, interrupted, tries, spent, checkpoint,
                 turnEnds, history>>

(* The cancel event wins over a chunk; the stream is not read again. *)
ConsumeCancelled ==
  /\ pc = "consume" /\ cancel
  /\ pc' = "prepare" /\ stream' = "over"
  /\ interrupted' = TRUE /\ stop' = "interrupted"
  /\ Flush
  /\ UNCHANGED <<cancel, calls, data, refused, results, tries, spent, checkpoint,
                 turnEnds, history>>

StreamRaises ==
  /\ pc = "consume" /\ stream \in {"live", "closing"} /\ ~cancel
  /\ pc' = "raised"
  /\ UNCHANGED <<cancel, stream, buffers, data, interrupted, tries, spent, checkpoint,
                 turnEnds, history>>

----------------------------------------------------------------------------
(* Phase 3: answer the collected calls, one after the other *)

PendingSet == {pending[n] : n \in DOMAIN pending}

(* _finalize_tool_call_data: arguments that do not parse are refused,      *)
(* unless the call's own start carried a snapshot and no stall cut them.   *)
MustRefuse(c) ==
  data[c].arguments = "cut" /\ (data[c].stalled \/ ~data[c].snapshot)

(* The tool's own validation may refuse the arguments of any other call.   *)
Prepare ==
  /\ pc = "prepare"
  /\ \A c \in PendingSet : data[c].arguments # "scalar"
  /\ LET must == {c \in PendingSet : MustRefuse(c)}
         may == {c \in PendingSet : data[c].kind # "unknown"}
     IN \E invalid \in SUBSET may : refused' = must \cup invalid
  /\ calls' = pending
  /\ pc' = "tools"
  /\ UNCHANGED <<cancel, stream, current, textCall, prose, active, pending, data,
                 results, stop, interrupted, tries, spent, checkpoint, turnEnds, history>>

(* JSON that is no object makes no ToolCall: the exception leaves run(). *)
PrepareRaises ==
  /\ pc = "prepare"
  /\ \E c \in PendingSet : data[c].arguments = "scalar"
  /\ pc' = "raised"
  /\ UNCHANGED <<cancel, stream, buffers, data, interrupted, tries, spent, checkpoint,
                 turnEnds, history>>

(* Mutant: after a cancel the remaining calls get no placeholder result. *)
HasNextUncancelled == ~cancel /\ Len(results) < Len(pending)
HasNext == Len(results) < Len(pending)
NextCall == pending[Len(results) + 1]
Kind == data[NextCall].kind

Answer(outcome) ==
  /\ results' = Append(results, [call |-> NextCall, outcome |-> outcome])
  /\ pc' = "tools"
  /\ UNCHANGED <<cancel, stream, current, textCall, prose, active, pending, calls, data,
                 refused, stop, interrupted, tries, spent, checkpoint, turnEnds, history>>

GoTo(state) ==
  /\ pc' = state
  /\ UNCHANGED <<cancel, stream, buffers, data, interrupted, tries, spent, checkpoint,
                 turnEnds>>

SkipCancelled == pc = "tools" /\ HasNext /\ cancel /\ Answer("interrupted")

SkipRefused ==
  pc = "tools" /\ HasNext /\ ~cancel /\ NextCall \in refused /\ Answer("refused")

Takes(kinds) ==
  pc = "tools" /\ HasNext /\ ~cancel /\ NextCall \notin refused /\ Kind \in kinds

AskUser == Takes({"ask"}) /\ GoTo("asking") /\ UNCHANGED history
UserReplies ==
  pc = "asking" /\ ~cancel /\ \E outcome \in {"answered", "unanswered"} : Answer(outcome)
(* Mutant: the question outlives the cancel. *)
AskWaitsForReply == pc = "asking" /\ ~cancel /\ Answer("unanswered")
AskCancelled == pc = "asking" /\ cancel /\ Answer("unanswered")

(* _needs_approval *)
NeedsApproval == Kind = "guarded"

RequestApproval ==
  /\ Takes({"plain", "guarded", "unknown"}) /\ NeedsApproval
  /\ GoTo("approving") /\ UNCHANGED history

Approve ==
  /\ pc = "approving" /\ ~cancel
  /\ approved' = approved \cup {NextCall}
  /\ GoTo("starting") /\ UNCHANGED executed

Deny == pc = "approving" /\ ~cancel /\ Answer("denied")

(* Mutant: a prompt closed by the cancel counts as approved. *)
ApprovalCancelledRuns ==
  pc = "approving" /\ cancel /\ GoTo("starting") /\ UNCHANGED history

(* _await_approval: a cancel that arrives with the approval wins over it. *)
ApprovalCancelled == pc = "approving" /\ cancel /\ Answer("denied")

Proceed ==
  /\ Takes({"plain", "guarded", "unknown"}) /\ ~NeedsApproval
  /\ GoTo("starting") /\ UNCHANGED history

(* An extension vetoes the call, or rewrites its arguments into ones the   *)
(* tool refuses.                                                           *)
Blocked ==
  pc = "starting" /\ \E outcome \in {"blocked", "refused"} : Answer(outcome)

UnknownTool == pc = "starting" /\ Kind = "unknown" /\ Answer("unknown")

StartTool ==
  /\ pc = "starting" /\ Kind # "unknown"
  /\ executed' = executed \cup {NextCall}
  /\ GoTo("executing") /\ UNCHANGED approved

(* _execute_tool turns whatever the tool raises into an error result. *)
ToolReturns == pc = "executing" /\ Answer("ran")

(* Every call has its result: checkpoint, then look for a follow-up. *)
Checkpoint ==
  /\ pc = "tools" /\ ~HasNext
  /\ checkpoint' = results
  /\ pc' = "settle"
  /\ UNCHANGED <<cancel, stream, buffers, data, interrupted, tries, spent, turnEnds,
                 history>>

----------------------------------------------------------------------------
(* The recovery loop around the three phases *)

(* Mutant: the results of the attempt are kept. *)
ResetKeepsResults ==
  /\ current' = "none" /\ textCall' = NoCall /\ prose' = FALSE
  /\ active' = <<>> /\ pending' = <<>> /\ calls' = <<>> /\ refused' = {}
  /\ stop' = "stop" /\ pc' = "open" /\ UNCHANGED results

(* _reset_buffers, on the way to the next request *)
ResetBuffers ==
  /\ current' = "none" /\ textCall' = NoCall /\ prose' = FALSE
  /\ active' = <<>> /\ pending' = <<>> /\ calls' = <<>> /\ refused' = {} /\ results' = <<>>
  /\ stop' = "stop"
  /\ pc' = "open"

(* The next request starts with a fresh count of its own retries. *)
Recovery(counted) ==
  /\ tries' = [counted EXCEPT !.attempt = 0]
  /\ ResetBuffers
  /\ UNCHANGED <<cancel, stream, data, interrupted, checkpoint, turnEnds, history>>

(* A follow-up is waiting: it joins the messages of the next request. *)
InjectFollowUp ==
  /\ pc = "settle" /\ spent.injections < MaxInjections
  /\ tries.injections < MaxInjectionCycles
  /\ spent' = [spent EXCEPT !.injections = @ + 1]
  /\ Recovery([tries EXCEPT !.injections = @ + 1])

(* The cap is reached: the turn ends and the follow-up is dropped. *)
DropFollowUp ==
  /\ pc = "settle" /\ spent.injections < MaxInjections
  /\ tries.injections >= MaxInjectionCycles
  /\ spent' = [spent EXCEPT !.injections = @ + 1]
  /\ tries' = [tries EXCEPT !.injections = @ + 1]
  /\ pc' = "final"
  /\ UNCHANGED <<cancel, stream, buffers, data, interrupted, checkpoint, turnEnds,
                 history>>

(* Mutant: calls without prose beside them count as an empty answer. *)
HasToolsAndProse == pending # <<>> /\ prose
HasTools == results # <<>> \/ pending # <<>>
CanRecoverLength == stop = "length" /\ tries.length < MaxLengthRecoveries
CanRecoverEmpty == ~prose /\ tries.empty < MaxEmptyRetries

ToolsProduced ==
  /\ pc = "settle" /\ HasTools
  /\ stop' = Promoted(stop, pending)
  /\ pc' = "final"
  /\ UNCHANGED <<cancel, stream, current, textCall, prose, active, pending, calls, data,
                 refused, results, interrupted, tries, spent, checkpoint, turnEnds, history>>

RecoverLength ==
  /\ pc = "settle" /\ ~HasTools /\ CanRecoverLength
  /\ UNCHANGED spent
  /\ Recovery([tries EXCEPT !.length = @ + 1])

RecoverEmpty ==
  /\ pc = "settle" /\ ~HasTools /\ ~CanRecoverLength /\ CanRecoverEmpty
  /\ UNCHANGED spent
  /\ Recovery([tries EXCEPT !.empty = @ + 1])

Accept ==
  /\ pc = "settle" /\ ~HasTools /\ ~CanRecoverLength /\ ~CanRecoverEmpty
  /\ GoTo("final") /\ UNCHANGED history

EndTurn ==
  /\ pc = "final"
  /\ turnEnds' = Append(turnEnds, [message |-> TRUE, calls |-> calls,
                                   results |-> results, stop |-> stop])
  /\ pc' = "done"
  /\ UNCHANGED <<cancel, stream, buffers, data, interrupted, tries, spent, checkpoint,
                 history>>

----------------------------------------------------------------------------
Opening == Start \/ OpenCancelled \/ Request \/ SleepOver
Answering == RequestOk \/ RequestRetried \/ RequestFailed
Sending ==
  \/ \E kind \in {"think", "text"}, call \in Calls \cup {NoCall} : ProseChunk(kind, call)
  \/ \E i \in Indexes, c \in Calls, snapshot \in BOOLEAN : CallStart(i, c, snapshot)
  \/ \E n \in DOMAIN active, replace \in BOOLEAN : CallDelta(n, replace)
  \/ \E reason \in {"stop", "length", "tool_use", "error"} : StreamDone(reason)
  \/ StreamError \/ Exhausted \/ Stall \/ StreamRaises
Deciding == AskUser \/ RequestApproval \/ Proceed \/ SkipCancelled \/ SkipRefused
Replying == UserReplies \/ Approve \/ Deny
Running == Blocked \/ UnknownTool \/ StartTool \/ ToolReturns
Cancelled == ConsumeCancelled \/ AskCancelled \/ ApprovalCancelled
Settling == Checkpoint \/ InjectFollowUp \/ DropFollowUp \/ ToolsProduced
              \/ RecoverLength \/ RecoverEmpty \/ Accept \/ EndTurn
Preparing == Prepare \/ PrepareRaises

Next == Cancel \/ Opening \/ Answering \/ Sending \/ Preparing \/ Deciding \/ Replying
          \/ Running \/ Cancelled \/ Settling

Spec == Init /\ [][Next]_vars

(* The event loop resumes a coroutine that can go on, the provider accepts *)
(* or refuses a request, and a tool that was started returns.  Nothing is  *)
(* assumed of the stream, the user or the follow-ups.                      *)
FairSpec ==
  Spec /\ WF_vars(Opening \/ Answering \/ Preparing \/ Deciding \/ Running \/ Cancelled
                    \/ Settling)

----------------------------------------------------------------------------
(* Properties *)

Answered == [n \in DOMAIN results |-> results[n].call]
ResultCalls(end) == [n \in DOMAIN end.results |-> end.results[n].call]

(* Every tool call of a reported message has exactly one result, in the    *)
(* order of the calls, and the results gathered so far answer a prefix of  *)
(* the calls: a provider rejects a conversation with an unanswered call,   *)
(* or an answer to no call.                                                *)
AnsweredInOrder ==
  /\ \A n \in DOMAIN turnEnds : ResultCalls(turnEnds[n]) = turnEnds[n].calls
  /\ pc \in {"tools", "asking", "approving", "starting", "executing"} =>
       IsPrefix(Answered, calls)

(* A call whose tool prompts runs only after the user approved that call,  *)
(* and a call that was finalised as broken never runs, whatever was        *)
(* cancelled, stalled or requested again in between.                       *)
NothingRunsUnapproved ==
  \A c \in executed :
    /\ data[c].kind = "guarded" => c \in approved
    /\ data[c].kind \in {"plain", "guarded"}
    /\ ~MustRefuse(c)

(* The stop reason that ends up in the session is the true one.  A message *)
(* with calls is never reported as a plain stop, or the loop would end     *)
(* there and the model would never see the results; and a message is       *)
(* reported as interrupted exactly when the InterruptedEvent was, although *)
(* _stop_reason is reset between attempts and _interrupted is not.         *)
StopReasonIsTrue ==
  /\ \A n \in DOMAIN turnEnds : turnEnds[n].calls # <<>> => turnEnds[n].stop # "stop"
  /\ pc = "final" => (interrupted <=> stop = "interrupted")

(* What a tool did is reported: when the turn has ended, each call that    *)
(* was run has a result of that run in the last TurnEndEvent, unless a     *)
(* follow-up made the turn start over after tools ran (turn.py:584-591).   *)
ExecutedIsReported ==
  pc = "done" /\ spent.injections = 0 =>
    \A c \in executed :
      \E n \in DOMAIN Last(turnEnds).results :
        Last(turnEnds).results[n] = [call |-> c, outcome |-> "ran"]

(* A turn that is cancelled ends, whatever the provider or the user fail   *)
(* to do after that.                                                       *)
CancelEndsTurn == cancel ~> pc \in {"done", "raised"}

(* The turn keeps the contract of TurnContract. *)
Contract == INSTANCE TurnContract WITH
  ends <- [n \in DOMAIN turnEnds |->
             [message |-> turnEnds[n].message, calls |-> turnEnds[n].calls,
              answers |-> ResultCalls(turnEnds[n]), stop |-> turnEnds[n].stop]],
  status <- CASE pc = "done" -> "finished" [] pc = "raised" -> "raised"
              [] OTHER -> "running"
KeepsContract == Contract!Spec
============================================================================
