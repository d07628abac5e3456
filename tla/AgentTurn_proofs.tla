-------------------------- MODULE AgentTurn_proofs --------------------------
(***************************************************************************)
(* Theorems about one turn of the agent, for every set of calls and stream *)
(* indexes, every mix of tools and every bound.                            *)
(***************************************************************************)
EXTENDS AgentTurn, TLAPS, FiniteSetTheorems, SequenceTheorems

----------------------------------------------------------------------------
(* The inductive invariant *)

(* The states in which the calls of an attempt are being answered. *)
ToolStates == {"tools", "asking", "approving", "starting", "executing"}
Collecting == {"start", "open", "requesting", "sleeping", "consume", "prepare"}

(* Every call the stream delivered is known as spent, and what is still    *)
(* being streamed has not been run.                                        *)
Collected ==
  /\ pc \notin {"consume", "raised"} => current = "none"
  /\ current # "tool" => active = <<>>
  /\ executed \subseteq spent.calls
  /\ \A n \in DOMAIN active : active[n].call \in spent.calls \ executed
  /\ pending \in Seq(spent.calls)
  /\ textCall # NoCall => textCall \in spent.calls

(* A call is being handled. *)
Waiting == pc \in ToolStates \ {"tools"} => Len(results) < Len(pending)

(* The answers belong to the calls in front of the queue, in its order. *)
Matched ==
  /\ pc \in Collecting => results = <<>>
  /\ pc \in ToolStates \cup {"settle", "final"} =>
       /\ calls = pending
       /\ Len(results) <= Len(pending)
       /\ \A n \in DOMAIN results : results[n].call = pending[n]
  /\ pc \in {"settle", "final"} => Len(results) = Len(pending)

(* What has been asked about the call that is next. *)
Asked ==
  /\ pc \in ToolStates =>
       \A n \in DOMAIN pending : MustRefuse(pending[n]) => pending[n] \in refused
  /\ pc \in {"approving", "starting"} => NextCall \notin refused
  /\ pc = "approving" => Kind = "guarded"
  /\ pc = "starting" => (Kind \in {"plain", "unknown"}
                           \/ (Kind = "guarded" /\ NextCall \in approved))

(* An attempt with calls asks to be continued. *)
Honest ==
  pc \in ToolStates \cup {"prepare", "settle", "final"} =>
    (pending # <<>> => stop # "stop")

(* Only a cancel interrupts, and a retry after it cannot be requested. *)
Agreeing ==
  /\ interrupted => cancel /\ pc \notin {"start", "requesting", "sleeping"}
  /\ stop = "interrupted" => interrupted
  /\ interrupted /\ pc \notin {"open", "consume", "done"} => stop = "interrupted"

(* While no follow-up restarts the turn, what ran is among the results. *)
Ran(c) == [call |-> c, outcome |-> "ran"]
Tracked ==
  spent.injections = 0 =>
    /\ pc \in Collecting => executed = {}
    /\ pc \in ToolStates \cup {"settle", "final"} =>
         \A c \in executed : \/ \E n \in DOMAIN results : results[n] = Ran(c)
                             \/ pc = "executing" /\ c = NextCall

(* Every TurnEndEvent reported so far is complete and honest. *)
Complete(end) ==
  /\ ResultCalls(end) = end.calls
  /\ end.calls # <<>> => end.stop # "stop"
Reported == \A n \in DOMAIN turnEnds : Complete(turnEnds[n])

IInv ==
  /\ TypeOK /\ Waiting /\ Collected /\ Matched /\ Asked /\ Honest /\ Agreeing /\ Tracked
  /\ Reported /\ NothingRunsUnapproved /\ ExecutedIsReported

----------------------------------------------------------------------------
(* Types *)

(* Mapping a field over a sequence gives a sequence. *)
LEMMA MapFacts ==
  ASSUME NEW S, NEW T, NEW s \in Seq(S), NEW f, f = [n \in DOMAIN s |-> f[n]],
         \A n \in DOMAIN s : f[n] \in T
  PROVE  f \in Seq(T) /\ Len(f) = Len(s) /\ DOMAIN f = 1..Len(s)
<1>1. f \in [1..Len(s) -> T] /\ Len(s) \in Nat
  OBVIOUS
<1>2. f \in Seq(T)
  BY <1>1, SeqDef
<1> QED
  BY <1>1, <1>2, LenProperties

(* An entry of the calls being streamed. *)
LEMMA ActiveType ==
  ASSUME TypeOK, NEW n \in DOMAIN active
  PROVE  /\ active[n] \in [index : Indexes, call : Calls]
         /\ active[n].index \in Indexes /\ active[n].call \in Calls
<1>1. active[n] \in [index : Indexes, call : Calls]
  <2> DEFINE Entries == [index : Indexes, call : Calls]
  <2>1. active \in Seq(Entries)
    BY DEF TypeOK
  <2> HIDE DEF Entries
  <2>2. active[n] \in Entries
    BY <2>1
  <2> QED
    BY <2>2 DEF Entries
<1> QED
  BY <1>1

(* What _finalize_current_state queues are calls. *)
LEMMA FlushedType ==
  ASSUME TypeOK
  PROVE  FlushedPending \in Seq(Calls) /\ FlushedProse \in BOOLEAN
<1>1. ActiveCalls \in Seq(Calls)
  <2>1. \A n \in DOMAIN active : active[n].call \in Calls
    BY ActiveType
  <2>2. active \in Seq([index : Indexes, call : Calls])
    BY DEF TypeOK
  <2> QED
    BY <2>1, <2>2, MapFacts DEF ActiveCalls
<1>2. textCall # NoCall => <<textCall>> \in Seq(Calls)
  BY DEF TypeOK
<1>3. pending \in Seq(Calls) /\ prose \in BOOLEAN
  BY DEF TypeOK
<1> QED
  BY <1>1, <1>2, <1>3 DEF FlushedPending, FlushedProse

(* Promotion stays within the stop reasons. *)
LEMMA PromotedType ==
  ASSUME NEW reason \in StopReasons, NEW toolCalls
  PROVE  Promoted(reason, toolCalls) \in StopReasons
BY DEF Promoted, StopReasons

(* Starting a call keeps the entries well-formed. *)
LEMMA StartedType ==
  ASSUME TypeOK, NEW i \in Indexes, NEW c \in Calls
  PROVE  WithStarted(i, c) \in Seq([index : Indexes, call : Calls])
<1> DEFINE entry == [index |-> i, call |-> c]
           replaced == [n \in DOMAIN active |->
                          IF active[n].index = i THEN entry ELSE active[n]]
           Entries == [index : Indexes, call : Calls]
<1>1. entry \in Entries /\ active \in Seq(Entries)
  BY DEF TypeOK
<1>2. \A n \in DOMAIN active : replaced[n] \in Entries
  BY <1>1, ActiveType
<1>3. replaced \in Seq(Entries)
  <2> HIDE DEF entry, Entries
  <2> QED
    BY <1>1, <1>2, MapFacts
<1>4. Append(active, entry) \in Seq(Entries)
  BY <1>1
<1> QED
  BY <1>3, <1>4 DEF WithStarted

(* While an answer is missing there is a next call. *)
LEMMA NextCallType ==
  ASSUME TypeOK, HasNext
  PROVE  NextCall \in Calls /\ Len(results) + 1 \in DOMAIN pending
BY DEF TypeOK, HasNext, NextCall

(* An end without a message is a TurnEndEvent. *)
LEMMA EndType ==
  ASSUME TypeOK, NEW reason \in StopReasons, EndWithoutMessage(reason)
  PROVE  turnEnds' \in Seq(TurnEnd)
<1> DEFINE end == [message |-> FALSE, calls |-> <<>>, results |-> <<>>, stop |-> reason]
<1>1. end \in TurnEnd
  BY DEF TurnEnd
<1>2. turnEnds \in Seq(TurnEnd) /\ turnEnds' = Append(turnEnds, end)
  BY DEF TypeOK, EndWithoutMessage
<1> HIDE DEF end
<1> QED
  BY <1>1, <1>2

(* So is the end with the message. *)
LEMMA MessageEndType ==
  ASSUME TypeOK, EndTurn
  PROVE  turnEnds' \in Seq(TurnEnd)
<1> DEFINE end == [message |-> TRUE, calls |-> calls, results |-> results, stop |-> stop]
<1>1. end \in TurnEnd
  BY DEF TypeOK, TurnEnd
<1>2. turnEnds \in Seq(TurnEnd) /\ turnEnds' = Append(turnEnds, end)
  BY DEF TypeOK, EndTurn
<1> HIDE DEF end
<1> QED
  BY <1>1, <1>2

(* An answer is a result. *)
LEMMA AnswerType ==
  ASSUME TypeOK, HasNext, NEW outcome \in Outcomes, Answer(outcome)
  PROVE  results' \in Seq(Result)
<1> DEFINE result == [call |-> NextCall, outcome |-> outcome]
<1>1. result \in Result
  BY NextCallType DEF Result
<1>2. results \in Seq(Result) /\ results' = Append(results, result)
  BY DEF TypeOK, Answer
<1> HIDE DEF result
<1> QED
  BY <1>1, <1>2

(* The fields of what the stream delivered for a call. *)
LEMMA DataType ==
  ASSUME TypeOK, NEW c \in Calls
  PROVE  /\ data[c] \in CallData /\ data[c].kind \in KindSet
         /\ data[c].arguments \in Arguments
         /\ data[c].snapshot \in BOOLEAN /\ data[c].stalled \in BOOLEAN
BY DEF TypeOK, CallData

(* The fields that are records. *)
LEMMA RecordTypes ==
  ASSUME TypeOK
  PROVE  /\ data \in [Calls -> CallData]
         /\ spent \in [chunks : Nat, injections : Nat, calls : SUBSET Calls]
         /\ tries \in [attempt : Nat, empty : Nat, length : Nat, injections : Nat]
BY DEF TypeOK

(* Spending a chunk and some calls keeps the bounds' record. *)
LEMMA SpentType ==
  ASSUME TypeOK, NEW new \in SUBSET Calls,
         spent' = [spent EXCEPT !.chunks = @ + 1, !.calls = @ \cup new]
  PROVE  spent' \in [chunks : Nat, injections : Nat, calls : SUBSET Calls]
<1> DEFINE Lists == SUBSET Calls
           grown == spent.calls \cup new
<1>1. spent \in [chunks : Nat, injections : Nat, calls : Lists]
  BY RecordTypes
<1>2. grown \in Lists
  BY <1>1
<1>3. spent' = [spent EXCEPT !.chunks = @ + 1, !.calls = grown]
  BY <1>1
<1> HIDE DEF Lists, grown
<1>4. spent' = [chunks |-> spent.chunks + 1, injections |-> spent.injections,
                 calls |-> grown]
  BY <1>1, <1>3
<1>5. spent' \in [chunks : Nat, injections : Nat, calls : Lists]
  BY <1>1, <1>2, <1>4
<1> QED
  BY <1>5 DEF Lists

(* Every step keeps the types. *)
LEMMA TypeStep ==
  ASSUME TypeOK, Waiting, [Next]_vars
  PROVE  TypeOK'
<1>1. CASE UNCHANGED vars
  BY <1>1 DEF TypeOK, vars, buffers, history
<1>2. CASE Cancel
  BY <1>2 DEF Cancel, TypeOK, buffers, history
<1>3. CASE Opening
  <2>1. \A reason \in StopReasons : EndWithoutMessage(reason) => turnEnds' \in Seq(TurnEnd)
    BY EndType
  <2>2. "interrupted" \in StopReasons
    BY DEF StopReasons
  <2>3. CASE Start
    BY <2>1, <2>2, <2>3 DEF Start, TypeOK, States, buffers, history
  <2>4. CASE OpenCancelled
    BY <2>1, <2>2, <2>4 DEF OpenCancelled, NotOpened, TypeOK, States, buffers, history
  <2>5. CASE Request \/ SleepOver
    BY <2>5 DEF Request, SleepOver, TypeOK, States, buffers, history
  <2> QED
    BY <1>3, <2>3, <2>4, <2>5 DEF Opening
<1>4. CASE Answering
  <2>1. CASE RequestOk
    BY <2>1 DEF RequestOk, TypeOK, States, buffers, history
  <2>2. CASE RequestRetried
    <3>1. tries' \in [attempt : Nat, empty : Nat, length : Nat, injections : Nat]
      BY <2>2, RecordTypes DEF RequestRetried
    <3> QED
      BY <2>2, <3>1 DEF RequestRetried, TypeOK, States, buffers, history
  <2>3. CASE RequestFailed
    <3>1. turnEnds' \in Seq(TurnEnd)
      BY <2>3, EndType DEF RequestFailed, NotOpened, StopReasons
    <3> QED
      BY <2>3, <3>1 DEF RequestFailed, NotOpened, TypeOK, States, buffers, history
  <2> QED
    BY <1>4, <2>1, <2>2, <2>3 DEF Answering
<1>5. CASE Sending
  <2>1. ASSUME NEW kind \in {"think", "text"}, NEW call \in Calls \cup {NoCall},
               ProseChunk(kind, call)
        PROVE  TypeOK'
    <3>1. data' \in [Calls -> CallData]
      BY <2>1, RecordTypes DEF ProseChunk, CallData, Arguments
    <3>2. spent' \in [chunks : Nat, injections : Nat, calls : SUBSET Calls]
      <4>1. CASE call = NoCall
        <5>1. spent' = [spent EXCEPT !.chunks = @ + 1, !.calls = @ \cup {}]
          BY <2>1, <4>1, RecordTypes DEF ProseChunk
        <5> QED
          BY <5>1, SpentType, {} \in SUBSET Calls
      <4>2. CASE call # NoCall
        <5>1. {call} \in SUBSET Calls
          BY <4>2
        <5> QED
          BY <2>1, <4>2, <5>1, SpentType DEF ProseChunk
      <4> QED
        BY <4>1, <4>2
    <3>3. /\ active \in Seq([index : Indexes, call : Calls]) /\ prose \in BOOLEAN
          /\ pending \in Seq(Calls) /\ <<>> \in Seq([index : Indexes, call : Calls])
      BY DEF TypeOK
    <3>4. active' \in Seq([index : Indexes, call : Calls]) /\ pending' \in Seq(Calls)
          /\ prose' \in BOOLEAN
      BY <2>1, <3>3, FlushedType DEF ProseChunk
    <3> QED
      BY <2>1, <3>1, <3>2, <3>4 DEF ProseChunk, TypeOK, history
  <2>2. ASSUME NEW i \in Indexes, NEW c \in Calls, NEW snapshot \in BOOLEAN,
               CallStart(i, c, snapshot)
        PROVE  TypeOK'
    <3>1. data' \in [Calls -> CallData]
      <4> DEFINE start == IF snapshot THEN "snapshot" ELSE "empty"
      <4>1. start \in Arguments
        BY DEF Arguments
      <4>2. data' = [data EXCEPT ![c].snapshot = snapshot, ![c].arguments = start]
        BY <2>2 DEF CallStart
      <4> HIDE DEF start
      <4>3. c \in Calls /\ data[c] \in CallData /\ snapshot \in BOOLEAN
        BY <2>2, RecordTypes
      <4>4. [data[c] EXCEPT !.snapshot = snapshot, !.arguments = start] \in CallData
        BY <4>1, <4>3 DEF CallData
      <4>5. data' = [data EXCEPT
                       ![c] = [data[c] EXCEPT !.snapshot = snapshot, !.arguments = start]]
        BY <4>2, <4>3, RecordTypes
      <4> QED
        BY <4>3, <4>4, <4>5, RecordTypes
    <3>2. spent' \in [chunks : Nat, injections : Nat, calls : SUBSET Calls]
      <4>1. spent' = [spent EXCEPT !.chunks = @ + 1, !.calls = @ \cup {c}]
        BY <2>2 DEF CallStart
      <4>2. {c} \in SUBSET Calls
        OBVIOUS
      <4> QED
        BY <4>1, <4>2, SpentType
    <3>3. active' \in Seq([index : Indexes, call : Calls]) /\ pending' \in Seq(Calls)
          /\ prose' \in BOOLEAN
      BY <2>2, FlushedType, StartedType DEF CallStart, TypeOK
    <3> QED
      BY <2>2, <3>1, <3>2, <3>3 DEF CallStart, TypeOK, history
  <2>3. ASSUME NEW n \in DOMAIN active, NEW replace \in BOOLEAN, CallDelta(n, replace)
        PROVE  TypeOK'
    <3>1. data' \in [Calls -> CallData]
      <4>1. PICK arguments \in Extended(data[active[n].call].arguments, replace) :
              data' = [data EXCEPT ![active[n].call].arguments = arguments]
        BY <2>3 DEF CallDelta
      <4>2. arguments \in Arguments
        BY <4>1 DEF Extended, Arguments
      <4> QED
        BY <2>3, <4>1, <4>2, ActiveType, RecordTypes DEF CallData
    <3>2. spent' \in [chunks : Nat, injections : Nat, calls : SUBSET Calls]
      BY <2>3, RecordTypes DEF CallDelta
    <3> QED
      BY <2>3, <3>1, <3>2 DEF CallDelta, TypeOK, buffers, history
  <2>4. ASSUME NEW reason \in {"stop", "length", "tool_use", "error"}, StreamDone(reason)
        PROVE  TypeOK'
    BY <2>4, FlushedType DEF StreamDone, Flush, TypeOK, StopReasons, history
  <2>5. CASE StreamError
    BY <2>5 DEF StreamError, TypeOK, StopReasons, history
  <2>6. CASE Exhausted
    <3>1. stop' \in StopReasons
      BY <2>6, PromotedType DEF Exhausted, TypeOK
    <3> QED
      BY <2>6, <3>1, FlushedType DEF Exhausted, Flush, TypeOK, States, history
  <2>7. CASE Stall
    <3>1. stop' \in StopReasons
      BY <2>7, PromotedType DEF Stall, TypeOK
    <3>2. data' \in [Calls -> CallData]
      BY <2>7, DataType DEF Stall, CallData
    <3> QED
      BY <2>7, <3>1, <3>2, FlushedType DEF Stall, Flush, TypeOK, States, history
  <2>8. CASE StreamRaises
    BY <2>8 DEF StreamRaises, TypeOK, States, buffers, history
  <2> QED
    BY <1>5, <2>1, <2>2, <2>3, <2>4, <2>5, <2>6, <2>7, <2>8 DEF Sending
<1>6. CASE Preparing
  <2>1. PendingSet \subseteq Calls
    BY DEF PendingSet, TypeOK
  <2>2. CASE Prepare
    BY <2>1, <2>2 DEF Prepare, TypeOK, States, history
  <2>3. CASE PrepareRaises
    BY <2>3 DEF PrepareRaises, TypeOK, States, buffers, history
  <2> QED
    BY <1>6, <2>2, <2>3 DEF Preparing
<1>7. ASSUME NEW outcome \in Outcomes, Answer(outcome), HasNext
      PROVE  TypeOK'
  <2>1. results' \in Seq(Result)
    BY <1>7, AnswerType
  <2> QED
    BY <1>7, <2>1 DEF Answer, TypeOK, States, history
<1>8. ASSUME NEW state \in States, GoTo(state),
             approved' \subseteq Calls, executed' \subseteq Calls
      PROVE  TypeOK'
  BY <1>8 DEF GoTo, TypeOK, buffers
<1>9. CASE Deciding
  <2>1. CASE SkipCancelled \/ SkipRefused
    BY <1>7, <2>1 DEF SkipCancelled, SkipRefused, Outcomes
  <2>2. CASE AskUser \/ RequestApproval \/ Proceed
    BY <1>8, <2>2 DEF AskUser, RequestApproval, Proceed, States, TypeOK, history
  <2> QED
    BY <1>9, <2>1, <2>2 DEF Deciding
<1>10. pc \in {"asking", "approving", "starting", "executing"} => HasNext
  BY DEF Waiting, ToolStates, HasNext
<1>11. CASE Replying
  <2>1. CASE UserReplies \/ Deny
    BY <1>7, <1>10, <2>1 DEF UserReplies, Deny, Outcomes
  <2>2. CASE Approve
    BY <1>8, <1>10, <2>2, NextCallType DEF Approve, States, TypeOK
  <2> QED
    BY <1>11, <2>1, <2>2 DEF Replying
<1>12. CASE Running
  <2>1. CASE Blocked \/ UnknownTool \/ ToolReturns
    BY <1>7, <1>10, <2>1 DEF Blocked, UnknownTool, ToolReturns, Outcomes
  <2>2. CASE StartTool
    BY <1>8, <1>10, <2>2, NextCallType DEF StartTool, States, TypeOK
  <2> QED
    BY <1>12, <2>1, <2>2 DEF Running
<1>13. CASE Cancelled
  <2>1. CASE ConsumeCancelled
    BY <2>1, FlushedType DEF ConsumeCancelled, Flush, TypeOK, States, StopReasons, history
  <2>2. CASE AskCancelled \/ ApprovalCancelled
    BY <1>7, <1>10, <2>2 DEF AskCancelled, ApprovalCancelled, Outcomes
  <2> QED
    BY <1>13, <2>1, <2>2 DEF Cancelled
<1>14. ASSUME NEW counted \in [attempt : Nat, empty : Nat, length : Nat, injections : Nat],
              Recovery(counted),
              spent' \in [chunks : Nat, injections : Nat, calls : SUBSET Calls]
       PROVE  TypeOK'
  <2>1. tries' \in [attempt : Nat, empty : Nat, length : Nat, injections : Nat]
    BY <1>14 DEF Recovery
  <2>2. <<>> \in Seq([index : Indexes, call : Calls]) /\ <<>> \in Seq(Calls)
        /\ <<>> \in Seq(Result)
    OBVIOUS
  <2> QED
    BY <1>14, <2>1, <2>2 DEF Recovery, ResetBuffers, TypeOK, States, StopReasons, history
<1>15. CASE Settling
  <2>1. CASE Checkpoint
    BY <2>1 DEF Checkpoint, TypeOK, States, buffers, history
  <2>2. [spent EXCEPT !.injections = @ + 1]
          \in [chunks : Nat, injections : Nat, calls : SUBSET Calls]
    BY RecordTypes
  <2>3. CASE InjectFollowUp
    <3>1. [tries EXCEPT !.injections = @ + 1]
            \in [attempt : Nat, empty : Nat, length : Nat, injections : Nat]
      BY RecordTypes
    <3> QED
      BY <1>14, <2>2, <2>3, <3>1 DEF InjectFollowUp
  <2>4. CASE DropFollowUp
    <3>1. tries' \in [attempt : Nat, empty : Nat, length : Nat, injections : Nat]
      BY <2>4, RecordTypes DEF DropFollowUp
    <3> QED
      BY <2>2, <2>4, <3>1 DEF DropFollowUp, TypeOK, States, buffers, history
  <2>5. CASE ToolsProduced
    <3>1. stop' \in StopReasons
      BY <2>5, PromotedType DEF ToolsProduced, TypeOK
    <3> QED
      BY <2>5, <3>1 DEF ToolsProduced, TypeOK, States, history
  <2>6. CASE RecoverLength \/ RecoverEmpty
    <3>1. /\ [tries EXCEPT !.length = @ + 1]
               \in [attempt : Nat, empty : Nat, length : Nat, injections : Nat]
          /\ [tries EXCEPT !.empty = @ + 1]
               \in [attempt : Nat, empty : Nat, length : Nat, injections : Nat]
      BY RecordTypes
    <3>2. spent \in [chunks : Nat, injections : Nat, calls : SUBSET Calls]
      BY RecordTypes
    <3> QED
      BY <1>14, <2>6, <3>1, <3>2 DEF RecoverLength, RecoverEmpty
  <2>7. CASE Accept
    BY <1>8, <2>7 DEF Accept, States, TypeOK, history
  <2>8. CASE EndTurn
    <3>1. turnEnds' \in Seq(TurnEnd)
      BY <2>8, MessageEndType
    <3> QED
      BY <2>8, <3>1 DEF EndTurn, TypeOK, States, buffers, history
  <2> QED
    BY <1>15, <2>1, <2>3, <2>4, <2>5, <2>6, <2>7, <2>8 DEF Settling
<1> QED
  BY <1>1, <1>2, <1>3, <1>4, <1>5, <1>6, <1>9, <1>11, <1>12, <1>13, <1>15 DEF Next

----------------------------------------------------------------------------
(* The parts of the invariant, one by one *)

(* A call is taken up only while one is left, and left by its answer. *)
LEMMA WaitingStep ==
  ASSUME Waiting, [Next]_vars
  PROVE  Waiting'
<1> USE DEF Waiting, ToolStates
<1>1. CASE UNCHANGED vars \/ Cancel
  BY <1>1 DEF vars, Cancel, buffers
<1>2. CASE Opening \/ Answering
  BY <1>2 DEF Opening, Start, OpenCancelled, NotOpened, Request, SleepOver, Answering,
       RequestOk, RequestRetried, RequestFailed
<1>3. CASE Sending
  BY <1>3 DEF Sending, ProseChunk, CallStart, CallDelta, CanSend, StreamDone, StreamError,
       Exhausted, Stall, StreamRaises
<1>4. CASE Preparing
  BY <1>4 DEF Preparing, Prepare, PrepareRaises
<1>5. CASE Deciding
  BY <1>5 DEF Deciding, AskUser, RequestApproval, Proceed, SkipCancelled, SkipRefused,
       Takes, GoTo, Answer, HasNext, buffers
<1>6. CASE Replying
  BY <1>6 DEF Replying, UserReplies, Approve, Deny, GoTo, Answer, buffers
<1>7. CASE Running
  BY <1>7 DEF Running, Blocked, UnknownTool, StartTool, ToolReturns, GoTo, Answer, buffers
<1>8. CASE Cancelled
  BY <1>8 DEF Cancelled, ConsumeCancelled, AskCancelled, ApprovalCancelled, Answer
<1>9. CASE Settling
  BY <1>9 DEF Settling, Checkpoint, InjectFollowUp, DropFollowUp, ToolsProduced,
       RecoverLength, RecoverEmpty, Recovery, ResetBuffers, Accept, GoTo, EndTurn
<1> QED
  BY <1>1, <1>2, <1>3, <1>4, <1>5, <1>6, <1>7, <1>8, <1>9 DEF Next

(* A sequence over a set is one over any larger set. *)
LEMMA SeqGrows ==
  ASSUME NEW A, NEW B, A \subseteq B, NEW s \in Seq(A)
  PROVE  s \in Seq(B)
<1>1. s \in [1..Len(s) -> B] /\ Len(s) \in Nat
  OBVIOUS
<1> QED
  BY <1>1, SeqDef

(* What is queued was delivered by the stream. *)
LEMMA FlushedSpent ==
  ASSUME TypeOK, Collected
  PROVE  FlushedPending \in Seq(spent.calls)
<1>1. ActiveCalls \in Seq(spent.calls)
  <2>1. active \in Seq([index : Indexes, call : Calls])
    BY DEF TypeOK
  <2>2. \A n \in DOMAIN active : active[n].call \in spent.calls
    BY DEF Collected
  <2> QED
    BY <2>1, <2>2, MapFacts DEF ActiveCalls
<1> DEFINE S == spent.calls
<1>2. pending \in Seq(S) /\ (textCall # NoCall => textCall \in S) /\ ActiveCalls \in Seq(S)
  BY <1>1 DEF Collected
<1> HIDE DEF S
<1>3. textCall # NoCall => <<textCall>> \in Seq(S)
  BY <1>2
<1>4. FlushedPending \in Seq(S)
  BY <1>2, <1>3 DEF FlushedPending
<1> QED
  BY <1>4 DEF S

(* A new entry takes the place of one with its index or comes last. *)
LEMMA StartedFacts ==
  ASSUME TypeOK, NEW i \in Indexes, NEW c \in Calls,
         NEW n \in DOMAIN WithStarted(i, c)
  PROVE  \/ WithStarted(i, c)[n].call = c
         \/ n \in DOMAIN active /\ WithStarted(i, c)[n] = active[n]
<1>1. active \in Seq([index : Indexes, call : Calls])
  BY DEF TypeOK
<1>2. CASE \E m \in DOMAIN active : active[m].index = i
  BY <1>2 DEF WithStarted
<1>3. CASE ~\E m \in DOMAIN active : active[m].index = i
  BY <1>1, <1>3 DEF WithStarted
<1> QED
  BY <1>2, <1>3

(* A call that runs was delivered by the stream and is no longer streamed. *)
LEMMA CollectedStep ==
  ASSUME TypeOK, Waiting, Collected, [Next]_vars
  PROVE  Collected'
<1>1. CASE UNCHANGED vars \/ Cancel
  BY <1>1 DEF vars, Cancel, buffers, history, Collected
<1>2. CASE Opening \/ Answering
  BY <1>2 DEF Opening, Start, OpenCancelled, NotOpened, Request, SleepOver, Answering,
       RequestOk, RequestRetried, RequestFailed, buffers, history, Collected
<1>3. CASE Preparing
  BY <1>3 DEF Preparing, Prepare, PrepareRaises, buffers, history, Collected
<1>4. CASE Deciding
  BY <1>4 DEF Deciding, AskUser, RequestApproval, Proceed, SkipCancelled, SkipRefused,
       Takes, GoTo, Answer, buffers, history, Collected
<1>5. CASE Replying
  BY <1>5 DEF Replying, UserReplies, Approve, Deny, GoTo, Answer, buffers, history, Collected
<1>6. CASE Running
  <2>1. CASE StartTool
    <3>1. NextCall \in spent.calls
      <4>1. Len(results) < Len(pending) /\ Len(results) \in Nat
        BY <2>1 DEF StartTool, Waiting, ToolStates, TypeOK
      <4> QED
        BY <4>1 DEF NextCall, Collected
    <3>2. pc = "starting" /\ active = <<>>
      BY <2>1 DEF StartTool, Collected
    <3> QED
      BY <2>1, <3>1, <3>2 DEF StartTool, GoTo, buffers, Collected
  <2>2. CASE Blocked \/ UnknownTool \/ ToolReturns
    BY <2>2 DEF Blocked, UnknownTool, ToolReturns, Answer, history, Collected
  <2> QED
    BY <1>6, <2>1, <2>2 DEF Running
<1>7. ASSUME Flush, pc = "consume", UNCHANGED <<spent, executed>>
      PROVE  Collected'
  BY <1>7, FlushedSpent DEF Flush, Collected
<1>8. CASE Cancelled
  BY <1>7, <1>8 DEF Cancelled, ConsumeCancelled, AskCancelled, ApprovalCancelled, Answer,
       history, Collected
<1>9. CASE Sending
  <2>1. ASSUME NEW kind \in {"think", "text"}, NEW call \in Calls \cup {NoCall},
               ProseChunk(kind, call)
        PROVE  Collected'
    <3>1. pc' = "consume" /\ executed' = executed /\ current' # "tool" /\ active' = <<>>
      BY <2>1 DEF ProseChunk, CanSend, history, Collected
    <3>2. spent.calls \subseteq spent'.calls /\ (call # NoCall => call \in spent'.calls)
      BY <2>1, RecordTypes DEF ProseChunk
    <3>3. pending' \in Seq(spent.calls) /\ textCall' \in {textCall, call}
      BY <2>1, FlushedSpent DEF ProseChunk, Collected
    <3>4. pending' \in Seq(spent'.calls)
      BY <3>2, <3>3, SeqGrows
    <3> QED
      BY <3>1, <3>2, <3>3, <3>4 DEF Collected
  <2>2. ASSUME NEW i \in Indexes, NEW c \in Calls, NEW snapshot \in BOOLEAN,
               CallStart(i, c, snapshot)
        PROVE  Collected'
    <3>1. /\ pc' = "consume" /\ executed' = executed /\ current' = "tool"
          /\ textCall' = NoCall /\ active' = WithStarted(i, c)
          /\ c \notin spent.calls
      BY <2>2 DEF CallStart, CanSend, FreshCalls, history
    <3>2. spent'.calls = spent.calls \cup {c}
      BY <2>2, RecordTypes DEF CallStart
    <3>3. pending' \in Seq(spent.calls)
      BY <2>2, FlushedSpent DEF CallStart, Collected
    <3>4. pending' \in Seq(spent'.calls)
      BY <3>2, <3>3, SeqGrows
    <3>5. ASSUME NEW n \in DOMAIN active'
          PROVE  active'[n].call \in spent'.calls \ executed'
      <4>1. \/ active'[n].call = c
            \/ n \in DOMAIN active /\ active'[n] = active[n]
        BY <3>1, StartedFacts
      <4> QED
        BY <3>1, <3>2, <4>1 DEF Collected
    <3> QED
      BY <3>1, <3>2, <3>4, <3>5 DEF Collected
  <2>3. ASSUME NEW n \in DOMAIN active, NEW replace \in BOOLEAN, CallDelta(n, replace)
        PROVE  Collected'
    <3>1. spent'.calls = spent.calls
      BY <2>3, RecordTypes DEF CallDelta
    <3> QED
      BY <2>3, <3>1 DEF CallDelta, CanSend, buffers, history, Collected
  <2>4. ASSUME NEW reason \in {"stop", "length", "tool_use", "error"}, StreamDone(reason)
        PROVE  Collected'
    BY <1>7, <2>4 DEF StreamDone, history
  <2>5. CASE StreamError \/ StreamRaises
    BY <2>5 DEF StreamError, StreamRaises, buffers, history, Collected
  <2>6. CASE Exhausted \/ Stall
    BY <1>7, <2>6 DEF Exhausted, Stall, history
  <2> QED
    BY <1>9, <2>1, <2>2, <2>3, <2>4, <2>5, <2>6 DEF Sending
<1>10. CASE Settling
  <2>1. ASSUME NEW counted, Recovery(counted), spent'.calls = spent.calls
        PROVE  Collected'
    BY <2>1 DEF Recovery, ResetBuffers, history, Collected
  <2>2. [spent EXCEPT !.injections = @ + 1].calls = spent.calls
    BY RecordTypes
  <2>3. CASE Checkpoint \/ ToolsProduced \/ Accept \/ EndTurn
    BY <2>3 DEF Checkpoint, ToolsProduced, Accept, GoTo, EndTurn, buffers, history, Collected
  <2>4. CASE DropFollowUp
    BY <2>2, <2>4 DEF DropFollowUp, buffers, history, Collected
  <2>5. CASE InjectFollowUp \/ RecoverLength \/ RecoverEmpty
    BY <2>1, <2>2, <2>5 DEF InjectFollowUp, RecoverLength, RecoverEmpty
  <2> QED
    BY <1>10, <2>3, <2>4, <2>5 DEF Settling
<1> QED
  BY <1>1, <1>2, <1>3, <1>4, <1>5, <1>6, <1>8, <1>9, <1>10 DEF Next

(* The next answer belongs to the next call. *)
LEMMA AnswerMatches ==
  ASSUME TypeOK, Matched, HasNext, pc \in ToolStates, NEW outcome, Answer(outcome)
  PROVE  Matched'
<1>1. /\ results \in Seq(Result) /\ pending' = pending /\ calls' = calls
      /\ results' = Append(results, [call |-> NextCall, outcome |-> outcome])
      /\ pc' = "tools" /\ pending \in Seq(Calls)
  BY DEF Answer, TypeOK
<1>2. /\ Len(results') = Len(results) + 1 /\ DOMAIN results' = 1..Len(results) + 1
      /\ \A n \in 1..Len(results) : results'[n] = results[n]
      /\ results'[Len(results) + 1].call = pending[Len(results) + 1]
  BY <1>1 DEF NextCall
<1>3. /\ Len(results) + 1 <= Len(pending) /\ calls = pending
      /\ \A n \in 1..Len(results) : results[n].call = pending[n]
  BY <1>1 DEF HasNext, Matched
<1>4. \A n \in DOMAIN results' : results'[n].call = pending[n]
  BY <1>1, <1>2, <1>3
<1> QED
  BY <1>1, <1>2, <1>3, <1>4 DEF Matched, Collecting, ToolStates

(* Answers stay matched with the calls, and are dropped with them. *)
LEMMA MatchedStep ==
  ASSUME TypeOK, Waiting, Matched, [Next]_vars
  PROVE  Matched'
<1>1. CASE UNCHANGED vars \/ Cancel
  BY <1>1 DEF vars, Cancel, buffers, Matched
<1>2. CASE Opening \/ Answering
  BY <1>2 DEF Opening, Start, OpenCancelled, NotOpened, Request, SleepOver, Answering,
       RequestOk, RequestRetried, RequestFailed, buffers, Matched, Collecting, ToolStates
<1>3. CASE Preparing
  <2>1. CASE Prepare
    BY <2>1 DEF Prepare, TypeOK, Matched, Collecting, ToolStates
  <2>2. CASE PrepareRaises
    BY <2>2 DEF PrepareRaises, Matched, Collecting, ToolStates
  <2> QED
    BY <1>3, <2>1, <2>2 DEF Preparing
<1>4. ASSUME NEW outcome, Answer(outcome), HasNext, pc \in ToolStates
      PROVE  Matched'
  BY <1>4, AnswerMatches
<1>5. ASSUME NEW state \in ToolStates, GoTo(state), pc \in ToolStates
      PROVE  Matched'
  BY <1>5 DEF GoTo, buffers, Matched, Collecting, ToolStates
<1>6. pc \in {"asking", "approving", "starting", "executing"} => HasNext
  BY DEF Waiting, ToolStates, HasNext
<1>7. CASE Deciding
  BY <1>4, <1>5, <1>7 DEF Deciding, AskUser, RequestApproval, Proceed, SkipCancelled,
       SkipRefused, Takes, ToolStates
<1>8. CASE Replying
  BY <1>4, <1>5, <1>6, <1>8 DEF Replying, UserReplies, Approve, Deny, ToolStates
<1>9. CASE Running
  BY <1>4, <1>5, <1>6, <1>9 DEF Running, Blocked, UnknownTool, StartTool, ToolReturns,
       ToolStates
<1>10. CASE Cancelled
  <2>1. CASE ConsumeCancelled
    BY <2>1 DEF ConsumeCancelled, Matched, Collecting, ToolStates
  <2>2. CASE AskCancelled \/ ApprovalCancelled
    BY <1>4, <1>6, <2>2 DEF AskCancelled, ApprovalCancelled, ToolStates
  <2> QED
    BY <1>10, <2>1, <2>2 DEF Cancelled
<1>11. CASE Sending
  BY <1>11 DEF Sending, ProseChunk, CallStart, CallDelta, CanSend, StreamDone, StreamError,
       Exhausted, Stall, StreamRaises, buffers, Matched, Collecting, ToolStates
<1>12. CASE Settling
  <2>1. CASE Checkpoint
    BY <2>1 DEF Checkpoint, HasNext, TypeOK, buffers, Matched, Collecting, ToolStates
  <2>2. CASE DropFollowUp \/ ToolsProduced \/ Accept
    BY <2>2 DEF DropFollowUp, ToolsProduced, Accept, GoTo, buffers, Matched, Collecting,
         ToolStates
  <2>3. CASE InjectFollowUp \/ RecoverLength \/ RecoverEmpty
    BY <2>3 DEF InjectFollowUp, RecoverLength, RecoverEmpty, Recovery, ResetBuffers,
         Matched, Collecting, ToolStates
  <2>4. CASE EndTurn
    BY <2>4 DEF EndTurn, Matched, Collecting, ToolStates
  <2> QED
    BY <1>12, <2>1, <2>2, <2>3, <2>4 DEF Settling
<1> QED
  BY <1>1, <1>2, <1>3, <1>7, <1>8, <1>9, <1>10, <1>11, <1>12 DEF Next

(* What is taken up is not refused, and runs only if that was agreed to.   *)
LEMMA AskedStep ==
  ASSUME TypeOK, Waiting, Matched, Asked, [Next]_vars
  PROVE  Asked'
<1>1. CASE UNCHANGED vars \/ Cancel
  BY <1>1 DEF vars, Cancel, buffers, history, Asked, NextCall, Kind, MustRefuse
<1>2. CASE Opening \/ Answering
  BY <1>2 DEF Opening, Start, OpenCancelled, NotOpened, Request, SleepOver, Answering,
       RequestOk, RequestRetried, RequestFailed, buffers, Asked, ToolStates
<1>3. CASE Preparing
  BY <1>3 DEF Preparing, Prepare, PrepareRaises, PendingSet, Asked, ToolStates, MustRefuse
<1>4. ASSUME NEW outcome, Answer(outcome), pc \in ToolStates
      PROVE  Asked'
  BY <1>4 DEF Answer, Asked, ToolStates, MustRefuse
<1>5. CASE Deciding
  <2>1. CASE SkipCancelled \/ SkipRefused
    BY <1>4, <2>1 DEF SkipCancelled, SkipRefused, ToolStates
  <2>2. CASE AskUser \/ RequestApproval \/ Proceed
    BY <2>2 DEF AskUser, RequestApproval, Proceed, Takes, NeedsApproval, GoTo, buffers,
         history, Asked, ToolStates, NextCall, Kind, MustRefuse
  <2> QED
    BY <1>5, <2>1, <2>2 DEF Deciding
<1>6. CASE Replying
  <2>1. CASE UserReplies \/ Deny
    BY <1>4, <2>1 DEF UserReplies, Deny, ToolStates
  <2>2. CASE Approve
    BY <2>2 DEF Approve, GoTo, buffers, Asked, ToolStates, NextCall, Kind, MustRefuse
  <2> QED
    BY <1>6, <2>1, <2>2 DEF Replying
<1>7. CASE Running
  <2>1. CASE Blocked \/ UnknownTool \/ ToolReturns
    BY <1>4, <2>1 DEF Blocked, UnknownTool, ToolReturns, ToolStates
  <2>2. CASE StartTool
    BY <2>2 DEF StartTool, GoTo, buffers, Asked, ToolStates, MustRefuse
  <2> QED
    BY <1>7, <2>1, <2>2 DEF Running
<1>8. CASE Cancelled
  BY <1>4, <1>8 DEF Cancelled, ConsumeCancelled, AskCancelled, ApprovalCancelled, Asked,
       ToolStates
<1>9. CASE Sending
  BY <1>9 DEF Sending, ProseChunk, CallStart, CallDelta, CanSend, StreamDone, StreamError,
       Exhausted, Stall, StreamRaises, Asked, ToolStates
<1>10. CASE Settling
  BY <1>10 DEF Settling, Checkpoint, InjectFollowUp, DropFollowUp, ToolsProduced,
       RecoverLength, RecoverEmpty, Recovery, ResetBuffers, Accept, GoTo, EndTurn, Asked,
       ToolStates
<1> QED
  BY <1>1, <1>2, <1>3, <1>5, <1>6, <1>7, <1>8, <1>9, <1>10 DEF Next

(* The stop reason of an attempt with calls is promoted, or an interrupt.  *)
LEMMA HonestStep ==
  ASSUME Honest, Waiting, [Next]_vars
  PROVE  Honest'
<1> USE DEF Honest, ToolStates
<1>1. CASE UNCHANGED vars \/ Cancel
  BY <1>1 DEF vars, Cancel, buffers
<1>2. CASE Opening \/ Answering
  BY <1>2 DEF Opening, Start, OpenCancelled, NotOpened, Request, SleepOver, Answering,
       RequestOk, RequestRetried, RequestFailed
<1>3. CASE Preparing
  BY <1>3 DEF Preparing, Prepare, PrepareRaises
<1>4. CASE Deciding
  BY <1>4 DEF Deciding, AskUser, RequestApproval, Proceed, SkipCancelled, SkipRefused,
       Takes, GoTo, Answer, buffers
<1>5. CASE Replying
  BY <1>5 DEF Replying, UserReplies, Approve, Deny, GoTo, Answer, buffers
<1>6. CASE Running
  BY <1>6 DEF Running, Blocked, UnknownTool, StartTool, ToolReturns, GoTo, Answer, buffers
<1>7. CASE Cancelled
  <2>1. CASE ConsumeCancelled
    BY <2>1 DEF ConsumeCancelled
  <2>2. CASE AskCancelled \/ ApprovalCancelled
    BY <2>2 DEF AskCancelled, ApprovalCancelled, Answer
  <2> QED
    BY <1>7, <2>1, <2>2 DEF Cancelled
<1>8. CASE Sending
  BY <1>8 DEF Sending, ProseChunk, CallStart, CallDelta, CanSend, StreamDone, StreamError,
       Exhausted, Stall, StreamRaises, Promoted
<1>9. CASE Settling
  BY <1>9 DEF Settling, Checkpoint, InjectFollowUp, DropFollowUp, ToolsProduced,
       RecoverLength, RecoverEmpty, Recovery, ResetBuffers, Accept, GoTo, EndTurn,
       Promoted, buffers
<1> QED
  BY <1>1, <1>2, <1>3, <1>4, <1>5, <1>6, <1>7, <1>8, <1>9 DEF Next

(* The flag and the stop reason are set together, and an attempt that was  *)
(* interrupted is followed by no other.                                    *)
LEMMA AgreeingStep ==
  ASSUME TypeOK, Agreeing, [Next]_vars
  PROVE  Agreeing'
<1> USE DEF Agreeing
<1>1. CASE UNCHANGED vars \/ Cancel
  BY <1>1 DEF vars, Cancel, buffers
<1>2. CASE Opening \/ Answering
  BY <1>2 DEF Opening, Start, OpenCancelled, NotOpened, Request, SleepOver, Answering,
       RequestOk, RequestRetried, RequestFailed, buffers
<1>3. CASE Preparing
  BY <1>3 DEF Preparing, Prepare, PrepareRaises, buffers
<1>4. CASE Deciding
  BY <1>4 DEF Deciding, AskUser, RequestApproval, Proceed, SkipCancelled, SkipRefused,
       Takes, GoTo, Answer, buffers
<1>5. CASE Replying
  BY <1>5 DEF Replying, UserReplies, Approve, Deny, GoTo, Answer, buffers
<1>6. CASE Running
  BY <1>6 DEF Running, Blocked, UnknownTool, StartTool, ToolReturns, GoTo, Answer, buffers
<1>7. CASE Cancelled
  BY <1>7 DEF Cancelled, ConsumeCancelled, AskCancelled, ApprovalCancelled, Answer
<1>8. CASE Sending
  <2>1. ~interrupted /\ stop # "interrupted"
    BY <1>8 DEF Sending, ProseChunk, CallStart, CallDelta, CanSend, StreamDone,
         StreamError, Exhausted, Stall, StreamRaises
  <2>2. interrupted' = interrupted
    BY <1>8 DEF Sending, ProseChunk, CallStart, CallDelta, CanSend, StreamDone,
         StreamError, Exhausted, Stall, StreamRaises
  <2>3. stop' # "interrupted"
    BY <1>8, <2>1 DEF Sending, ProseChunk, CallStart, CallDelta, StreamDone, StreamError,
         Exhausted, Stall, StreamRaises, Promoted, buffers
  <2> QED
    BY <2>1, <2>2, <2>3
<1>9. CASE Settling
  BY <1>9 DEF Settling, Checkpoint, InjectFollowUp, DropFollowUp, ToolsProduced,
       RecoverLength, RecoverEmpty, Recovery, ResetBuffers, Accept, GoTo, EndTurn,
       Promoted, buffers
<1> QED
  BY <1>1, <1>2, <1>3, <1>4, <1>5, <1>6, <1>7, <1>8, <1>9 DEF Next

(* A call that ran keeps its result until the turn ends. *)
LEMMA AnswerTracks ==
  ASSUME TypeOK, Tracked, NEW outcome, Answer(outcome), pc \in ToolStates,
         pc = "executing" => outcome = "ran"
  PROVE  Tracked'
<1>1. /\ results \in Seq(Result) /\ executed' = executed /\ spent' = spent /\ pc' = "tools"
      /\ results' = Append(results, [call |-> NextCall, outcome |-> outcome])
  BY DEF Answer, TypeOK, history
<1>2. /\ DOMAIN results' = 1..Len(results) + 1 /\ Len(results) \in Nat
      /\ \A n \in 1..Len(results) : results'[n] = results[n]
      /\ results'[Len(results) + 1] = [call |-> NextCall, outcome |-> outcome]
  BY <1>1
<1>3. ASSUME spent.injections = 0, NEW c \in executed
      PROVE  \E n \in DOMAIN results' : results'[n] = Ran(c)
  <2>1. \/ \E n \in DOMAIN results : results[n] = Ran(c)
        \/ pc = "executing" /\ c = NextCall
    BY <1>3 DEF Tracked
  <2>2. CASE \E n \in DOMAIN results : results[n] = Ran(c)
    BY <1>1, <1>2, <2>2
  <2>3. CASE pc = "executing" /\ c = NextCall
    BY <1>2, <2>3 DEF Ran
  <2> QED
    BY <2>1, <2>2, <2>3
<1> QED
  BY <1>1, <1>3 DEF Tracked, Collecting, ToolStates

(* Only a follow-up makes the turn forget what ran. *)
LEMMA TrackedStep ==
  ASSUME TypeOK, Waiting, Matched, Tracked, [Next]_vars
  PROVE  Tracked'
<1>1. CASE UNCHANGED vars \/ Cancel
  BY <1>1 DEF vars, Cancel, buffers, history, Tracked, NextCall
<1>2. CASE Opening \/ Answering
  BY <1>2 DEF Opening, Start, OpenCancelled, NotOpened, Request, SleepOver, Answering,
       RequestOk, RequestRetried, RequestFailed, buffers, history, Tracked, Collecting,
       ToolStates
<1>3. CASE Preparing
  BY <1>3 DEF Preparing, Prepare, PrepareRaises, buffers, history, Tracked, Collecting,
       ToolStates
<1>4. CASE Deciding
  <2>1. CASE SkipCancelled \/ SkipRefused
    BY <2>1, AnswerTracks DEF SkipCancelled, SkipRefused, ToolStates
  <2>2. CASE AskUser \/ RequestApproval \/ Proceed
    BY <2>2 DEF AskUser, RequestApproval, Proceed, Takes, GoTo, buffers, history, Tracked,
         Collecting, ToolStates
  <2> QED
    BY <1>4, <2>1, <2>2 DEF Deciding
<1>5. CASE Replying
  <2>1. CASE UserReplies \/ Deny
    BY <2>1, AnswerTracks DEF UserReplies, Deny, ToolStates
  <2>2. CASE Approve
    BY <2>2 DEF Approve, GoTo, buffers, Tracked, Collecting, ToolStates
  <2> QED
    BY <1>5, <2>1, <2>2 DEF Replying
<1>6. CASE Running
  <2>1. CASE Blocked \/ UnknownTool \/ ToolReturns
    BY <2>1, AnswerTracks DEF Blocked, UnknownTool, ToolReturns, ToolStates
  <2>2. CASE StartTool
    BY <2>2 DEF StartTool, GoTo, buffers, Tracked, Collecting, ToolStates, NextCall
  <2> QED
    BY <1>6, <2>1, <2>2 DEF Running
<1>7. CASE Cancelled
  <2>1. CASE ConsumeCancelled
    BY <2>1 DEF ConsumeCancelled, history, Tracked, Collecting, ToolStates
  <2>2. CASE AskCancelled \/ ApprovalCancelled
    BY <2>2, AnswerTracks DEF AskCancelled, ApprovalCancelled, ToolStates
  <2> QED
    BY <1>7, <2>1, <2>2 DEF Cancelled
<1>8. CASE Sending
  <2>1. pc = "consume" /\ pc' \in {"consume", "prepare", "raised"} /\ executed' = executed
    BY <1>8 DEF Sending, ProseChunk, CallStart, CallDelta, CanSend, StreamDone,
         StreamError, Exhausted, Stall, StreamRaises, history
  <2>2. spent'.injections = spent.injections
    BY <1>8, RecordTypes DEF Sending, ProseChunk, CallStart, CallDelta, StreamDone,
         StreamError, Exhausted, Stall, StreamRaises
  <2> QED
    BY <2>1, <2>2 DEF Tracked, Collecting, ToolStates
<1>9. CASE Settling
  <2>1. CASE Checkpoint \/ ToolsProduced \/ Accept
    BY <2>1 DEF Checkpoint, ToolsProduced, Accept, GoTo, buffers, history, Tracked,
         Collecting, ToolStates
  <2>2. CASE InjectFollowUp \/ DropFollowUp
    <3>1. spent'.injections = spent.injections + 1 /\ spent.injections \in Nat
      BY <2>2, RecordTypes DEF InjectFollowUp, DropFollowUp
    <3> QED
      BY <3>1 DEF Tracked
  <2>3. CASE RecoverLength \/ RecoverEmpty
    <3>1. results = <<>>
      BY <2>3 DEF RecoverLength, RecoverEmpty, HasTools
    <3> QED
      BY <2>3, <3>1 DEF RecoverLength, RecoverEmpty, Recovery, ResetBuffers, history,
           Tracked, Collecting, ToolStates
  <2>4. CASE EndTurn
    BY <2>4 DEF EndTurn, Tracked, Collecting, ToolStates
  <2> QED
    BY <1>9, <2>1, <2>2, <2>3, <2>4 DEF Settling
<1> QED
  BY <1>1, <1>2, <1>3, <1>4, <1>5, <1>6, <1>7, <1>8, <1>9 DEF Next

----------------------------------------------------------------------------
(* The safety properties, preserved by every step *)

(* Answers that match the queue one by one are a prefix of the calls. *)
LEMMA AnsweredPrefix ==
  ASSUME TypeOK, Matched, pc \in ToolStates \cup {"settle", "final"}
  PROVE  /\ IsPrefix(Answered, calls)
         /\ Len(results) = Len(pending) => Answered = calls
<1>1. /\ results \in Seq(Result) /\ calls \in Seq(Calls) /\ calls = pending
      /\ Len(results) <= Len(calls) /\ Len(results) \in Nat /\ Len(calls) \in Nat
      /\ \A n \in 1..Len(results) : results[n].call = calls[n]
  BY DEF TypeOK, Matched
<1>2. \A n \in 1..Len(results) : calls[n] \in Calls /\ results[n].call \in Calls
  BY <1>1
<1>3. /\ Answered \in Seq(Calls) /\ Len(Answered) = Len(results)
      /\ \A n \in 1..Len(results) : Answered[n] = calls[n]
  <2>1. DOMAIN results = 1..Len(results)
    BY <1>1
  <2>2. \A n \in DOMAIN results : Answered[n] \in Calls
    BY <1>2, <2>1 DEF Answered
  <2>3. Answered \in Seq(Calls) /\ Len(Answered) = Len(results)
    BY <1>1, <2>2, MapFacts DEF Answered
  <2> QED
    BY <1>1, <2>1, <2>3 DEF Answered
<1>4. /\ SubSeq(Answered, 1, Len(Answered)) \in Seq(Calls)
      /\ SubSeq(calls, 1, Len(Answered)) \in Seq(Calls)
      /\ Len(SubSeq(Answered, 1, Len(Answered))) = Len(results)
      /\ Len(SubSeq(calls, 1, Len(Answered))) = Len(results)
      /\ \A n \in 1..Len(results) : SubSeq(Answered, 1, Len(Answered))[n]
                                      = SubSeq(calls, 1, Len(Answered))[n]
  BY <1>1, <1>3, SubSeqProperties
<1>5. SubSeq(Answered, 1, Len(Answered)) = SubSeq(calls, 1, Len(Answered))
  BY <1>4, SeqEqual
<1>6. IsPrefix(Answered, calls)
  BY <1>1, <1>3, <1>5 DEF IsPrefix
<1>7. Len(results) = Len(pending) => Answered = calls
  BY <1>1, <1>3, SeqEqual
<1> QED
  BY <1>6, <1>7

(* A TurnEndEvent is added only by the ends of the turn. *)
LEMMA NewEnd ==
  ASSUME [Next]_vars
  PROVE  \/ turnEnds' = turnEnds
         \/ \E reason \in {"error", "interrupted"} : EndWithoutMessage(reason)
         \/ EndTurn
<1>1. CASE UNCHANGED vars \/ Cancel
  BY <1>1 DEF vars, Cancel
<1>2. CASE Opening \/ Answering
  BY <1>2 DEF Opening, Start, OpenCancelled, NotOpened, Request, SleepOver, Answering,
       RequestOk, RequestRetried, RequestFailed
<1>3. CASE Preparing
  BY <1>3 DEF Preparing, Prepare, PrepareRaises
<1>4. CASE Deciding
  BY <1>4 DEF Deciding, AskUser, RequestApproval, Proceed, SkipCancelled, SkipRefused,
       GoTo, Answer
<1>5. CASE Replying
  BY <1>5 DEF Replying, UserReplies, Approve, Deny, GoTo, Answer
<1>6. CASE Running
  BY <1>6 DEF Running, Blocked, UnknownTool, StartTool, ToolReturns, GoTo, Answer
<1>7. CASE Cancelled
  BY <1>7 DEF Cancelled, ConsumeCancelled, AskCancelled, ApprovalCancelled, Answer
<1>8. CASE Sending
  BY <1>8 DEF Sending, ProseChunk, CallStart, CallDelta, StreamDone, StreamError,
       Exhausted, Stall, StreamRaises
<1>9. CASE Settling
  BY <1>9 DEF Settling, Checkpoint, InjectFollowUp, DropFollowUp, ToolsProduced,
       RecoverLength, RecoverEmpty, Recovery, Accept, GoTo
<1> QED
  BY <1>1, <1>2, <1>3, <1>4, <1>5, <1>6, <1>7, <1>8, <1>9 DEF Next

(* Both ways of ending report complete and honest events. *)
LEMMA ReportedStep ==
  ASSUME TypeOK, Matched, Honest, Reported, [Next]_vars
  PROVE  Reported'
<1>1. turnEnds \in Seq(TurnEnd)
  BY DEF TypeOK
<1>2. ASSUME NEW end, Complete(end), turnEnds' = Append(turnEnds, end)
      PROVE  Reported'
  <2>1. /\ DOMAIN turnEnds' = 1..Len(turnEnds) + 1 /\ Len(turnEnds) \in Nat
        /\ \A n \in 1..Len(turnEnds) : turnEnds'[n] = turnEnds[n]
        /\ turnEnds'[Len(turnEnds) + 1] = end
    BY <1>1, <1>2
  <2> QED
    BY <1>1, <1>2, <2>1 DEF Reported
<1>3. CASE turnEnds' = turnEnds
  BY <1>3 DEF Reported
<1>4. ASSUME NEW reason, EndWithoutMessage(reason)
      PROVE  Reported'
  <2> DEFINE end == [message |-> FALSE, calls |-> <<>>, results |-> <<>>, stop |-> reason]
  <2>1. Complete(end)
    <3>1. ResultCalls(end) = <<>>
      BY DEF ResultCalls
    <3> QED
      BY <3>1 DEF Complete
  <2>2. turnEnds' = Append(turnEnds, end)
    BY <1>4 DEF EndWithoutMessage
  <2> HIDE DEF end
  <2> QED
    BY <1>2, <2>1, <2>2
<1>5. CASE EndTurn
  <2> DEFINE end == [message |-> TRUE, calls |-> calls, results |-> results, stop |-> stop]
  <2>1. pc = "final" /\ turnEnds' = Append(turnEnds, end)
    BY <1>5 DEF EndTurn
  <2>2. calls = pending /\ Answered = calls
    BY <2>1, AnsweredPrefix DEF Matched
  <2>3. calls # <<>> => stop # "stop"
    BY <2>1, <2>2 DEF Honest
  <2>4. ResultCalls(end) = Answered
    BY DEF ResultCalls, Answered
  <2>5. Complete(end)
    BY <2>2, <2>3, <2>4 DEF Complete
  <2> HIDE DEF end
  <2> QED
    BY <1>2, <2>1, <2>5
<1> QED
  BY <1>3, <1>4, <1>5, NewEnd

(* The stream changes nothing of a call that ran. *)
LEMMA RanIsSettled ==
  ASSUME TypeOK, Collected, [Next]_vars, NEW c \in executed
  PROVE  data'[c] = data[c]
<1>1. c \in Calls /\ c \in spent.calls /\ data \in [Calls -> CallData]
  BY DEF TypeOK, Collected
<1>2. \A n \in DOMAIN active : active[n].call # c
  BY DEF Collected
<1>3. CASE UNCHANGED vars \/ Cancel
  BY <1>3 DEF vars, Cancel
<1>4. CASE Opening \/ Answering
  BY <1>4 DEF Opening, Start, OpenCancelled, Request, SleepOver, Answering, RequestOk,
       RequestRetried, RequestFailed
<1>5. CASE Preparing
  BY <1>5 DEF Preparing, Prepare, PrepareRaises
<1>6. CASE Deciding
  BY <1>6 DEF Deciding, AskUser, RequestApproval, Proceed, SkipCancelled, SkipRefused,
       GoTo, Answer
<1>7. CASE Replying
  BY <1>7 DEF Replying, UserReplies, Approve, Deny, GoTo, Answer
<1>8. CASE Running
  BY <1>8 DEF Running, Blocked, UnknownTool, StartTool, ToolReturns, GoTo, Answer
<1>9. CASE Cancelled
  BY <1>9 DEF Cancelled, ConsumeCancelled, AskCancelled, ApprovalCancelled, Answer
<1>10. CASE Sending
  BY <1>1, <1>2, <1>10 DEF Sending, ProseChunk, CallStart, FreshCalls, CallDelta,
       StreamDone, StreamError, Exhausted, Stall, StreamRaises, buffers
<1>11. CASE Settling
  BY <1>11 DEF Settling, Checkpoint, InjectFollowUp, DropFollowUp, ToolsProduced,
       RecoverLength, RecoverEmpty, Recovery, Accept, GoTo, EndTurn
<1> QED
  BY <1>3, <1>4, <1>5, <1>6, <1>7, <1>8, <1>9, <1>10, <1>11 DEF Next

(* Tools are started, and approvals given, by one action each. *)
LEMMA HistoryStep ==
  ASSUME [Next]_vars
  PROVE  /\ approved \subseteq approved'
         /\ executed' = executed \/ StartTool
<1>1. CASE UNCHANGED vars \/ Cancel
  BY <1>1 DEF vars, Cancel, history
<1>2. CASE Opening \/ Answering
  BY <1>2 DEF Opening, Start, OpenCancelled, Request, SleepOver, Answering, RequestOk,
       RequestRetried, RequestFailed, history
<1>3. CASE Preparing
  BY <1>3 DEF Preparing, Prepare, PrepareRaises, history
<1>4. CASE Deciding
  BY <1>4 DEF Deciding, AskUser, RequestApproval, Proceed, SkipCancelled, SkipRefused,
       Answer, history
<1>5. CASE Replying
  BY <1>5 DEF Replying, UserReplies, Approve, Deny, Answer, history
<1>6. CASE Running
  BY <1>6 DEF Running, Blocked, UnknownTool, StartTool, ToolReturns, Answer, history
<1>7. CASE Cancelled
  BY <1>7 DEF Cancelled, ConsumeCancelled, AskCancelled, ApprovalCancelled, Answer, history
<1>8. CASE Sending
  BY <1>8 DEF Sending, ProseChunk, CallStart, CallDelta, StreamDone, StreamError,
       Exhausted, Stall, StreamRaises, history
<1>9. CASE Settling
  BY <1>9 DEF Settling, Checkpoint, InjectFollowUp, DropFollowUp, ToolsProduced,
       RecoverLength, RecoverEmpty, Recovery, Accept, EndTurn, history
<1> QED
  BY <1>1, <1>2, <1>3, <1>4, <1>5, <1>6, <1>7, <1>8, <1>9 DEF Next

(* What a call that runs needs. *)
Allowed(c) == /\ data[c].kind = "guarded" => c \in approved
              /\ data[c].kind \in {"plain", "guarded"}
              /\ ~MustRefuse(c)

(* A tool is started only with what it needs. *)
LEMMA StartIsAllowed ==
  ASSUME TypeOK, Waiting, Asked, StartTool
  PROVE  executed' = executed \cup {NextCall} /\ Allowed(NextCall)
<1>1. pc = "starting" /\ Kind # "unknown" /\ executed' = executed \cup {NextCall}
  BY DEF StartTool
<1>2. /\ NextCall \notin refused
      /\ Kind = "plain" \/ (Kind = "guarded" /\ NextCall \in approved)
  BY <1>1 DEF Asked
<1>3. ~MustRefuse(NextCall)
  <2>1. Len(results) + 1 \in DOMAIN pending
    BY <1>1 DEF Waiting, ToolStates, TypeOK
  <2> QED
    BY <1>1, <1>2, <2>1 DEF Asked, ToolStates, NextCall
<1> QED
  BY <1>1, <1>2, <1>3 DEF Allowed, Kind

(* No step runs a call that is not allowed, or makes one that ran so. *)
LEMMA UnapprovedStep ==
  ASSUME TypeOK, Waiting, Collected, Asked, NothingRunsUnapproved, [Next]_vars
  PROVE  NothingRunsUnapproved'
<1>1. ASSUME NEW c \in executed, data'[c] = data[c], Allowed(c)
      PROVE  Allowed(c)'
  BY <1>1, HistoryStep DEF Allowed, MustRefuse
<1>2. \A c \in executed : Allowed(c)'
  BY <1>1, RanIsSettled DEF NothingRunsUnapproved, Allowed
<1>3. ASSUME StartTool
      PROVE  \A c \in executed' : Allowed(c)'
  <2>1. data' = data /\ approved' = approved
    BY <1>3 DEF StartTool, GoTo
  <2>2. \A c : Allowed(c) => Allowed(c)'
    BY <2>1 DEF Allowed, MustRefuse
  <2> QED
    BY <1>2, <1>3, <2>2, StartIsAllowed
<1>4. \A c \in executed' : Allowed(c)'
  BY <1>2, <1>3, HistoryStep
<1> QED
  BY <1>4 DEF NothingRunsUnapproved, Allowed

(* The turn is done with nothing run, or with the message that tells. *)
LEMMA ExecutedStep ==
  ASSUME TypeOK, Tracked, ExecutedIsReported, [Next]_vars
  PROVE  ExecutedIsReported'
<1> SUFFICES ASSUME pc' = "done", spent'.injections = 0, NEW c \in executed'
             PROVE  \E n \in DOMAIN Last(turnEnds').results :
                      Last(turnEnds').results[n] = Ran(c)
  BY DEF ExecutedIsReported, Ran
<1>1. CASE UNCHANGED vars
  BY <1>1 DEF vars, history, ExecutedIsReported, Ran
<1>2. CASE Start \/ OpenCancelled \/ RequestFailed
  BY <1>2 DEF Start, OpenCancelled, RequestFailed, history, Tracked, Collecting
<1>3. CASE EndTurn
  <2> DEFINE end == [message |-> TRUE, calls |-> calls, results |-> results, stop |-> stop]
  <2>1. turnEnds \in Seq(TurnEnd) /\ turnEnds' = Append(turnEnds, end)
    BY <1>3 DEF TypeOK, EndTurn
  <2>2. end.results = results
    OBVIOUS
  <2> HIDE DEF end
  <2>3. Last(turnEnds') = end
    BY <2>1 DEF Last
  <2>4. \E n \in DOMAIN results : results[n] = Ran(c)
    BY <1>3 DEF EndTurn, history, Tracked, ToolStates
  <2> QED
    BY <2>2, <2>3, <2>4
<1>4. CASE Cancel \/ Request \/ SleepOver \/ RequestOk \/ RequestRetried
  BY <1>4 DEF Cancel, Request, SleepOver, RequestOk, RequestRetried
<1>5. CASE Sending \/ Preparing
  BY <1>5 DEF Sending, ProseChunk, CallStart, CallDelta, CanSend, StreamDone, StreamError,
       Exhausted, Stall, StreamRaises, Preparing, Prepare, PrepareRaises
<1>6. CASE Deciding \/ Replying
  BY <1>6 DEF Deciding, AskUser, RequestApproval, Proceed, SkipCancelled, SkipRefused,
       GoTo, Answer, Replying, UserReplies, Approve, Deny
<1>7. CASE Running \/ Cancelled
  BY <1>7 DEF Running, Blocked, UnknownTool, StartTool, ToolReturns, GoTo, Answer,
       Cancelled, ConsumeCancelled, AskCancelled, ApprovalCancelled
<1>8. CASE Checkpoint \/ InjectFollowUp \/ DropFollowUp \/ ToolsProduced \/ RecoverLength
             \/ RecoverEmpty \/ Accept
  BY <1>8 DEF Checkpoint, InjectFollowUp, DropFollowUp, ToolsProduced, RecoverLength,
       RecoverEmpty, Recovery, ResetBuffers, Accept, GoTo
<1> QED
  BY <1>1, <1>2, <1>3, <1>4, <1>5, <1>6, <1>7, <1>8 DEF Next, Opening, Answering, Settling

----------------------------------------------------------------------------
(* The theorems *)

(* The invariant holds initially. *)
LEMMA InitHolds == Init => IInv
<1> SUFFICES ASSUME Init
             PROVE  IInv
  OBVIOUS
<1>1. TypeOK
  <2>1. data \in [Calls -> CallData]
    BY KindsAssumption DEF Init, CallData, Arguments
  <2>2. tries \in [attempt : Nat, empty : Nat, length : Nat, injections : Nat]
    BY DEF Init
  <2>3. spent \in [chunks : Nat, injections : Nat, calls : SUBSET Calls]
    BY DEF Init
  <2>4. /\ <<>> \in Seq([index : Indexes, call : Calls]) /\ <<>> \in Seq(Calls)
        /\ <<>> \in Seq(Result) /\ <<>> \in Seq(TurnEnd)
    OBVIOUS
  <2> QED
    BY <2>1, <2>2, <2>3, <2>4 DEF Init, TypeOK, States, StopReasons
<1>2. Waiting /\ Matched /\ Asked /\ Honest /\ Agreeing /\ Tracked
  BY DEF Init, Waiting, Matched, Asked, Honest, Agreeing, Tracked, ToolStates, Collecting
<1>3. Collected
  BY DEF Init, Collected
<1>4. Reported /\ NothingRunsUnapproved /\ ExecutedIsReported
  BY DEF Init, Reported, NothingRunsUnapproved, ExecutedIsReported
<1> QED
  BY <1>1, <1>2, <1>3, <1>4 DEF IInv

(* Every step preserves it. *)
LEMMA StepHolds ==
  ASSUME IInv, [Next]_vars
  PROVE  IInv'
BY TypeStep, WaitingStep, CollectedStep, MatchedStep, AskedStep, HonestStep, AgreeingStep,
   TrackedStep, ReportedStep, UnapprovedStep, ExecutedStep DEF IInv

(* So it holds throughout. *)
LEMMA Inductive == Spec => []IInv
<1>1. Init => IInv
  BY InitHolds
<1>2. IInv /\ [Next]_vars => IInv'
  BY StepHolds
<1> QED
  BY <1>1, <1>2, PTL DEF Spec

(* The turn's fields keep their types, for every set of calls. *)
THEOREM TypeCorrect == Spec => []TypeOK
<1>1. IInv => TypeOK
  BY DEF IInv
<1> QED
  BY <1>1, Inductive, PTL

(* Every reported message has all its calls answered, in their order.      *)
THEOREM EveryCallIsAnswered == Spec => []AnsweredInOrder
<1>1. IInv => AnsweredInOrder
  <2> SUFFICES ASSUME IInv
               PROVE  AnsweredInOrder
    OBVIOUS
  <2>1. \A n \in DOMAIN turnEnds : ResultCalls(turnEnds[n]) = turnEnds[n].calls
    BY DEF IInv, Reported, Complete
  <2>2. pc \in ToolStates => IsPrefix(Answered, calls)
    BY AnsweredPrefix DEF IInv
  <2> QED
    BY <2>1, <2>2 DEF AnsweredInOrder, ToolStates
<1> QED
  BY <1>1, Inductive, PTL

(* No tool runs without the approval it needs, or from broken arguments.   *)
THEOREM ApprovalIsAsked == Spec => []NothingRunsUnapproved
<1>1. IInv => NothingRunsUnapproved
  BY DEF IInv
<1> QED
  BY <1>1, Inductive, PTL

(* A message with calls never ends the loop as a plain stop, and the       *)
(* interruption and the stop reason of a message agree.                    *)
THEOREM StopReasonsAgree == Spec => []StopReasonIsTrue
<1>1. ASSUME IInv PROVE StopReasonIsTrue
  <2>1. \A n \in DOMAIN turnEnds : turnEnds[n].calls # <<>> => turnEnds[n].stop # "stop"
    BY <1>1 DEF IInv, Reported, Complete
  <2>2. pc = "final" => (interrupted <=> stop = "interrupted")
    BY <1>1 DEF IInv, Agreeing
  <2> QED
    BY <2>1, <2>2 DEF StopReasonIsTrue
<1> QED
  BY <1>1, Inductive, PTL

(* What a tool did is reported, unless a follow-up restarted the turn.     *)
THEOREM EffectsAreReported == Spec => []ExecutedIsReported
<1>1. IInv => ExecutedIsReported
  BY DEF IInv
<1> QED
  BY <1>1, Inductive, PTL

----------------------------------------------------------------------------
(* The turn implements TurnContract *)

(* No call is collected twice: the stream sends each once, and a call that *)
(* takes the place of another with its index removes that one.  So a       *)
(* message cannot have more calls than there are.                          *)
Distinct ==
  /\ \A m, n \in DOMAIN pending : pending[m] = pending[n] => m = n
  /\ \A m, n \in DOMAIN active :
       active[m].index = active[n].index \/ active[m].call = active[n].call => m = n
  /\ \A m \in DOMAIN pending :
       pending[m] # textCall /\ \A n \in DOMAIN active : pending[m] # active[n].call

(* What is queued behind the pending calls is new. *)
LEMMA FlushedDistinct ==
  ASSUME TypeOK, Distinct
  PROVE  \A m, n \in DOMAIN FlushedPending : FlushedPending[m] = FlushedPending[n] => m = n
<1>1. /\ pending \in Seq(Calls) /\ active \in Seq([index : Indexes, call : Calls])
      /\ Len(pending) \in Nat /\ DOMAIN pending = 1..Len(pending)
  BY DEF TypeOK
<1>2. ASSUME NEW new \in Seq(Calls),
             \A m, n \in 1..Len(new) : new[m] = new[n] => m = n,
             \A m \in 1..Len(pending), n \in 1..Len(new) : pending[m] # new[n]
      PROVE  \A m, n \in DOMAIN (pending \o new) :
               (pending \o new)[m] = (pending \o new)[n] => m = n
  <2>1. /\ Len(new) \in Nat /\ DOMAIN (pending \o new) = 1..Len(pending) + Len(new)
        /\ \A n \in 1..Len(pending) + Len(new) :
             (pending \o new)[n] = IF n <= Len(pending) THEN pending[n]
                                   ELSE new[n - Len(pending)]
    BY <1>1
  <2> DEFINE joined == pending \o new
  <2>2. ASSUME NEW m \in 1..Len(pending) + Len(new), NEW n \in 1..Len(pending) + Len(new),
               joined[m] = joined[n]
        PROVE  m = n
    <3>1. \A k \in 1..Len(pending) + Len(new) :
            \/ k \in 1..Len(pending) /\ joined[k] = pending[k]
            \/ k - Len(pending) \in 1..Len(new) /\ joined[k] = new[k - Len(pending)]
      BY <1>1, <2>1
    <3> HIDE DEF joined
    <3>2. CASE m \in 1..Len(pending) /\ joined[m] = pending[m]
      <4>1. joined[n] = pending[n] /\ n \in 1..Len(pending)
        BY <1>2, <2>2, <3>1, <3>2
      <4> QED
        BY <1>1, <2>2, <3>2, <4>1 DEF Distinct
    <3>3. CASE m - Len(pending) \in 1..Len(new) /\ joined[m] = new[m - Len(pending)]
      <4>1. joined[n] = new[n - Len(pending)] /\ n - Len(pending) \in 1..Len(new)
        BY <1>2, <2>2, <3>1, <3>3
      <4>2. m - Len(pending) = n - Len(pending)
        BY <1>2, <2>2, <3>3, <4>1
      <4> QED
        BY <1>1, <2>1, <4>2
    <3> QED
      BY <3>1, <3>2, <3>3
  <2> QED
    BY <2>1, <2>2
<1>3. CASE current = "tool"
  <2>1. ActiveCalls \in Seq(Calls) /\ Len(ActiveCalls) = Len(active)
        /\ DOMAIN ActiveCalls = DOMAIN active /\ DOMAIN active = 1..Len(active)
    <3>1. \A n \in DOMAIN active : active[n].call \in Calls
      BY ActiveType
    <3> QED
      BY <1>1, <3>1, MapFacts DEF ActiveCalls
  <2>2. \A n \in 1..Len(active) : ActiveCalls[n] = active[n].call
    BY <2>1 DEF ActiveCalls
  <2>3. /\ \A m, n \in 1..Len(ActiveCalls) : ActiveCalls[m] = ActiveCalls[n] => m = n
        /\ \A m \in 1..Len(pending), n \in 1..Len(ActiveCalls) : pending[m] # ActiveCalls[n]
    BY <1>1, <2>1, <2>2 DEF Distinct
  <2>4. FlushedPending = pending \o ActiveCalls
    BY <1>3 DEF FlushedPending
  <2> QED
    BY <1>2, <2>1, <2>3, <2>4
<1>4. CASE current = "text" /\ textCall # NoCall
  <2> DEFINE new == <<textCall>>
  <2>1. new \in Seq(Calls) /\ Len(new) = 1 /\ new[1] = textCall
    BY <1>4 DEF TypeOK
  <2> HIDE DEF new
  <2>2. /\ \A m, n \in 1..Len(new) : new[m] = new[n] => m = n
        /\ \A m \in 1..Len(pending), n \in 1..Len(new) : pending[m] # new[n]
    BY <1>1, <2>1 DEF Distinct
  <2>3. FlushedPending = pending \o new
    BY <1>4 DEF FlushedPending, new
  <2> QED
    BY <1>2, <2>1, <2>2, <2>3
<1>5. CASE ~(current = "tool") /\ ~(current = "text" /\ textCall # NoCall)
  <2>1. FlushedPending = pending \o <<>>
    BY <1>5 DEF FlushedPending
  <2>2. FlushedPending = pending
    BY <1>1, <2>1, ConcatEmptySeq
  <2> QED
    BY <2>2 DEF Distinct
<1> QED
  BY <1>3, <1>4, <1>5

(* A new entry is the only one with its index and its call. *)
LEMMA StartedDistinct ==
  ASSUME TypeOK, Distinct, Collected, NEW i \in Indexes, NEW c \in FreshCalls
  PROVE  \A m, n \in DOMAIN WithStarted(i, c) :
           \/ WithStarted(i, c)[m].index = WithStarted(i, c)[n].index
           \/ WithStarted(i, c)[m].call = WithStarted(i, c)[n].call
           => m = n
<1> DEFINE started == WithStarted(i, c)
           entry == [index |-> i, call |-> c]
<1>1. active \in Seq([index : Indexes, call : Calls]) /\ Len(active) \in Nat
      /\ DOMAIN active = 1..Len(active)
  BY DEF TypeOK
<1>2. \A n \in DOMAIN active : active[n].call # c
  BY DEF Collected, FreshCalls
<1>3. CASE \E m \in DOMAIN active : active[m].index = i
  <2>1. started = [n \in DOMAIN active |-> IF active[n].index = i THEN entry ELSE active[n]]
    BY <1>3 DEF WithStarted
  <2>2. DOMAIN started = DOMAIN active
    BY <2>1
  <2>3. \A n \in DOMAIN active :
          \/ active[n].index = i /\ started[n].index = i /\ started[n].call = c
          \/ active[n].index # i /\ started[n] = active[n]
    BY <2>1
  <2> HIDE DEF started
  <2> QED
    BY <1>2, <2>2, <2>3 DEF started, Distinct
<1>4. CASE ~\E m \in DOMAIN active : active[m].index = i
  <2>1. started = Append(active, entry)
    BY <1>4 DEF WithStarted
  <2> HIDE DEF entry
  <2>2. DOMAIN started = 1..Len(active) + 1 /\ started[Len(active) + 1] = entry
        /\ \A n \in 1..Len(active) : started[n] = active[n]
    BY <1>1, <2>1
  <2>3. entry.index = i /\ entry.call = c
    BY DEF entry
  <2>4. \A n \in DOMAIN started : n \in DOMAIN active \/ n = Len(active) + 1
    BY <1>1, <2>2
  <2>5. \A n \in DOMAIN active : started[n] = active[n]
                                 /\ started[n].index # i /\ started[n].call # c
    BY <1>1, <1>2, <1>4, <2>2
  <2> HIDE DEF started
  <2> QED
    BY <2>2, <2>3, <2>4, <2>5 DEF started, Distinct
<1> QED
  BY <1>3, <1>4

(* Every step keeps the collected calls distinct. *)
LEMMA DistinctStep ==
  ASSUME TypeOK, Collected, Distinct, [Next]_vars
  PROVE  Distinct'
<1>1. ASSUME pending' = pending, active' = active, textCall' = textCall
      PROVE  Distinct'
  BY <1>1 DEF Distinct
<1>2. ASSUME pending' = FlushedPending, active' = <<>>, textCall' = NoCall
      PROVE  Distinct'
  <2>1. \A m \in DOMAIN FlushedPending : FlushedPending[m] # NoCall
    BY FlushedType, NoCallAssumption
  <2> QED
    BY <1>2, <2>1, FlushedDistinct DEF Distinct
<1>3. ASSUME Flush PROVE Distinct'
  <2>1. active' = <<>>
    BY <1>3 DEF Flush, Collected
  <2> QED
    BY <1>2, <1>3, <2>1 DEF Flush
<1>4. ASSUME NEW kind \in {"think", "text"}, NEW call \in Calls \cup {NoCall},
             ProseChunk(kind, call)
      PROVE  Distinct'
  <2>1. /\ active' = <<>> /\ textCall' \in {textCall, call}
        /\ call # NoCall => call \notin spent.calls
        /\ \/ pending' = pending
           \/ pending' = FlushedPending /\ textCall' = call
    BY <1>4 DEF ProseChunk, FreshCalls, Collected
  <2>2. \A m, n \in DOMAIN pending' : pending'[m] = pending'[n] => m = n
    BY <2>1, FlushedDistinct DEF Distinct
  <2>3. pending' \in Seq(spent.calls) /\ pending' \in Seq(Calls)
    BY <2>1, FlushedSpent, FlushedType DEF Collected, TypeOK
  <2>4. \A m \in DOMAIN pending' : pending'[m] # call
    BY <2>1, <2>3, NoCallAssumption
  <2>5. \A m \in DOMAIN pending' : pending'[m] # textCall'
    BY <2>1, <2>4 DEF Distinct
  <2> QED
    BY <2>1, <2>2, <2>5 DEF Distinct
<1>5. ASSUME NEW i \in Indexes, NEW c \in Calls, NEW snapshot \in BOOLEAN,
             CallStart(i, c, snapshot)
      PROVE  Distinct'
  <2>1. /\ c \in FreshCalls /\ active' = WithStarted(i, c) /\ textCall' = NoCall
        /\ pending' = pending \/ pending' = FlushedPending
        /\ current = "tool" => pending' = pending
    BY <1>5 DEF CallStart
  <2>2. \A m, n \in DOMAIN pending' : pending'[m] = pending'[n] => m = n
    BY <2>1, FlushedDistinct DEF Distinct
  <2>3. pending' \in Seq(spent.calls) /\ pending' \in Seq(Calls)
    BY <2>1, FlushedSpent, FlushedType DEF Collected, TypeOK
  <2>4. \A m \in DOMAIN pending' : pending'[m] # NoCall /\ pending'[m] # c
    BY <2>1, <2>3, NoCallAssumption DEF FreshCalls
  <2>5. ASSUME NEW m \in DOMAIN pending', NEW n \in DOMAIN active'
        PROVE  pending'[m] # active'[n].call
    <3>1. CASE active'[n].call = c
      BY <2>4, <3>1
    <3>2. CASE n \in DOMAIN active /\ active'[n] = active[n]
      <4>1. current = "tool"
        BY <3>2 DEF Collected
      <4> QED
        BY <2>1, <3>2, <4>1 DEF Distinct
    <3> QED
      BY <2>1, <3>1, <3>2, StartedFacts
  <2>6. \A m, n \in DOMAIN active' :
          active'[m].index = active'[n].index \/ active'[m].call = active'[n].call => m = n
    BY <2>1, StartedDistinct
  <2> QED
    BY <2>1, <2>2, <2>4, <2>5, <2>6 DEF Distinct
<1>6. ASSUME ResetBuffers PROVE Distinct'
  BY <1>6 DEF ResetBuffers, Distinct
<1>7. CASE UNCHANGED vars \/ Cancel
  BY <1>1, <1>7 DEF vars, Cancel, buffers
<1>8. CASE Opening \/ Answering
  BY <1>1, <1>8 DEF Opening, Start, OpenCancelled, Request, SleepOver, Answering, RequestOk,
     RequestRetried, RequestFailed, buffers
<1>9. CASE Preparing
  BY <1>1, <1>9 DEF Preparing, Prepare, PrepareRaises, buffers
<1>10. CASE Deciding
  BY <1>1, <1>10 DEF Deciding, AskUser, RequestApproval, Proceed, SkipCancelled, SkipRefused,
     GoTo, Answer, buffers
<1>11. CASE Replying
  BY <1>1, <1>11 DEF Replying, UserReplies, Approve, Deny, GoTo, Answer, buffers
<1>12. CASE Running
  BY <1>1, <1>12 DEF Running, Blocked, UnknownTool, StartTool, ToolReturns, GoTo, Answer,
     buffers
<1>13. CASE Cancelled
  BY <1>1, <1>3, <1>13 DEF Cancelled, ConsumeCancelled, AskCancelled, ApprovalCancelled, Answer
<1>14. CASE Sending
  <2>1. CASE StreamError \/ StreamRaises
             \/ (\E n \in DOMAIN active, replace \in BOOLEAN : CallDelta(n, replace))
    BY <1>1, <2>1 DEF StreamError, StreamRaises, CallDelta, buffers
  <2>2. CASE Exhausted \/ Stall
             \/ (\E reason \in {"stop", "length", "tool_use", "error"} : StreamDone(reason))
    BY <1>3, <2>2 DEF Exhausted, Stall, StreamDone
  <2> QED
    BY <1>4, <1>5, <1>14, <2>1, <2>2 DEF Sending
<1>15. CASE Settling
  <2>1. CASE InjectFollowUp \/ RecoverLength \/ RecoverEmpty
    BY <1>6, <2>1 DEF InjectFollowUp, RecoverLength, RecoverEmpty, Recovery
  <2>2. CASE Checkpoint \/ DropFollowUp \/ ToolsProduced \/ Accept \/ EndTurn
    BY <1>1, <2>2 DEF Checkpoint, DropFollowUp, ToolsProduced, Accept, GoTo, EndTurn, buffers
  <2> QED
    BY <1>15, <2>1, <2>2 DEF Settling
<1> QED
  BY <1>7, <1>8, <1>9, <1>10, <1>11, <1>12, <1>13, <1>14, <1>15 DEF Next

(* The calls of a message are a call list of the contract. *)
LEMMA CallsFit ==
  ASSUME TypeOK, Distinct, calls = pending
  PROVE  calls \in Contract!CallLists
<1>1. /\ calls \in [1..Len(calls) -> Calls] /\ Len(calls) \in Nat
      /\ \A m, n \in 1..Len(calls) : calls[m] = calls[n] => m = n
  <2>1. calls \in Seq(Calls) /\ \A m, n \in DOMAIN calls : calls[m] = calls[n] => m = n
    BY DEF TypeOK, Distinct
  <2> QED
    BY <2>1
<1>2. /\ IsFiniteSet(1..Len(calls)) /\ Cardinality(1..Len(calls)) = Len(calls)
      /\ IsFiniteSet(Calls) /\ Cardinality(Calls) \in Nat
  <2>1. IsFiniteSet(1..Len(calls)) /\ Cardinality(1..Len(calls)) = Len(calls)
    <3> DEFINE size == Len(calls)
    <3>1. size \in Int /\ 1 \in Int /\ size >= 0
      BY <1>1
    <3> HIDE DEF size
    <3>2. IsFiniteSet(1..size) /\ Cardinality(1..size) = IF 1 > size THEN 0 ELSE size - 1 + 1
      BY <3>1, FS_Interval
    <3>3. Cardinality(1..size) = size
      BY <3>1, <3>2
    <3> QED
      BY <3>2, <3>3 DEF size
  <2>2. IsFiniteSet(Calls) /\ Cardinality(Calls) \in Nat
    BY FS_CardinalityType, CallsAssumption
  <2> QED
    BY <2>1, <2>2
<1>3. ~(Cardinality(Calls) < Len(calls))
  <2> SUFFICES ASSUME Cardinality(Calls) < Len(calls) PROVE FALSE
    OBVIOUS
  <2>1. \E m, n \in 1..Len(calls) : m # n /\ calls[m] = calls[n]
    BY <1>1, <1>2, FS_PigeonHole
  <2> QED
    BY <1>1, <2>1
<1>4. Len(calls) \in 0..Cardinality(Calls)
  BY <1>1, <1>2, <1>3
<1> QED
  <2> DEFINE size == Len(calls)
  <2>1. calls \in [1..size -> Calls] /\ size \in 0..Cardinality(Calls)
    BY <1>1, <1>4
  <2> HIDE DEF size
  <2>2. [1..size -> Calls] \in {[1..n -> Calls] : n \in 0..Cardinality(Calls)}
    BY <2>1
  <2>3. Contract!Cardinality(Calls) = Cardinality(Calls)
    BY DEF Contract!Cardinality, Cardinality
  <2> QED
    BY <2>1, <2>2, <2>3 DEF Contract!CallLists

(* What the refinement maps a turn's events and its place to. *)
End(e) == [message |-> e.message, calls |-> e.calls, answers |-> ResultCalls(e),
           stop |-> e.stop]
Ends == [n \in DOMAIN turnEnds |-> End(turnEnds[n])]
Status ==
  CASE pc = "done" -> "finished" [] pc = "raised" -> "raised" [] OTHER -> "running"

(* A new TurnEndEvent is a new end. *)
LEMMA AppendedEnd ==
  ASSUME TypeOK, NEW e, turnEnds' = Append(turnEnds, e)
  PROVE  Ends' = Append(Ends, End(e))
<1>1. /\ Len(turnEnds) \in Nat /\ DOMAIN turnEnds = 1..Len(turnEnds)
      /\ DOMAIN turnEnds' = 1..Len(turnEnds) + 1
      /\ \A n \in 1..Len(turnEnds) : turnEnds'[n] = turnEnds[n]
      /\ turnEnds'[Len(turnEnds) + 1] = e
  BY DEF TypeOK
<1>2. Ends = [n \in 1..Len(turnEnds) |-> End(turnEnds[n])]
  BY <1>1 DEF Ends
<1>3. Ends' = [n \in 1..Len(turnEnds) + 1 |-> End(turnEnds'[n])]
  BY <1>1 DEF Ends, End, ResultCalls
<1>4. Len(Ends) = Len(turnEnds) /\ DOMAIN Ends = 1..Len(turnEnds)
  BY <1>1, <1>2
<1> DEFINE Shapes == {End(x) : x \in TurnEnd} \cup {End(e)}
           old == Ends
           new == End(e)
<1>5. Ends \in Seq(Shapes) /\ End(e) \in Shapes
  BY <1>1, <1>2 DEF TypeOK
<1> HIDE DEF Shapes
<1>6. Append(old, new) = [n \in 1..Len(old) + 1 |-> IF n = Len(old) + 1 THEN new ELSE old[n]]
  <2> DEFINE longer == [n \in 1..Len(old) + 1 |-> IF n = Len(old) + 1 THEN new ELSE old[n]]
  <2>1. old \in Seq(Shapes) /\ new \in Shapes
    BY <1>5
  <2> HIDE DEF old, new
  <2>2. /\ Append(old, new) \in Seq(Shapes) /\ Len(Append(old, new)) = Len(old) + 1
        /\ \A n \in 1..Len(old) + 1 : Append(old, new)[n] = longer[n]
    BY <2>1, AppendProperties
  <2>3. longer \in Seq(Shapes) /\ Len(longer) = Len(old) + 1
    BY <2>1
  <2> HIDE DEF longer
  <2>4. Append(old, new) = longer
    BY <2>2, <2>3, SeqEqual
  <2> QED
    BY <2>4 DEF longer
<1>7. Append(Ends, End(e))
        = [n \in 1..Len(turnEnds) + 1 |-> IF n = Len(turnEnds) + 1 THEN End(e) ELSE Ends[n]]
  BY <1>4, <1>6
<1>8. ASSUME NEW n \in 1..Len(turnEnds) + 1
      PROVE  End(turnEnds'[n]) = IF n = Len(turnEnds) + 1 THEN End(e) ELSE Ends[n]
  BY <1>1, <1>2
<1> QED
  BY <1>3, <1>7, <1>8

(* The end without a message. *)
LEMMA FruitlessStep ==
  ASSUME TypeOK, NEW reason \in {"error", "interrupted"}, reason = "interrupted" => cancel,
         EndWithoutMessage(reason), Status = "running", Status' \in {"running", "finished"}
  PROVE  Contract!EndWithoutMessage
<1> DEFINE e == [message |-> FALSE, calls |-> <<>>, results |-> <<>>, stop |-> reason]
<1>1. turnEnds' = Append(turnEnds, e)
  BY DEF EndWithoutMessage
<1>2. End(e) = Contract!Fruitless(reason)
  <2>1. ResultCalls(e) = <<>>
    BY DEF ResultCalls
  <2> QED
    BY <2>1 DEF End, Contract!Fruitless
<1> HIDE DEF e
<1>3. Ends' = Append(Ends, Contract!Fruitless(reason))
  BY <1>1, <1>2, AppendedEnd
<1> QED
  BY <1>3 DEF Contract!EndWithoutMessage, Ends, End, Status

(* The end with the message: its calls are all answered, in their order.   *)
LEMMA MessageStep ==
  ASSUME IInv, Distinct, EndTurn
  PROVE  Contract!EndWithMessage
<1> DEFINE e == [message |-> TRUE, calls |-> calls, results |-> results, stop |-> stop]
<1>1. /\ TypeOK /\ pc = "final" /\ pc' = "done" /\ turnEnds' = Append(turnEnds, e)
      /\ stop \in StopReasons
  BY DEF IInv, EndTurn, TypeOK
<1>2. calls = pending /\ Answered = calls
  BY <1>1, AnsweredPrefix DEF IInv, Matched
<1>3. calls # <<>> => stop # "stop"
  BY <1>1, <1>2 DEF IInv, Honest
<1>4. stop = "interrupted" => cancel
  BY DEF IInv, Agreeing
<1>5. End(e) = Contract!MessageEnd(calls, stop)
  <2>1. ResultCalls(e) = calls
    BY <1>2 DEF ResultCalls, Answered
  <2> QED
    BY <2>1 DEF End, Contract!MessageEnd
<1> HIDE DEF e
<1>6. Ends' = Append(Ends, Contract!MessageEnd(calls, stop))
  BY <1>1, <1>5, AppendedEnd
<1>7. calls \in Contract!CallLists /\ stop \in Contract!StopReasons
  BY <1>1, <1>2, CallsFit DEF StopReasons, Contract!StopReasons
<1>8. Status = "running" /\ Status' = "finished"
  BY <1>1 DEF Status
<1> QED
  BY <1>3, <1>4, <1>6, <1>7, <1>8 DEF Contract!EndWithMessage, Ends, End, Status

(* Where each step leaves the contract: it ends a request, ends the turn,  *)
(* raises, or changes neither the events nor whether the turn runs.        *)
LEMMA StepKinds ==
  ASSUME IInv, [Next]_vars
  PROVE  \/ /\ \E reason \in {"error", "interrupted"} :
                 EndWithoutMessage(reason) /\ (reason = "interrupted" => cancel)
            /\ Status = "running" /\ Status' \in {"running", "finished"}
         \/ EndTurn
         \/ turnEnds' = turnEnds /\ Status = "running" /\ Status' = "raised"
         \/ turnEnds' = turnEnds /\ Status' = Status
<1>1. CASE UNCHANGED vars \/ Cancel
  BY <1>1 DEF vars, Cancel, Status
<1>2. CASE Start
  <2>1. CASE cancel
    BY <1>2, <2>1 DEF Start, Status
  <2>2. CASE ~cancel
    BY <1>2, <2>2 DEF Start, Status
  <2> QED
    BY <2>1, <2>2
<1>3. CASE OpenCancelled \/ RequestFailed
  BY <1>3 DEF OpenCancelled, RequestFailed, NotOpened, Status
<1>4. CASE Request \/ SleepOver \/ RequestOk \/ RequestRetried
  BY <1>4 DEF Request, SleepOver, RequestOk, RequestRetried, Status
<1>5. CASE Prepare \/ PrepareRaises
  BY <1>5 DEF Prepare, PrepareRaises, Status
<1>6. CASE Deciding
  BY <1>6 DEF Deciding, AskUser, RequestApproval, Proceed, SkipCancelled, SkipRefused,
       Takes, GoTo, Answer, Status
<1>7. CASE Replying
  BY <1>7 DEF Replying, UserReplies, Approve, Deny, GoTo, Answer, Status
<1>8. CASE Running
  BY <1>8 DEF Running, Blocked, UnknownTool, StartTool, ToolReturns, GoTo, Answer, Status
<1>9. CASE Cancelled
  BY <1>9 DEF Cancelled, ConsumeCancelled, AskCancelled, ApprovalCancelled, Answer, Status
<1>10. CASE Sending
  BY <1>10 DEF Sending, ProseChunk, CallStart, CallDelta, CanSend, StreamDone, StreamError,
       Exhausted, Stall, StreamRaises, Status
<1>11. CASE Settling
  BY <1>11 DEF Settling, Checkpoint, InjectFollowUp, DropFollowUp, ToolsProduced,
       RecoverLength, RecoverEmpty, Recovery, ResetBuffers, Accept, GoTo, Status
<1> QED
  BY <1>1, <1>2, <1>3, <1>4, <1>5, <1>6, <1>7, <1>8, <1>9, <1>10, <1>11
     DEF Next, Opening, Answering, Preparing

(* A turn begins as the contract does. *)
LEMMA ContractInit ==
  ASSUME Init
  PROVE  Contract!Init /\ Distinct
<1>1. turnEnds = <<>> /\ pc = "start"
  BY DEF Init
<1>2. [n \in DOMAIN turnEnds |->
         [message |-> turnEnds[n].message, calls |-> turnEnds[n].calls,
          answers |-> ResultCalls(turnEnds[n]), stop |-> turnEnds[n].stop]] = <<>>
  BY <1>1
<1>3. Contract!Init
  BY <1>1, <1>2 DEF Contract!Init
<1>4. Distinct
  BY DEF Init, Distinct
<1> QED
  BY <1>3, <1>4

(* Every step is a step of the contract, or leaves it as it is. *)
LEMMA ContractStep ==
  ASSUME IInv, Distinct, [Next]_vars
  PROVE  Contract!Next \/ UNCHANGED <<Ends, Status>>
<1>1. ASSUME turnEnds' = turnEnds
      PROVE  Ends' = Ends
  BY <1>1 DEF Ends, End, ResultCalls
<1>2. ASSUME NEW reason \in {"error", "interrupted"}, EndWithoutMessage(reason),
             reason = "interrupted" => cancel,
             Status = "running", Status' \in {"running", "finished"}
      PROVE  Contract!Next
  BY <1>2, FruitlessStep DEF IInv, Contract!Next
<1>3. CASE EndTurn
  BY <1>3, MessageStep DEF Contract!Next
<1>4. CASE turnEnds' = turnEnds /\ Status = "running" /\ Status' = "raised"
  <2>1. Contract!Raise
    BY <1>1, <1>4 DEF Contract!Raise, Ends, End, Status
  <2> QED
    BY <2>1 DEF Contract!Next
<1>5. CASE turnEnds' = turnEnds /\ Status' = Status
  BY <1>1, <1>5
<1> QED
  BY <1>2, <1>3, <1>4, <1>5, StepKinds

(* The turn implements its contract: whatever the provider, the tools, the *)
(* user and the follow-ups do, the loop sees TurnEndEvents as TurnContract *)
(* allows them, for any calls and any limits.                              *)
THEOREM TurnKeepsContract == Spec => KeepsContract
<1>1. Init => Contract!Init /\ Distinct
  BY ContractInit
<1>2. IInv /\ Distinct /\ [Next]_vars => Distinct'
  BY DistinctStep DEF IInv
<1>3. IInv /\ Distinct /\ [Next]_vars
        => [Contract!Next]_<<[n \in DOMAIN turnEnds |->
             [message |-> turnEnds[n].message, calls |-> turnEnds[n].calls,
              answers |-> ResultCalls(turnEnds[n]), stop |-> turnEnds[n].stop]],
            CASE pc = "done" -> "finished" [] pc = "raised" -> "raised"
              [] OTHER -> "running">>
  BY ContractStep DEF Ends, End, Status
<1> QED
  BY <1>1, <1>2, <1>3, Inductive, PTL DEF Spec, KeepsContract, Contract!Spec
=============================================================================
