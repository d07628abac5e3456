----------------------------- MODULE AgentLoop -----------------------------
(***************************************************************************)
(* The agent loop (vtx/agent/loop.py, class Agent): one run per user       *)
(* prompt, one turn of the engine after another until the model stops, the *)
(* user cancels or steers, a turn fails, compaction pauses or the turns    *)
(* are used up.  A turn is any behaviour that keeps TurnContract; the loop *)
(* consumes its events as they come and writes them to the session.  The   *)
(* session outlives the runs, and background tasks settle at any time.     *)
(*                                                                         *)
(* The session is the list of its messages and summaries plus whether its  *)
(* newest runtime checkpoint is active.  The skills catalog message, token *)
(* usage and the observers of the loop are left out.                       *)
(***************************************************************************)
EXTENDS Naturals, Sequences, FiniteSets, SequencesExt

CONSTANTS
  Calls,     \* ids of tool calls a model can make in one turn
  Tasks,     \* the background tasks of the session
  MaxTurns,  \* max_turns of the harness configuration
  Modes,     \* values of compaction_on_overflow in use, see ModesAssumption
  MaxWork,   \* bound: prompts and turns
  MaxEnds    \* bound: TurnEndEvents of one turn

ASSUME CallsAssumption == IsFiniteSet(Calls)
ASSUME TurnsAssumption == MaxTurns \in Nat \ {0}
ASSUME ModesAssumption == Modes \subseteq {"continue", "pause"}
ASSUME BoundsAssumption == MaxWork \in Nat /\ MaxEnds \in Nat

VARIABLES
  pc,          \* where run() is, "idle" between two runs
  work,        \* how much of the bound has been used
  turn,        \* number of the turn
  stop,        \* stop_reason
  interrupted, \* was_interrupted
  cancel,      \* the cancel event of the run
  steer,       \* the steer event of the run
  ends,        \* the TurnEndEvents of the current turn, until it is over
  status,      \* whether the current turn is running, finished or raised
  transcript,  \* the session's messages and compaction entries
  checkpoint,  \* whether the newest runtime checkpoint is active
  settled,     \* the background tasks that are no longer running
  notified,    \* the background tasks drained by the loop
  reported,    \* stop_reason of the run's AgentEndEvent, "none" when there was none
  paused,      \* history: whether a compaction paused the run
  owed         \* history: the tasks that settled before the run began

turnVars == <<ends, status>>
session == <<transcript, checkpoint, notified>>
vars == <<pc, work, turn, stop, interrupted, cancel, steer, turnVars, session, settled,
          reported, paused, owed>>

Turn == INSTANCE TurnContract

----------------------------------------------------------------------------
StopReasons == {"stop", "length", "tool_use", "error", "interrupted", "steer"}
EntryKinds ==
  {"user", "resume", "assistant", "result", "notice", "summary", "continue"}

(* `about` lists the calls of an assistant message, the call of a result   *)
(* and the task of a notice.                                               *)
Entry(kind, about) == [kind |-> kind, about |-> about]

TypeOK ==
  /\ pc \in {"idle", "starting", "top", "turn", "checking", "summarising", "ending"}
  /\ work \in 0..MaxWork /\ turn \in 0..MaxTurns
  /\ stop \in StopReasons /\ reported \in StopReasons \cup {"none"}
  /\ interrupted \in BOOLEAN /\ cancel \in BOOLEAN /\ steer \in BOOLEAN
  /\ ends \in Seq([message : BOOLEAN, calls : Seq(Calls), answers : Seq(Calls),
                   stop : Turn!StopReasons])
  /\ status \in {"running", "finished", "raised"}
  /\ transcript \in Seq([kind : EntryKinds, about : Seq(Calls \cup Tasks)])
  /\ checkpoint \in BOOLEAN /\ paused \in BOOLEAN
  /\ settled \subseteq Tasks /\ notified \subseteq settled /\ owed \subseteq settled

Init ==
  /\ pc = "idle" /\ work = 0 /\ turn = 0 /\ stop = "stop" /\ reported = "none"
  /\ interrupted = FALSE /\ cancel = FALSE /\ steer = FALSE
  /\ ends = <<>> /\ status = "finished"
  /\ transcript = <<>> /\ checkpoint = FALSE
  /\ settled = {} /\ notified = {} /\ paused = FALSE /\ owed = {}

----------------------------------------------------------------------------
(* The world around the loop *)

Cancel ==
  /\ pc # "idle" /\ ~cancel
  /\ cancel' = TRUE
  /\ UNCHANGED <<pc, work, turn, stop, interrupted, steer, turnVars, session, settled,
                 reported, paused, owed>>

Steer ==
  /\ pc # "idle" /\ ~steer
  /\ steer' = TRUE
  /\ UNCHANGED <<pc, work, turn, stop, interrupted, cancel, turnVars, session, settled,
                 reported, paused, owed>>

Settle(t) ==
  /\ t \notin settled
  /\ settled' = settled \cup {t}
  /\ UNCHANGED <<pc, work, turn, stop, interrupted, cancel, steer, turnVars, session,
                 reported, paused, owed>>

----------------------------------------------------------------------------
(* _drain_background_notifications: one notice for each task that settled  *)
(* and was not drained before, appended to the session.                   *)
Drain ==
  LET drained == SetToSeq(settled \ notified)
  IN /\ transcript' =
          transcript \o [n \in DOMAIN drained |-> Entry("notice", <<drained[n]>>)]
     /\ notified' = settled

(* The prompt, then what a checkpoint left of an earlier run.              *)
BeginRun ==
  /\ pc = "idle" /\ work < MaxWork
  /\ pc' = "starting" /\ work' = work + 1 /\ turn' = 0
  /\ cancel' = FALSE /\ steer' = FALSE
  /\ LET prompt == Append(transcript, Entry("user", <<>>))
     IN transcript' = IF checkpoint THEN Append(prompt, Entry("resume", <<>>)) ELSE prompt
  /\ checkpoint' = FALSE
  /\ reported' = "none" /\ paused' = FALSE /\ owed' = settled
  /\ UNCHANGED <<stop, interrupted, turnVars, notified, settled>>

(* Mutant: the tasks that settled while idle wait for the first turn's end. *)
OpenRunUndrained ==
  /\ pc = "starting" /\ pc' = "top"
  /\ UNCHANGED <<work, turn, stop, interrupted, cancel, steer, turnVars, session, settled,
                 reported, paused, owed>>

(* The run is announced, and the tasks that settled while the session was  *)
(* idle are drained.                                                       *)
OpenRun ==
  /\ pc = "starting" /\ pc' = "top"
  /\ Drain
  /\ UNCHANGED <<work, turn, stop, interrupted, cancel, steer, turnVars, checkpoint,
                 settled, reported, paused, owed>>

(* Mutant: the limit on the turns is not looked at. *)
MoreTurnsUnlimited == pc = "top"
MoreTurns == pc = "top" /\ turn < MaxTurns

(* Mutant: a cancel is looked for only after tools ran. *)
SeeCancelAfterTools ==
  /\ MoreTurns /\ cancel /\ stop = "tool_use"
  /\ pc' = "ending" /\ interrupted' = TRUE /\ stop' = "interrupted"
  /\ UNCHANGED <<work, turn, cancel, steer, turnVars, session, settled, reported,
                 paused, owed>>

SeeCancel ==
  /\ MoreTurns /\ cancel
  /\ pc' = "ending" /\ interrupted' = TRUE /\ stop' = "interrupted"
  /\ UNCHANGED <<work, turn, cancel, steer, turnVars, session, settled, reported,
                 paused, owed>>

SeeSteer ==
  /\ MoreTurns /\ ~cancel /\ steer
  /\ pc' = "ending" /\ stop' = "steer"
  /\ UNCHANGED <<work, turn, interrupted, cancel, steer, turnVars, session, settled,
                 reported, paused, owed>>

TurnsUsedUp ==
  /\ pc = "top" /\ turn >= MaxTurns
  /\ pc' = "ending"
  /\ UNCHANGED <<work, turn, stop, interrupted, cancel, steer, turnVars, session, settled,
                 reported, paused, owed>>

StartTurn ==
  /\ MoreTurns /\ ~cancel /\ ~steer /\ work < MaxWork
  /\ pc' = "turn" /\ turn' = turn + 1 /\ work' = work + 1
  /\ ends' = <<>> /\ status' = "running"
  /\ UNCHANGED <<stop, interrupted, cancel, steer, session, settled, reported,
                 paused, owed>>

(* The engine's checkpoint callback, once the calls of an attempt are run. *)
WriteCheckpoint ==
  /\ pc = "turn" /\ status = "running" /\ ~checkpoint
  /\ checkpoint' = TRUE
  /\ UNCHANGED <<pc, work, turn, stop, interrupted, cancel, steer, turnVars, transcript,
                 notified, settled, reported, paused, owed>>

(* Mutant: an interrupted turn leaves its results out. *)
PersistWithoutResults(end) ==
  /\ transcript' = IF end.message THEN Append(transcript, Entry("assistant", end.calls))
                   ELSE transcript
  /\ stop' = end.stop
  /\ interrupted' = (interrupted \/ end.stop = "interrupted")
  /\ checkpoint' = FALSE

(* What the loop does with a TurnEndEvent: message and results go to the   *)
(* session and the checkpoint is cleared.                                  *)
Persist(end) ==
  /\ transcript' =
       (IF end.message THEN Append(transcript, Entry("assistant", end.calls))
                       ELSE transcript)
         \o [n \in DOMAIN end.answers |-> Entry("result", <<end.answers[n]>>)]
  /\ stop' = end.stop
  /\ interrupted' = (interrupted \/ end.stop = "interrupted")
  /\ checkpoint' = FALSE

TurnEnds ==
  /\ pc = "turn" /\ Len(ends) < MaxEnds
  /\ \/ Turn!EndWithoutMessage
     \/ Turn!EndWithMessage
  /\ Persist(Last(ends'))
  /\ UNCHANGED <<pc, work, turn, cancel, steer, notified, settled, reported, paused,
                 owed>>

(* An exception reaches the boundary at the end of run(). *)
TurnRaises ==
  /\ pc = "turn" /\ Turn!Raise
  /\ pc' = "ending" /\ stop' = "error"
  /\ UNCHANGED <<work, turn, interrupted, cancel, steer, session, settled, reported,
                 paused, owed>>

TurnOver ==
  /\ pc = "turn" /\ status = "finished"
  /\ ends' = <<>>
  /\ Drain
  /\ IF interrupted
     THEN pc' = "ending" /\ stop' = "interrupted"
     ELSE IF steer THEN pc' = "ending" /\ stop' = "steer"
     ELSE pc' = "checking" /\ UNCHANGED stop
  /\ UNCHANGED <<work, turn, interrupted, cancel, steer, status, checkpoint, settled,
                 reported, paused, owed>>

----------------------------------------------------------------------------
(* _check_compaction *)

(* An assistant message, whose usage may overflow, since the last summary. *)
HasUsage ==
  \E n \in DOMAIN transcript :
    /\ transcript[n].kind = "assistant"
    /\ \A m \in n..Len(transcript) : transcript[m].kind # "summary"

NoCompaction ==
  /\ pc = "checking"
  /\ pc' = IF stop = "tool_use" THEN "top" ELSE "ending"
  /\ UNCHANGED <<work, turn, stop, interrupted, cancel, steer, turnVars, session, settled,
                 reported, paused, owed>>

StartCompaction ==
  /\ pc = "checking" /\ stop # "error" /\ ~cancel /\ HasUsage
  /\ pc' = "summarising"
  /\ UNCHANGED <<work, turn, stop, interrupted, cancel, steer, turnVars, session, settled,
                 reported, paused, owed>>

(* The configuration in force when the compaction is over decides. *)
AfterCompaction ==
  \E mode \in Modes : /\ pc' = IF mode = "pause" THEN "ending" ELSE "top"
                      /\ paused' = (mode = "pause")

(* Whether the summary is followed by a prompt to continue was decided by  *)
(* the configuration in force when the compaction began.                   *)
SummaryReady ==
  /\ pc = "summarising"
  /\ \E planned \in Modes :
       transcript' = transcript \o
         (IF planned = "continue"
          THEN <<Entry("summary", <<>>), Entry("continue", <<>>)>>
          ELSE <<Entry("summary", <<>>)>>)
  /\ AfterCompaction
  /\ UNCHANGED <<work, turn, stop, interrupted, cancel, steer, turnVars, checkpoint,
                 notified, settled, reported, owed>>

(* The summary could not be generated: the compaction ends, aborted. *)
SummaryFails ==
  /\ pc = "summarising"
  /\ AfterCompaction
  /\ UNCHANGED <<work, turn, stop, interrupted, cancel, steer, turnVars, session, settled,
                 reported, owed>>

----------------------------------------------------------------------------
(* AgentEndEvent and the final drain.  The turn limit is reported as such  *)
(* when it cut a run that wanted to go on.                                 *)
(* Mutant: a run cut by the turn limit reports its last turn's reason. *)
EndReasonOfTurn == stop
EndReason ==
  IF turn >= MaxTurns /\ ~interrupted /\ stop = "tool_use" THEN "length" ELSE stop

(* What run() keeps for itself is gone with it. *)
Leave == pc' = "idle" /\ ends' = <<>> /\ stop' = "stop" /\ interrupted' = FALSE

EndRun ==
  /\ pc = "ending"
  /\ Leave
  /\ reported' = EndReason
  /\ Drain
  /\ UNCHANGED <<work, turn, cancel, steer, status, checkpoint, settled, paused, owed>>

(* The task that consumes the run is cancelled, or stops consuming it: the *)
(* run is left at the await or the yield where it is, past every handler   *)
(* of its own.  No turn finishes, nothing is drained or reported, and a    *)
(* checkpoint stays as it is.                                              *)
AbandonRun ==
  /\ pc # "idle"
  /\ Leave
  /\ turn' = 0 /\ cancel' = FALSE /\ steer' = FALSE /\ paused' = FALSE
  /\ UNCHANGED <<work, status, session, settled, reported, owed>>

(* The same between the AgentEndEvent and the final drain. *)
AbandonReported ==
  /\ pc = "ending"
  /\ Leave
  /\ reported' = EndReason
  /\ UNCHANGED <<work, turn, cancel, steer, status, session, settled, paused, owed>>

LoopStep ==
  OpenRun \/ SeeCancel \/ SeeSteer \/ TurnsUsedUp \/ StartTurn \/ TurnOver
    \/ NoCompaction \/ StartCompaction \/ SummaryReady \/ SummaryFails \/ EndRun

Next ==
  \/ Cancel \/ Steer \/ (\E t \in Tasks : Settle(t))
  \/ BeginRun \/ LoopStep \/ WriteCheckpoint \/ TurnEnds \/ TurnRaises
  \/ AbandonRun \/ AbandonReported

Spec == Init /\ [][Next]_vars

(* The event loop resumes the coroutine, a summary succeeds or fails, and  *)
(* a turn that is cancelled finishes (CancelEndsTurn of AgentTurn).        *)
FairSpec ==
  /\ Spec
  /\ WF_vars(LoopStep)
  /\ WF_vars(cancel /\ (TurnEnds \/ TurnRaises) /\ status' # "running")

----------------------------------------------------------------------------
(* Properties *)

(* A task that finished while the session was idle is in the session       *)
(* before the first request of the next run (loop.py:269-275).             *)
IdleSettledIsSeen ==
  pc = "turn" => \A t \in owed : Contains(transcript, Entry("notice", <<t>>))

(* Each tool call of an assistant message in the session is answered right *)
(* behind the message, and no result stands anywhere else, whatever        *)
(* notices, summaries and failed turns come between the messages.          *)
Answers(n) ==
  [k \in 1..Len(transcript[n].about) |-> Entry("result", <<transcript[n].about[k]>>)]
TranscriptPaired ==
  /\ \A n \in DOMAIN transcript :
       transcript[n].kind = "assistant" =>
         IsPrefix(Answers(n), SubSeq(transcript, n + 1, Len(transcript)))
  /\ \A n \in DOMAIN transcript :
       transcript[n].kind = "result" =>
         \E m \in 1..(n - 1) :
           transcript[m].kind = "assistant" /\ n <= m + Len(transcript[m].about)

(* The reason reported for a run is the true one: it was cancelled or      *)
(* steered if that is said, a run reported as complete has a last message  *)
(* without calls, and only a pause of compaction leaves results that the   *)
(* model was not shown although the turn asked to be continued.  What the  *)
(* next run resumes is a turn that never finished (loop.py:260-267): it    *)
(* raised, or the run was abandoned within it.                             *)
LastAnswer == SelectLastInSeq(transcript, LAMBDA e : e.kind = "assistant")
EndIsTruthful ==
  pc = "idle" =>
    /\ reported = "interrupted" => cancel
    /\ reported = "steer" => steer
    /\ reported = "stop" => transcript[LastAnswer].about = <<>>
    /\ reported = "tool_use" => paused /\ turn < MaxTurns
    /\ checkpoint => status # "finished"

(* A cancelled run ends. *)
CancelEndsRun == cancel ~> pc = "idle"
============================================================================
