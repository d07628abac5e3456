--------------------------- MODULE CodemodeHost ---------------------------
(***************************************************************************)
(* Scripts of the codemode tool (vtx/codemode/host.py, CodemodeSandbox).   *)
(* Each run of a script has a worker process; the host reads its frames,   *)
(* serves the tool calls as tasks of its own and waits for the result.  A  *)
(* compute budget, which stands still while a call is served, a wall clock *)
(* and the caller's abort each kill the worker.  One sandbox serves all    *)
(* the scripts of the process, of the agent and of its sub-agents, and     *)
(* keeps in its own fields why a worker was killed.                        *)
(*                                                                         *)
(* The worker is not trusted to do anything: it sends calls, returns, and  *)
(* exits when it likes.                                                    *)
(***************************************************************************)
EXTENDS Naturals, Sequences, FiniteSets

CONSTANTS
  Runs,       \* executions of scripts on one sandbox
  CallBudget, \* calls that each script may make
  MaxCalls    \* bound: calls that each script tries to make

ASSUME BoundsAssumption == CallBudget \in [Runs -> Nat] /\ MaxCalls \in [Runs -> Nat]

VARIABLES
  run,    \* the executions: pump, worker, pipe, calls, clocks
  flags   \* fields of the sandbox: _timed_out, _wall_clock and _aborted

vars == <<run, flags>>

----------------------------------------------------------------------------
Ids == UNION {1..MaxCalls[r] : r \in Runs}

(* The frame that is not a call.                                           *)
Result == 0

(* What ends a run from outside.                                           *)
Clocks == {"budget", "wall", "abort"}

CallStates == {"unsent", "sent", "running", "answered", "refused", "cancelled"}
Outcomes == {"none", "returned", "timeout", "wall_clock", "aborted", "sandbox", "raised"}

Pumps == {"idle", "reading", "draining", "terminating", "closing", "reaping", "done"}
Active(r) == run[r].pump \notin {"idle", "done"}

InState(r, states) == {id \in Ids : run[r].call[id] \in states}
Running(r) == InState(r, {"running"})

(* Calls that have passed admit(), with success.                           *)
Admitted(r) == InState(r, {"running", "answered", "cancelled"})

(* Mutant: a call is counted when it is answered. *)
SpentWhenAnswered(r) == Cardinality(InState(r, {"answered", "refused", "cancelled"}))

(* Calls counted by admit(): those it has refused too.                     *)
Spent(r) == Cardinality(InState(r, {"running", "answered", "refused", "cancelled"}))

RunType ==
  [pump : Pumps, worker : {"none", "live", "leaving", "gone"}, pipe : Seq(Ids \cup {Result}),
   signalled : BOOLEAN, call : [Ids -> CallStates],
   outcome : Outcomes, past : SUBSET Clocks, alone : BOOLEAN]

(* No script makes more calls than its budget allows, however many it has  *)
(* in flight at once, and an outcome is there from the end of reading on.  *)
TypeOK ==
  /\ run \in [Runs -> RunType]
  /\ \A r \in Runs :
       /\ Cardinality(Admitted(r)) <= CallBudget[r]
       /\ run[r].outcome = "none" <=> run[r].pump \in {"idle", "reading", "draining"}
  /\ flags \in [timed_out : BOOLEAN, wall_clock : BOOLEAN, aborted : BOOLEAN]

Cleared == [timed_out |-> FALSE, wall_clock |-> FALSE, aborted |-> FALSE]

NewRun ==
  [pump |-> "idle", worker |-> "none", pipe |-> <<>>, signalled |-> FALSE,
   call |-> [id \in Ids |-> "unsent"], outcome |-> "none", past |-> {}, alone |-> TRUE]

Init ==
  /\ run = [r \in Runs |-> NewRun]
  /\ flags = Cleared

----------------------------------------------------------------------------
(* The worker (vtx/codemode/sandbox.py).  Asked to terminate it goes on as *)
(* before, for the grace period at most.                                   *)

Up(r) == run[r].worker \in {"live", "leaving"}

(* A thread of the pool may send its call behind the result.  What is sent *)
(* when the host reads no more has no effect, and is left out.             *)
SendCall(r, id) ==
  /\ Up(r) /\ run[r].pump = "reading" /\ id <= MaxCalls[r]
  /\ run[r].call[id] = "unsent" /\ \A other \in 1..(id - 1) : run[r].call[other] # "unsent"
  /\ run' = [run EXCEPT ![r].call[id] = "sent", ![r].pipe = Append(@, id)]
  /\ UNCHANGED flags

(* A script may return while calls it did not await are still served.      *)
SendResult(r) ==
  /\ run[r].worker = "live" /\ run[r].pump = "reading"
  /\ run' = [run EXCEPT ![r].pipe = Append(@, Result), ![r].worker = "leaving"]
  /\ UNCHANGED flags

WorkerExits(r) ==
  /\ Up(r)
  /\ run' = [run EXCEPT ![r].worker = "gone", ![r].signalled = FALSE]
  /\ UNCHANGED flags

----------------------------------------------------------------------------
(* execute() and _pump().                                                  *)

StillAlone(r) == \A other \in Runs \ {r} : ~Active(other)

(* The flags are reset whatever other scripts are running.                 *)
Enter(r, started) ==
  /\ run[r].pump = "idle"
  /\ flags' = Cleared
  /\ run' = [s \in Runs |-> IF s = r THEN [started EXCEPT !.alone = StillAlone(r)]
                            ELSE [run[s] EXCEPT !.alone = @ /\ ~Active(s)]]

Start(r) == Enter(r, [run[r] EXCEPT !.pump = "reading", !.worker = "live"])

(* The worker is gone before it has the request.                           *)
StartFails(r) == Enter(r, [run[r] EXCEPT !.pump = "reaping", !.outcome = "sandbox"])

(* finally: the calls and the clocks are cancelled.                        *)
Closed(x, outcome) ==
  [x EXCEPT !.pump = "closing", !.outcome = outcome, !.pipe = <<>>, !.signalled = FALSE]

(* A call is counted when its frame is read, not when it is answered.      *)
ReadCall(r) ==
  /\ run[r].pump = "reading" /\ run[r].pipe # <<>>
  /\ LET id == Head(run[r].pipe)
     IN  /\ id # Result
         /\ run' = [run EXCEPT ![r].pipe = Tail(@),
                               ![r].call[id] = IF Spent(r) < CallBudget[r] THEN "running"
                                               ELSE "refused"]
  /\ UNCHANGED flags

ReadResult(r) ==
  /\ run[r].pump = "reading" /\ run[r].pipe # <<>> /\ Head(run[r].pipe) = Result
  /\ run' = [run EXCEPT ![r].pipe = Tail(@), ![r].pump = "draining"]
  /\ UNCHANGED flags

(* Mutant: the calls in flight are abandoned. *)
DrainedAtOnce(r) ==
  /\ run[r].pump = "draining"
  /\ run' = [run EXCEPT ![r] = Closed(run[r], "returned")]
  /\ UNCHANGED flags

(* The calls in flight are answered before the result is reported.         *)
Drained(r) ==
  /\ run[r].pump = "draining" /\ Running(r) = {}
  /\ run' = [run EXCEPT ![r] = Closed(run[r], "returned")]
  /\ UNCHANGED flags

(* _terminal_failure(): the fields of the sandbox say why there is no more *)
(* frame.                                                                  *)
Reason ==
  IF flags.timed_out THEN IF flags.wall_clock THEN "wall_clock" ELSE "timeout"
  ELSE IF flags.aborted THEN "aborted" ELSE "sandbox"

ReadEof(r) ==
  /\ run[r].pump = "reading" /\ run[r].pipe = <<>> /\ run[r].worker = "gone"
  /\ run' = [run EXCEPT ![r] = Closed(run[r], Reason)]
  /\ UNCHANGED flags

(* The task that awaits the script is cancelled: the worker is terminated  *)
(* before the cancellation goes on.                                        *)
CancelRun(r) ==
  /\ run[r].pump \in {"reading", "draining"}
  /\ run' = [run EXCEPT ![r].pump = "terminating", ![r].outcome = "raised"]
  /\ UNCHANGED flags

Terminated(r) ==
  /\ run[r].pump = "terminating"
  /\ run' = [run EXCEPT ![r] = [Closed(run[r], "raised") EXCEPT !.worker = "gone"]]
  /\ UNCHANGED flags

(* The cancelled calls have ended.                                         *)
Gathered(r) ==
  /\ run[r].pump = "closing" /\ Running(r) = {}
  /\ run' = [run EXCEPT ![r].pump = "reaping"]
  /\ UNCHANGED flags

(* The pipes are closed and the worker, if it still runs, is killed.       *)
Reap(r) ==
  /\ run[r].pump = "reaping"
  /\ run' = [run EXCEPT ![r].pump = "done", ![r].worker = "gone"]
  /\ UNCHANGED flags

----------------------------------------------------------------------------
(* The tasks of a run.                                                     *)

(* The tool returns or raises, and the reply is written, to a worker that  *)
(* may be gone.                                                            *)
Answer(r, id) ==
  /\ run[r].call[id] = "running"
  /\ run' = [run EXCEPT ![r].call[id] = "answered"]
  /\ UNCHANGED flags

CallCancelled(r, id) ==
  /\ run[r].pump = "closing" /\ run[r].call[id] = "running"
  /\ run' = [run EXCEPT ![r].call[id] = "cancelled"]
  /\ UNCHANGED flags

Blocked(r) == Running(r) # {}

(* A clock runs until the calls and the clocks are cancelled.              *)
Armed(r, c) == run[r].pump \in {"reading", "draining", "terminating"} /\ c \notin run[r].past

(* Any clock terminates the worker; only the budget waits for the calls.   *)
Fires(r, c) ==
  /\ Armed(r, c) /\ (c = "budget" => ~Blocked(r))
  /\ run' = [run EXCEPT ![r].past = @ \cup {c}, ![r].signalled = Up(r)]

FireBudget(r) ==
  /\ ~flags.timed_out
  /\ Fires(r, "budget")
  /\ flags' = [flags EXCEPT !.timed_out = TRUE]

(* Mutant: the wall clock does not say that it was the wall clock. *)
FireWallUnnamed(r) ==
  /\ ~flags.timed_out
  /\ Fires(r, "wall")
  /\ flags' = [flags EXCEPT !.timed_out = TRUE]

(* Mutant: the wall clock waits for the calls, as the budget does. *)
FireWallPaused(r) ==
  /\ ~flags.timed_out /\ ~Blocked(r)
  /\ Fires(r, "wall")
  /\ flags' = [flags EXCEPT !.timed_out = TRUE, !.wall_clock = TRUE]

FireWall(r) ==
  /\ ~flags.timed_out
  /\ Fires(r, "wall")
  /\ flags' = [flags EXCEPT !.timed_out = TRUE, !.wall_clock = TRUE]

FireAbort(r) ==
  /\ Fires(r, "abort")
  /\ flags' = [flags EXCEPT !.aborted = TRUE]

(* A deadline that finds the flag set, by whatever script, does nothing.   *)
ComesLate(r, c) ==
  /\ c # "abort" /\ flags.timed_out
  /\ Armed(r, c) /\ (c = "budget" => ~Blocked(r))
  /\ run' = [run EXCEPT ![r].past = @ \cup {c}]
  /\ UNCHANGED flags

(* The grace period is over.                                               *)
Kill(r) ==
  /\ run[r].signalled
  /\ run' = [run EXCEPT ![r].signalled = FALSE, ![r].worker = "gone"]
  /\ UNCHANGED flags

----------------------------------------------------------------------------
Read(r) == ReadCall(r) \/ ReadResult(r) \/ ReadEof(r)
Finish(r) == Drained(r) \/ Terminated(r) \/ Gathered(r) \/ Reap(r)

Next ==
  \E r \in Runs :
    \/ Start(r) \/ StartFails(r) \/ Read(r) \/ Finish(r) \/ CancelRun(r)
    \/ SendResult(r) \/ WorkerExits(r)
    \/ \E id \in Ids : SendCall(r, id) \/ Answer(r, id) \/ CallCancelled(r, id)
    \/ FireBudget(r) \/ FireWall(r) \/ FireAbort(r) \/ Kill(r)
    \/ \E c \in Clocks : ComesLate(r, c)

Spec == Init /\ [][Next]_vars

(* The event loop runs what can go on, time passes, and a tool that is     *)
(* cancelled ends.  Nothing is assumed of the script, nor of a tool that   *)
(* is left to itself.                                                      *)
FairSpec ==
  /\ Spec
  /\ \A r \in Runs :
       /\ WF_vars(Read(r)) /\ WF_vars(Finish(r))
       /\ WF_vars(FireWall(r)) /\ WF_vars(ComesLate(r, "wall")) /\ WF_vars(Kill(r))
       /\ \A id \in Ids : WF_vars(CallCancelled(r, id))

----------------------------------------------------------------------------
(* Of a run that is over no call is left running, and a script that        *)
(* returned has had every call it started answered or refused: a tool's    *)
(* side effects are accounted for (host.py:490-494).                       *)
EffectsAccounted ==
  \A r \in Runs :
    /\ run[r].pump \in {"reaping", "done"} => Running(r) = {}
    /\ run[r].outcome = "returned" => InState(r, {"running", "cancelled"}) = {}

(* The reason that is reported is one that happened, and a worker that the *)
(* host killed is not reported as a failure of the sandbox, as long as no  *)
(* other script ran on the sandbox at the same time (host.py:671-674).     *)
Because == [timeout |-> {"budget"}, wall_clock |-> {"wall"}, aborted |-> {"abort"}]

ReasonIsTrue ==
  \A r \in Runs :
    run[r].alone =>
      /\ \A o \in DOMAIN Because : run[r].outcome = o => Because[o] \subseteq run[r].past
      /\ run[r].outcome = "sandbox" => run[r].past = {}

(* Whatever the script does, a run that was alone on the sandbox ends: all *)
(* it can wait for without end is a tool that its script did not await.    *)
Waiting(r) == run[r].pump = "draining" /\ Running(r) # {}

WaitsOnlyForTools ==
  \A r \in Runs : []<>(~Active(r) \/ Waiting(r) \/ ~run[r].alone)
=============================================================================
