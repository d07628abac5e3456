------------------------- MODULE SubagentScheduler -------------------------
(***************************************************************************)
(* The process-wide admission queue for sub-agents                         *)
(* (vtx/agent/subagents.py, class SubagentScheduler) and the callers that  *)
(* go through it (_run_subagent in vtx/agent/tools/task.py).               *)
(*                                                                         *)
(* One asyncio loop runs everything, so an action is the code between two  *)
(* suspension points.  A waiter future and the task that awaits it change  *)
(* at different moments: set_result or cancel marks the future at once,    *)
(* the task only learns of it when the loop runs it again.  That gap is    *)
(* what this module is about.                                              *)
(*                                                                         *)
(* Names that every module has are prefixed here (SchedInit, SchedNext),   *)
(* so that a module can extend this one and BackgroundTasks together.      *)
(***************************************************************************)
EXTENDS Naturals, Sequences, FiniteSets, SequencesExt

CONSTANTS Agents,      \* the dispatches that ask for a slot, each at most once
          Limits,      \* the values task.max_concurrent takes; 0 is unlimited
          MaxCancels,  \* bound: cancellations of a queued dispatch
          MaxResizes,  \* bound: config reloads that change the limit
          MaxResets    \* bound: calls of reset()

ASSUME AgentsAssumption == IsFiniteSet(Agents)
ASSUME CapsAssumption == Limits # {} /\ Limits \subseteq Nat
ASSUME BoundsAssumption ==
  MaxCancels \in Nat /\ MaxResizes \in Nat /\ MaxResets \in Nat

VARIABLES limit,     \* SubagentScheduler._limit
          running,   \* SubagentScheduler._running
          waiters,   \* SubagentScheduler._waiters: whose future is queued
          future,    \* the state of each dispatch's waiter future
          pc,        \* where each dispatch's task is
          spent      \* how much of each bound has been used

schedVars == <<limit, running, waiters, future, pc, spent>>

----------------------------------------------------------------------------
Unlimited == 0

(* A dispatch parks at most once: its future is removed or popped before   *)
(* its task runs again, so the queue is given by the dispatches' names.    *)
Parked(i) == future[waiters[i]] = "pending"

(* Dispatches that own a slot: in flight, or handed one that their task    *)
(* has not been resumed to use, or to pass on, yet.                        *)
Slots == {a \in Agents : \/ pc[a] = "running"
                         \/ pc[a] \in {"queued", "unwinding"}
                            /\ future[a] = "granted"}

(* Dispatches that were cancelled after they were handed a slot: _running  *)
(* still counts it, although nobody will ever give it back.                *)
Lost == {a \in Agents : pc[a] = "leaked"}

(* Mutant: an off-by-one in the admission test.                            *)
AdmitsNowOffByOne == limit = Unlimited \/ running <= limit


AdmitsNow == limit = Unlimited \/ running < limit

(* n >= 1 rounds of _release_next when `count` slots are counted: pop      *)
(* waiters, skip the ones already done, and complete the next pending one. *)
(* The prefix that is popped ends with the n-th pending waiter, or is the  *)
(* whole queue when there are fewer.                                       *)
HandOver(n, count) ==
  \E k \in 0..Len(waiters) :
    LET woken == {i \in 1..k : Parked(i)} IN
      /\ \/ Cardinality(woken) = n /\ k \in woken
         \/ Cardinality(woken) < n /\ k = Len(waiters)
      /\ waiters' = SubSeq(waiters, k + 1, Len(waiters))
      /\ running' = count + Cardinality(woken)
      /\ future' = [a \in Agents |-> IF \E i \in woken : waiters[i] = a
                                     THEN "granted" ELSE future[a]]

(* Mutant: a release gives up at a waiter that is already done.            *)
ReleaseNextStopsAtDone(count) ==
  IF waiters # <<>> /\ ~Parked(1)
  THEN /\ waiters' = Tail(waiters)
       /\ running' = count
       /\ UNCHANGED future
  ELSE HandOver(1, count)


ReleaseNext(count) == HandOver(1, count)

----------------------------------------------------------------------------
SchedInit ==
  /\ limit \in Limits
  /\ running = 0
  /\ waiters = <<>>
  /\ future = [a \in Agents |-> "none"]
  /\ pc = [a \in Agents |-> "idle"]
  /\ spent = [cancels |-> 0, resizes |-> 0, resets |-> 0]

(* acquire() up to its suspension point, or all of it when a slot is free. *)
AcquireNow(a) ==
  /\ pc[a] = "idle"
  /\ AdmitsNow
  /\ running' = running + 1
  /\ pc' = [pc EXCEPT ![a] = "running"]
  /\ UNCHANGED <<limit, waiters, future, spent>>

AcquireQueued(a) ==
  /\ pc[a] = "idle"
  /\ ~AdmitsNow
  /\ waiters' = Append(waiters, a)
  /\ future' = [future EXCEPT ![a] = "pending"]
  /\ pc' = [pc EXCEPT ![a] = "queued"]
  /\ UNCHANGED <<limit, running, spent>>

(* The loop resumes a task whose future was completed: acquire() returns.  *)
Resume(a) ==
  /\ pc[a] = "queued"
  /\ future[a] = "granted"
  /\ pc' = [pc EXCEPT ![a] = "running"]
  /\ UNCHANGED <<limit, running, waiters, future, spent>>

(* The task of a queued dispatch is cancelled.  A pending future is        *)
(* cancelled with it; a completed one stays completed.  Either way the     *)
(* task sees CancelledError only when it next runs.                        *)
Cancel(a) ==
  /\ pc[a] = "queued"
  /\ spent.cancels < MaxCancels
  /\ pc' = [pc EXCEPT ![a] = "unwinding"]
  /\ future' = [future EXCEPT ![a] = IF @ = "pending" THEN "cancelled" ELSE @]
  /\ spent' = [spent EXCEPT !.cancels = @ + 1]
  /\ UNCHANGED <<limit, running, waiters>>

(* acquire()'s except branch, for a future that was cancelled while        *)
(* queued and for one that had already been completed.                     *)
UnwindCancelled(a) ==
  /\ pc[a] = "unwinding"
  /\ future[a] = "cancelled"
  /\ IF \E i \in 1..Len(waiters) : waiters[i] = a
     THEN \E i \in 1..Len(waiters) :
            waiters[i] = a /\ waiters' = RemoveAt(waiters, i)
     ELSE UNCHANGED waiters
  /\ pc' = [pc EXCEPT ![a] = "gone"]
  /\ UNCHANGED <<limit, running, future, spent>>

UnwindGranted(a) ==
  /\ pc[a] = "unwinding"
  /\ future[a] = "granted"
  /\ ReleaseNext(running)
  /\ pc' = [pc EXCEPT ![a] = "leaked"]
  /\ UNCHANGED <<limit, spent>>

(* Mutant: release() without its guard. *)
ReleaseUnguarded(a) ==
  /\ pc[a] = "running"
  /\ ReleaseNext(running - 1)
  /\ pc' = [pc EXCEPT ![a] = "gone"]
  /\ UNCHANGED <<limit, spent>>

(* The run ends, normally, by an exception or cancelled: release().        *)
Release(a) ==
  /\ pc[a] = "running"
  /\ ReleaseNext(IF running > 0 THEN running - 1 ELSE running)
  /\ pc' = [pc EXCEPT ![a] = "gone"]
  /\ UNCHANGED <<limit, spent>>

(* Mutant: the limit is raised without starting what is queued.            *)
SetLimitWithoutDrain(l) ==
  /\ l # limit
  /\ spent.resizes < MaxResizes
  /\ limit' = l
  /\ spent' = [spent EXCEPT !.resizes = @ + 1]
  /\ UNCHANGED <<running, waiters, future, pc>>

(* Mutant: drain() starts `limit` dispatches on top of those that run.     *)
SetLimitOverfills(l) ==
  /\ l # limit
  /\ spent.resizes < MaxResizes
  /\ limit' = l
  /\ spent' = [spent EXCEPT !.resizes = @ + 1]
  /\ IF l # Unlimited /\ running >= l
     THEN UNCHANGED <<running, waiters, future>>
     ELSE HandOver(IF l = Unlimited THEN Len(waiters) + 1 ELSE l, running)
  /\ UNCHANGED pc

(* A config reload: set_limit() and the drain() it ends with.              *)
SetLimit(l) ==
  /\ l # limit
  /\ spent.resizes < MaxResizes
  /\ limit' = l
  /\ spent' = [spent EXCEPT !.resizes = @ + 1]
  /\ IF l # Unlimited /\ running >= l
     THEN UNCHANGED <<running, waiters, future>>
     ELSE HandOver(IF l = Unlimited THEN Len(waiters) + 1 ELSE l - running,
                   running)
  /\ UNCHANGED pc

(* reset(): every waiter is cancelled and the count forgotten, and with it *)
(* the slots that were lost; the runs in flight are not.                   *)
Reset ==
  /\ spent.resets < MaxResets
  /\ LET parked == {a \in Agents : \E i \in 1..Len(waiters) :
                                     waiters[i] = a /\ Parked(i)}
     IN /\ future' = [a \in Agents |->
                        IF a \in parked THEN "cancelled" ELSE future[a]]
        /\ pc' = [a \in Agents |-> IF a \in parked THEN "unwinding"
                                   ELSE IF a \in Lost THEN "gone" ELSE pc[a]]
  /\ waiters' = <<>>
  /\ running' = 0
  /\ spent' = [spent EXCEPT !.resets = @ + 1]
  /\ UNCHANGED limit

Acquire(a) == AcquireNow(a) \/ AcquireQueued(a)
Unwind(a) == UnwindCancelled(a) \/ UnwindGranted(a)

SchedNext ==
  \/ \E a \in Agents : \/ Acquire(a) \/ Resume(a) \/ Cancel(a)
                       \/ Unwind(a) \/ Release(a)
  \/ \E l \in Limits : SetLimit(l)
  \/ Reset

SchedSpec == SchedInit /\ [][SchedNext]_schedVars

(* The loop runs every task that is ready, and a sub-agent that was        *)
(* admitted ends: its run is bounded by max_turns and a stream time-out.   *)
(* Nothing obliges a dispatch to arrive, a cancel or a reload to happen.   *)
Fairness ==
  \A a \in Agents : /\ WF_schedVars(Resume(a))
                    /\ WF_schedVars(Unwind(a))
                    /\ WF_schedVars(Release(a))

SchedFairSpec == SchedSpec /\ Fairness

----------------------------------------------------------------------------
(* Type correctness of the scheduler's fields and of the tasks around it.  *)
SchedTypeOK ==
  /\ limit \in Limits
  /\ running \in Nat
  /\ waiters \in Seq(Agents)
  /\ future \in [Agents -> {"none", "pending", "granted", "cancelled"}]
  /\ pc \in [Agents -> {"idle", "queued", "unwinding", "running", "leaked",
                       "gone"}]
  /\ spent \in [cancels : Nat, resizes : Nat, resets : Nat]

(* No wake-up is lost: as long as a dispatch waits on a pending future,    *)
(* the count has reached the limit.  It speaks of the count alone; what    *)
(* the count stands for is SlotsUsed's business (subagents.py:79-87,       *)
(* 102-105).                                                               *)
WaitersImplySaturation ==
  (\E i \in 1..Len(waiters) : Parked(i))
    => limit # Unlimited /\ running >= limit

(* _running never counts fewer slots than are really in use, so an         *)
(* arrival is never admitted over the limit because of a miscount.  It     *)
(* holds as long as reset() is not called while runs are in flight.        *)
CountCoversSlots ==
  spent.resets = 0 => Cardinality(Slots) <= running

(* Never more sub-agents in flight than the largest limit the config ever  *)
(* had, whatever the order of arrivals, cancellations, hand-overs and      *)
(* reloads (module doc: it caps how many sub-agents may be in flight).     *)
InFlightBound ==
  spent.resets = 0 /\ Unlimited \notin Limits
    => \E m \in Limits : Cardinality(Slots) <= m

(* A dispatch waits only while every slot of the cap is taken: by somebody *)
(* who has it in flight or is being resumed, or by one that was cancelled  *)
(* with the slot in hand and took it along (subagents.py:66-69).  Only     *)
(* such a lost slot can lie idle beside somebody who waits.                *)
SlotsUsed ==
  (\E i \in 1..Len(waiters) : Parked(i))
    => limit # Unlimited /\ Cardinality(Slots \cup Lost) >= limit

(* While reset() is not called, the number in flight rises only up to the  *)
(* cap of the moment, by an arrival as by a reload that starts what is     *)
(* queued (subagents.py:50, 104).  It does not say that the number falls   *)
(* to a cap that was lowered: release() hands every slot over as it is     *)
(* given back, so it may stay above for as long as somebody is queued.     *)
CapKept ==
  spent'.resets = 0 /\ Cardinality(Slots') > Cardinality(Slots)
    => limit' = Unlimited \/ Cardinality(Slots') <= limit'

(* The cap is used and kept, also while a reload of the config moves it    *)
(* (set_limit) and dispatches are cancelled as they are woken: no step     *)
(* leaves somebody waiting beside a slot that is neither in use nor lost,  *)
(* and none takes the number in flight over the cap.                       *)
CapUsedAndKept == [][SlotsUsed' /\ CapKept]_schedVars

(* First come, first served: a step that gives a dispatch a slot leaves    *)
(* nobody pending who was ahead of it, and everybody parked is ahead of a  *)
(* new arrival (subagents.py:67-68, "a fresh arrival cannot barge ahead"). *)
Ahead(a) == {i \in 1..Len(waiters) :
               Parked(i) /\ \A j \in 1..i : waiters[j] # a}

GrantsInOrder ==
  [][\A a \in Slots' \ Slots :
       \A i \in Ahead(a) : future'[waiters[i]] # "pending"]_schedVars

(* The counts shown are real: _running is the number of slots in use       *)
(* (module doc, subagents.py:6-7).                                         *)
RealCounts == running = Cardinality(Slots)

(* A parked dispatch does not wait for ever: it gets a slot or gives up.   *)
QueueKeepsMoving ==
  \A a \in Agents : pc[a] = "queued" ~> pc[a] # "queued"

(* The same, in executions where no slot is ever lost.                     *)
QueueMovesWhileCountsReal == []RealCounts => QueueKeepsMoving
============================================================================
