------------------------ MODULE CodemodeHost_proofs ------------------------
(***************************************************************************)
(* Theorems about the codemode host, for any number of scripts on one      *)
(* sandbox, any call budgets and any number of calls they try to make.     *)
(***************************************************************************)
EXTENDS CodemodeHost, TLAPS, FiniteSetTheorems, SequenceTheorems

----------------------------------------------------------------------------
(* The inductive invariant, run by run *)

Types ==
  /\ run \in [Runs -> RunType]
  /\ flags \in [timed_out : BOOLEAN, wall_clock : BOOLEAN, aborted : BOOLEAN]

Within(x, states) == {id \in Ids : x.call[id] \in states}

(* Only calls the script can make are made, and no more than its budget.   *)
Budgeted(r, x) ==
  /\ \A id \in Ids : x.call[id] # "unsent" => id <= MaxCalls[r]
  /\ \A n \in 1 .. Len(x.pipe) : x.pipe[n] # Result => x.pipe[n] <= MaxCalls[r]
  /\ Cardinality(Within(x, {"running", "answered", "cancelled"})) <= CallBudget[r]

(* What is settled by the point the pump has come to. *)
Phased(x) ==
  /\ x.outcome = "none" <=> x.pump \in {"idle", "reading", "draining"}
  /\ x.pump = "idle" => x.past = {} /\ Within(x, CallStates \ {"unsent"}) = {}
  /\ x.pump = "terminating" => x.outcome = "raised"
  /\ x.pump \notin {"closing", "reaping", "done"} => Within(x, {"cancelled"}) = {}
  /\ x.pump \in {"reaping", "done"} => Within(x, {"running"}) = {}
  /\ x.outcome = "returned" => Within(x, {"running", "cancelled"}) = {}

(* As long as a run is alone, the flags of the sandbox are its own.        *)
Told(x) ==
  x.alone /\ x.pump \notin {"idle", "done"} =>
    /\ flags.timed_out <=> x.past \cap {"budget", "wall"} # {}
    /\ flags.wall_clock => "wall" \in x.past
    /\ flags.timed_out /\ ~flags.wall_clock => "budget" \in x.past
    /\ flags.aborted <=> "abort" \in x.past

Reasoned(x) ==
  x.alone =>
    /\ \A o \in DOMAIN Because : x.outcome = o => Because[o] \subseteq x.past
    /\ x.outcome = "sandbox" => x.past = {}

Solitary ==
  \A r \in Runs : run[r].alone /\ Active(r) => \A s \in Runs \ {r} : ~Active(s)

IInv ==
  /\ Types
  /\ \A r \in Runs : /\ Budgeted(r, run[r]) /\ Phased(run[r])
                     /\ Told(run[r]) /\ Reasoned(run[r])
  /\ Solitary

----------------------------------------------------------------------------
(* One record of a run *)

(* No call has the id of the script's own result. *)
LEMMA IdsArePositive == \A id \in Ids : id \in Nat /\ id # Result
BY BoundsAssumption DEF Ids, Result

(* The calls that were made are finitely many. *)
LEMMA WithinIsFinite ==
  ASSUME NEW r \in Runs, NEW x \in RunType, Budgeted(r, x),
         NEW states, "unsent" \notin states
  PROVE  /\ IsFiniteSet(Within(x, states)) /\ Within(x, states) \subseteq Ids
         /\ Cardinality(Within(x, states)) \in Nat
<1>1. MaxCalls[r] \in Nat
  BY BoundsAssumption
<1>2. Within(x, states) \subseteq 1 .. MaxCalls[r]
  <2> SUFFICES ASSUME NEW id \in Ids, x.call[id] \in states
               PROVE  id \in 1 .. MaxCalls[r]
    BY DEF Within
  <2>1. id <= MaxCalls[r]
    BY DEF Budgeted
  <2> QED
    BY <1>1, <2>1, IdsArePositive DEF Result
<1>3. IsFiniteSet(1 .. MaxCalls[r])
  BY <1>1, FS_Interval
<1>4. IsFiniteSet(Within(x, states))
  BY <1>2, <1>3, FS_Subset
<1> QED
  BY <1>4, FS_CardinalityType DEF Within

(* Frames are read one by one, or thrown away. *)
LEMMA ReadsFewer ==
  ASSUME NEW r \in Runs, NEW x \in RunType, Budgeted(r, x), NEW y \in RunType,
         y.call = x.call,
         y.pipe \in {x.pipe, <<>>} \/ (x.pipe # <<>> /\ y.pipe = Tail(x.pipe))
  PROVE  Budgeted(r, y)
<1>1. x.pipe \in Seq(Ids \cup {Result})
  BY DEF RunType
<1>2. \A n \in 1 .. Len(x.pipe) : x.pipe[n] # Result => x.pipe[n] <= MaxCalls[r]
  BY DEF Budgeted
<1>3. \A n \in 1 .. Len(y.pipe) : y.pipe[n] # Result => y.pipe[n] <= MaxCalls[r]
  <2>1. CASE y.pipe = x.pipe
    BY <1>2, <2>1
  <2>2. CASE y.pipe = <<>>
    BY <2>2
  <2>3. CASE x.pipe # <<>> /\ y.pipe = Tail(x.pipe)
    <3>1. /\ Len(x.pipe) \in Nat /\ Len(y.pipe) = Len(x.pipe) - 1
          /\ \A n \in 1 .. Len(y.pipe) : y.pipe[n] = x.pipe[n + 1]
      BY <1>1, <2>3, HeadTailProperties
    <3> QED
      BY <1>2, <3>1
  <2> QED
    BY <2>1, <2>2, <2>3
<1>4. Within(y, {"running", "answered", "cancelled"})
        = Within(x, {"running", "answered", "cancelled"})
  BY DEF Within
<1> QED
  BY <1>3, <1>4 DEF Budgeted

----------------------------------------------------------------------------
(* Steps of one run, one lemma for each kind of step *)

(* A run's record, whatever the flags say. *)
Sound(r, x) == x \in RunType /\ Budgeted(r, x) /\ Phased(x) /\ Reasoned(x)

(* The step is the run's own: the other records stay, and it becomes y,    *)
(* which is sound and goes on only where the run went on before.           *)
Becomes(r, y) == run' = [run EXCEPT ![r] = y]
Follows(r, y) ==
  /\ Becomes(r, y) /\ Sound(r, y) /\ y.alone = run[r].alone
  /\ y.pump \in {"idle", "done"} \/ Active(r)

(* A step of one run leaves the others as they are. *)
LEMMA OthersStay ==
  ASSUME run \in [Runs -> RunType], NEW r \in Runs, NEW y, Becomes(r, y)
  PROVE  run'[r] = y /\ \A s \in Runs \ {r} : run'[s] = run[s]
BY DEF Becomes

(* The clocks, the worker and the pump move, the calls do not. *)
LEMMA CallsStay ==
  ASSUME NEW r \in Runs, NEW x, Sound(r, x), NEW y \in RunType,
         y.call = x.call, y.alone = x.alone, Budgeted(r, y),
         y.outcome = x.outcome, y.pump = x.pump \/ (x.pump = "reading" /\ y.pump = "draining"),
         \/ y.past = x.past
         \/ x.past \subseteq y.past /\ x.pump \in {"reading", "draining", "terminating"}
  PROVE  Sound(r, y)
<1>1. \A states : Within(y, states) = Within(x, states)
  BY DEF Within
<1>2. Phased(y)
  BY <1>1 DEF Sound, Phased
<1>3. Reasoned(y)
  <2>1. CASE y.past = x.past
    BY <2>1 DEF Sound, Reasoned
  <2>2. CASE x.pump \in {"reading", "draining", "terminating"}
    <3>1. y.outcome \in {"none", "raised"}
      BY <2>2 DEF Sound, Phased
    <3> QED
      BY <3>1 DEF Reasoned, Because
  <2> QED
    BY <2>1, <2>2
<1> QED
  BY <1>2, <1>3 DEF Sound

(* One call goes from one state to another. *)
LEMMA CallMoves ==
  ASSUME NEW r \in Runs, NEW x, Sound(r, x), NEW y \in RunType,
         NEW id \in Ids, NEW to \in CallStates, y.call = [x.call EXCEPT ![id] = to],
         y.pump = x.pump, y.outcome = x.outcome, y.past = x.past, y.alone = x.alone,
         x.pump \in {"reading", "draining", "terminating", "closing"},
         to = "running" => x.pump # "closing",
         to = "cancelled" => x.pump = "closing" /\ x.call[id] = "running"
  PROVE  Phased(y) /\ Reasoned(y)
<1>1. x \in RunType /\ Phased(x) /\ Reasoned(x)
  BY DEF Sound
<1>2. x.call \in [Ids -> CallStates] /\ y.call[id] = to
      /\ \A other \in Ids \ {id} : y.call[other] = x.call[other]
  BY <1>1 DEF RunType
<1>3. y.pump \notin {"closing", "reaping", "done"} => Within(y, {"cancelled"}) = {}
  BY <1>1, <1>2 DEF Phased, Within
<1>4. y.outcome = "returned" => Within(y, {"running", "cancelled"}) = {}
  BY <1>1, <1>2 DEF Phased, Within
<1>5. Phased(y)
  BY <1>1, <1>3, <1>4 DEF Phased
<1> QED
  BY <1>1, <1>5 DEF Reasoned

(* A call that is sent, counted, answered or cancelled. *)
LEMMA SendCallStep ==
  ASSUME Types, NEW r \in Runs, Sound(r, run[r]), NEW id \in Ids, SendCall(r, id)
  PROVE  \E y : Follows(r, y) /\ y.past = run[r].past
<1> DEFINE x == run[r]
           y == [x EXCEPT !.call[id] = "sent", !.pipe = Append(@, id)]
<1>1. Becomes(r, y) /\ x.pump = "reading" /\ id <= MaxCalls[r] /\ x.call[id] = "unsent"
  BY DEF SendCall, Becomes, Types
<1>2. x \in RunType /\ x.pipe \in Seq(Ids \cup {Result})
  BY DEF Types, RunType
<1>3. /\ y.call = [x.call EXCEPT ![id] = "sent"] /\ y.pipe = Append(x.pipe, id)
      /\ y.pump = x.pump /\ y.outcome = x.outcome /\ y.past = x.past /\ y.alone = x.alone
  BY <1>2 DEF RunType
<1>4. y \in RunType
  <2>1. y.call \in [Ids -> CallStates] /\ y.pipe \in Seq(Ids \cup {Result})
    BY <1>2, <1>3, AppendProperties DEF RunType, CallStates
  <2> QED
    BY <1>2, <2>1 DEF RunType
<1> HIDE DEF x, y
<1>5. Sound(r, x)
  BY DEF x
<1>6. Phased(y) /\ Reasoned(y)
  BY <1>1, <1>3, <1>4, <1>5, CallMoves DEF CallStates
<1>7. Budgeted(r, y)
  <2>1. \A other \in Ids : y.call[other] # "unsent" => other <= MaxCalls[r]
    BY <1>1, <1>2, <1>3, <1>5 DEF Sound, Budgeted, RunType
  <2>2. ASSUME NEW n \in 1 .. Len(y.pipe), y.pipe[n] # Result
        PROVE  y.pipe[n] <= MaxCalls[r]
    <3>1. /\ Len(x.pipe) \in Nat /\ Len(y.pipe) = Len(x.pipe) + 1
          /\ \A m \in 1 .. Len(x.pipe) : y.pipe[m] = x.pipe[m]
          /\ y.pipe[Len(x.pipe) + 1] = id
      BY <1>2, <1>3, AppendProperties
    <3>2. n \in 1 .. Len(x.pipe) \/ n = Len(x.pipe) + 1
      BY <3>1
    <3> QED
      BY <1>1, <1>5, <2>2, <3>1, <3>2 DEF Sound, Budgeted
  <2>3. Within(y, {"running", "answered", "cancelled"})
          = Within(x, {"running", "answered", "cancelled"})
    BY <1>1, <1>2, <1>3 DEF Within, RunType
  <2> QED
    BY <1>5, <2>1, <2>2, <2>3 DEF Sound, Budgeted
<1> QED
  BY <1>1, <1>3, <1>4, <1>6, <1>7 DEF Sound, x, Follows, Active

(* The host reads a call: it runs, or is refused beyond the budget. *)
LEMMA ReadCallStep ==
  ASSUME Types, NEW r \in Runs, Sound(r, run[r]), ReadCall(r)
  PROVE  \E y : Follows(r, y) /\ y.past = run[r].past
<1> DEFINE x == run[r]
           id == Head(x.pipe)
           to == IF Spent(r) < CallBudget[r] THEN "running" ELSE "refused"
           y == [x EXCEPT !.pipe = Tail(@), !.call[id] = to]
           Counted == {"running", "answered", "cancelled"}
<1>1. Becomes(r, y) /\ x.pump = "reading" /\ x.pipe # <<>> /\ id # Result
  BY DEF ReadCall, Becomes, Types
<1>2. x \in RunType /\ x.pipe \in Seq(Ids \cup {Result})
  BY DEF Types, RunType
<1>3. /\ y.call = [x.call EXCEPT ![id] = to] /\ y.pipe = Tail(x.pipe)
      /\ y.pump = x.pump /\ y.outcome = x.outcome /\ y.past = x.past /\ y.alone = x.alone
  BY <1>2 DEF RunType
<1>4. id \in Ids /\ id <= MaxCalls[r] /\ Tail(x.pipe) \in Seq(Ids \cup {Result})
  <2>1. id \in Ids \cup {Result} /\ Tail(x.pipe) \in Seq(Ids \cup {Result})
    BY <1>1, <1>2, HeadTailProperties
  <2>2. id = x.pipe[1] /\ 1 \in 1 .. Len(x.pipe)
    BY <1>1, <1>2
  <2> QED
    BY <1>1, <2>1, <2>2 DEF Sound, Budgeted
<1>5. to \in {"running", "refused"} /\ (to = "running" => Spent(r) < CallBudget[r])
  OBVIOUS
<1>6. Spent(r) = Cardinality(Within(x, Counted \cup {"refused"}))
  <2>1. Counted \cup {"refused"} = {"running", "answered", "refused", "cancelled"}
    OBVIOUS
  <2> QED
    BY <2>1 DEF Spent, InState, Within
<1> HIDE DEF id, to
<1>7. y \in RunType
  <2>1. y.call \in [Ids -> CallStates]
    BY <1>2, <1>3, <1>5 DEF RunType, CallStates
  <2> QED
    BY <1>2, <1>3, <1>4, <2>1 DEF RunType
<1> HIDE DEF x, y
<1>8. Sound(r, x)
  BY DEF x
<1>9. Phased(y) /\ Reasoned(y)
  <2>1. to \in CallStates /\ to # "cancelled" /\ x.pump \in {"reading", "draining"}
    BY <1>1, <1>5 DEF CallStates
  <2> QED
    BY <1>3, <1>4, <1>7, <1>8, <2>1, CallMoves
<1>10. x.call \in [Ids -> CallStates] /\ y.call[id] = to
       /\ \A other \in Ids \ {id} : y.call[other] = x.call[other]
  BY <1>2, <1>3, <1>4 DEF RunType
<1>11. \A other \in Ids : y.call[other] # "unsent" => other <= MaxCalls[r]
  BY <1>4, <1>8, <1>10 DEF Sound, Budgeted
<1>12. \A n \in 1 .. Len(y.pipe) : y.pipe[n] # Result => y.pipe[n] <= MaxCalls[r]
  <2>1. /\ Len(x.pipe) \in Nat /\ Len(y.pipe) = Len(x.pipe) - 1
        /\ \A n \in 1 .. Len(y.pipe) : y.pipe[n] = x.pipe[n + 1]
    BY <1>1, <1>2, <1>3, HeadTailProperties
  <2>2. \A n \in 1 .. Len(x.pipe) : x.pipe[n] # Result => x.pipe[n] <= MaxCalls[r]
    BY <1>8 DEF Sound, Budgeted
  <2>3. \A n \in 1 .. Len(y.pipe) : n + 1 \in 1 .. Len(x.pipe)
    BY <2>1
  <2> QED
    BY <2>1, <2>2, <2>3
<1>13. Cardinality(Within(y, Counted)) <= CallBudget[r]
  <2>1. /\ IsFiniteSet(Within(x, Counted)) /\ Cardinality(Within(x, Counted)) \in Nat
        /\ IsFiniteSet(Within(x, Counted \cup {"refused"}))
        /\ Cardinality(Within(x, Counted \cup {"refused"})) \in Nat
    BY <1>8, WithinIsFinite DEF Sound
  <2>2. Cardinality(Within(x, Counted)) <= CallBudget[r] /\ CallBudget[r] \in Nat
    BY <1>8, BoundsAssumption DEF Sound, Budgeted
  <2>3. CASE to = "refused"
    <3>1. Within(y, Counted) \subseteq Within(x, Counted)
      BY <1>10, <2>3 DEF Within
    <3>2. IsFiniteSet(Within(y, Counted))
          /\ Cardinality(Within(y, Counted)) <= Cardinality(Within(x, Counted))
      BY <2>1, <3>1, FS_Subset
    <3>3. Cardinality(Within(y, Counted)) \in Nat
      BY <3>2, FS_CardinalityType
    <3> QED
      BY <2>1, <2>2, <3>2, <3>3
  <2>4. CASE to = "running"
    <3>1. Within(y, Counted) = Within(x, Counted) \cup {id}
      BY <1>4, <1>10, <2>4 DEF Within
    <3>2. Within(x, Counted) \subseteq Within(x, Counted \cup {"refused"})
      BY DEF Within
    <3>3. Cardinality(Within(x, Counted)) <= Cardinality(Within(x, Counted \cup {"refused"}))
      BY <2>1, <3>2, FS_Subset
    <3>4. Cardinality(Within(x, Counted)) < CallBudget[r]
      BY <1>5, <1>6, <2>1, <2>2, <2>4, <3>3
    <3>5. \/ Cardinality(Within(y, Counted)) = Cardinality(Within(x, Counted))
          \/ Cardinality(Within(y, Counted)) = Cardinality(Within(x, Counted)) + 1
      BY <2>1, <3>1, FS_AddElement
    <3> QED
      BY <2>1, <2>2, <3>4, <3>5
  <2> QED
    BY <1>5, <2>3, <2>4
<1>14. Sound(r, y)
  BY <1>7, <1>9, <1>11, <1>12, <1>13 DEF Sound, Budgeted
<1> QED
  BY <1>1, <1>3, <1>14 DEF x, Follows, Active

(* A call that runs is answered or cancelled. *)
LEMMA CallEndsStep ==
  ASSUME Types, NEW r \in Runs, Sound(r, run[r]), NEW id \in Ids,
         Answer(r, id) \/ CallCancelled(r, id)
  PROVE  \E y : Follows(r, y) /\ y.past = run[r].past
<1> DEFINE x == run[r]
           Counted == {"running", "answered", "cancelled"}
<1>1. PICK to \in {"answered", "cancelled"} :
        /\ Becomes(r, [x EXCEPT !.call[id] = to]) /\ x.call[id] = "running"
        /\ to = "cancelled" => x.pump = "closing"
  BY DEF Answer, CallCancelled, Becomes, Types
<1> DEFINE y == [x EXCEPT !.call[id] = to]
<1>2. x \in RunType /\ x.pump \in Pumps
  BY DEF Types, RunType
<1>3. /\ y.call = [x.call EXCEPT ![id] = to] /\ y.pipe = x.pipe
      /\ y.pump = x.pump /\ y.outcome = x.outcome /\ y.past = x.past /\ y.alone = x.alone
      /\ y \in RunType
  BY <1>2 DEF RunType, CallStates
<1>4. Becomes(r, y)
  BY <1>1
<1> HIDE DEF x, y
<1>5. Sound(r, x)
  BY DEF x
<1>6. x.pump \in {"reading", "draining", "terminating", "closing"}
  BY <1>1, <1>2, <1>5 DEF Sound, Phased, Within, Pumps, CallStates
<1>7. Phased(y) /\ Reasoned(y)
  <2>1. to \in CallStates /\ to # "running"
    BY DEF CallStates
  <2> QED
    BY <1>1, <1>3, <1>5, <1>6, <2>1, CallMoves
<1>8. x.call \in [Ids -> CallStates]
  BY <1>2 DEF RunType
<1>9. Within(y, Counted) = Within(x, Counted)
  BY <1>1, <1>3, <1>8 DEF Within
<1>10. \A other \in Ids : y.call[other] # "unsent" => x.call[other] # "unsent"
  BY <1>1, <1>3, <1>8
<1>11. Budgeted(r, y)
  BY <1>3, <1>5, <1>9, <1>10 DEF Sound, Budgeted
<1> QED
  BY <1>3, <1>4, <1>7, <1>11 DEF Sound, x, Follows, Active

(* The worker returns, leaves or is killed, and its result is read. *)
LEMMA WorkerStep ==
  ASSUME Types, NEW r \in Runs, Sound(r, run[r]),
         SendResult(r) \/ WorkerExits(r) \/ Kill(r) \/ ReadResult(r)
  PROVE  \E y : Follows(r, y) /\ y.past = run[r].past
<1> DEFINE x == run[r]
<1>1. x \in RunType /\ x.pipe \in Seq(Ids \cup {Result}) /\ Sound(r, x)
  BY DEF Types, RunType
<1>2. CASE SendResult(r)
  <2> DEFINE y == [x EXCEPT !.pipe = Append(@, Result), !.worker = "leaving"]
  <2>1. Becomes(r, y)
    BY <1>2 DEF SendResult, Becomes, Types
  <2>2. /\ y.pipe = Append(x.pipe, Result) /\ y.call = x.call /\ y.alone = x.alone
        /\ y.outcome = x.outcome /\ y.pump = x.pump /\ y.past = x.past
    BY <1>1 DEF RunType
  <2>3. y \in RunType
    <3>1. y.pipe \in Seq(Ids \cup {Result})
      BY <1>1, <2>2, AppendProperties
    <3> QED
      BY <1>1, <3>1 DEF RunType
  <2> HIDE DEF x, y
  <2>4. Budgeted(r, y)
    <3>1. /\ Len(x.pipe) \in Nat /\ Len(y.pipe) = Len(x.pipe) + 1
          /\ \A m \in 1 .. Len(x.pipe) : y.pipe[m] = x.pipe[m]
          /\ y.pipe[Len(x.pipe) + 1] = Result
      BY <1>1, <2>2, AppendProperties
    <3>2. \A n \in 1 .. Len(y.pipe) : y.pipe[n] # Result => y.pipe[n] <= MaxCalls[r]
      <4> TAKE n \in 1 .. Len(y.pipe)
      <4>1. n \in 1 .. Len(x.pipe) \/ n = Len(x.pipe) + 1
        BY <3>1
      <4> QED
        BY <1>1, <3>1, <4>1 DEF Sound, Budgeted
    <3>3. \A states : Within(y, states) = Within(x, states)
      BY <2>2 DEF Within
    <3> QED
      BY <1>1, <2>2, <3>2, <3>3 DEF Sound, Budgeted
  <2>5. Sound(r, y)
    BY <1>1, <2>2, <2>3, <2>4, CallsStay
  <2> QED
    BY <2>1, <2>2, <2>5 DEF x, Follows, Active
<1>3. CASE WorkerExits(r) \/ Kill(r)
  <2> DEFINE y == [x EXCEPT !.worker = "gone", !.signalled = FALSE]
  <2>1. Becomes(r, y)
    BY <1>3 DEF WorkerExits, Kill, Becomes, Types
  <2>2. /\ y.pipe = x.pipe /\ y.call = x.call /\ y.alone = x.alone
        /\ y.outcome = x.outcome /\ y.pump = x.pump /\ y.past = x.past /\ y \in RunType
    BY <1>1 DEF RunType
  <2> HIDE DEF x, y
  <2>3. Budgeted(r, y)
    BY <1>1, <2>2, ReadsFewer DEF Sound
  <2>4. Sound(r, y)
    BY <1>1, <2>2, <2>3, CallsStay
  <2> QED
    BY <2>1, <2>2, <2>4 DEF x, Follows, Active
<1>4. CASE ReadResult(r)
  <2> DEFINE y == [x EXCEPT !.pipe = Tail(@), !.pump = "draining"]
  <2>1. Becomes(r, y) /\ x.pump = "reading" /\ x.pipe # <<>>
    BY <1>4 DEF ReadResult, Becomes, Types
  <2>2. /\ y.pipe = Tail(x.pipe) /\ y.call = x.call /\ y.alone = x.alone
        /\ y.outcome = x.outcome /\ y.pump = "draining" /\ y.past = x.past
    BY <1>1 DEF RunType
  <2>3. y \in RunType
    <3>1. Tail(x.pipe) \in Seq(Ids \cup {Result})
      BY <1>1, <2>1, HeadTailProperties
    <3> QED
      BY <1>1, <3>1 DEF RunType, Pumps
  <2> HIDE DEF x, y
  <2>4. Budgeted(r, y)
    BY <1>1, <2>1, <2>2, <2>3, ReadsFewer DEF Sound
  <2>5. Sound(r, y)
    BY <1>1, <2>1, <2>2, <2>3, <2>4, CallsStay
  <2> QED
    BY <2>1, <2>2, <2>5 DEF x, Follows, Active
<1> QED
  BY <1>2, <1>3, <1>4

(* A clock that fires or comes late is past, and nothing else moves. *)
LEMMA ClockStep ==
  ASSUME Types, NEW r \in Runs, Sound(r, run[r]), NEW c \in Clocks,
         Fires(r, c) \/ ComesLate(r, c)
  PROVE  \E y : Follows(r, y) /\ y.past = run[r].past \cup {c} /\ Active(r)
<1> DEFINE x == run[r]
<1>1. x \in RunType /\ Sound(r, x)
  BY DEF Types
<1>2. PICK signalled \in BOOLEAN :
        Becomes(r, [x EXCEPT !.past = @ \cup {c}, !.signalled = signalled])
  <2>1. CASE Fires(r, c)
    <3>1. Up(r) \in BOOLEAN
      BY DEF Up
    <3>2. Becomes(r, [x EXCEPT !.past = @ \cup {c}, !.signalled = Up(r)])
      BY <2>1 DEF Fires, Becomes, Types
    <3> QED
      BY <3>1, <3>2
  <2>2. CASE ComesLate(r, c)
    <3>1. x.signalled \in BOOLEAN
          /\ [x EXCEPT !.past = @ \cup {c}]
               = [x EXCEPT !.past = @ \cup {c}, !.signalled = x.signalled]
      BY <1>1 DEF RunType
    <3> QED
      BY <2>2, <3>1 DEF ComesLate, Becomes, Types
  <2> QED
    BY <2>1, <2>2
<1> DEFINE y == [x EXCEPT !.past = @ \cup {c}, !.signalled = signalled]
<1>3. x.pump \in {"reading", "draining", "terminating"}
  BY DEF Fires, ComesLate, Armed
<1>4. /\ y.pipe = x.pipe /\ y.call = x.call /\ y.alone = x.alone
      /\ y.outcome = x.outcome /\ y.pump = x.pump /\ y.past = x.past \cup {c}
      /\ y \in RunType
  BY <1>1 DEF RunType
<1>5. Becomes(r, y)
  BY <1>2
<1> HIDE DEF x, y
<1>6. Budgeted(r, y)
  BY <1>1, <1>4, ReadsFewer DEF Sound
<1>7. Sound(r, y)
  BY <1>1, <1>3, <1>4, <1>6, CallsStay
<1> QED
  BY <1>3, <1>4, <1>5, <1>7 DEF x, Follows, Active

(* The pump ends.  Why, the flags say, as long as they are the run's own.  *)
LEMMA PumpStep ==
  ASSUME Types, NEW r \in Runs, Sound(r, run[r]), Told(run[r]),
         Drained(r) \/ ReadEof(r) \/ CancelRun(r) \/ Terminated(r) \/ Gathered(r) \/ Reap(r)
  PROVE  \E y : Follows(r, y) /\ y.past = run[r].past
<1> DEFINE x == run[r]
<1>1. /\ x \in RunType /\ Sound(r, x) /\ Budgeted(r, x) /\ Phased(x) /\ Reasoned(x)
      /\ Running(r) = Within(x, {"running"})
  BY DEF Types, Sound, Running, InState, Within
<1>2. ASSUME NEW outcome \in Outcomes \ {"none"}, NEW worker \in {x.worker, "gone"},
             x.pump \in {"reading", "draining", "terminating"},
             outcome # x.outcome => x.outcome = "none",
             outcome = "returned" => Within(x, {"running", "cancelled"}) = {},
             x.alone /\ outcome \in DOMAIN Because => Because[outcome] \subseteq x.past,
             x.alone /\ outcome = "sandbox" => x.past = {},
             Becomes(r, [Closed(x, outcome) EXCEPT !.worker = worker])
      PROVE  \E y : Follows(r, y) /\ y.past = x.past
  <2> DEFINE y == [Closed(x, outcome) EXCEPT !.worker = worker]
  <2>1. /\ y.pipe = <<>> /\ y.call = x.call /\ y.alone = x.alone
        /\ y.outcome = outcome /\ y.pump = "closing" /\ y.past = x.past
    BY <1>1 DEF RunType, Closed
  <2>2. y \in RunType
    BY <1>1, EmptySeq DEF RunType, Closed, Pumps
  <2>3. Becomes(r, y)
    BY <1>2
  <2> HIDE DEF x, y
  <2>4. Budgeted(r, y)
    BY <1>1, <2>1, <2>2, ReadsFewer
  <2>5. \A states : Within(y, states) = Within(x, states)
    BY <2>1 DEF Within
  <2>6. Phased(y)
    BY <1>1, <1>2, <2>1, <2>5 DEF Phased
  <2>7. Reasoned(y)
    BY <1>1, <1>2, <2>1 DEF Reasoned
  <2>8. Active(r)
    BY <1>2 DEF Active, x
  <2> QED
    BY <2>1, <2>2, <2>3, <2>4, <2>6, <2>7, <2>8 DEF Sound, Follows, x
<1>3. ASSUME NEW outcome, Becomes(r, Closed(x, outcome))
      PROVE  Becomes(r, [Closed(x, outcome) EXCEPT !.worker = x.worker])
  <2>1. [Closed(x, outcome) EXCEPT !.worker = x.worker] = Closed(x, outcome)
    BY <1>1 DEF Closed, RunType
  <2> QED
    BY <1>3, <2>1
<1>4. CASE Drained(r)
  <2>1. /\ x.pump = "draining" /\ x.outcome = "none"
        /\ Within(x, {"running", "cancelled"}) = {}
    BY <1>1, <1>4 DEF Drained, Phased, Within
  <2>2. Becomes(r, Closed(x, "returned"))
    BY <1>4 DEF Drained, Becomes
  <2> QED
    BY <1>2, <1>3, <2>1, <2>2 DEF Outcomes, Because
<1>5. CASE ReadEof(r)
  <2>1. x.pump = "reading" /\ x.outcome = "none" /\ Becomes(r, Closed(x, Reason))
    BY <1>1, <1>5 DEF ReadEof, Phased, Becomes
  <2>2. Reason \in {"wall_clock", "timeout", "aborted", "sandbox"}
    BY DEF Reason
  <2>3. ASSUME x.alone
        PROVE  /\ Reason = "wall_clock" => "wall" \in x.past
               /\ Reason = "timeout" => "budget" \in x.past
               /\ Reason = "aborted" => "abort" \in x.past
               /\ Reason = "sandbox" => x.past = {}
    <3>1. /\ flags.timed_out <=> x.past \cap {"budget", "wall"} # {}
          /\ flags.wall_clock => "wall" \in x.past
          /\ flags.timed_out /\ ~flags.wall_clock => "budget" \in x.past
          /\ flags.aborted <=> "abort" \in x.past
      BY <2>1, <2>3 DEF Told
    <3>2. x.past \subseteq Clocks
      BY <1>1 DEF RunType
    <3> QED
      BY <3>1, <3>2 DEF Reason, Clocks
  <2>4. x.alone /\ Reason \in DOMAIN Because => Because[Reason] \subseteq x.past
    BY <2>2, <2>3 DEF Because
  <2>5. x.alone /\ Reason = "sandbox" => x.past = {}
    BY <2>3
  <2>6. Reason \in Outcomes \ {"none"} /\ Reason # "returned"
    BY <2>2 DEF Outcomes
  <2> DEFINE why == Reason
  <2>7. Becomes(r, [Closed(x, why) EXCEPT !.worker = x.worker])
    BY <1>3, <2>1
  <2>8. /\ why \in Outcomes \ {"none"} /\ why # "returned"
        /\ x.alone /\ why \in DOMAIN Because => Because[why] \subseteq x.past
        /\ x.alone /\ why = "sandbox" => x.past = {}
    BY <2>4, <2>5, <2>6
  <2> HIDE DEF x, why
  <2>9. \E y : Follows(r, y) /\ y.past = x.past
    BY <1>2, <2>1, <2>7, <2>8
  <2> QED
    BY <2>9 DEF x
<1>6. CASE Terminated(r)
  <2>1. x.pump = "terminating" /\ x.outcome = "raised"
    BY <1>1, <1>6 DEF Terminated, Phased
  <2>2. Becomes(r, [Closed(x, "raised") EXCEPT !.worker = "gone"])
    BY <1>6 DEF Terminated, Becomes
  <2> QED
    BY <1>2, <2>1, <2>2 DEF Outcomes, Because
<1>7. CASE CancelRun(r)
  <2> DEFINE y == [x EXCEPT !.pump = "terminating", !.outcome = "raised"]
  <2>1. Becomes(r, y) /\ x.pump \in {"reading", "draining"}
    BY <1>7 DEF CancelRun, Becomes, Types
  <2>2. /\ y.pipe = x.pipe /\ y.call = x.call /\ y.alone = x.alone /\ y.outcome = "raised"
        /\ y.pump = "terminating" /\ y.past = x.past /\ y \in RunType
    BY <1>1 DEF RunType, Pumps, Outcomes
  <2> HIDE DEF x, y
  <2>3. Budgeted(r, y)
    BY <1>1, <2>2, ReadsFewer
  <2>4. \A states : Within(y, states) = Within(x, states)
    BY <2>2 DEF Within
  <2>5. Phased(y)
    BY <1>1, <2>1, <2>2, <2>4 DEF Phased
  <2>6. Reasoned(y)
    BY <2>2 DEF Reasoned, Because
  <2> QED
    BY <2>1, <2>2, <2>3, <2>5, <2>6 DEF Sound, Follows, Active, x
<1>8. CASE Gathered(r)
  <2> DEFINE y == [x EXCEPT !.pump = "reaping"]
  <2>1. Becomes(r, y) /\ x.pump = "closing" /\ Within(x, {"running"}) = {}
    BY <1>1, <1>8 DEF Gathered, Becomes, Types
  <2>2. /\ y.pipe = x.pipe /\ y.call = x.call /\ y.alone = x.alone /\ y.outcome = x.outcome
        /\ y.pump = "reaping" /\ y.past = x.past /\ y \in RunType
    BY <1>1 DEF RunType, Pumps
  <2> HIDE DEF x, y
  <2>3. Budgeted(r, y)
    BY <1>1, <2>2, ReadsFewer
  <2>4. \A states : Within(y, states) = Within(x, states)
    BY <2>2 DEF Within
  <2>5. Phased(y)
    BY <1>1, <2>1, <2>2, <2>4 DEF Phased
  <2>6. Reasoned(y)
    BY <1>1, <2>2 DEF Reasoned
  <2> QED
    BY <2>1, <2>2, <2>3, <2>5, <2>6 DEF Sound, Follows, Active, x
<1>9. CASE Reap(r)
  <2> DEFINE y == [x EXCEPT !.pump = "done", !.worker = "gone"]
  <2>1. Becomes(r, y) /\ x.pump = "reaping"
    BY <1>9 DEF Reap, Becomes, Types
  <2>2. /\ y.pipe = x.pipe /\ y.call = x.call /\ y.alone = x.alone /\ y.outcome = x.outcome
        /\ y.pump = "done" /\ y.past = x.past /\ y \in RunType
    BY <1>1 DEF RunType, Pumps
  <2> HIDE DEF x, y
  <2>3. Budgeted(r, y)
    BY <1>1, <2>2, ReadsFewer
  <2>4. \A states : Within(y, states) = Within(x, states)
    BY <2>2 DEF Within
  <2>5. Phased(y)
    BY <1>1, <2>1, <2>2, <2>4 DEF Phased
  <2>6. Reasoned(y)
    BY <1>1, <2>2 DEF Reasoned
  <2> QED
    BY <2>1, <2>2, <2>3, <2>5, <2>6 DEF Sound, Follows, Active, x
<1> QED
  BY <1>4, <1>5, <1>6, <1>7, <1>8, <1>9

----------------------------------------------------------------------------
(* The invariant is kept *)

(* A step of one run by itself. *)
OwnStep(r) ==
  \/ Read(r) \/ Finish(r) \/ CancelRun(r) \/ SendResult(r) \/ WorkerExits(r) \/ Kill(r)
  \/ \E id \in Ids : SendCall(r, id) \/ Answer(r, id) \/ CallCancelled(r, id)
ClockFires(r) ==
  \/ FireBudget(r) \/ FireWall(r) \/ FireAbort(r)
  \/ \E c \in Clocks : ComesLate(r, c)

(* Every step is one run's. *)
LEMMA NextIsOneRuns ==
  Next => \E r \in Runs : OwnStep(r) \/ ClockFires(r) \/ Start(r) \/ StartFails(r)
BY DEF Next, OwnStep, ClockFires

(* What the other runs were told stays true, if the flags stay. *)
LEMMA FollowsKeeps ==
  ASSUME IInv, NEW r \in Runs, NEW y, Follows(r, y)
  PROVE  /\ run' \in [Runs -> RunType] /\ Solitary'
         /\ \A s \in Runs : Budgeted(s, run'[s]) /\ Phased(run'[s]) /\ Reasoned(run'[s])
         /\ run'[r] = y /\ \A s \in Runs \ {r} : run'[s] = run[s]
<1>1. /\ Types /\ y \in RunType /\ Budgeted(r, y) /\ Phased(y) /\ Reasoned(y)
      /\ run' = [run EXCEPT ![r] = y]
      /\ y.alone = run[r].alone /\ (y.pump \in {"idle", "done"} \/ Active(r))
  BY DEF IInv, Follows, Sound, Becomes
<1>2. run'[r] = y /\ \A s \in Runs \ {r} : run'[s] = run[s]
  BY <1>1 DEF Types
<1>3. run' \in [Runs -> RunType]
  BY <1>1 DEF Types
<1>4. \A s \in Runs : Budgeted(s, run'[s]) /\ Phased(run'[s]) /\ Reasoned(run'[s])
  BY <1>1, <1>2 DEF IInv
<1>5. \A s \in Runs : (Active(s))' => Active(s)
  BY <1>1, <1>2 DEF Active
<1>6. \A s \in Runs : run'[s].alone = run[s].alone
  BY <1>1, <1>2
<1>7. Solitary'
  BY <1>5, <1>6 DEF Solitary, IInv
<1> QED
  BY <1>2, <1>3, <1>4, <1>7

(* A step of a run without its clocks keeps the invariant. *)
LEMMA OwnStepKeeps ==
  ASSUME IInv, NEW r \in Runs, OwnStep(r)
  PROVE  IInv'
<1>1. Types /\ Sound(r, run[r]) /\ Told(run[r])
  BY DEF IInv, Sound, Types
<1>2. PICK y : Follows(r, y) /\ y.past = run[r].past
  <2>1. CASE \E id \in Ids : SendCall(r, id)
    BY <1>1, <2>1, SendCallStep
  <2>2. CASE \E id \in Ids : Answer(r, id) \/ CallCancelled(r, id)
    BY <1>1, <2>2, CallEndsStep
  <2>3. CASE ReadCall(r)
    BY <1>1, <2>3, ReadCallStep
  <2>4. CASE SendResult(r) \/ WorkerExits(r) \/ Kill(r) \/ ReadResult(r)
    BY <1>1, <2>4, WorkerStep
  <2>5. CASE Drained(r) \/ ReadEof(r) \/ CancelRun(r) \/ Terminated(r) \/ Gathered(r) \/ Reap(r)
    BY <1>1, <2>5, PumpStep
  <2> QED
    BY <2>1, <2>2, <2>3, <2>4, <2>5 DEF OwnStep, Read, Finish
<1>3. flags' = flags
  BY DEF OwnStep, Read, Finish, SendCall, Answer, CallCancelled, ReadCall, ReadResult, ReadEof,
     SendResult, WorkerExits, Kill, Drained, CancelRun, Terminated, Gathered, Reap
<1>4. /\ run' \in [Runs -> RunType] /\ Solitary'
      /\ \A s \in Runs : Budgeted(s, run'[s]) /\ Phased(run'[s]) /\ Reasoned(run'[s])
      /\ run'[r] = y /\ \A s \in Runs \ {r} : run'[s] = run[s]
  BY <1>2, FollowsKeeps
<1>5. \A s \in Runs : Told(run[s])'
  <2>1. ASSUME NEW s \in Runs PROVE Told(run[s])'
    <3>1. Told(run[s])
      BY DEF IInv
    <3>2. /\ run'[s].alone = run[s].alone /\ run'[s].past = run[s].past
          /\ run'[s].pump \notin {"idle", "done"} => run[s].pump \notin {"idle", "done"}
      BY <1>2, <1>4 DEF Follows, Active
    <3> QED
      BY <1>3, <3>1, <3>2 DEF Told
  <2> QED
    BY <2>1
<1> QED
  BY <1>1, <1>3, <1>4, <1>5 DEF IInv, Types

(* So does a clock that fires. *)
LEMMA ClockKeeps ==
  ASSUME IInv, NEW r \in Runs, ClockFires(r)
  PROVE  IInv'
<1>1. Types /\ Sound(r, run[r]) /\ Told(run[r]) /\ Solitary
  BY DEF IInv, Sound, Types
<1>2. flags \in [timed_out : BOOLEAN, wall_clock : BOOLEAN, aborted : BOOLEAN]
  BY <1>1 DEF Types
<1>3. PICK c \in Clocks :
        /\ Fires(r, c) \/ ComesLate(r, c)
        /\ \/ c = "budget" /\ ~flags.timed_out /\ flags' = [flags EXCEPT !.timed_out = TRUE]
           \/ /\ c = "wall" /\ ~flags.timed_out
              /\ flags' = [flags EXCEPT !.timed_out = TRUE, !.wall_clock = TRUE]
           \/ c = "abort" /\ flags' = [flags EXCEPT !.aborted = TRUE]
           \/ c # "abort" /\ flags.timed_out /\ flags' = flags
  <2>1. CASE FireBudget(r)
    BY <2>1 DEF FireBudget, Clocks
  <2>2. CASE FireWall(r)
    BY <2>2 DEF FireWall, Clocks
  <2>3. CASE FireAbort(r)
    BY <2>3 DEF FireAbort, Clocks
  <2>4. CASE \E c \in Clocks : ComesLate(r, c)
    BY <2>4 DEF ComesLate
  <2> QED
    BY <2>1, <2>2, <2>3, <2>4 DEF ClockFires
<1>4. PICK y : Follows(r, y) /\ y.past = run[r].past \cup {c} /\ Active(r)
  BY <1>1, <1>3, ClockStep
<1>5. /\ run' \in [Runs -> RunType] /\ Solitary'
      /\ \A s \in Runs : Budgeted(s, run'[s]) /\ Phased(run'[s]) /\ Reasoned(run'[s])
      /\ run'[r] = y /\ \A s \in Runs \ {r} : run'[s] = run[s]
  BY <1>4, FollowsKeeps
<1>6. flags' \in [timed_out : BOOLEAN, wall_clock : BOOLEAN, aborted : BOOLEAN]
  BY <1>2, <1>3
<1>7. Told(run[r])'
  <2> SUFFICES ASSUME run'[r].alone
               PROVE  /\ flags'.timed_out <=> run'[r].past \cap {"budget", "wall"} # {}
                      /\ flags'.wall_clock => "wall" \in run'[r].past
                      /\ flags'.timed_out /\ ~flags'.wall_clock => "budget" \in run'[r].past
                      /\ flags'.aborted <=> "abort" \in run'[r].past
    BY DEF Told
  <2>1. run[r].alone /\ run'[r].past = run[r].past \cup {c}
    BY <1>4, <1>5 DEF Follows
  <2>2. /\ flags.timed_out <=> run[r].past \cap {"budget", "wall"} # {}
        /\ flags.wall_clock => "wall" \in run[r].past
        /\ flags.timed_out /\ ~flags.wall_clock => "budget" \in run[r].past
        /\ flags.aborted <=> "abort" \in run[r].past
    BY <1>1, <1>4, <2>1 DEF Told, Active
  <2>3. CASE c = "budget" /\ ~flags.timed_out /\ flags' = [flags EXCEPT !.timed_out = TRUE]
    BY <1>2, <2>1, <2>2, <2>3
  <2>4. CASE /\ c = "wall" /\ ~flags.timed_out
             /\ flags' = [flags EXCEPT !.timed_out = TRUE, !.wall_clock = TRUE]
    BY <1>2, <2>1, <2>2, <2>4
  <2>5. CASE c = "abort" /\ flags' = [flags EXCEPT !.aborted = TRUE]
    BY <1>2, <2>1, <2>2, <2>5
  <2>6. CASE c # "abort" /\ flags.timed_out /\ flags' = flags
    BY <1>2, <2>1, <2>2, <2>6
  <2> QED
    BY <1>3, <2>3, <2>4, <2>5, <2>6
<1>8. ASSUME NEW s \in Runs \ {r} PROVE Told(run[s])'
  <2>1. ~(run[s].alone /\ Active(s))
    BY <1>1, <1>4 DEF Solitary
  <2> QED
    BY <1>5, <2>1 DEF Told, Active
<1> QED
  BY <1>5, <1>6, <1>7, <1>8 DEF IInv, Types

(* A run that starts clears the flags: it may be alone, a run that is at   *)
(* work is not alone any more.                                             *)
LEMMA EnterKeeps ==
  ASSUME IInv, NEW r \in Runs, Start(r) \/ StartFails(r)
  PROVE  IInv'
<1>1. PICK pump \in {"reading", "reaping"}, outcome \in {"none", "sandbox"},
           worker \in {"live", run[r].worker} :
        /\ pump = "reading" <=> outcome = "none"
        /\ Enter(r, [run[r] EXCEPT !.pump = pump, !.outcome = outcome, !.worker = worker])
  <2>1. run[r] \in RunType /\ (run[r].pump = "idle" => run[r].outcome = "none")
    BY DEF IInv, Types, Phased
  <2>2. CASE Start(r)
    <3>1. run[r].outcome = "none"
      BY <2>1, <2>2 DEF Start, Enter
    <3>2. [run[r] EXCEPT !.pump = "reading", !.worker = "live"]
            = [run[r] EXCEPT !.pump = "reading", !.outcome = "none", !.worker = "live"]
      BY <2>1, <3>1 DEF RunType
    <3>3. Enter(r, [run[r] EXCEPT !.pump = "reading", !.outcome = "none", !.worker = "live"])
      BY <2>2, <3>2 DEF Start
    <3> QED
      BY <3>3
  <2>3. CASE StartFails(r)
    <3>1. [run[r] EXCEPT !.pump = "reaping", !.outcome = "sandbox"]
            = [run[r] EXCEPT !.pump = "reaping", !.outcome = "sandbox", !.worker = run[r].worker]
      BY <2>1 DEF RunType
    <3>2. Enter(r, [run[r] EXCEPT !.pump = "reaping", !.outcome = "sandbox",
                                  !.worker = run[r].worker])
      BY <2>3, <3>1 DEF StartFails
    <3> QED
      BY <3>2
  <2> QED
    BY <2>2, <2>3
<1> DEFINE x == run[r]
           y == [x EXCEPT !.pump = pump, !.outcome = outcome, !.worker = worker,
                          !.alone = StillAlone(r)]
<1>2. /\ Types /\ x \in RunType /\ Budgeted(r, x) /\ Phased(x) /\ x.pump = "idle"
      /\ StillAlone(r) \in BOOLEAN
  BY <1>1 DEF IInv, Types, Enter, StillAlone
<1>3. run'[r] = y
  BY <1>1, <1>2 DEF Enter, RunType
<1>4. \A s \in Runs \ {r} : run'[s] = [run[s] EXCEPT !.alone = @ /\ ~Active(s)]
  BY <1>1 DEF Enter
<1>5. run' = [s \in Runs |-> run'[s]] /\ flags' = Cleared
  BY <1>1 DEF Enter
<1>6. /\ y.pump = pump /\ y.outcome = outcome /\ y.alone = StillAlone(r)
      /\ y.call = x.call /\ y.pipe = x.pipe /\ y.past = x.past /\ y \in RunType
  BY <1>1, <1>2 DEF RunType, Pumps, Outcomes
<1> HIDE DEF x, y
<1>7. /\ Within(y, CallStates \ {"unsent"}) = {} /\ y.past = {}
  BY <1>2, <1>6 DEF Phased, Within
<1>8. Budgeted(r, y)
  BY <1>2, <1>6, ReadsFewer
<1>9. Phased(y)
  <2>1. \A states : "unsent" \notin states => Within(y, states) = {}
    BY <1>6, <1>7 DEF Within, RunType
  <2>2. Within(y, {"cancelled"}) = {} /\ Within(y, {"running"}) = {}
        /\ Within(y, {"running", "cancelled"}) = {}
    BY <2>1
  <2> QED
    BY <1>1, <1>6, <2>2 DEF Phased
<1>10. Reasoned(y)
  BY <1>1, <1>6, <1>7 DEF Reasoned, Because
<1>11. ASSUME NEW s \in Runs \ {r}
       PROVE  /\ run'[s] \in RunType /\ Budgeted(s, run'[s]) /\ Phased(run'[s])
              /\ Reasoned(run'[s]) /\ Told(run[s])'
              /\ run'[s].pump = run[s].pump
              /\ ~(run'[s].alone /\ Active(s))
  <2> DEFINE a == run[s]
             b == [a EXCEPT !.alone = @ /\ ~Active(s)]
  <2>1. a \in RunType /\ Budgeted(s, a) /\ Phased(a) /\ Reasoned(a) /\ Active(s) \in BOOLEAN
    BY <1>2 DEF IInv, Types, Active
  <2>2. /\ b.alone = (a.alone /\ ~Active(s)) /\ b.call = a.call /\ b.pipe = a.pipe
        /\ b.past = a.past /\ b.pump = a.pump /\ b.outcome = a.outcome /\ b \in RunType
    BY <2>1 DEF RunType
  <2>3. run'[s] = b
    BY <1>4
  <2>4. Active(s) <=> a.pump \notin {"idle", "done"}
    BY DEF Active
  <2> HIDE DEF a, b
  <2>5. Budgeted(s, b)
    BY <2>1, <2>2, ReadsFewer
  <2>6. \A states : Within(b, states) = Within(a, states)
    BY <2>2 DEF Within
  <2>7. Phased(b)
    BY <2>1, <2>2, <2>6 DEF Phased
  <2>8. Reasoned(b)
    BY <2>1, <2>2 DEF Reasoned
  <2>9. Told(run[s])'
    BY <2>2, <2>3, <2>4 DEF Told
  <2> QED
    BY <2>2, <2>3, <2>5, <2>7, <2>8, <2>9 DEF a
<1>12. Told(run[r])'
  BY <1>3, <1>5, <1>6, <1>7 DEF Told, Cleared
<1>13. Types'
  <2>1. \A s \in Runs : run'[s] \in RunType
    BY <1>3, <1>6, <1>11
  <2> QED
    BY <1>5, <2>1 DEF Types, Cleared
<1>14. Solitary'
  <2>1. ASSUME NEW s \in Runs, run'[s].alone, (Active(s))', NEW t \in Runs \ {s}
        PROVE  ~(Active(t))'
    <3>1. s = r
      BY <1>11, <2>1 DEF Active
    <3>2. ~Active(t) /\ run'[t].pump = run[t].pump
      BY <1>3, <1>6, <1>11, <2>1, <3>1 DEF StillAlone
    <3> QED
      BY <3>2 DEF Active
  <2> QED
    BY <2>1 DEF Solitary
<1> QED
  BY <1>3, <1>6, <1>8, <1>9, <1>10, <1>11, <1>12, <1>13, <1>14 DEF IInv

(* The invariant holds initially. *)
LEMMA InitImpliesIInv == Init => IInv
<1> SUFFICES ASSUME Init PROVE IInv
  OBVIOUS
<1>1. /\ NewRun.pump = "idle" /\ NewRun.pipe = <<>> /\ NewRun.outcome = "none"
      /\ NewRun.past = {} /\ NewRun.call = [id \in Ids |-> "unsent"]
  BY DEF NewRun
<1>2. NewRun \in RunType
  BY EmptySeq DEF NewRun, RunType, Pumps, CallStates, Outcomes
<1>3. \A states : "unsent" \notin states => Within(NewRun, states) = {}
  BY <1>1 DEF Within
<1>4. ASSUME NEW r \in Runs PROVE Budgeted(r, NewRun)
  <2>1. Cardinality(Within(NewRun, {"running", "answered", "cancelled"})) = 0
    BY <1>3, FS_EmptySet
  <2> QED
    BY <1>1, <2>1, BoundsAssumption DEF Budgeted
<1>5. Phased(NewRun) /\ Reasoned(NewRun) /\ Told(NewRun)
  BY <1>1, <1>3 DEF Phased, Reasoned, Told, Because
<1>6. Types /\ Solitary
  BY <1>1, <1>2 DEF Init, Types, Cleared, Solitary, Active
<1> QED
  BY <1>4, <1>5, <1>6 DEF Init, IInv

(* Every step preserves it. *)
LEMMA NextKeepsIInv == IInv /\ [Next]_vars => IInv'
<1>1. ASSUME IInv, Next PROVE IInv'
  BY <1>1, NextIsOneRuns, OwnStepKeeps, ClockKeeps, EnterKeeps
<1>2. ASSUME IInv, UNCHANGED vars PROVE IInv'
  BY <1>2 DEF IInv, vars, Types, Told, Solitary, Active
<1> QED
  BY <1>1, <1>2

----------------------------------------------------------------------------
(* The theorems *)

(* So it holds throughout. *)
LEMMA AlwaysIInv == Spec => []IInv
BY InitImpliesIInv, NextKeepsIInv, PTL DEF Spec

(* No script makes more calls than its budget allows, however many it has  *)
(* in flight at once and whichever way they end, and a run has an outcome  *)
(* from the end of its reading on, for any number of scripts and calls.    *)
THEOREM CallsStayWithinBudget == Spec => []TypeOK
<1>1. IInv => TypeOK
  <2> SUFFICES ASSUME IInv, NEW r \in Runs
               PROVE  /\ Cardinality(Admitted(r)) <= CallBudget[r]
                      /\ run[r].outcome = "none" <=> run[r].pump \in {"idle", "reading", "draining"}
    BY DEF IInv, Types, TypeOK
  <2>1. Budgeted(r, run[r]) /\ Phased(run[r])
    BY DEF IInv
  <2>2. Admitted(r) = Within(run[r], {"running", "answered", "cancelled"})
    BY DEF Admitted, InState, Within
  <2> QED
    BY <2>1, <2>2 DEF Budgeted, Phased
<1> QED
  BY <1>1, AlwaysIInv, PTL

(* Whatever a script leaves in flight when it ends, no tool call goes on   *)
(* behind it, and a script that returned had all its calls answered.       *)
THEOREM NoCallOutlivesItsScript == Spec => []EffectsAccounted
<1>1. IInv => EffectsAccounted
  BY DEF IInv, Phased, EffectsAccounted, Running, InState, Within
<1> QED
  BY <1>1, AlwaysIInv, PTL

(* The sandbox keeps one set of flags for all its scripts.  For a script   *)
(* that had it to itself they say the truth about why it was ended.        *)
THEOREM LoneScriptsKnowTheirEnd == Spec => []ReasonIsTrue
<1>1. IInv => ReasonIsTrue
  BY DEF IInv, Reasoned, ReasonIsTrue
<1> QED
  BY <1>1, AlwaysIInv, PTL
=============================================================================
