---------------------------- MODULE Goals_proofs ----------------------------
(***************************************************************************)
(* Theorems about goals and the processes that work on them, for every set *)
(* of processes, sessions and goals, and every budget.                     *)
(***************************************************************************)
EXTENDS Goals, TLAPS

Runs == {"idle", "working", "auditing", "ending", "charged"}
Processes ==
  [up : BOOLEAN, session : Sessions \cup {NoSession}, focus : GoalIds \cup {NoGoal},
   run : Runs, audit : GoalIds \cup {NoGoal}, esc : BOOLEAN, stopped : BOOLEAN,
   billed : BOOLEAN, metered : BOOLEAN, op : Ops \cup {NoOp}]

Files == [GoalIds -> Records \cup {NoFile}]

(* What a change under way may write, and what it leaves.                  *)
Sound(op, open, done) ==
  /\ open[op.goal] # NoFile \/ done[op.goal] # NoFile
  /\ op.kind \in {"write", "claim"} => op.next.status \in Open
  /\ op.kind = "archive" => op.next.status = "complete"
  /\ op.kind = "unlink" => done[op.goal] # NoFile

(* A process, beside these files of open and of archived goals.            *)
Proper(x, open, done) ==
  /\ x \in Processes
  /\ x.up <=> x.session \in Sessions
  /\ x.run = "auditing" <=> x.audit # NoGoal
  /\ x.op # NoOp => x.up /\ Sound(x.op, open, done)
  /\ x.focus # NoGoal => open[x.focus] # NoFile \/ done[x.focus] # NoFile

Stored ==
  /\ active \in Files /\ archived \in Files /\ lease \subseteq Sessions
  /\ \A g \in GoalIds :
       /\ active[g] # NoFile => active[g].status \in Open
       /\ archived[g] # NoFile => archived[g].status = "complete"
  /\ starts \in 0..MaxStarts /\ faults \in 0..MaxFaults /\ causes \subseteq MayHappen

Types ==
  /\ Stored
  /\ proc \in [Procs -> Processes]
  /\ \A p \in Procs : Proper(proc[p], active, archived)

(* While nothing has given a goal two masters: a running session has its   *)
(* lease, is open once, and a change under way is of a goal of the         *)
(* session, or claims one whose owner does not run.                        *)
Single ==
  \A p, q \in Procs : proc[p].up /\ proc[q].up /\ proc[p].session = proc[q].session => p = q
Leased == \A p \in Procs : proc[p].up => proc[p].session \in lease

Mastered(p) ==
  LET op == proc[p].op
  IN  op # NoOp =>
        /\ ~op.stale /\ op.next.owner = proc[p].session
        /\ active[op.goal] # NoFile
        /\ op.kind # "claim" => active[op.goal].owner = proc[p].session
        /\ op.kind = "claim" =>
             \A q \in Procs : proc[q].up => proc[q].session # active[op.goal].owner

ClaimedOnce ==
  \A p, q \in Procs :
    In(p, "claim") /\ In(q, "claim") /\ proc[p].op.goal = proc[q].op.goal => p = q

Alone == Single /\ Leased /\ ClaimedOnce /\ \A p \in Procs : Mastered(p)

(* A charged run has its charge in the file, or is about to write it.      *)
Within(record) == record.status = "active" => record.used < Budget
Metered(p) ==
  proc[p].run = "charged" /\ proc[p].metered =>
    IF proc[p].op = NoOp THEN Focused(p) => Within(active[proc[p].focus])
    ELSE /\ In(p, "write") /\ proc[p].op.goal = proc[p].focus
         /\ Within(proc[p].op.next)

IInv ==
  /\ Types
  /\ causes = {} => Alone
  /\ causes = {} /\ faults = 0 => \A p \in Procs : Metered(p)

----------------------------------------------------------------------------

(* Files and processes are as they may be *)

(* What each field of a process is. *)
LEMMA ProcessFields ==
  ASSUME NEW x \in Processes
  PROVE  /\ x.up \in BOOLEAN /\ x.session \in Sessions \cup {NoSession}
         /\ x.focus \in GoalIds \cup {NoGoal} /\ x.run \in Runs
         /\ x.audit \in GoalIds \cup {NoGoal} /\ x.op \in Ops \cup {NoOp}
         /\ x.esc \in BOOLEAN /\ x.stopped \in BOOLEAN
         /\ x.billed \in BOOLEAN /\ x.metered \in BOOLEAN
BY DEF Processes

(* A change that is begun. *)
LEMMA OpFacts ==
  ASSUME NEW kind \in OpKinds, NEW g \in GoalIds, NEW next \in Records
  PROVE  /\ Op(kind, g, next) \in Ops /\ Op(kind, g, next) # NoOp
         /\ Op(kind, g, next).kind = kind /\ Op(kind, g, next).goal = g
         /\ Op(kind, g, next).next = next /\ ~Op(kind, g, next).stale
<1>1. Op(kind, g, next) \in Ops
  BY DEF Op, Ops
<1> QED
  BY <1>1, NoOpAssumption DEF Op

(* A change that goes on, or that another process has overtaken. *)
LEMMA OpUpdates ==
  ASSUME NEW x \in Processes, x.op # NoOp
  PROVE  /\ x.op \in Ops
         /\ \A kind \in OpKinds :
              /\ [x.op EXCEPT !.kind = kind] \in Ops /\ [x.op EXCEPT !.kind = kind] # NoOp
              /\ [x.op EXCEPT !.kind = kind].kind = kind
              /\ [x.op EXCEPT !.kind = kind].goal = x.op.goal
              /\ [x.op EXCEPT !.kind = kind].next = x.op.next
              /\ [x.op EXCEPT !.kind = kind].stale = x.op.stale
         /\ [x.op EXCEPT !.stale = TRUE] \in Ops /\ [x.op EXCEPT !.stale = TRUE] # NoOp
         /\ [x.op EXCEPT !.stale = TRUE].kind = x.op.kind
         /\ [x.op EXCEPT !.stale = TRUE].goal = x.op.goal
         /\ [x.op EXCEPT !.stale = TRUE].next = x.op.next
<1>1. x.op \in Ops
  BY DEF Processes
<1> DEFINE op == x.op
<1>2. /\ op \in Ops /\ op.kind \in OpKinds /\ op.goal \in GoalIds /\ op.next \in Records
      /\ op.stale \in BOOLEAN
  BY <1>1 DEF Ops
<1> HIDE DEF op
<1>3. \A kind \in OpKinds :
        /\ [op EXCEPT !.kind = kind] \in Ops
        /\ [op EXCEPT !.kind = kind].kind = kind
        /\ [op EXCEPT !.kind = kind].goal = op.goal
        /\ [op EXCEPT !.kind = kind].next = op.next
        /\ [op EXCEPT !.kind = kind].stale = op.stale
  BY <1>2 DEF Ops
<1>4. /\ [op EXCEPT !.stale = TRUE] \in Ops
      /\ [op EXCEPT !.stale = TRUE].kind = op.kind
      /\ [op EXCEPT !.stale = TRUE].goal = op.goal
      /\ [op EXCEPT !.stale = TRUE].next = op.next
  BY <1>2 DEF Ops
<1> QED
  BY <1>1, <1>3, <1>4, NoOpAssumption DEF op

(* The parts of the invariant's types that steps are made of. *)
LEMMA TypesFacts ==
  ASSUME Types
  PROVE  /\ active \in Files /\ archived \in Files /\ lease \subseteq Sessions
         /\ \A p \in Procs : Proper(proc[p], active, archived) /\ proc[p] \in Processes
         /\ starts \in 0..MaxStarts /\ faults \in 0..MaxFaults /\ causes \subseteq MayHappen
         /\ \A g \in GoalIds :
              /\ active[g] # NoFile => active[g] \in Records /\ active[g].status \in Open
              /\ archived[g] # NoFile => /\ archived[g] \in Records
                                         /\ archived[g].status = "complete"
BY DEF Types, Stored, Files, Proper

(* What a change under way is. *)
LEMMA UnderWay ==
  ASSUME Types, NEW p \in Procs, proc[p].op # NoOp
  PROVE  /\ proc[p].op \in Ops /\ proc[p].op.kind \in OpKinds /\ proc[p].op.goal \in GoalIds
         /\ proc[p].op.next \in Records /\ proc[p].op.stale \in BOOLEAN
         /\ proc[p].up /\ proc[p].session \in Sessions
         /\ Sound(proc[p].op, active, archived)
<1>1. Proper(proc[p], active, archived) /\ proc[p] \in Processes
  BY TypesFacts
<1>2. proc[p].op \in Ops
  BY <1>1, ProcessFields
<1> QED
  BY <1>1, <1>2 DEF Proper, Ops

(* A goal of a running process. *)
LEMMA OwnFacts ==
  ASSUME Types, NEW p \in Procs, NEW g \in GoalIds, Owns(p, g)
  PROVE  /\ active[g] # NoFile /\ active[g] \in Records /\ active[g].owner = proc[p].session
         /\ active[g].status \in Open /\ active[g].owner \in Sessions
         /\ active[g].used \in 0..Budget
BY TypesFacts DEF Owns, Records

(* The focused goal is an open one of the session. *)
LEMMA FocusFacts ==
  ASSUME Types, NEW p \in Procs, Focused(p)
  PROVE  proc[p].focus \in GoalIds /\ Owns(p, proc[p].focus)
BY TypesFacts, ProcessFields DEF Focused

(* Records that change the status, the owner or what was used. *)
LEMMA RecordUpdates ==
  ASSUME NEW r \in Records
  PROVE  /\ \A status \in Open \cup {"complete"} :
              /\ [r EXCEPT !.status = status] \in Records
              /\ [r EXCEPT !.status = status].status = status
              /\ [r EXCEPT !.status = status].owner = r.owner
              /\ [r EXCEPT !.status = status].used = r.used
         /\ \A s \in Sessions :
              /\ [r EXCEPT !.owner = s] \in Records
              /\ [r EXCEPT !.owner = s].status = r.status
              /\ [r EXCEPT !.owner = s].owner = s
         /\ Complete(r) \in Records /\ Complete(r).status = "complete"
         /\ Complete(r).owner = r.owner
BY DEF Records, Complete

(* What a charge writes: within the budget while it stays active. *)
LEMMA ChargedFacts ==
  ASSUME NEW r \in Records, r.status \in Open, NEW n \in 0..1
  PROVE  /\ Charged(r, n) \in Records /\ Charged(r, n).status \in Open
         /\ Charged(r, n).owner = r.owner /\ Within(Charged(r, n))
<1>1. /\ r.status \in Open /\ r.owner \in Sessions /\ r.used \in 0..Budget
      /\ r.used \in Nat /\ Budget \in Nat /\ n \in Nat
  BY BoundsAssumption DEF Records
<1> DEFINE used == IF r.used + n > Budget THEN Budget ELSE r.used + n
           status == IF r.used + n >= Budget /\ r.status = "active" THEN "budget_limited"
                     ELSE r.status
<1>2. /\ Charged(r, n).used = used /\ Charged(r, n).status = status
      /\ Charged(r, n).owner = r.owner
      /\ Charged(r, n) = [r EXCEPT !.used = used, !.status = status]
  BY DEF Charged, Records
<1>3. used \in 0..Budget
  BY <1>1
<1>4. status \in Open
  BY <1>1 DEF Open
<1>5. status = "active" => used < Budget
  BY <1>1
<1> HIDE DEF used, status
<1>6. [r EXCEPT !.used = used, !.status = status] \in Records
  BY <1>3, <1>4 DEF Records
<1> QED
  BY <1>2, <1>4, <1>5, <1>6 DEF Within

----------------------------------------------------------------------------
(* What a step does to the processes *)

(* One process changes, in what is listed; its session is the same.        *)
Becomes(p, focus, run, audit, metered, op) ==
  /\ proc' \in [Procs -> Processes]
  /\ \A q \in Procs \ {p} : proc'[q] = proc[q]
  /\ proc'[p].up = proc[p].up /\ proc'[p].session = proc[p].session
  /\ proc'[p].focus = focus /\ proc'[p].run = run /\ proc'[p].audit = audit
  /\ proc'[p].metered = metered /\ proc'[p].op = op

(* Replacing the record of one process. *)
LEMMA ReplaceOne ==
  ASSUME Types, NEW p \in Procs, NEW x \in Processes,
         proc' = [proc EXCEPT ![p] = x],
         x.up = proc[p].up, x.session = proc[p].session
  PROVE  Becomes(p, x.focus, x.run, x.audit, x.metered, x.op)
BY DEF Becomes, Types

(* A prompt starts a run. *)
LEMMA PromptEffect ==
  ASSUME Types, NEW p \in Procs, Prompt(p)
  PROVE  Becomes(p, proc[p].focus, "working", proc[p].audit, proc[p].metered, NoOp)
<1> DEFINE x == [proc[p] EXCEPT !.run = "working", !.stopped = FALSE]
<1>1. proc[p] \in Processes /\ proc[p].op = NoOp
  BY TypesFacts DEF Prompt, Free
<1>2. proc' = [proc EXCEPT ![p] = x]
  BY DEF Prompt, Types
<1>3. /\ x \in Processes /\ x.up = proc[p].up /\ x.session = proc[p].session
      /\ x.focus = proc[p].focus /\ x.run = "working" /\ x.audit = proc[p].audit
      /\ x.metered = proc[p].metered /\ x.op = NoOp
  BY <1>1 DEF Processes, Runs
<1> HIDE DEF x
<1> QED
  BY <1>2, <1>3, ReplaceOne

(* A change begins: only the change under way is new. *)
LEMMA BeginEffect ==
  ASSUME Types, NEW p \in Procs, NEW op \in Ops, Begin(p, op)
  PROVE  Becomes(p, proc[p].focus, proc[p].run, proc[p].audit, proc[p].metered, op)
<1> DEFINE x == [proc[p] EXCEPT !.op = op]
<1>1. proc[p] \in Processes
  BY TypesFacts
<1>2. proc' = [proc EXCEPT ![p] = x]
  BY DEF Begin, Types
<1>3. /\ x \in Processes /\ x.up = proc[p].up /\ x.session = proc[p].session
      /\ x.focus = proc[p].focus /\ x.run = proc[p].run /\ x.audit = proc[p].audit
      /\ x.metered = proc[p].metered /\ x.op = op
  BY <1>1 DEF Processes
<1> HIDE DEF x
<1> QED
  BY <1>2, <1>3, ReplaceOne

(* The audit is of the focused goal. *)
LEMMA StartAuditEffect ==
  ASSUME Types, NEW p \in Procs, StartAudit(p)
  PROVE  /\ proc[p].focus \in GoalIds
         /\ Becomes(p, proc[p].focus, "auditing", proc[p].focus, proc[p].metered, NoOp)
<1> DEFINE x == [proc[p] EXCEPT !.run = "auditing", !.audit = proc[p].focus]
<1>1. proc[p] \in Processes /\ proc[p].op = NoOp /\ proc[p].focus \in GoalIds
  BY TypesFacts, FocusFacts DEF StartAudit, Free
<1>2. proc' = [proc EXCEPT ![p] = x]
  BY DEF StartAudit, Types
<1>3. /\ x \in Processes /\ x.up = proc[p].up /\ x.session = proc[p].session
      /\ x.focus = proc[p].focus /\ x.run = "auditing" /\ x.audit = proc[p].focus
      /\ x.metered = proc[p].metered /\ x.op = NoOp
  BY <1>1 DEF Processes, Runs
<1> HIDE DEF x
<1> QED
  BY <1>1, <1>2, <1>3, ReplaceOne

(* A change that a process begins of a goal of its session.                *)
OfOwn(p, op) ==
  /\ op \in Ops /\ ~op.stale /\ Owns(p, op.goal) /\ op.next.owner = proc[p].session
  /\ \/ op.kind = "write" /\ op.next.status \in Open
     \/ op.kind = "archive" /\ op.next.status = "complete"

(* A record that is written keeps the session as its owner. *)
LEMMA WriteOfOwn ==
  ASSUME Types, NEW p \in Procs, NEW g \in GoalIds, Owns(p, g),
         NEW next \in Records, next.owner = proc[p].session, next.status \in Open
  PROVE  OfOwn(p, Op("write", g, next))
BY OpFacts DEF OfOwn, OpKinds

(* A goal that is archived is complete. *)
LEMMA ArchiveOfOwn ==
  ASSUME Types, NEW p \in Procs, NEW g \in GoalIds, Owns(p, g)
  PROVE  OfOwn(p, Op("archive", g, Complete(active[g])))
BY OpFacts, OwnFacts, RecordUpdates DEF OfOwn, OpKinds

(* A change of status is a write. *)
LEMMA StatusOfOwn ==
  ASSUME Types, NEW p \in Procs, NEW g \in GoalIds, Owns(p, g), NEW status \in Open
  PROVE  OfOwn(p, Op("write", g, [active[g] EXCEPT !.status = status]))
<1>1. active[g] \in Records /\ active[g].owner = proc[p].session
  BY OwnFacts
<1> DEFINE next == [active[g] EXCEPT !.status = status]
<1>2. next \in Records /\ next.owner = proc[p].session /\ next.status \in Open
  BY <1>1, RecordUpdates
<1> HIDE DEF next
<1>3. OfOwn(p, Op("write", g, next))
  BY <1>2, WriteOfOwn
<1> QED
  BY <1>3 DEF next

(* A charge is a write of the focused goal, within the budget. *)
LEMMA ChargeOfOwn ==
  ASSUME Types, NEW p \in Procs, Focused(p), NEW n \in 0..1
  PROVE  LET op == Op("write", proc[p].focus, Charged(active[proc[p].focus], n))
         IN  OfOwn(p, op) /\ op.goal = proc[p].focus /\ op.kind = "write" /\ Within(op.next)
<1> DEFINE g == proc[p].focus
           next == Charged(active[g], n)
<1>1. g \in GoalIds /\ Owns(p, g)
  BY FocusFacts
<1>2. /\ active[g] \in Records /\ active[g].owner = proc[p].session
      /\ active[g].status \in Open
  BY <1>1, OwnFacts
<1>3. /\ next \in Records /\ next.owner = proc[p].session /\ next.status \in Open
      /\ Within(next)
  BY <1>2, ChargedFacts
<1> HIDE DEF next, g
<1>4. OfOwn(p, Op("write", g, next))
  BY <1>1, <1>3, WriteOfOwn
<1>5. /\ Op("write", g, next).goal = g /\ Op("write", g, next).kind = "write"
      /\ Op("write", g, next).next = next
  BY DEF Op
<1> QED
  BY <1>3, <1>4, <1>5 DEF g, next

(* A status, or what leaves the status alone. *)
LEMMA AgentUpdatesEffect ==
  ASSUME Types, NEW p \in Procs, AgentUpdates(p)
  PROVE  \E op \in Ops :
           /\ OfOwn(p, op) /\ Begin(p, op)
           /\ Becomes(p, proc[p].focus, proc[p].run, proc[p].audit, proc[p].metered, op)
<1>1. PICK status \in {"active", "paused", "blocked", active[proc[p].focus].status} :
        Mutate(p, proc[p].focus, [active[proc[p].focus] EXCEPT !.status = status])
  BY DEF AgentUpdates
<1>2. proc[p].focus \in GoalIds /\ Owns(p, proc[p].focus)
  BY FocusFacts DEF AgentUpdates
<1>3. status \in Open
  BY <1>1, <1>2, OwnFacts DEF Open
<1> DEFINE op == Op("write", proc[p].focus,
                    [active[proc[p].focus] EXCEPT !.status = status])
<1>4. OfOwn(p, op)
  BY <1>2, <1>3, StatusOfOwn
<1>5. Begin(p, op)
  BY <1>1 DEF Mutate
<1> HIDE DEF op
<1>6. op \in Ops
  BY <1>4 DEF OfOwn
<1> QED
  BY <1>4, <1>5, <1>6, BeginEffect

(* The user archives the focused goal. *)
LEMMA ArchiveEffect ==
  ASSUME Types, NEW p \in Procs, Archive(p)
  PROVE  \E op \in Ops :
           /\ OfOwn(p, op) /\ Begin(p, op)
           /\ Becomes(p, proc[p].focus, proc[p].run, proc[p].audit, proc[p].metered, op)
<1> DEFINE op == Op("archive", proc[p].focus, Complete(active[proc[p].focus]))
<1>1. Begin(p, op) /\ proc[p].focus \in GoalIds /\ Owns(p, proc[p].focus)
  BY FocusFacts DEF Archive
<1>2. OfOwn(p, op)
  BY <1>1, ArchiveOfOwn
<1> HIDE DEF op
<1>3. op \in Ops
  BY <1>2 DEF OfOwn
<1> QED
  BY <1>1, <1>2, <1>3, BeginEffect

(* An audit ends in the run it interrupted, and may change its goal. *)
LEMMA AuditEndsEffect ==
  ASSUME Types, NEW p \in Procs, AuditEnds(p)
  PROVE  \/ Becomes(p, proc[p].focus, "working", NoGoal, proc[p].metered, NoOp)
         \/ /\ proc[p].audit \in GoalIds /\ Owns(p, proc[p].audit)
            /\ \E op \in Ops :
                 /\ OfOwn(p, op)
                 /\ Becomes(p, proc[p].focus, "working", NoGoal, proc[p].metered, op)
<1> DEFINE after == [proc[p] EXCEPT !.run = "working", !.audit = NoGoal]
           g == proc[p].audit
<1>1. /\ proc[p] \in Processes /\ proc[p].op = NoOp
      /\ proc[p].audit \in GoalIds
  BY TypesFacts, ProcessFields DEF AuditEnds, Free, Proper
<1>2. /\ after \in Processes /\ after.up = proc[p].up /\ after.session = proc[p].session
      /\ after.focus = proc[p].focus /\ after.run = "working" /\ after.audit = NoGoal
      /\ after.metered = proc[p].metered /\ after.op = NoOp
  BY <1>1 DEF Processes, Runs
<1>3. IF Owns(p, g)
      THEN \E op \in Verdict(p, g) : proc' = [proc EXCEPT ![p] = [after EXCEPT !.op = op]]
      ELSE proc' = [proc EXCEPT ![p] = after]
  BY DEF AuditEnds
<1> HIDE DEF after
<1>4. CASE ~Owns(p, g)
  BY <1>2, <1>3, <1>4, ReplaceOne
<1>5. CASE Owns(p, g)
  <2>1. PICK op \in Verdict(p, g) : proc' = [proc EXCEPT ![p] = [after EXCEPT !.op = op]]
    BY <1>3, <1>5
  <2>2. \/ op = Op("write", g, [active[g] EXCEPT !.status = "active"])
        \/ op = Op("archive", g, Complete(active[g]))
    BY <2>1 DEF Verdict
  <2>3. OfOwn(p, op) /\ op \in Ops
    <3>1. CASE op = Op("write", g, [active[g] EXCEPT !.status = "active"])
      <4>1. "active" \in Open
        BY DEF Open
      <4>2. OfOwn(p, Op("write", g, [active[g] EXCEPT !.status = "active"]))
        BY <1>1, <1>5, <4>1, StatusOfOwn
      <4> QED
        BY <3>1, <4>2 DEF OfOwn
    <3>2. CASE op = Op("archive", g, Complete(active[g]))
      <4>1. OfOwn(p, Op("archive", g, Complete(active[g])))
        BY <1>1, <1>5, ArchiveOfOwn
      <4> QED
        BY <3>2, <4>1 DEF OfOwn
    <3> QED
      BY <2>2, <3>1, <3>2
  <2> DEFINE x == [after EXCEPT !.op = op]
  <2>4. /\ x \in Processes /\ x.up = proc[p].up /\ x.session = proc[p].session
        /\ x.focus = proc[p].focus /\ x.run = "working" /\ x.audit = NoGoal
        /\ x.metered = proc[p].metered /\ x.op = op
    BY <1>2, <2>3 DEF Processes
  <2>5. proc' = [proc EXCEPT ![p] = x]
    BY <2>1
  <2> HIDE DEF x
  <2>6. Becomes(p, proc[p].focus, "working", NoGoal, proc[p].metered, op)
    BY <2>4, <2>5, ReplaceOne
  <2> QED
    BY <1>1, <1>5, <2>3, <2>6
<1> QED
  BY <1>4, <1>5

(* Esc pauses the focused goal when it is active. *)
LEMMA EscEffect ==
  ASSUME Types, NEW p \in Procs, Esc(p)
  PROVE  \/ Becomes(p, proc[p].focus, proc[p].run, proc[p].audit, proc[p].metered, NoOp)
         \/ \E op \in Ops :
              /\ OfOwn(p, op)
              /\ Becomes(p, proc[p].focus, proc[p].run, proc[p].audit, proc[p].metered, op)
<1> DEFINE paused == Op("write", proc[p].focus,
                        [active[proc[p].focus] EXCEPT !.status = "paused"])
           does == Focused(p) /\ active[proc[p].focus].status = "active"
           op == IF does THEN paused ELSE NoOp
           x == [proc[p] EXCEPT !.esc = TRUE, !.op = op]
<1>1. proc[p] \in Processes
  BY TypesFacts
<1>2. proc' = [proc EXCEPT ![p] = x]
  BY DEF Esc, Types
<1>3. op = NoOp \/ (op \in Ops /\ OfOwn(p, op))
  <2>1. CASE does
    <3>1. proc[p].focus \in GoalIds /\ Owns(p, proc[p].focus)
      BY <2>1, FocusFacts
    <3> QED
      BY <2>1, <3>1, StatusOfOwn DEF OfOwn, Open
  <2>2. CASE ~does
    BY <2>2
  <2> QED
    BY <2>1, <2>2
<1> HIDE DEF op, paused
<1>5. /\ x \in Processes /\ x.up = proc[p].up /\ x.session = proc[p].session
      /\ x.focus = proc[p].focus /\ x.run = proc[p].run /\ x.audit = proc[p].audit
      /\ x.metered = proc[p].metered /\ x.op = op
  BY <1>1, <1>3 DEF Processes
<1> HIDE DEF x
<1>6. Becomes(p, proc[p].focus, proc[p].run, proc[p].audit, proc[p].metered, op)
  BY <1>2, <1>5, ReplaceOne
<1> QED
  BY <1>3, <1>6

(* A run ends before its charge. *)
LEMMA EndRunEffect ==
  ASSUME Types, NEW p \in Procs, EndRun(p)
  PROVE  Becomes(p, proc[p].focus, "ending", proc[p].audit, proc[p].metered, NoOp)
<1>1. proc[p] \in Processes /\ proc[p].op = NoOp
  BY TypesFacts DEF EndRun, Free
<1>2. PICK seen \in BOOLEAN :
        proc' = [proc EXCEPT ![p].run = "ending", ![p].esc = FALSE, ![p].stopped = seen]
  BY DEF EndRun
<1> DEFINE x == [proc[p] EXCEPT !.run = "ending", !.esc = FALSE, !.stopped = seen]
<1>3. proc' = [proc EXCEPT ![p] = x]
  BY <1>2 DEF Types
<1>4. /\ x \in Processes /\ x.up = proc[p].up /\ x.session = proc[p].session
      /\ x.focus = proc[p].focus /\ x.run = "ending" /\ x.audit = proc[p].audit
      /\ x.metered = proc[p].metered /\ x.op = NoOp
  BY <1>1 DEF Processes, Runs
<1> HIDE DEF x
<1> QED
  BY <1>3, <1>4, ReplaceOne

(* A run is charged: not at all, without a goal, or with a write of the goal. *)
LEMMA ChargeEffect ==
  ASSUME Types, NEW p \in Procs, Charge(p)
  PROVE  \/ Becomes(p, proc[p].focus, "charged", proc[p].audit, FALSE, NoOp)
         \/ /\ ~Focused(p)
            /\ Becomes(p, proc[p].focus, "charged", proc[p].audit, TRUE, NoOp)
         \/ \E op \in Ops :
              /\ OfOwn(p, op)
              /\ op.kind = "write" /\ op.goal = proc[p].focus /\ Within(op.next)
              /\ Becomes(p, proc[p].focus, "charged", proc[p].audit, TRUE, op)
<1> DEFINE after == [proc[p] EXCEPT !.run = "charged", !.billed = TRUE]
<1>1. proc[p] \in Processes /\ proc[p].op = NoOp
  BY TypesFacts DEF Charge, Free
<1>2. /\ after \in Processes /\ after.up = proc[p].up /\ after.session = proc[p].session
      /\ after.focus = proc[p].focus /\ after.run = "charged" /\ after.audit = proc[p].audit
      /\ after.op = NoOp
  BY <1>1 DEF Processes, Runs
<1>3. \/ proc' = [proc EXCEPT ![p] = [after EXCEPT !.metered = FALSE]]
      \/ ~Focused(p) /\ proc' = [proc EXCEPT ![p] = [after EXCEPT !.metered = TRUE]]
      \/ /\ Focused(p)
         /\ \E n \in 0..1 :
              proc' = [proc EXCEPT ![p] =
                         [after EXCEPT !.metered = TRUE,
                                       !.op = Op("write", proc[p].focus,
                                                 Charged(active[proc[p].focus], n))]]
  BY DEF Charge
<1> HIDE DEF after
<1>4. ASSUME NEW b \in BOOLEAN, NEW op \in Ops \cup {NoOp},
             proc' = [proc EXCEPT ![p] = [after EXCEPT !.metered = b, !.op = op]]
      PROVE  Becomes(p, proc[p].focus, "charged", proc[p].audit, b, op)
  <2> DEFINE x == [after EXCEPT !.metered = b, !.op = op]
  <2>1. /\ x \in Processes /\ x.up = proc[p].up /\ x.session = proc[p].session
        /\ x.focus = proc[p].focus /\ x.run = "charged" /\ x.audit = proc[p].audit
        /\ x.metered = b /\ x.op = op
    BY <1>2 DEF Processes
  <2>2. proc' = [proc EXCEPT ![p] = x]
    BY <1>4
  <2> HIDE DEF x
  <2> QED
    BY <2>1, <2>2, ReplaceOne
<1>5. ASSUME NEW b \in BOOLEAN, proc' = [proc EXCEPT ![p] = [after EXCEPT !.metered = b]]
      PROVE  Becomes(p, proc[p].focus, "charged", proc[p].audit, b, NoOp)
  <2>1. [after EXCEPT !.metered = b] = [after EXCEPT !.metered = b, !.op = NoOp]
    BY <1>2 DEF Processes
  <2>2. proc' = [proc EXCEPT ![p] = [after EXCEPT !.metered = b, !.op = NoOp]]
    BY <1>5, <2>1
  <2> QED
    BY <1>4, <2>2
<1>6. CASE proc' = [proc EXCEPT ![p] = [after EXCEPT !.metered = FALSE]]
  BY <1>5, <1>6
<1>7. CASE ~Focused(p) /\ proc' = [proc EXCEPT ![p] = [after EXCEPT !.metered = TRUE]]
  BY <1>5, <1>7
<1>8. ASSUME Focused(p), NEW n \in 0..1,
             proc' = [proc EXCEPT ![p] =
                        [after EXCEPT !.metered = TRUE,
                                      !.op = Op("write", proc[p].focus,
                                                Charged(active[proc[p].focus], n))]]
      PROVE  \E op \in Ops :
               /\ OfOwn(p, op)
               /\ op.kind = "write" /\ op.goal = proc[p].focus /\ Within(op.next)
               /\ Becomes(p, proc[p].focus, "charged", proc[p].audit, TRUE, op)
  <2> DEFINE op == Op("write", proc[p].focus, Charged(active[proc[p].focus], n))
  <2>1. OfOwn(p, op) /\ op.kind = "write" /\ op.goal = proc[p].focus /\ Within(op.next)
    BY <1>8, ChargeOfOwn
  <2>2. proc' = [proc EXCEPT ![p] = [after EXCEPT !.metered = TRUE, !.op = op]]
    BY <1>8
  <2> HIDE DEF op
  <2>3. op \in Ops
    BY <2>1 DEF OfOwn
  <2>4. Becomes(p, proc[p].focus, "charged", proc[p].audit, TRUE, op)
    BY <1>4, <2>2, <2>3
  <2> QED
    BY <2>1, <2>3, <2>4
<1> QED
  BY <1>3, <1>6, <1>7, <1>8

(* A checkpoint starts the next run. *)
LEMMA CheckpointEffect ==
  ASSUME Types, NEW p \in Procs, Checkpoint(p)
  PROVE  Becomes(p, proc[p].focus, "working", proc[p].audit, proc[p].metered, NoOp)
<1> DEFINE x == [proc[p] EXCEPT !.run = "working"]
<1>1. proc[p] \in Processes /\ proc[p].op = NoOp
  BY TypesFacts DEF Checkpoint, Free
<1>2. proc' = [proc EXCEPT ![p] = x]
  BY DEF Checkpoint, Types
<1>3. /\ x \in Processes /\ x.up = proc[p].up /\ x.session = proc[p].session
      /\ x.focus = proc[p].focus /\ x.run = "working" /\ x.audit = proc[p].audit
      /\ x.metered = proc[p].metered /\ x.op = NoOp
  BY <1>1 DEF Processes, Runs
<1> HIDE DEF x
<1> QED
  BY <1>2, <1>3, ReplaceOne

(* A charged run goes idle. *)
LEMMA GoIdleEffect ==
  ASSUME Types, NEW p \in Procs, GoIdle(p)
  PROVE  Becomes(p, proc[p].focus, "idle", proc[p].audit, proc[p].metered, NoOp)
<1> DEFINE x == [proc[p] EXCEPT !.run = "idle"]
<1>1. proc[p] \in Processes /\ proc[p].op = NoOp
  BY TypesFacts DEF GoIdle, Free
<1>2. proc' = [proc EXCEPT ![p] = x]
  BY DEF GoIdle, Types
<1>3. /\ x \in Processes /\ x.up = proc[p].up /\ x.session = proc[p].session
      /\ x.focus = proc[p].focus /\ x.run = "idle" /\ x.audit = proc[p].audit
      /\ x.metered = proc[p].metered /\ x.op = NoOp
  BY <1>1 DEF Processes, Runs
<1> HIDE DEF x
<1> QED
  BY <1>2, <1>3, ReplaceOne

(* Selecting a goal changes the focus only. *)
LEMMA SelectEffect ==
  ASSUME Types, NEW p \in Procs, NEW g \in GoalIds, Select(p, g)
  PROVE  Becomes(p, g, proc[p].run, proc[p].audit, proc[p].metered, NoOp)
<1> DEFINE x == [proc[p] EXCEPT !.focus = g]
<1>1. proc[p] \in Processes /\ proc[p].op = NoOp
  BY TypesFacts DEF Select, Awaits, Free
<1>2. proc' = [proc EXCEPT ![p] = x]
  BY DEF Select, Types
<1>3. /\ x \in Processes /\ x.up = proc[p].up /\ x.session = proc[p].session
      /\ x.focus = g /\ x.run = proc[p].run /\ x.audit = proc[p].audit
      /\ x.metered = proc[p].metered /\ x.op = NoOp
  BY <1>1 DEF Processes
<1> HIDE DEF x
<1> QED
  BY <1>2, <1>3, ReplaceOne

(* A change that is over. *)
LEMMA DoneFacts ==
  ASSUME Types, NEW p \in Procs, NEW g
  PROVE  /\ Done(p) \in Processes /\ Unfocused(Done(p), g) \in Processes
         /\ \A x \in {Done(p), Unfocused(Done(p), g)} :
              /\ x.up = proc[p].up /\ x.session = proc[p].session
              /\ x.run = proc[p].run /\ x.audit = proc[p].audit
              /\ x.metered = proc[p].metered /\ x.op = NoOp
         /\ Done(p).focus = proc[p].focus
         /\ Unfocused(Done(p), g).focus \in {proc[p].focus, NoGoal}
<1>1. proc[p] \in Processes
  BY TypesFacts
<1>2. /\ Done(p) \in Processes
      /\ Done(p).up = proc[p].up /\ Done(p).session = proc[p].session
      /\ Done(p).run = proc[p].run /\ Done(p).audit = proc[p].audit
      /\ Done(p).metered = proc[p].metered /\ Done(p).op = NoOp
      /\ Done(p).focus = proc[p].focus
  BY <1>1 DEF Done, Processes
<1> DEFINE x == Done(p)
           y == [x EXCEPT !.focus = NoGoal]
<1>3. Unfocused(Done(p), g) \in {x, y}
  BY DEF Unfocused
<1> HIDE DEF x
<1>4. ASSUME x \in Processes
      PROVE  /\ y \in Processes /\ y.focus = NoGoal
             /\ y.up = x.up /\ y.session = x.session /\ y.run = x.run /\ y.audit = x.audit
             /\ y.metered = x.metered /\ y.op = x.op
  BY <1>4 DEF Processes
<1>5. x = Done(p)
  BY DEF x
<1> HIDE DEF y
<1> QED
  BY <1>2, <1>3, <1>4, <1>5

(* A change that renewed the lease is done. *)
LEMMA RenewLeaseEffect ==
  ASSUME Types, NEW p \in Procs, RenewLease(p)
  PROVE  Becomes(p, proc[p].focus, proc[p].run, proc[p].audit, proc[p].metered, NoOp)
<1>1. proc' = [proc EXCEPT ![p] = Done(p)]
  BY DEF RenewLease
<1>2. Done(p) \in Processes
  BY DoneFacts
<1>3. Becomes(p, Done(p).focus, Done(p).run, Done(p).audit, Done(p).metered, Done(p).op)
  BY <1>1, <1>2, ReplaceOne, DoneFacts
<1> QED
  BY <1>3, DoneFacts

(* A change that fails is done, and may drop the focus. *)
LEMMA WriteFailsEffect ==
  ASSUME Types, NEW p \in Procs, WriteFails(p)
  PROVE  \E focus \in {proc[p].focus, NoGoal} :
           Becomes(p, focus, proc[p].run, proc[p].audit, proc[p].metered, NoOp)
<1>1. \E x \in {Done(p), Unfocused(Done(p), proc[p].op.goal)} : proc' = [proc EXCEPT ![p] = x]
  BY DEF WriteFails
<1>2. PICK x \in {Done(p), Unfocused(Done(p), proc[p].op.goal)} :
        proc' = [proc EXCEPT ![p] = x]
  BY <1>1
<1>3. /\ x \in Processes /\ x.up = proc[p].up /\ x.session = proc[p].session
      /\ x.focus \in {proc[p].focus, NoGoal} /\ x.run = proc[p].run
      /\ x.audit = proc[p].audit /\ x.metered = proc[p].metered /\ x.op = NoOp
  BY DoneFacts
<1>4. Becomes(p, x.focus, x.run, x.audit, x.metered, x.op)
  BY <1>2, <1>3, ReplaceOne
<1> QED
  BY <1>3, <1>4

(* Going on with a change: the next file operation.                        *)
Going(p, focus, kind) == [proc[p] EXCEPT !.focus = focus, !.op.kind = kind]

(* A claim that goes on focuses its goal. *)
LEMMA GoesOn ==
  ASSUME Types, NEW p \in Procs, proc[p].op # NoOp, NEW kind \in OpKinds,
         NEW focus \in GoalIds \cup {NoGoal}
  PROVE  LET x == Going(p, focus, kind)
         IN  /\ x \in Processes /\ x.up = proc[p].up /\ x.session = proc[p].session
             /\ x.focus = focus /\ x.run = proc[p].run /\ x.audit = proc[p].audit
             /\ x.metered = proc[p].metered /\ x.op = [proc[p].op EXCEPT !.kind = kind]
<1> DEFINE op == [proc[p].op EXCEPT !.kind = kind]
           x == [proc[p] EXCEPT !.focus = focus, !.op = op]
<1>1. proc[p] \in Processes /\ op \in Ops
  BY TypesFacts, OpUpdates
<1>2. Going(p, focus, kind) = x
  BY <1>1 DEF Processes, Going
<1> HIDE DEF op
<1>3. /\ x \in Processes /\ x.up = proc[p].up /\ x.session = proc[p].session
      /\ x.focus = focus /\ x.run = proc[p].run /\ x.audit = proc[p].audit
      /\ x.metered = proc[p].metered /\ x.op = op
  BY <1>1 DEF Processes
<1> QED
  BY <1>2, <1>3 DEF op

(* A change goes on in its next kind. *)
LEMMA KindGoesOn ==
  ASSUME Types, NEW p \in Procs, proc[p].op # NoOp, NEW kind \in OpKinds
  PROVE  LET x == [proc[p] EXCEPT !.op.kind = kind]
         IN  /\ x \in Processes /\ x.up = proc[p].up /\ x.session = proc[p].session
             /\ x.focus = proc[p].focus /\ x.run = proc[p].run /\ x.audit = proc[p].audit
             /\ x.metered = proc[p].metered /\ x.op = [proc[p].op EXCEPT !.kind = kind]
<1> DEFINE op == [proc[p].op EXCEPT !.kind = kind]
           x == [proc[p] EXCEPT !.op = op]
<1>1. proc[p] \in Processes /\ op \in Ops
  BY TypesFacts, OpUpdates
<1>2. [proc[p] EXCEPT !.op.kind = kind] = x
  BY <1>1 DEF Processes
<1> HIDE DEF op
<1>3. /\ x \in Processes /\ x.up = proc[p].up /\ x.session = proc[p].session
      /\ x.focus = proc[p].focus /\ x.run = proc[p].run /\ x.audit = proc[p].audit
      /\ x.metered = proc[p].metered /\ x.op = op
  BY <1>1 DEF Processes
<1> QED
  BY <1>2, <1>3 DEF op

(* What replacing or removing the file of a goal does to the others.       *)
Stays(q) ==
  /\ proc'[q].up = proc[q].up /\ proc'[q].session = proc[q].session
  /\ proc'[q].focus = proc[q].focus /\ proc'[q].run = proc[q].run
  /\ proc'[q].audit = proc[q].audit /\ proc'[q].metered = proc[q].metered
  /\ proc[q].op = NoOp <=> proc'[q].op = NoOp
  /\ proc[q].op # NoOp => /\ proc'[q].op.kind = proc[q].op.kind
                          /\ proc'[q].op.goal = proc[q].op.goal
                          /\ proc'[q].op.next = proc[q].op.next

(* A file that is replaced makes other changes of that goal stale, and no more. *)
LEMMA ReplacedFacts ==
  ASSUME Types, NEW p \in Procs, NEW g, NEW x \in Processes, proc' = Replaced(p, g, x)
  PROVE  /\ proc' \in [Procs -> Processes] /\ proc'[p] = x
         /\ \A q \in Procs \ {p} :
              /\ Stays(q)
              /\ proc[q].op = NoOp \/ proc[q].op.goal # g => proc'[q] = proc[q]
<1> DEFINE marked(q) == [proc[q] EXCEPT !.op.stale = TRUE]
<1>1. ASSUME NEW q \in Procs, proc[q].op # NoOp
      PROVE  /\ marked(q) \in Processes
             /\ marked(q).up = proc[q].up /\ marked(q).session = proc[q].session
             /\ marked(q).focus = proc[q].focus /\ marked(q).run = proc[q].run
             /\ marked(q).audit = proc[q].audit /\ marked(q).metered = proc[q].metered
             /\ marked(q).op # NoOp /\ marked(q).op.kind = proc[q].op.kind
             /\ marked(q).op.goal = proc[q].op.goal /\ marked(q).op.next = proc[q].op.next
  <2> DEFINE op == [proc[q].op EXCEPT !.stale = TRUE]
             y == [proc[q] EXCEPT !.op = op]
  <2>1. /\ proc[q] \in Processes /\ op \in Ops /\ op # NoOp /\ op.kind = proc[q].op.kind
        /\ op.goal = proc[q].op.goal /\ op.next = proc[q].op.next
    BY <1>1, TypesFacts, OpUpdates
  <2>2. marked(q) = y
    BY <2>1 DEF Processes
  <2> HIDE DEF op
  <2>3. /\ y \in Processes
        /\ y.up = proc[q].up /\ y.session = proc[q].session /\ y.focus = proc[q].focus
        /\ y.run = proc[q].run /\ y.audit = proc[q].audit /\ y.metered = proc[q].metered
        /\ y.op = op
    BY <2>1 DEF Processes
  <2> HIDE DEF y, marked
  <2> QED
    BY <2>1, <2>2, <2>3
<1>2. /\ DOMAIN proc' = Procs
      /\ \A q \in Procs : proc'[q] = IF q = p THEN x
                                     ELSE IF proc[q].op # NoOp /\ proc[q].op.goal = g
                                          THEN marked(q) ELSE proc[q]
      /\ proc' = [q \in Procs |-> proc'[q]]
  BY DEF Replaced
<1> HIDE DEF marked
<1>3. \A q \in Procs \ {p} :
        /\ proc[q].op # NoOp /\ proc[q].op.goal = g => proc'[q] = marked(q)
        /\ proc[q].op = NoOp \/ proc[q].op.goal # g => proc'[q] = proc[q]
  BY <1>2
<1>4. \A q \in Procs : proc'[q] \in Processes
  BY <1>1, <1>2, TypesFacts
<1>5. \A q \in Procs \ {p} : Stays(q)
  BY <1>1, <1>3 DEF Stays
<1>6. proc' \in [Procs -> Processes]
  BY <1>2, <1>4
<1> QED
  BY <1>2, <1>3, <1>5, <1>6

(* Files are not lost: a goal that has one keeps one, an archived one its own. *)
Grow ==
  \A g \in GoalIds :
    /\ active[g] # NoFile \/ archived[g] # NoFile => active'[g] # NoFile \/ archived'[g] # NoFile
    /\ archived[g] # NoFile => archived'[g] # NoFile

(* The types, from those of one process and of the files. *)
LEMMA TypesStep ==
  ASSUME Types, Stored', Grow, proc' \in [Procs -> Processes], NEW p \in Procs,
         \A q \in Procs \ {p} : Stays(q),
         Proper(proc'[p], active', archived')
  PROVE  Types'
<1>1. ASSUME NEW q \in Procs \ {p}
      PROVE  Proper(proc'[q], active', archived')
  <2>1. Proper(proc[q], active, archived) /\ proc[q] \in Processes /\ proc'[q] \in Processes
    BY TypesFacts
  <2>2. Stays(q)
    OBVIOUS
  <2>3. /\ proc'[q].up <=> proc'[q].session \in Sessions
        /\ proc'[q].run = "auditing" <=> proc'[q].audit # NoGoal
    BY <2>1, <2>2 DEF Proper, Stays
  <2>4. proc'[q].focus # NoGoal
          => active'[proc'[q].focus] # NoFile \/ archived'[proc'[q].focus] # NoFile
    BY <2>1, <2>2, ProcessFields DEF Proper, Stays, Grow
  <2>5. ASSUME proc'[q].op # NoOp
        PROVE  proc'[q].up /\ Sound(proc'[q].op, active', archived')
    <3>1. proc[q].op # NoOp
      BY <2>2, <2>5 DEF Stays
    <3>2. proc[q].op.goal \in GoalIds /\ proc[q].up /\ Sound(proc[q].op, active, archived)
      BY <3>1, UnderWay
    <3>3. /\ proc'[q].op.kind = proc[q].op.kind /\ proc'[q].op.goal = proc[q].op.goal
          /\ proc'[q].op.next = proc[q].op.next /\ proc'[q].up = proc[q].up
      BY <2>2, <3>1 DEF Stays
    <3> QED
      BY <3>2, <3>3 DEF Sound, Grow
  <2> QED
    BY <2>1, <2>3, <2>4, <2>5 DEF Proper
<1>2. \A q \in Procs : Proper(proc'[q], active', archived')
  BY <1>1
<1> QED
  BY <1>2 DEF Types

(* A process changes and no file does. *)
LEMMA BecomesTypes ==
  ASSUME Types, NEW p \in Procs, NEW focus \in GoalIds \cup {NoGoal}, NEW run \in Runs,
         NEW audit \in GoalIds \cup {NoGoal}, NEW metered \in BOOLEAN,
         NEW op \in Ops \cup {NoOp},
         Becomes(p, focus, run, audit, metered, op),
         UNCHANGED <<active, archived, starts, causes>>,
         faults' \in 0..MaxFaults, lease' \subseteq Sessions,
         run = "auditing" <=> audit # NoGoal,
         op # NoOp => proc[p].up /\ Sound(op, active, archived),
         focus # NoGoal => active[focus] # NoFile \/ archived[focus] # NoFile
  PROVE  Types'
<1>1. Stored'
  BY DEF Types, Stored
<1>2. Grow
  BY DEF Grow
<1>3. proc' \in [Procs -> Processes] /\ \A q \in Procs \ {p} : Stays(q)
  BY DEF Becomes, Stays
<1>4. Proper(proc[p], active, archived) /\ proc'[p] \in Processes
  BY <1>3, TypesFacts
<1>5. Proper(proc'[p], active', archived')
  BY <1>4 DEF Proper, Becomes
<1> QED
  BY <1>1, <1>2, <1>3, <1>5, TypesStep

(* A claim begins with the session as the new owner. *)
LEMMA ClaimEffect ==
  ASSUME Types, NEW p \in Procs, NEW g \in GoalIds, Claim(p, g)
  PROVE  LET op == Op("claim", g, [active[g] EXCEPT !.owner = proc[p].session])
         IN  /\ op \in Ops /\ op # NoOp /\ op.kind = "claim" /\ op.goal = g /\ ~op.stale
             /\ op.next.status \in Open /\ op.next.owner = proc[p].session
             /\ proc[p].op = NoOp /\ proc[p].up
             /\ Becomes(p, proc[p].focus, proc[p].run, proc[p].audit, proc[p].metered, op)
<1> DEFINE next == [active[g] EXCEPT !.owner = proc[p].session]
           op == Op("claim", g, next)
           x == [proc[p] EXCEPT !.op = op]
<1>1. /\ proc[p] \in Processes /\ proc[p].op = NoOp /\ proc[p].up
      /\ proc[p].session \in Sessions
  BY TypesFacts DEF Claim, Free, Proper
<1>2. active[g] \in Records /\ active[g].status \in Open
  BY TypesFacts DEF Claim
<1>3. next \in Records /\ next.status \in Open /\ next.owner = proc[p].session
  BY <1>1, <1>2, RecordUpdates
<1>4. proc' = [proc EXCEPT ![p] = x]
  BY DEF Claim, Types
<1> HIDE DEF next
<1>5. /\ op \in Ops /\ op # NoOp /\ op.kind = "claim" /\ op.goal = g /\ op.next = next
      /\ ~op.stale
  BY <1>3, OpFacts DEF OpKinds
<1> HIDE DEF op
<1>6. /\ x \in Processes /\ x.up = proc[p].up /\ x.session = proc[p].session
      /\ x.focus = proc[p].focus /\ x.run = proc[p].run /\ x.audit = proc[p].audit
      /\ x.metered = proc[p].metered /\ x.op = op
  BY <1>1, <1>5 DEF Processes
<1> HIDE DEF x
<1>7. Becomes(p, proc[p].focus, proc[p].run, proc[p].audit, proc[p].metered, op)
  BY <1>4, <1>6, ReplaceOne
<1> QED
  BY <1>1, <1>3, <1>5, <1>7 DEF op, next

(* A goal is created with its file, and the lease is to be renewed. *)
LEMMA CreateEffect ==
  ASSUME Types, NEW p \in Procs, NEW g \in GoalIds, Create(p, g)
  PROVE  \E record \in Records :
           /\ record.status = "active" /\ record.owner = proc[p].session
           /\ active' = [active EXCEPT ![g] = record]
           /\ proc[p].op = NoOp /\ proc[p].up /\ proc[p].run = "working"
           /\ Becomes(p, g, proc[p].run, proc[p].audit, proc[p].metered,
                      Op("renew", g, record))
<1> DEFINE record == [status |-> "active", owner |-> proc[p].session, used |-> 0]
           op == Op("renew", g, record)
           x == [proc[p] EXCEPT !.focus = g, !.op = op]
<1>1. /\ proc[p] \in Processes /\ proc[p].op = NoOp /\ proc[p].up
      /\ proc[p].session \in Sessions /\ proc[p].run = "working"
  BY TypesFacts DEF Create, Free, Proper
<1>2. record \in Records /\ record.status = "active" /\ record.owner = proc[p].session
  BY <1>1, BoundsAssumption DEF Records, Open
<1>3. active' = [active EXCEPT ![g] = record] /\ proc' = [proc EXCEPT ![p] = x]
  BY DEF Create, Types
<1> HIDE DEF record
<1>4. op \in Ops
  BY <1>2, OpFacts DEF OpKinds
<1>5. /\ x \in Processes /\ x.up = proc[p].up /\ x.session = proc[p].session
      /\ x.focus = g /\ x.run = proc[p].run /\ x.audit = proc[p].audit
      /\ x.metered = proc[p].metered /\ x.op = op
  BY <1>1, <1>4 DEF Processes
<1> HIDE DEF x
<1>6. Becomes(p, g, proc[p].run, proc[p].audit, proc[p].metered, op)
  BY <1>3, <1>5, ReplaceOne
<1> QED
  BY <1>1, <1>2, <1>3, <1>6

(* The process that writes goes on with `mine`. *)
LEMMA WriteActiveEffect ==
  ASSUME Types, NEW p \in Procs, WriteActive(p)
  PROVE  \E mine \in Processes :
           /\ proc' = Replaced(p, proc[p].op.goal, mine)
           /\ mine.up = proc[p].up /\ mine.session = proc[p].session
           /\ mine.run = proc[p].run /\ mine.audit = proc[p].audit
           /\ mine.metered = proc[p].metered
           /\ \/ In(p, "write") /\ mine.focus = proc[p].focus /\ mine.op = NoOp
              \/ /\ In(p, "claim") /\ mine.focus = proc[p].op.goal
                 /\ mine.op = [proc[p].op EXCEPT !.kind = "renew"]
<1>1. CASE In(p, "write")
  <2>1. proc' = Replaced(p, proc[p].op.goal, Done(p))
    BY <1>1 DEF WriteActive, In
  <2> QED
    BY <1>1, <2>1, DoneFacts
<1>2. CASE In(p, "claim")
  <2> DEFINE x == [proc[p] EXCEPT !.focus = proc[p].op.goal, !.op.kind = "renew"]
  <2>1. proc' = Replaced(p, proc[p].op.goal, x)
    BY <1>2 DEF WriteActive, In
  <2>2. /\ x \in Processes /\ x.up = proc[p].up /\ x.session = proc[p].session
        /\ x.focus = proc[p].op.goal /\ x.run = proc[p].run /\ x.audit = proc[p].audit
        /\ x.metered = proc[p].metered /\ x.op = [proc[p].op EXCEPT !.kind = "renew"]
    <3> DEFINE g == proc[p].op.goal
    <3>1. g \in GoalIds \cup {NoGoal} /\ "renew" \in OpKinds /\ proc[p].op # NoOp
      BY <1>2, UnderWay DEF In, OpKinds
    <3> HIDE DEF g
    <3> DEFINE y == Going(p, g, "renew")
    <3>2. /\ y \in Processes /\ y.up = proc[p].up /\ y.session = proc[p].session
          /\ y.focus = g /\ y.run = proc[p].run /\ y.audit = proc[p].audit
          /\ y.metered = proc[p].metered /\ y.op = [proc[p].op EXCEPT !.kind = "renew"]
      BY <3>1, GoesOn
    <3> QED
      BY <3>2 DEF g, Going
  <2> HIDE DEF x
  <2> QED
    BY <1>2, <2>1, <2>2
<1> QED
  BY <1>1, <1>2 DEF WriteActive

(* The archived file is written, or the open one is no longer there. *)
LEMMA WriteArchiveEffect ==
  ASSUME Types, NEW p \in Procs, WriteArchive(p)
  PROVE  LET op == proc[p].op
         IN  \/ /\ active[op.goal] # NoFile
                /\ Becomes(p, proc[p].focus, proc[p].run, proc[p].audit, proc[p].metered,
                           [op EXCEPT !.kind = "unlink"])
             \/ /\ active[op.goal] = NoFile
                /\ \E focus \in {proc[p].focus, NoGoal} :
                     Becomes(p, focus, proc[p].run, proc[p].audit, proc[p].metered, NoOp)
<1> DEFINE g == proc[p].op.goal
<1>1. proc[p].op # NoOp
  BY DEF WriteArchive, In
<1>2. CASE active[g] # NoFile
  <2> DEFINE x == [proc[p] EXCEPT !.op.kind = "unlink"]
  <2>1. proc' = [proc EXCEPT ![p] = x]
    BY <1>2 DEF WriteArchive
  <2>2. /\ x \in Processes /\ x.up = proc[p].up /\ x.session = proc[p].session
        /\ x.focus = proc[p].focus /\ x.run = proc[p].run /\ x.audit = proc[p].audit
        /\ x.metered = proc[p].metered /\ x.op = [proc[p].op EXCEPT !.kind = "unlink"]
    BY <1>1, KindGoesOn DEF OpKinds
  <2> HIDE DEF x
  <2>3. Becomes(p, x.focus, x.run, x.audit, x.metered, x.op)
    BY <2>1, <2>2, ReplaceOne
  <2> QED
    BY <1>2, <2>2, <2>3
<1>3. CASE active[g] = NoFile
  <2> DEFINE x == Unfocused(Done(p), g)
  <2>1. proc' = [proc EXCEPT ![p] = x]
    BY <1>3 DEF WriteArchive
  <2>2. /\ x \in Processes /\ x.up = proc[p].up /\ x.session = proc[p].session
        /\ x.focus \in {proc[p].focus, NoGoal} /\ x.run = proc[p].run
        /\ x.audit = proc[p].audit /\ x.metered = proc[p].metered /\ x.op = NoOp
    BY DoneFacts
  <2> HIDE DEF x
  <2>3. Becomes(p, x.focus, x.run, x.audit, x.metered, x.op)
    BY <2>1, <2>2, ReplaceOne
  <2> QED
    BY <1>3, <2>2, <2>3
<1> QED
  BY <1>2, <1>3

(* The open file goes, and with it the change. *)
LEMMA UnlinkEffect ==
  ASSUME Types, NEW p \in Procs, Unlink(p)
  PROVE  \E mine \in Processes :
           /\ proc' = Replaced(p, proc[p].op.goal, mine)
           /\ mine.up = proc[p].up /\ mine.session = proc[p].session
           /\ mine.run = proc[p].run /\ mine.audit = proc[p].audit
           /\ mine.metered = proc[p].metered
           /\ mine.focus \in {proc[p].focus, NoGoal} /\ mine.op = NoOp
<1>1. proc' = Replaced(p, proc[p].op.goal, Unfocused(Done(p), proc[p].op.goal))
  BY DEF Unlink
<1> QED
  BY <1>1, DoneFacts

(* A process that is not running. *)
LEMMA OffFacts ==
  /\ Off \in Processes /\ ~Off.up /\ Off.session = NoSession /\ Off.focus = NoGoal
  /\ Off.run = "idle" /\ Off.audit = NoGoal /\ Off.op = NoOp
  /\ \A s \in Sessions, focus \in GoalIds \cup {NoGoal} :
       LET x == [Off EXCEPT !.up = TRUE, !.session = s, !.focus = focus]
       IN  /\ x \in Processes /\ x.up /\ x.session = s /\ x.focus = focus
           /\ x.run = "idle" /\ x.audit = NoGoal /\ x.op = NoOp
BY DEF Off, Processes, Runs

(* A process that opens a session starts idle, on a goal it may restore. *)
LEMMA OpensEffect ==
  ASSUME Types, NEW p \in Procs, NEW s \in Sessions, NEW before, Opens(p, s, before)
  PROVE  /\ proc' \in [Procs -> Processes] /\ \A q \in Procs \ {p} : proc'[q] = proc[q]
         /\ proc'[p].up /\ proc'[p].session = s /\ proc'[p].focus \in Restorable(s)
         /\ proc'[p].run = "idle" /\ proc'[p].audit = NoGoal /\ proc'[p].op = NoOp
         /\ s \in Sessions
<1>1. PICK focus \in Restorable(s) :
        proc' = [proc EXCEPT ![p] = [Off EXCEPT !.up = TRUE, !.session = s, !.focus = focus]]
  BY DEF Opens
<1>2. focus \in GoalIds \cup {NoGoal}
  BY DEF Restorable
<1> DEFINE x == [Off EXCEPT !.up = TRUE, !.session = s, !.focus = focus]
<1>3. /\ x \in Processes /\ x.up /\ x.session = s /\ x.focus = focus
      /\ x.run = "idle" /\ x.audit = NoGoal /\ x.op = NoOp
  BY <1>2, OffFacts
<1>4. proc' = [proc EXCEPT ![p] = x]
  BY <1>1
<1> HIDE DEF x
<1> QED
  BY <1>3, <1>4 DEF Types

(* A process goes. *)
LEMMA GoneEffect ==
  ASSUME Types, NEW p \in Procs, proc' = [proc EXCEPT ![p] = Off]
  PROVE  /\ proc' \in [Procs -> Processes] /\ \A q \in Procs \ {p} : proc'[q] = proc[q]
         /\ proc'[p] = Off
BY OffFacts DEF Types

----------------------------------------------------------------------------
(* Type correctness *)

(* The types hold at first. *)
LEMMA InitTypes == Init => Types
<1> SUFFICES ASSUME Init PROVE Types
  OBVIOUS
<1>1. \A p \in Procs : proc[p] = Off
  BY DEF Init
<1>2. Proper(Off, active, archived)
  BY OffFacts, NoSessionAssumption DEF Proper
<1>3. proc \in [Procs -> Processes]
  BY OffFacts DEF Init
<1>4. /\ active \in Files /\ archived \in Files
      /\ \A g \in GoalIds : active[g] = NoFile /\ archived[g] = NoFile
  BY DEF Init, Files
<1>5. starts \in 0..MaxStarts /\ faults \in 0..MaxFaults /\ causes = {} /\ lease = {}
  BY BoundsAssumption DEF Init
<1>6. Stored
  BY <1>4, <1>5 DEF Stored
<1> QED
  BY <1>1, <1>2, <1>3, <1>6 DEF Types

(* A change of a goal of its own that a process begins, or none.           *)
LEMMA OwnOpSound ==
  ASSUME Types, NEW p \in Procs, NEW op \in Ops, OfOwn(p, op)
  PROVE  op # NoOp /\ Sound(op, active, archived)
BY NoOpAssumption DEF OfOwn, Sound, Owns

(* A renewed lease is of a session. *)
LEMMA LeaseRenewed ==
  ASSUME Types, NEW p \in Procs, proc[p].up
  PROVE  Renewed(p) \subseteq Sessions
BY TypesFacts DEF Renewed, Proper

(* The steps that change one process, and no file.                         *)
Local(p) ==
  /\ proc[p].up
  /\ UNCHANGED <<active, archived, starts, causes, faults>>
  /\ lease' = lease \/ lease' = Renewed(p)

(* The types after a step that changes one process and no file. *)
LEMMA LocalTypes ==
  ASSUME Types, NEW p \in Procs, NEW run \in Runs, NEW audit \in GoalIds \cup {NoGoal},
         NEW metered \in BOOLEAN, NEW op \in Ops \cup {NoOp},
         NEW focus \in GoalIds \cup {NoGoal},
         Becomes(p, focus, run, audit, metered, op),
         op = NoOp \/ OfOwn(p, op),
         Local(p),
         focus = proc[p].focus \/ Owns(p, focus),
         run = "auditing" <=> audit # NoGoal
  PROVE  Types'
<1>1. op # NoOp => proc[p].up /\ Sound(op, active, archived)
  BY OwnOpSound DEF Local
<1>2. focus # NoGoal => active[focus] # NoFile \/ archived[focus] # NoFile
  BY TypesFacts DEF Owns, Proper
<1>3. faults' \in 0..MaxFaults /\ lease' \subseteq Sessions
  BY TypesFacts, LeaseRenewed DEF Local
<1>4. UNCHANGED <<active, archived, starts, causes>> /\ proc[p].up
  BY DEF Local
<1> QED
  BY <1>1, <1>2, <1>3, <1>4, BecomesTypes

(* The types after the steps of a run. *)
LEMMA RunTypes ==
  ASSUME Types, NEW p \in Procs,
         \/ Prompt(p) \/ AgentUpdates(p) \/ StartAudit(p) \/ AuditEnds(p) \/ Esc(p)
         \/ EndRun(p) \/ Charge(p) \/ Checkpoint(p) \/ GoIdle(p)
  PROVE  Types'
<1>1. /\ proc[p] \in Processes /\ proc[p].focus \in GoalIds \cup {NoGoal}
      /\ proc[p].run \in Runs /\ proc[p].audit \in GoalIds \cup {NoGoal}
      /\ proc[p].metered \in BOOLEAN
      /\ proc[p].run = "auditing" <=> proc[p].audit # NoGoal
  BY TypesFacts, ProcessFields DEF Proper
<1>2. CASE Prompt(p)
  <2>1. Local(p) /\ proc[p].run = "idle"
    BY <1>2 DEF Prompt, Free, Local
  <2> QED
    BY <1>1, <1>2, <2>1, PromptEffect, LocalTypes DEF Runs
<1>3. CASE AgentUpdates(p)
  <2>1. PICK op \in Ops :
          /\ OfOwn(p, op) /\ Begin(p, op)
          /\ Becomes(p, proc[p].focus, proc[p].run, proc[p].audit, proc[p].metered, op)
    BY <1>3, AgentUpdatesEffect
  <2>2. Local(p)
    BY <2>1 DEF Begin, Free, Local
  <2> QED
    BY <1>1, <2>1, <2>2, LocalTypes
<1>4. CASE StartAudit(p)
  <2>1. Local(p)
    BY <1>4 DEF StartAudit, Free, Local
  <2> QED
    BY <1>1, <1>4, <2>1, StartAuditEffect, LocalTypes, NoGoalAssumption DEF Runs
<1>5. CASE AuditEnds(p)
  <2>1. Local(p)
    BY <1>5 DEF AuditEnds, Free, Local
  <2>2. CASE Becomes(p, proc[p].focus, "working", NoGoal, proc[p].metered, NoOp)
    BY <1>1, <2>1, <2>2, LocalTypes DEF Runs
  <2>3. ASSUME NEW op \in Ops, OfOwn(p, op),
               Becomes(p, proc[p].focus, "working", NoGoal, proc[p].metered, op)
        PROVE  Types'
    BY <1>1, <2>1, <2>3, LocalTypes DEF Runs
  <2> QED
    BY <1>5, <2>2, <2>3, AuditEndsEffect
<1>6. CASE Esc(p)
  <2>1. Local(p)
    BY <1>6 DEF Esc, Awaits, Free, Local
  <2>2. CASE Becomes(p, proc[p].focus, proc[p].run, proc[p].audit, proc[p].metered, NoOp)
    BY <1>1, <2>1, <2>2, LocalTypes
  <2>3. ASSUME NEW op \in Ops, OfOwn(p, op),
               Becomes(p, proc[p].focus, proc[p].run, proc[p].audit, proc[p].metered, op)
        PROVE  Types'
    BY <1>1, <2>1, <2>3, LocalTypes
  <2> QED
    BY <1>6, <2>2, <2>3, EscEffect
<1>7. CASE EndRun(p)
  <2>1. Local(p) /\ proc[p].run = "working"
    BY <1>7 DEF EndRun, Free, Local
  <2> QED
    BY <1>1, <1>7, <2>1, EndRunEffect, LocalTypes DEF Runs
<1>8. CASE Charge(p)
  <2>1. Local(p) /\ proc[p].run = "ending"
    BY <1>8 DEF Charge, Free, Local
  <2>2. ASSUME NEW b \in BOOLEAN,
               Becomes(p, proc[p].focus, "charged", proc[p].audit, b, NoOp)
        PROVE  Types'
    BY <1>1, <2>1, <2>2, LocalTypes DEF Runs
  <2>3. ASSUME NEW op \in Ops, OfOwn(p, op),
               Becomes(p, proc[p].focus, "charged", proc[p].audit, TRUE, op)
        PROVE  Types'
    BY <1>1, <2>1, <2>3, LocalTypes DEF Runs
  <2> QED
    BY <1>8, <2>2, <2>3, ChargeEffect
<1>9. CASE Checkpoint(p)
  <2>1. Local(p) /\ proc[p].run = "charged"
    BY <1>9 DEF Checkpoint, Free, Local
  <2> QED
    BY <1>1, <1>9, <2>1, CheckpointEffect, LocalTypes DEF Runs
<1>10. CASE GoIdle(p)
  <2>1. Local(p) /\ proc[p].run = "charged"
    BY <1>10 DEF GoIdle, Free, Local
  <2> QED
    BY <1>1, <1>10, <2>1, GoIdleEffect, LocalTypes DEF Runs
<1> QED
  BY <1>2, <1>3, <1>4, <1>5, <1>6, <1>7, <1>8, <1>9, <1>10

(* Opening a session, and leaving it. *)
LEMMA OpensTypes ==
  ASSUME Types, NEW p \in Procs, NEW s \in Sessions, NEW before \in SUBSET Sessions,
         Opens(p, s, before)
  PROVE  Types'
<1>1. /\ proc' \in [Procs -> Processes] /\ \A q \in Procs \ {p} : proc'[q] = proc[q]
      /\ proc'[p].up /\ proc'[p].session = s /\ proc'[p].focus \in Restorable(s)
      /\ proc'[p].run = "idle" /\ proc'[p].audit = NoGoal /\ proc'[p].op = NoOp
  BY OpensEffect
<1>2. UNCHANGED <<active, archived, faults>>
  BY DEF Opens
<1>3. /\ starts' \in 0..MaxStarts /\ lease' \subseteq Sessions /\ causes' \subseteq MayHappen
  BY TypesFacts, BoundsAssumption DEF Opens, Blame
<1>4. Stored' /\ Grow
  BY <1>2, <1>3 DEF Types, Stored, Grow
<1>5. \A q \in Procs \ {p} : Stays(q)
  BY <1>1 DEF Stays
<1>6. proc'[p].focus # NoGoal
        => active[proc'[p].focus] # NoFile \/ archived[proc'[p].focus] # NoFile
  BY <1>1 DEF Restorable
<1>7. proc'[p] \in Processes
  BY <1>1
<1>8. Proper(proc'[p], active', archived')
  BY <1>1, <1>2, <1>6, <1>7 DEF Proper
<1> QED
  BY <1>1, <1>4, <1>5, <1>8, TypesStep

(* The types after a process goes. *)
LEMMA GoneTypes ==
  ASSUME Types, NEW p \in Procs, proc' = [proc EXCEPT ![p] = Off],
         UNCHANGED <<active, archived, starts, causes>>,
         lease' \subseteq Sessions, faults' \in 0..MaxFaults
  PROVE  Types'
<1>1. /\ proc' \in [Procs -> Processes] /\ \A q \in Procs \ {p} : proc'[q] = proc[q]
      /\ proc'[p] = Off
  BY GoneEffect
<1>2. Stored' /\ Grow
  BY DEF Types, Stored, Grow
<1>3. \A q \in Procs \ {p} : Stays(q)
  BY <1>1 DEF Stays
<1>4. Proper(proc'[p], active', archived')
  BY <1>1, OffFacts, NoSessionAssumption DEF Proper
<1> QED
  BY <1>1, <1>2, <1>3, <1>4, TypesStep

(* A step that changes no process. *)
LEMMA LeaseTypes ==
  ASSUME Types, UNCHANGED <<active, archived, proc, starts, faults>>,
         lease' \subseteq Sessions, causes' \subseteq MayHappen
  PROVE  Types'
<1>1. Stored'
  BY DEF Types, Stored
<1> QED
  BY <1>1 DEF Types

(* The types after a lease expires. *)
LEMMA ExpireTypes ==
  ASSUME Types, NEW s \in Sessions, Expire(s)
  PROVE  Types'
BY TypesFacts, LeaseTypes DEF Expire, Blame

(* The types after the steps of a session. *)
LEMMA SessionTypes ==
  ASSUME Types, NEW p \in Procs, NEW s, NEW g,
         \/ s \in Sessions /\ (Start(p, s) \/ SwitchSession(p, s))
         \/ Exit(p) \/ Crash(p) \/ Refresh(p) \/ Archive(p)
         \/ g \in GoalIds /\ (Claim(p, g) \/ Select(p, g))
  PROVE  Types'
<1>1. /\ proc[p] \in Processes /\ proc[p].focus \in GoalIds \cup {NoGoal}
      /\ proc[p].run \in Runs /\ proc[p].audit \in GoalIds \cup {NoGoal}
      /\ proc[p].metered \in BOOLEAN
      /\ proc[p].run = "auditing" <=> proc[p].audit # NoGoal
      /\ proc[p].focus # NoGoal
           => active[proc[p].focus] # NoFile \/ archived[proc[p].focus] # NoFile
  BY TypesFacts, ProcessFields DEF Proper
<1>2. CASE s \in Sessions /\ Start(p, s)
  <2>1. Opens(p, s, lease) /\ lease \in SUBSET Sessions
    BY <1>2, TypesFacts DEF Start
  <2>2. s \in Sessions
    BY <1>2
  <2> QED
    BY <2>1, <2>2, OpensTypes
<1>3. CASE s \in Sessions /\ SwitchSession(p, s)
  <2>1. PICK left \in SUBSET Sessions : Opens(p, s, left)
    BY <1>3, TypesFacts DEF SwitchSession
  <2>2. s \in Sessions
    BY <1>3
  <2> QED
    BY <2>1, <2>2, OpensTypes
<1>4. CASE Exit(p)
  BY <1>4, TypesFacts, GoneTypes DEF Exit
<1>5. CASE Crash(p)
  <2>1. faults' \in 0..MaxFaults /\ lease' \subseteq Sessions
    BY <1>5, TypesFacts, BoundsAssumption DEF Crash
  <2> QED
    BY <1>5, <2>1, GoneTypes DEF Crash
<1>6. CASE Refresh(p)
  BY <1>6, TypesFacts, LeaseRenewed, LeaseTypes DEF Refresh, Awaits, Free
<1>7. CASE Archive(p)
  <2>1. PICK op \in Ops :
          /\ OfOwn(p, op) /\ Begin(p, op)
          /\ Becomes(p, proc[p].focus, proc[p].run, proc[p].audit, proc[p].metered, op)
    BY <1>7, ArchiveEffect
  <2>2. Local(p)
    BY <2>1 DEF Begin, Free, Local
  <2> QED
    BY <1>1, <2>1, <2>2, LocalTypes
<1>8. CASE g \in GoalIds /\ Claim(p, g)
  <2> DEFINE op == Op("claim", g, [active[g] EXCEPT !.owner = proc[p].session])
  <2>1. /\ op \in Ops /\ op # NoOp /\ op.kind = "claim" /\ op.goal = g
        /\ op.next.status \in Open /\ proc[p].up
        /\ Becomes(p, proc[p].focus, proc[p].run, proc[p].audit, proc[p].metered, op)
    BY <1>8, ClaimEffect
  <2> HIDE DEF op
  <2>2. /\ UNCHANGED <<active, archived, starts, faults, lease>>
        /\ causes' \subseteq MayHappen /\ active[g] # NoFile
    BY <1>8, TypesFacts DEF Claim, Blame
  <2>3. Sound(op, active, archived)
    BY <2>1, <2>2 DEF Sound
  <2>4. Stored' /\ Grow
    BY <2>2 DEF Types, Stored, Grow
  <2>5. proc' \in [Procs -> Processes] /\ \A q \in Procs \ {p} : Stays(q)
    BY <2>1 DEF Becomes, Stays
  <2>6. proc'[p] \in Processes /\ Proper(proc[p], active, archived)
    BY <2>5, TypesFacts
  <2>7. Proper(proc'[p], active', archived')
    BY <2>1, <2>2, <2>3, <2>6 DEF Proper, Becomes
  <2> QED
    BY <2>4, <2>5, <2>7, TypesStep
<1>9. CASE g \in GoalIds /\ Select(p, g)
  <2>1. Local(p) /\ Owns(p, g)
    BY <1>9 DEF Select, Awaits, Free, Local
  <2> QED
    BY <1>1, <1>9, <2>1, SelectEffect, LocalTypes
<1> QED
  BY <1>2, <1>3, <1>4, <1>5, <1>6, <1>7, <1>8, <1>9

(* A step that replaces or removes files. *)
LEMMA FileTypes ==
  ASSUME Types, NEW p \in Procs, NEW g,
         \/ (g \in GoalIds /\ Create(p, g)) \/ WriteActive(p) \/ RenewLease(p)
         \/ WriteArchive(p) \/ Unlink(p) \/ WriteFails(p)
  PROVE  Types'
<1>1. /\ proc[p] \in Processes /\ proc[p].focus \in GoalIds \cup {NoGoal}
      /\ proc[p].run \in Runs /\ proc[p].audit \in GoalIds \cup {NoGoal}
      /\ proc[p].metered \in BOOLEAN
      /\ proc[p].run = "auditing" <=> proc[p].audit # NoGoal
      /\ proc[p].focus # NoGoal
           => active[proc[p].focus] # NoFile \/ archived[proc[p].focus] # NoFile
      /\ proc[p].up <=> proc[p].session \in Sessions
  BY TypesFacts, ProcessFields DEF Proper
<1>2. CASE g \in GoalIds /\ Create(p, g)
  <2>1. PICK record \in Records :
          /\ record.status = "active" /\ record.owner = proc[p].session
          /\ active' = [active EXCEPT ![g] = record] /\ proc[p].up
          /\ Becomes(p, g, proc[p].run, proc[p].audit, proc[p].metered,
                     Op("renew", g, record))
    BY <1>2, CreateEffect
  <2> DEFINE op == Op("renew", g, record)
  <2>2. op \in Ops /\ op # NoOp /\ op.kind = "renew" /\ op.goal = g
    BY <1>2, OpFacts DEF OpKinds
  <2>3. Becomes(p, g, proc[p].run, proc[p].audit, proc[p].metered, op)
    BY <2>1
  <2> HIDE DEF op
  <2>4. UNCHANGED <<archived, lease, starts, faults, causes>> /\ record # NoFile
    BY <1>2, NoFileAssumption DEF Create
  <2>5. active' \in Files /\ active'[g] = record /\ \A h \in GoalIds \ {g} : active'[h] = active[h]
    BY <1>2, <2>1, TypesFacts DEF Files
  <2>6. Stored'
    BY <1>2, <2>1, <2>4, <2>5 DEF Types, Stored, Open
  <2>7. Grow
    BY <2>4, <2>5 DEF Grow
  <2>8. proc' \in [Procs -> Processes] /\ \A q \in Procs \ {p} : Stays(q)
    BY <2>3 DEF Becomes, Stays
  <2>9. Sound(op, active', archived')
    BY <2>2, <2>4, <2>5 DEF Sound
  <2>10. proc'[p] \in Processes
    BY <2>8
  <2>11. Proper(proc'[p], active', archived')
    BY <1>1, <2>1, <2>2, <2>3, <2>4, <2>5, <2>9, <2>10 DEF Proper, Becomes
  <2> QED
    BY <2>6, <2>7, <2>8, <2>11, TypesStep
<1>3. CASE WriteActive(p)
  <2> DEFINE op == proc[p].op
  <2>1. PICK mine \in Processes :
          /\ proc' = Replaced(p, op.goal, mine)
          /\ mine.up = proc[p].up /\ mine.session = proc[p].session
          /\ mine.run = proc[p].run /\ mine.audit = proc[p].audit
          /\ mine.metered = proc[p].metered
          /\ \/ In(p, "write") /\ mine.focus = proc[p].focus /\ mine.op = NoOp
             \/ /\ In(p, "claim") /\ mine.focus = op.goal
                /\ mine.op = [op EXCEPT !.kind = "renew"]
    BY <1>3, WriteActiveEffect
  <2>2. /\ op \in Ops /\ op.goal \in GoalIds /\ op.next \in Records /\ op.next.status \in Open
        /\ op # NoOp /\ proc[p].up
    BY <2>1, UnderWay DEF In, Sound
  <2>3. /\ active' = [active EXCEPT ![op.goal] = op.next]
        /\ UNCHANGED <<archived, lease, starts, faults, causes>> /\ op.next # NoFile
    BY <1>3, <2>2, NoFileAssumption DEF WriteActive
  <2>4. /\ active' \in Files /\ active'[op.goal] = op.next
        /\ \A h \in GoalIds \ {op.goal} : active'[h] = active[h]
    BY <2>2, <2>3, TypesFacts DEF Files
  <2>5. Stored'
    BY <2>2, <2>3, <2>4 DEF Types, Stored
  <2>6. Grow
    BY <2>2, <2>3, <2>4 DEF Grow
  <2>7. /\ proc' \in [Procs -> Processes] /\ proc'[p] = mine
        /\ \A q \in Procs \ {p} : Stays(q)
    BY <2>1, ReplacedFacts
  <2>8. mine.op # NoOp => mine.up /\ Sound(mine.op, active', archived')
    <3>1. ASSUME mine.op # NoOp
          PROVE  mine.op.kind = "renew" /\ mine.op.goal = op.goal
      <4>1. "renew" \in OpKinds
        BY DEF OpKinds
      <4>2. [op EXCEPT !.kind = "renew"].kind = "renew"
        BY <1>1, <2>2, <4>1, OpUpdates
      <4>3. [op EXCEPT !.kind = "renew"].goal = op.goal
        BY <1>1, <2>2, <4>1, OpUpdates
      <4>4. mine.op = [op EXCEPT !.kind = "renew"]
        BY <2>1, <3>1
      <4> QED
        BY <4>2, <4>3, <4>4
    <3> QED
      BY <2>1, <2>2, <2>3, <2>4, <3>1 DEF Sound
  <2>9. mine.focus # NoGoal => active'[mine.focus] # NoFile \/ archived'[mine.focus] # NoFile
    BY <1>1, <2>1, <2>3, <2>4, <2>6 DEF Grow
  <2>10. Proper(proc'[p], active', archived')
    BY <1>1, <2>1, <2>7, <2>8, <2>9 DEF Proper
  <2> QED
    BY <2>5, <2>6, <2>7, <2>10, TypesStep
<1>4. CASE RenewLease(p)
  <2>1. Local(p)
    BY <1>4, UnderWay DEF RenewLease, In, Local
  <2> QED
    BY <1>1, <1>4, <2>1, RenewLeaseEffect, LocalTypes
<1>5. CASE WriteArchive(p)
  <2> DEFINE op == proc[p].op
  <2>1. /\ op \in Ops /\ op.goal \in GoalIds /\ op.next \in Records /\ op # NoOp
        /\ op.next.status = "complete" /\ proc[p].up
    BY <1>5, UnderWay DEF WriteArchive, In, Sound
  <2>2. /\ archived' = [archived EXCEPT ![op.goal] = op.next]
        /\ UNCHANGED <<active, lease, starts, faults, causes>> /\ op.next # NoFile
    BY <1>5, <2>1, NoFileAssumption DEF WriteArchive
  <2>3. /\ archived' \in Files /\ archived'[op.goal] = op.next
        /\ \A h \in GoalIds \ {op.goal} : archived'[h] = archived[h]
    BY <2>1, <2>2, TypesFacts DEF Files
  <2>4. Stored'
    BY <2>1, <2>2, <2>3 DEF Types, Stored
  <2>5. Grow
    BY <2>1, <2>2, <2>3 DEF Grow
  <2>6. \/ Becomes(p, proc[p].focus, proc[p].run, proc[p].audit, proc[p].metered,
                   [op EXCEPT !.kind = "unlink"])
        \/ \E focus \in {proc[p].focus, NoGoal} :
             Becomes(p, focus, proc[p].run, proc[p].audit, proc[p].metered, NoOp)
    BY <1>5, WriteArchiveEffect
  <2>7. ASSUME NEW focus \in {proc[p].focus, NoGoal}, NEW next \in Ops \cup {NoOp},
               next # NoOp => Sound(next, active', archived'),
               Becomes(p, focus, proc[p].run, proc[p].audit, proc[p].metered, next)
        PROVE  Types'
    <3>1. proc' \in [Procs -> Processes] /\ \A q \in Procs \ {p} : Stays(q)
      BY <2>7 DEF Becomes, Stays
    <3>2. proc'[p] \in Processes
      BY <3>1
    <3>3. focus # NoGoal => active'[focus] # NoFile \/ archived'[focus] # NoFile
      BY <1>1, <2>5 DEF Grow
    <3>4. Proper(proc'[p], active', archived')
      BY <1>1, <2>1, <2>7, <3>2, <3>3 DEF Proper, Becomes
    <3> QED
      BY <2>4, <2>5, <3>1, <3>4, TypesStep
  <2>8. CASE Becomes(p, proc[p].focus, proc[p].run, proc[p].audit, proc[p].metered,
                     [op EXCEPT !.kind = "unlink"])
    <3> DEFINE next == [op EXCEPT !.kind = "unlink"]
    <3>1. next \in Ops /\ next.kind = "unlink" /\ next.goal = op.goal
      BY <1>1, <2>1, OpUpdates DEF OpKinds
    <3>2. Becomes(p, proc[p].focus, proc[p].run, proc[p].audit, proc[p].metered, next)
      BY <2>8
    <3> HIDE DEF next
    <3>3. Sound(next, active', archived')
      BY <2>2, <2>3, <3>1 DEF Sound
    <3> QED
      BY <2>7, <3>1, <3>2, <3>3
  <2> QED
    BY <2>6, <2>7, <2>8
<1>6. CASE Unlink(p)
  <2> DEFINE op == proc[p].op
  <2>1. PICK mine \in Processes :
          /\ proc' = Replaced(p, op.goal, mine)
          /\ mine.up = proc[p].up /\ mine.session = proc[p].session
          /\ mine.run = proc[p].run /\ mine.audit = proc[p].audit
          /\ mine.metered = proc[p].metered
          /\ mine.focus \in {proc[p].focus, NoGoal} /\ mine.op = NoOp
    BY <1>6, UnlinkEffect
  <2>2. op.goal \in GoalIds /\ archived[op.goal] # NoFile
    BY <1>6, UnderWay DEF Unlink, In, Sound
  <2>3. /\ active' = [active EXCEPT ![op.goal] = NoFile]
        /\ UNCHANGED <<archived, lease, starts, faults, causes>>
    BY <1>6 DEF Unlink
  <2>4. /\ active' \in Files /\ active'[op.goal] = NoFile
        /\ \A h \in GoalIds \ {op.goal} : active'[h] = active[h]
    BY <2>2, <2>3, TypesFacts DEF Files
  <2>5. Stored'
    BY <2>2, <2>3, <2>4 DEF Types, Stored
  <2>6. Grow
    BY <2>2, <2>3, <2>4 DEF Grow
  <2>7. /\ proc' \in [Procs -> Processes] /\ proc'[p] = mine
        /\ \A q \in Procs \ {p} : Stays(q)
    BY <2>1, ReplacedFacts
  <2>8. mine.focus # NoGoal => active'[mine.focus] # NoFile \/ archived'[mine.focus] # NoFile
    BY <1>1, <2>1, <2>6 DEF Grow
  <2>9. Proper(proc'[p], active', archived')
    BY <1>1, <2>1, <2>7, <2>8 DEF Proper
  <2> QED
    BY <2>5, <2>6, <2>7, <2>9, TypesStep
<1>7. CASE WriteFails(p)
  <2>1. PICK focus \in {proc[p].focus, NoGoal} :
          Becomes(p, focus, proc[p].run, proc[p].audit, proc[p].metered, NoOp)
    BY <1>7, WriteFailsEffect
  <2>2. /\ UNCHANGED <<active, archived, starts, causes>> /\ lease' = lease
        /\ faults' \in 0..MaxFaults
    BY <1>7, TypesFacts, BoundsAssumption DEF WriteFails
  <2>3. focus \in GoalIds \cup {NoGoal} /\ lease' \subseteq Sessions
    BY <1>1, <2>2, TypesFacts
  <2>4. focus # NoGoal => active[focus] # NoFile \/ archived[focus] # NoFile
    BY <1>1
  <2>5. Stored' /\ Grow
    BY <2>2, <2>3 DEF Types, Stored, Grow
  <2>6. proc' \in [Procs -> Processes] /\ \A q \in Procs \ {p} : Stays(q)
    BY <2>1 DEF Becomes, Stays
  <2>7. proc'[p] \in Processes
    BY <2>6
  <2>8. Proper(proc'[p], active', archived')
    BY <1>1, <2>1, <2>2, <2>4, <2>7 DEF Proper, Becomes
  <2> QED
    BY <2>5, <2>6, <2>8, TypesStep
<1> QED
  BY <1>2, <1>3, <1>4, <1>5, <1>6, <1>7

(* Every step keeps the types. *)
LEMMA TypesStable == Types /\ [Next]_vars => Types'
<1> SUFFICES ASSUME Types, [Next]_vars
             PROVE  Types'
  OBVIOUS
<1>1. CASE \E p \in Procs, s \in Sessions : Start(p, s) \/ SwitchSession(p, s)
  BY <1>1, SessionTypes
<1>2. CASE \E s \in Sessions : Expire(s)
  BY <1>2, ExpireTypes
<1>3. CASE \E p \in Procs : Exit(p) \/ Crash(p) \/ Refresh(p) \/ Archive(p)
  BY <1>3, SessionTypes
<1>4. CASE \E p \in Procs, g \in GoalIds : Create(p, g) \/ Claim(p, g) \/ Select(p, g)
  BY <1>4, SessionTypes, FileTypes
<1>5. CASE \E p \in Procs : \/ WriteActive(p) \/ RenewLease(p) \/ WriteArchive(p)
                            \/ Unlink(p) \/ WriteFails(p)
  BY <1>5, FileTypes
<1>6. CASE \E p \in Procs :
             \/ Prompt(p) \/ AgentUpdates(p) \/ StartAudit(p) \/ AuditEnds(p) \/ Esc(p)
             \/ EndRun(p) \/ Charge(p) \/ Checkpoint(p) \/ GoIdle(p)
  BY <1>6, RunTypes
<1>7. CASE UNCHANGED vars
  <2>1. UNCHANGED <<active, archived, lease, proc, starts, faults, causes>>
    BY <1>7 DEF vars
  <2> QED
    BY <2>1, TypesFacts, LeaseTypes
<1> QED
  BY <1>1, <1>2, <1>3, <1>4, <1>5, <1>6, <1>7 DEF Next

(* The invariant's types are those of the model. *)
LEMMA TypesSuffice == Types => TypeOK
<1> SUFFICES ASSUME Types PROVE TypeOK
  OBVIOUS
<1>1. /\ active \in [GoalIds -> Records \cup {NoFile}]
      /\ archived \in [GoalIds -> Records \cup {NoFile}]
  BY TypesFacts DEF Files
<1>2. ASSUME NEW p \in Procs
      PROVE  /\ proc[p].up <=> proc[p].session \in Sessions
             /\ proc[p].session \in Sessions \cup {NoSession}
             /\ proc[p].focus \in GoalIds \cup {NoGoal}
             /\ proc[p].run \in {"idle", "working", "auditing", "ending", "charged"}
             /\ proc[p].run = "auditing" <=> proc[p].audit # NoGoal
             /\ proc[p].focus # NoGoal => \/ active[proc[p].focus] # NoFile
                                          \/ archived[proc[p].focus] # NoFile
  <2>1. Proper(proc[p], active, archived) /\ proc[p] \in Processes
    BY TypesFacts
  <2> QED
    BY <2>1, ProcessFields DEF Proper, Runs
<1>3. ASSUME NEW p \in Procs, proc[p].op # NoOp
      PROVE  /\ proc[p].up /\ proc[p].op.kind \in OpKinds
             /\ proc[p].op.next \in Records
             /\ \/ active[proc[p].op.goal] # NoFile
                \/ archived[proc[p].op.goal] # NoFile
  BY <1>3, UnderWay DEF Sound
<1>4. DOMAIN proc = Procs
  BY DEF Types
<1> QED
  BY <1>1, <1>2, <1>3, <1>4, TypesFacts DEF TypeOK

(* TypeOK is an invariant: every field of every process and every file has *)
(* its type, a change under way is of a goal that has a file, and so is    *)
(* the focus, wherever a process is killed or a write fails.               *)
THEOREM TypeCorrect == Spec => []TypeOK
<1>1. Spec => []Types
  BY InitTypes, TypesStable, PTL DEF Spec
<1> QED
  BY <1>1, TypesSuffice, PTL

----------------------------------------------------------------------------
(* One master at a time *)

(* At first no session runs. *)
LEMMA InitAlone == Init => Alone
<1> SUFFICES ASSUME Init PROVE Alone
  OBVIOUS
<1>1. \A p \in Procs : proc[p] = Off
  BY DEF Init
<1>2. \A p \in Procs : ~proc[p].up /\ proc[p].op = NoOp
  BY <1>1, OffFacts
<1> QED
  BY <1>2 DEF Alone, Single, Leased, ClaimedOnce, Mastered, In

(* Two changes under way are of two goals.                                 *)
LEMMA NoRival ==
  ASSUME Types, Alone, NEW p \in Procs, NEW q \in Procs,
         proc[p].op # NoOp, proc[q].op # NoOp, proc[p].op.goal = proc[q].op.goal
  PROVE  p = q
<1>1. Mastered(p) /\ Mastered(q) /\ proc[p].up /\ proc[q].up
  BY UnderWay DEF Alone
<1>2. CASE proc[p].op.kind # "claim" /\ proc[q].op.kind # "claim"
  <2>1. proc[p].session = proc[q].session
    BY <1>1, <1>2 DEF Mastered
  <2> QED
    BY <1>1, <2>1 DEF Alone, Single
<1>3. CASE proc[p].op.kind = "claim" /\ proc[q].op.kind = "claim"
  BY <1>3 DEF Alone, ClaimedOnce, In
<1>4. CASE proc[p].op.kind = "claim" /\ proc[q].op.kind # "claim"
  <2>1. active[proc[q].op.goal].owner = proc[q].session
    BY <1>1, <1>4 DEF Mastered
  <2>2. proc[q].session # active[proc[p].op.goal].owner
    BY <1>1, <1>4 DEF Mastered
  <2> QED
    BY <2>1, <2>2
<1>5. CASE proc[p].op.kind # "claim" /\ proc[q].op.kind = "claim"
  <2>1. active[proc[p].op.goal].owner = proc[p].session
    BY <1>1, <1>5 DEF Mastered
  <2>2. proc[p].session # active[proc[q].op.goal].owner
    BY <1>1, <1>5 DEF Mastered
  <2> QED
    BY <2>1, <2>2
<1> QED
  BY <1>2, <1>3, <1>4, <1>5

(* A step of one process that leaves the sessions and the goals that the   *)
(* others change.                                                          *)
LEMMA AloneStep ==
  ASSUME Types, Alone, NEW p \in Procs,
         \A q \in Procs \ {p} : proc'[q] = proc[q],
         proc'[p].up = proc[p].up, proc'[p].session = proc[p].session,
         lease \subseteq lease',
         \A q \in Procs \ {p} :
           proc[q].op # NoOp => active'[proc[q].op.goal] = active[proc[q].op.goal],
         Mastered(p)',
         In(p, "claim")' => \A q \in Procs \ {p} :
                              In(q, "claim") => proc[q].op.goal # proc'[p].op.goal
  PROVE  Alone'
<1>1. \A q \in Procs : proc'[q].up = proc[q].up /\ proc'[q].session = proc[q].session
  OBVIOUS
<1>2. Single'
  BY <1>1 DEF Alone, Single
<1>3. Leased'
  BY <1>1 DEF Alone, Leased
<1>4. ASSUME NEW q \in Procs \ {p}
      PROVE  Mastered(q)'
  <2>1. Mastered(q)
    BY DEF Alone
  <2>2. proc'[q] = proc[q]
    OBVIOUS
  <2>3. proc[q].op # NoOp => active'[proc[q].op.goal] = active[proc[q].op.goal]
    OBVIOUS
  <2> QED
    BY <1>1, <2>1, <2>2, <2>3 DEF Mastered
<1>5. ClaimedOnce'
  <2>1. SUFFICES ASSUME NEW q \in Procs, NEW r \in Procs,
                        In(q, "claim")', In(r, "claim")', proc'[q].op.goal = proc'[r].op.goal
                 PROVE  q = r
    BY DEF ClaimedOnce
  <2>2. \A z \in Procs \ {p} : In(z, "claim")' => In(z, "claim")
    BY DEF In
  <2>3. CASE q # p /\ r # p
    BY <2>1, <2>2, <2>3 DEF Alone, ClaimedOnce
  <2>4. CASE q = p /\ r # p
    BY <2>1, <2>2, <2>4
  <2>5. CASE q # p /\ r = p
    BY <2>1, <2>2, <2>5
  <2> QED
    BY <2>3, <2>4, <2>5
<1> QED
  BY <1>2, <1>3, <1>4, <1>5 DEF Alone

(* No change is under way, or one of a goal of its own has begun.          *)
LEMMA LocalAlone ==
  ASSUME Types, Alone, NEW p \in Procs, NEW focus, NEW run, NEW audit, NEW metered, NEW op,
         Becomes(p, focus, run, audit, metered, op),
         op = NoOp \/ OfOwn(p, op),
         active' = active, lease \subseteq lease'
  PROVE  Alone'
<1>1. /\ \A q \in Procs \ {p} : proc'[q] = proc[q]
      /\ proc'[p].up = proc[p].up /\ proc'[p].session = proc[p].session /\ proc'[p].op = op
  BY DEF Becomes
<1>2. op # NoOp => /\ ~op.stale /\ op.next.owner = proc[p].session /\ op.kind # "claim"
                   /\ active[op.goal] # NoFile /\ active[op.goal].owner = proc[p].session
  BY DEF OfOwn, Owns
<1>3. Mastered(p)'
  BY <1>1, <1>2 DEF Mastered
<1>4. ~In(p, "claim")'
  BY <1>1, <1>2 DEF In
<1> QED
  BY <1>1, <1>3, <1>4, AloneStep

(* The steps of a run are of the session's own goals. *)
LEMMA RunAlone ==
  ASSUME Types, Alone, NEW p \in Procs,
         \/ Prompt(p) \/ AgentUpdates(p) \/ StartAudit(p) \/ AuditEnds(p) \/ Esc(p)
         \/ EndRun(p) \/ Charge(p) \/ Checkpoint(p) \/ GoIdle(p)
  PROVE  Alone'
<1>1. CASE Prompt(p)
  BY <1>1, PromptEffect, LocalAlone DEF Prompt
<1>2. CASE AgentUpdates(p)
  <2>1. PICK op \in Ops :
          /\ OfOwn(p, op) /\ Begin(p, op)
          /\ Becomes(p, proc[p].focus, proc[p].run, proc[p].audit, proc[p].metered, op)
    BY <1>2, AgentUpdatesEffect
  <2>2. active' = active /\ lease \subseteq lease'
    BY <2>1 DEF Begin, Renewed
  <2> QED
    BY <2>1, <2>2, LocalAlone
<1>3. CASE StartAudit(p)
  <2>1. active' = active /\ lease \subseteq lease'
    BY <1>3 DEF StartAudit, Renewed
  <2> QED
    BY <1>3, <2>1, StartAuditEffect, LocalAlone
<1>4. CASE AuditEnds(p)
  <2>1. active' = active /\ lease \subseteq lease'
    BY <1>4 DEF AuditEnds, Renewed
  <2> QED
    BY <1>4, <2>1, AuditEndsEffect, LocalAlone
<1>5. CASE Esc(p)
  <2>1. active' = active /\ lease \subseteq lease'
    BY <1>5 DEF Esc, Renewed
  <2> QED
    BY <1>5, <2>1, EscEffect, LocalAlone
<1>6. CASE EndRun(p)
  BY <1>6, EndRunEffect, LocalAlone DEF EndRun
<1>7. CASE Charge(p)
  <2>1. active' = active /\ lease \subseteq lease'
    BY <1>7 DEF Charge, Renewed
  <2>2. ASSUME NEW b, Becomes(p, proc[p].focus, "charged", proc[p].audit, b, NoOp)
        PROVE  Alone'
    BY <2>1, <2>2, LocalAlone
  <2>3. ASSUME NEW op \in Ops, OfOwn(p, op),
               Becomes(p, proc[p].focus, "charged", proc[p].audit, TRUE, op)
        PROVE  Alone'
    BY <2>1, <2>3, LocalAlone
  <2> QED
    BY <1>7, <2>2, <2>3, ChargeEffect
<1>8. CASE Checkpoint(p)
  <2>1. active' = active /\ lease \subseteq lease'
    BY <1>8 DEF Checkpoint, Renewed
  <2> QED
    BY <1>8, <2>1, CheckpointEffect, LocalAlone
<1>9. CASE GoIdle(p)
  BY <1>9, GoIdleEffect, LocalAlone DEF GoIdle
<1> QED
  BY <1>1, <1>2, <1>3, <1>4, <1>5, <1>6, <1>7, <1>8, <1>9

(* A session that is opened without a cause is nobody else's, and nobody   *)
(* claims one of its goals.                                                *)
LEMMA OpensAlone ==
  ASSUME Types, Alone, NEW p \in Procs, NEW s \in Sessions, NEW before, Opens(p, s, before),
         lease \ {proc[p].session} \subseteq before \/ (~proc[p].up /\ before = lease),
         causes' = {}
  PROVE  Alone'
<1>1. /\ \A q \in Procs \ {p} : proc'[q] = proc[q]
      /\ proc'[p].up /\ proc'[p].session = s /\ proc'[p].op = NoOp
  BY OpensEffect
<1>2. /\ lease' = before \cup {s} /\ RunsIn(s) \ {p} = {}
      /\ ~\E q \in Procs \ {p} : Claims(q, s)
  BY DEF Opens, Blame
<1>3. active' = active
  BY DEF Opens
<1>4. \A q \in Procs \ {p} : proc[q].up => proc[q].session # s
  BY <1>2 DEF RunsIn
<1>5. Single'
  BY <1>1, <1>4 DEF Alone, Single
<1>6. Leased'
  <2>1. ASSUME NEW q \in Procs, proc'[q].up
        PROVE  proc'[q].session \in lease'
    <3>1. CASE q = p
      BY <1>1, <1>2, <3>1
    <3>2. CASE q # p
      <4>1. proc[q].up /\ proc[q].session \in lease /\ proc'[q].session = proc[q].session
        BY <1>1, <2>1, <3>2 DEF Alone, Leased
      <4>2. proc[p].up => proc[q].session # proc[p].session
        BY <3>2, <4>1 DEF Alone, Single
      <4>3. proc[q].session \in Sessions /\ (~proc[p].up => proc[p].session \notin Sessions)
        BY <4>1, TypesFacts DEF Proper
      <4> QED
        BY <1>2, <4>1, <4>2, <4>3
    <3> QED
      BY <3>1, <3>2
  <2> QED
    BY <2>1 DEF Leased
<1>7. ASSUME NEW q \in Procs
      PROVE  Mastered(q)'
  <2>1. CASE q = p
    BY <1>1, <2>1 DEF Mastered
  <2>2. CASE q # p
    <3>1. Mastered(q) /\ proc'[q] = proc[q]
      BY <1>1, <2>2 DEF Alone
    <3>2. In(q, "claim") => s # active[proc[q].op.goal].owner
      BY <1>2, <2>2, <3>1 DEF Claims, In, Mastered
    <3>3. ASSUME proc[q].op # NoOp, proc[q].op.kind = "claim", NEW r \in Procs, proc'[r].up
          PROVE  proc'[r].session # active[proc[q].op.goal].owner
      <4>1. CASE r = p
        BY <1>1, <3>2, <3>3, <4>1 DEF In
      <4>2. CASE r # p
        BY <1>1, <3>1, <3>3, <4>2 DEF Mastered
      <4> QED
        BY <4>1, <4>2
    <3> QED
      BY <1>3, <3>1, <3>3 DEF Mastered
  <2> QED
    BY <2>1, <2>2
<1>8. ClaimedOnce'
  BY <1>1 DEF Alone, ClaimedOnce, In
<1> QED
  BY <1>5, <1>6, <1>7, <1>8 DEF Alone

(* A process that goes takes no one else's lease. *)
LEMMA GoneAlone ==
  ASSUME Types, Alone, NEW p \in Procs, proc' = [proc EXCEPT ![p] = Off],
         proc[p].up, active' = active, lease \ {proc[p].session} \subseteq lease'
  PROVE  Alone'
<1>1. \A q \in Procs \ {p} : proc'[q] = proc[q]
  BY GoneEffect
<1>2. proc'[p].op = NoOp /\ ~proc'[p].up
  BY GoneEffect, OffFacts
<1>3. Single'
  BY <1>1, <1>2 DEF Alone, Single
<1>4. Leased'
  BY <1>1, <1>2 DEF Alone, Leased, Single
<1>5. ASSUME NEW q \in Procs
      PROVE  Mastered(q)'
  BY <1>1, <1>2 DEF Alone, Mastered
<1>6. ClaimedOnce'
  BY <1>1, <1>2 DEF Alone, ClaimedOnce, In
<1> QED
  BY <1>3, <1>4, <1>5, <1>6 DEF Alone

(* Only leases change, and none of a session that runs ends.               *)
LEMMA LeaseAlone ==
  ASSUME Alone, proc' = proc, active' = active,
         \A q \in Procs : proc[q].up => proc[q].session \in lease'
  PROVE  Alone'
BY DEF Alone, Single, Leased, Mastered, ClaimedOnce, In

(* A lease that expires is of no running session, or is a cause. *)
LEMMA ExpireAlone ==
  ASSUME Types, Alone, NEW s \in Sessions, Expire(s), causes' = {}
  PROVE  Alone'
<1>1. RunsIn(s) = {} /\ lease' = lease \ {s} /\ proc' = proc /\ active' = active
  BY DEF Expire, Blame
<1>2. \A q \in Procs : proc[q].up => proc[q].session \in lease'
  BY <1>1 DEF Alone, Leased, RunsIn
<1> QED
  BY <1>1, <1>2, LeaseAlone

(* A claim is of a goal whose owner does not run, or is a cause. *)
LEMMA ClaimAlone ==
  ASSUME Types, Alone, NEW p \in Procs, NEW g \in GoalIds, Claim(p, g), causes' = {}
  PROVE  Alone'
<1> DEFINE op == Op("claim", g, [active[g] EXCEPT !.owner = proc[p].session])
<1>1. /\ op \in Ops /\ op # NoOp /\ op.kind = "claim" /\ op.goal = g /\ ~op.stale
      /\ op.next.owner = proc[p].session /\ proc[p].op = NoOp
      /\ Becomes(p, proc[p].focus, proc[p].run, proc[p].audit, proc[p].metered, op)
  BY ClaimEffect
<1> HIDE DEF op
<1>2. /\ active[g] # NoFile /\ active[g].owner \notin lease /\ active' = active /\ lease' = lease
      /\ ~\E q \in Procs : /\ proc[q].op # NoOp /\ proc[q].op.goal = g
                           /\ proc[q].op.kind \in {"claim", "renew"}
  BY DEF Claim, Blame
<1>3. /\ \A q \in Procs \ {p} : proc'[q] = proc[q]
      /\ proc'[p].up = proc[p].up /\ proc'[p].session = proc[p].session /\ proc'[p].op = op
  BY <1>1 DEF Becomes
<1>4. \A q \in Procs : proc'[q].up => proc'[q].session # active[g].owner
  BY <1>2, <1>3 DEF Alone, Leased
<1>5. Mastered(p)'
  BY <1>1, <1>2, <1>3, <1>4 DEF Mastered
<1>6. \A q \in Procs \ {p} : In(q, "claim") => proc[q].op.goal # proc'[p].op.goal
  BY <1>1, <1>2, <1>3 DEF In
<1> QED
  BY <1>2, <1>3, <1>5, <1>6, AloneStep

(* The steps of a session leave each goal one master. *)
LEMMA SessionAlone ==
  ASSUME Types, Alone, NEW p \in Procs, NEW s, NEW g, causes' = {},
         \/ s \in Sessions /\ (Start(p, s) \/ SwitchSession(p, s))
         \/ Exit(p) \/ Crash(p) \/ Refresh(p) \/ Archive(p)
         \/ g \in GoalIds /\ (Claim(p, g) \/ Select(p, g))
  PROVE  Alone'
<1>1. CASE s \in Sessions /\ Start(p, s)
  <2>1. Opens(p, s, lease) /\ ~proc[p].up /\ s \in Sessions
    BY <1>1 DEF Start
  <2> QED
    BY <2>1, OpensAlone
<1>2. CASE s \in Sessions /\ SwitchSession(p, s)
  <2>1. s \in Sessions
    BY <1>2
  <2>2. PICK left : Opens(p, s, left) /\ lease \ {proc[p].session} \subseteq left
    BY <1>2 DEF SwitchSession
  <2> QED
    BY <2>1, <2>2, OpensAlone
<1>3. CASE Exit(p)
  <2>1. /\ proc' = [proc EXCEPT ![p] = Off] /\ proc[p].up /\ active' = active
        /\ lease \ {proc[p].session} \subseteq lease'
    BY <1>3 DEF Exit, Awaits, Free
  <2> QED
    BY <2>1, GoneAlone
<1>4. CASE Crash(p)
  <2>1. /\ proc' = [proc EXCEPT ![p] = Off] /\ proc[p].up /\ active' = active
        /\ lease \ {proc[p].session} \subseteq lease'
    BY <1>4 DEF Crash
  <2> QED
    BY <2>1, GoneAlone
<1>5. CASE Refresh(p)
  <2>1. proc' = proc /\ active' = active /\ lease \subseteq lease'
    BY <1>5 DEF Refresh, Renewed
  <2>2. \A q \in Procs : proc[q].up => proc[q].session \in lease'
    BY <2>1 DEF Alone, Leased
  <2> QED
    BY <2>1, <2>2, LeaseAlone
<1>6. CASE Archive(p)
  <2>1. PICK op \in Ops :
          /\ OfOwn(p, op) /\ Begin(p, op)
          /\ Becomes(p, proc[p].focus, proc[p].run, proc[p].audit, proc[p].metered, op)
    BY <1>6, ArchiveEffect
  <2>2. active' = active /\ lease \subseteq lease'
    BY <2>1 DEF Begin, Renewed
  <2> QED
    BY <2>1, <2>2, LocalAlone
<1>7. CASE g \in GoalIds /\ Claim(p, g)
  BY <1>7, ClaimAlone
<1>8. CASE g \in GoalIds /\ Select(p, g)
  <2>1. active' = active /\ lease \subseteq lease'
    BY <1>8 DEF Select, Renewed
  <2> QED
    BY <1>8, <2>1, SelectEffect, LocalAlone
<1> QED
  BY <1>1, <1>2, <1>3, <1>4, <1>5, <1>6, <1>7, <1>8

(* Nobody else has read the file that is replaced or removed.              *)
LEMMA ReplacedAlone ==
  ASSUME Types, Alone, NEW p \in Procs, proc[p].op # NoOp, NEW x \in Processes,
         proc' = Replaced(p, proc[p].op.goal, x)
  PROVE  /\ proc'[p] = x /\ \A q \in Procs \ {p} : proc'[q] = proc[q]
         /\ \A q \in Procs \ {p} : proc[q].op # NoOp => proc[q].op.goal # proc[p].op.goal
<1>1. \A q \in Procs \ {p} : proc[q].op # NoOp => proc[q].op.goal # proc[p].op.goal
  BY NoRival
<1> QED
  BY <1>1, ReplacedFacts

(* The steps that write files write what their process read. *)
LEMMA FileAlone ==
  ASSUME Types, Alone, NEW p \in Procs, NEW g,
         \/ (g \in GoalIds /\ Create(p, g)) \/ WriteActive(p) \/ RenewLease(p)
         \/ WriteArchive(p) \/ Unlink(p) \/ WriteFails(p)
  PROVE  Alone'
<1>1. CASE g \in GoalIds /\ Create(p, g)
  <2>1. PICK record \in Records :
          /\ record.owner = proc[p].session
          /\ active' = [active EXCEPT ![g] = record]
          /\ Becomes(p, g, proc[p].run, proc[p].audit, proc[p].metered,
                     Op("renew", g, record))
    BY <1>1, CreateEffect
  <2> DEFINE op == Op("renew", g, record)
  <2>2. op \in Ops /\ op # NoOp /\ op.kind = "renew" /\ op.goal = g /\ op.next = record /\ ~op.stale
    BY <1>1, OpFacts DEF OpKinds
  <2>3. Becomes(p, g, proc[p].run, proc[p].audit, proc[p].metered, op)
    BY <2>1
  <2> HIDE DEF op
  <2>4. active[g] = NoFile /\ lease' = lease /\ record # NoFile
    BY <1>1, NoFileAssumption DEF Create
  <2>5. active'[g] = record /\ \A h \in GoalIds \ {g} : active'[h] = active[h]
    BY <1>1, <2>1, TypesFacts DEF Files
  <2>6. /\ \A q \in Procs \ {p} : proc'[q] = proc[q]
        /\ proc'[p].up = proc[p].up /\ proc'[p].session = proc[p].session /\ proc'[p].op = op
    BY <2>3 DEF Becomes
  <2>7. ASSUME NEW q \in Procs \ {p}, proc[q].op # NoOp
        PROVE  active'[proc[q].op.goal] = active[proc[q].op.goal]
    <3>1. proc[q].op.goal \in GoalIds /\ active[proc[q].op.goal] # NoFile
      BY <2>7, UnderWay DEF Alone, Mastered
    <3> QED
      BY <2>4, <2>5, <3>1
  <2>8. Mastered(p)'
    BY <2>1, <2>2, <2>4, <2>5, <2>6 DEF Mastered
  <2>9. ~In(p, "claim")'
    BY <2>2, <2>6 DEF In
  <2> QED
    BY <2>4, <2>6, <2>7, <2>8, <2>9, AloneStep
<1>2. CASE WriteActive(p)
  <2> DEFINE op == proc[p].op
  <2>1. PICK mine \in Processes :
          /\ proc' = Replaced(p, op.goal, mine)
          /\ mine.up = proc[p].up /\ mine.session = proc[p].session
          /\ \/ mine.op = NoOp
             \/ mine.op = [op EXCEPT !.kind = "renew"]
    BY <1>2, WriteActiveEffect
  <2>2. /\ op \in Ops /\ op.goal \in GoalIds /\ op.next \in Records /\ op # NoOp
        /\ Mastered(p)
    BY <1>2, UnderWay DEF WriteActive, In, Alone
  <2>3. active' = [active EXCEPT ![op.goal] = op.next] /\ lease' = lease /\ op.next # NoFile
    BY <1>2, <2>2, NoFileAssumption DEF WriteActive
  <2>4. /\ active'[op.goal] = op.next
        /\ \A h \in GoalIds \ {op.goal} : active'[h] = active[h]
    BY <2>2, <2>3, TypesFacts DEF Files
  <2>5. /\ proc'[p] = mine /\ \A q \in Procs \ {p} : proc'[q] = proc[q]
        /\ \A q \in Procs \ {p} : proc[q].op # NoOp => proc[q].op.goal # op.goal
    BY <2>1, <2>2, ReplacedAlone
  <2>6. \A q \in Procs \ {p} :
          proc[q].op # NoOp => active'[proc[q].op.goal] = active[proc[q].op.goal]
    BY <2>4, <2>5, UnderWay
  <2>7. mine.op # NoOp =>
          /\ mine.op.kind = "renew" /\ mine.op.goal = op.goal /\ mine.op.next = op.next
          /\ mine.op.stale = op.stale
    <3>1. proc[p] \in Processes /\ "renew" \in OpKinds
      BY TypesFacts DEF OpKinds
    <3>2. /\ [op EXCEPT !.kind = "renew"].kind = "renew"
          /\ [op EXCEPT !.kind = "renew"].goal = op.goal
          /\ [op EXCEPT !.kind = "renew"].next = op.next
          /\ [op EXCEPT !.kind = "renew"].stale = op.stale
      BY <2>2, <3>1, OpUpdates
    <3> QED
      BY <2>1, <3>2
  <2>8. Mastered(p)'
    BY <2>1, <2>2, <2>3, <2>4, <2>5, <2>7, SMTT(30) DEF Mastered
  <2>9. ~In(p, "claim")'
    BY <2>5, <2>7 DEF In
  <2> QED
    BY <2>1, <2>3, <2>5, <2>6, <2>8, <2>9, AloneStep
<1>3. CASE RenewLease(p)
  <2>1. active' = active /\ lease \subseteq lease'
    BY <1>3 DEF RenewLease, Renewed
  <2> QED
    BY <1>3, <2>1, RenewLeaseEffect, LocalAlone
<1>4. CASE WriteArchive(p)
  <2> DEFINE op == proc[p].op
  <2>1. active' = active /\ lease' = lease /\ op # NoOp /\ In(p, "archive") /\ Mastered(p)
    BY <1>4 DEF WriteArchive, Alone, In
  <2>2. Becomes(p, proc[p].focus, proc[p].run, proc[p].audit, proc[p].metered,
                [op EXCEPT !.kind = "unlink"])
    BY <1>4, <2>1, WriteArchiveEffect DEF Mastered
  <2>3. /\ \A q \in Procs \ {p} : proc'[q] = proc[q]
        /\ proc'[p].up = proc[p].up /\ proc'[p].session = proc[p].session
        /\ proc'[p].op = [op EXCEPT !.kind = "unlink"]
    BY <2>2 DEF Becomes
  <2>4. /\ proc'[p].op.kind = "unlink" /\ proc'[p].op.goal = op.goal
        /\ proc'[p].op.next = op.next /\ proc'[p].op.stale = op.stale
    <3>1. proc[p] \in Processes /\ "unlink" \in OpKinds
      BY TypesFacts DEF OpKinds
    <3>2. /\ [op EXCEPT !.kind = "unlink"].kind = "unlink"
          /\ [op EXCEPT !.kind = "unlink"].goal = op.goal
          /\ [op EXCEPT !.kind = "unlink"].next = op.next
          /\ [op EXCEPT !.kind = "unlink"].stale = op.stale
      BY <2>1, <3>1, OpUpdates
    <3> QED
      BY <2>3, <3>2
  <2>5. Mastered(p)'
    BY <2>1, <2>3, <2>4 DEF Mastered, In
  <2>6. ~In(p, "claim")'
    BY <2>4 DEF In
  <2> QED
    BY <2>1, <2>3, <2>5, <2>6, AloneStep
<1>5. CASE Unlink(p)
  <2> DEFINE op == proc[p].op
  <2>1. PICK mine \in Processes :
          /\ proc' = Replaced(p, op.goal, mine)
          /\ mine.up = proc[p].up /\ mine.session = proc[p].session /\ mine.op = NoOp
    BY <1>5, UnlinkEffect
  <2>2. /\ op # NoOp /\ active' = [active EXCEPT ![op.goal] = NoFile] /\ lease' = lease
        /\ op.goal \in GoalIds
    BY <1>5, UnderWay DEF Unlink, In
  <2>3. \A h \in GoalIds \ {op.goal} : active'[h] = active[h]
    BY <2>2, TypesFacts DEF Files
  <2>4. /\ proc'[p] = mine /\ \A q \in Procs \ {p} : proc'[q] = proc[q]
        /\ \A q \in Procs \ {p} : proc[q].op # NoOp => proc[q].op.goal # op.goal
    BY <2>1, <2>2, ReplacedAlone
  <2>5. \A q \in Procs \ {p} :
          proc[q].op # NoOp => active'[proc[q].op.goal] = active[proc[q].op.goal]
    BY <2>3, <2>4, UnderWay
  <2>6. Mastered(p)' /\ ~In(p, "claim")'
    BY <2>1, <2>4 DEF Mastered, In
  <2> QED
    BY <2>1, <2>2, <2>4, <2>5, <2>6, AloneStep
<1>6. CASE WriteFails(p)
  <2>1. active' = active /\ lease \subseteq lease'
    BY <1>6 DEF WriteFails
  <2> QED
    BY <1>6, <2>1, WriteFailsEffect, LocalAlone
<1> QED
  BY <1>1, <1>2, <1>3, <1>4, <1>5, <1>6

----------------------------------------------------------------------------
(* A charged run *)

(* At first no run is charged. *)
LEMMA InitMetered == Init => \A p \in Procs : Metered(p)
BY OffFacts DEF Init, Metered

(* Whatever a step writes is of the process that writes.                   *)
Keeps(p) ==
  \A g \in GoalIds : \/ active'[g] = active[g] \/ active'[g] = NoFile
                     \/ proc[p].up /\ active'[g].owner = proc[p].session

(* The charges of others stand when one process writes goals of its own. *)
LEMMA MeteredStep ==
  ASSUME Types, Alone, \A q \in Procs : Metered(q), NEW p \in Procs,
         \A q \in Procs \ {p} : proc'[q] = proc[q], Keeps(p), Metered(p)'
  PROVE  \A q \in Procs : Metered(q)'
<1>1. SUFFICES ASSUME NEW q \in Procs, q # p
               PROVE  Metered(q)'
  OBVIOUS
<1>2. proc'[q] = proc[q] /\ Metered(q)
  BY <1>1
<1>3. SUFFICES ASSUME proc[q].run = "charged", proc[q].metered, proc[q].op = NoOp, Focused(q)'
               PROVE  Within(active'[proc[q].focus])
  BY <1>2 DEF Metered, In
<1>4. /\ proc[q].focus \in GoalIds /\ active'[proc[q].focus] # NoFile
      /\ active'[proc[q].focus].owner = proc[q].session
  BY <1>2, <1>3, TypesFacts, ProcessFields DEF Focused, Owns
<1>5. ~(proc[p].up /\ active'[proc[q].focus].owner = proc[p].session)
  <2>1. SUFFICES ASSUME proc[p].up, proc[q].session = proc[p].session
                 PROVE  FALSE
    BY <1>4
  <2>2. Proper(proc[p], active, archived) /\ Proper(proc[q], active, archived)
    BY TypesFacts
  <2>3. proc[q].up
    BY <2>1, <2>2 DEF Proper
  <2> QED
    BY <1>1, <2>1, <2>3 DEF Alone, Single
<1>6. active'[proc[q].focus] = active[proc[q].focus]
  BY <1>4, <1>5 DEF Keeps
<1>7. Focused(q)
  BY <1>2, <1>3, <1>4, <1>6 DEF Focused, Owns
<1> QED
  BY <1>2, <1>3, <1>6, <1>7 DEF Metered

(* A process whose run is not charged owes nothing. *)
LEMMA Uncharged ==
  ASSUME NEW p \in Procs, proc'[p].run # "charged"
  PROVE  Metered(p)'
BY DEF Metered

(* A step that changes one process only, which then has no charged run.    *)
LEMMA MeteredLocal ==
  ASSUME Types, Alone, \A q \in Procs : Metered(q), NEW p \in Procs,
         NEW focus, NEW run, NEW audit, NEW metered, NEW op,
         Becomes(p, focus, run, audit, metered, op), active' = active, run # "charged"
  PROVE  \A q \in Procs : Metered(q)'
<1>1. Keeps(p)
  BY DEF Keeps
<1>2. (\A q \in Procs \ {p} : proc'[q] = proc[q]) /\ proc'[p].run = run
  BY DEF Becomes
<1>3. Metered(p)'
  BY <1>2, Uncharged
<1> QED
  BY <1>1, <1>2, <1>3, MeteredStep

(* The steps of a run leave each charged run its charge. *)
LEMMA RunMetered ==
  ASSUME Types, Alone, \A q \in Procs : Metered(q), NEW p \in Procs,
         \/ Prompt(p) \/ AgentUpdates(p) \/ StartAudit(p) \/ AuditEnds(p) \/ Esc(p)
         \/ EndRun(p) \/ Charge(p) \/ Checkpoint(p) \/ GoIdle(p)
  PROVE  \A q \in Procs : Metered(q)'
<1>1. CASE Prompt(p)
  <2>1. active' = active /\ "working" # "charged"
    BY <1>1 DEF Prompt
  <2> QED
    BY <1>1, <2>1, PromptEffect, MeteredLocal
<1>2. CASE AgentUpdates(p)
  <2>1. PICK op \in Ops :
          /\ OfOwn(p, op) /\ Begin(p, op)
          /\ Becomes(p, proc[p].focus, proc[p].run, proc[p].audit, proc[p].metered, op)
    BY <1>2, AgentUpdatesEffect
  <2>2. active' = active /\ proc[p].run # "charged"
    BY <1>2, <2>1 DEF Begin, AgentUpdates
  <2> QED
    BY <2>1, <2>2, MeteredLocal
<1>3. CASE StartAudit(p)
  <2>1. active' = active /\ "auditing" # "charged"
    BY <1>3 DEF StartAudit
  <2> QED
    BY <1>3, <2>1, StartAuditEffect, MeteredLocal
<1>4. CASE AuditEnds(p)
  <2>1. active' = active /\ "working" # "charged"
    BY <1>4 DEF AuditEnds
  <2> QED
    BY <1>4, <2>1, AuditEndsEffect, MeteredLocal
<1>5. CASE Esc(p)
  <2>1. active' = active /\ proc[p].run # "charged"
    BY <1>5 DEF Esc, Awaits
  <2> QED
    BY <1>5, <2>1, EscEffect, MeteredLocal
<1>6. CASE EndRun(p)
  <2>1. active' = active /\ "ending" # "charged"
    BY <1>6 DEF EndRun
  <2> QED
    BY <1>6, <2>1, EndRunEffect, MeteredLocal
<1>7. CASE Charge(p)
  <2>1. Keeps(p) /\ active' = active
    BY <1>7 DEF Charge, Keeps
  <2>2. CASE Becomes(p, proc[p].focus, "charged", proc[p].audit, FALSE, NoOp)
    <3>1. (\A q \in Procs \ {p} : proc'[q] = proc[q]) /\ ~proc'[p].metered
      BY <2>2 DEF Becomes
    <3>2. Metered(p)'
      BY <3>1 DEF Metered
    <3> QED
      BY <2>1, <3>1, <3>2, MeteredStep
  <2>3. CASE ~Focused(p) /\ Becomes(p, proc[p].focus, "charged", proc[p].audit, TRUE, NoOp)
    <3>1. /\ \A q \in Procs \ {p} : proc'[q] = proc[q]
          /\ proc'[p].op = NoOp /\ proc'[p].focus = proc[p].focus
          /\ proc'[p].session = proc[p].session
      BY <2>3 DEF Becomes
    <3>2. ~Focused(p)'
      BY <2>1, <2>3, <3>1 DEF Focused, Owns
    <3>3. Metered(p)'
      BY <3>1, <3>2 DEF Metered
    <3> QED
      BY <2>1, <3>1, <3>3, MeteredStep
  <2>4. ASSUME NEW op \in Ops,
               op.kind = "write", op.goal = proc[p].focus, Within(op.next),
               Becomes(p, proc[p].focus, "charged", proc[p].audit, TRUE, op)
        PROVE  \A q \in Procs : Metered(q)'
    <3>1. /\ \A q \in Procs \ {p} : proc'[q] = proc[q]
          /\ proc'[p].op = op /\ proc'[p].focus = proc[p].focus
      BY <2>4 DEF Becomes
    <3>2. op # NoOp
      BY NoOpAssumption
    <3>3. Metered(p)'
      BY <2>4, <3>1, <3>2 DEF Metered, In
    <3> QED
      BY <2>1, <3>1, <3>3, MeteredStep
  <2> QED
    BY <1>7, <2>2, <2>3, <2>4, ChargeEffect
<1>8. CASE Checkpoint(p)
  <2>1. active' = active /\ "working" # "charged"
    BY <1>8 DEF Checkpoint
  <2> QED
    BY <1>8, <2>1, CheckpointEffect, MeteredLocal
<1>9. CASE GoIdle(p)
  <2>1. active' = active /\ "idle" # "charged"
    BY <1>9 DEF GoIdle
  <2> QED
    BY <1>9, <2>1, GoIdleEffect, MeteredLocal
<1> QED
  BY <1>1, <1>2, <1>3, <1>4, <1>5, <1>6, <1>7, <1>8, <1>9

(* The steps of a session leave each charged run its charge. *)
LEMMA SessionMetered ==
  ASSUME Types, Alone, \A q \in Procs : Metered(q), NEW p \in Procs, NEW s, NEW g,
         \/ s \in Sessions /\ (Start(p, s) \/ SwitchSession(p, s))
         \/ Exit(p) \/ Crash(p) \/ Refresh(p) \/ Archive(p)
         \/ g \in GoalIds /\ (Claim(p, g) \/ Select(p, g))
  PROVE  \A q \in Procs : Metered(q)'
<1>1. ASSUME NEW before, s \in Sessions, Opens(p, s, before)
      PROVE  \A q \in Procs : Metered(q)'
  <2>1. Keeps(p)
    BY <1>1 DEF Opens, Keeps
  <2>2. (\A q \in Procs \ {p} : proc'[q] = proc[q]) /\ proc'[p].run # "charged"
    BY <1>1, OpensEffect
  <2>3. Metered(p)'
    BY <2>2, Uncharged
  <2> QED
    BY <2>1, <2>2, <2>3, MeteredStep
<1>2. CASE s \in Sessions /\ (Start(p, s) \/ SwitchSession(p, s))
  BY <1>1, <1>2 DEF Start, SwitchSession
<1>3. CASE Exit(p) \/ Crash(p)
  <2>1. proc' = [proc EXCEPT ![p] = Off] /\ Keeps(p)
    BY <1>3 DEF Exit, Crash, Keeps
  <2>2. (\A q \in Procs \ {p} : proc'[q] = proc[q]) /\ proc'[p].run # "charged"
    BY <2>1, GoneEffect, OffFacts
  <2>3. Metered(p)'
    BY <2>2, Uncharged
  <2> QED
    BY <2>1, <2>2, <2>3, MeteredStep
<1>4. CASE Refresh(p)
  <2>1. proc' = proc /\ active' = active
    BY <1>4 DEF Refresh
  <2> QED
    BY <2>1 DEF Metered, In, Focused, Owns
<1>5. CASE Archive(p)
  <2>1. PICK op \in Ops :
          /\ OfOwn(p, op) /\ Begin(p, op)
          /\ Becomes(p, proc[p].focus, proc[p].run, proc[p].audit, proc[p].metered, op)
    BY <1>5, ArchiveEffect
  <2>2. active' = active /\ proc[p].run # "charged"
    BY <1>5, <2>1 DEF Begin, Archive, Awaits
  <2> QED
    BY <2>1, <2>2, MeteredLocal
<1>6. CASE g \in GoalIds /\ Claim(p, g)
  <2> DEFINE op == Op("claim", g, [active[g] EXCEPT !.owner = proc[p].session])
  <2>1. Becomes(p, proc[p].focus, proc[p].run, proc[p].audit, proc[p].metered, op)
    BY <1>6, ClaimEffect
  <2> HIDE DEF op
  <2>2. active' = active /\ proc[p].run # "charged"
    BY <1>6 DEF Claim
  <2> QED
    BY <2>1, <2>2, MeteredLocal
<1>7. CASE g \in GoalIds /\ Select(p, g)
  <2>1. active' = active /\ proc[p].run # "charged"
    BY <1>7 DEF Select, Awaits
  <2> QED
    BY <1>7, <2>1, SelectEffect, MeteredLocal
<1> QED
  BY <1>2, <1>3, <1>4, <1>5, <1>6, <1>7

(* The charge is written as it was computed, and a write that fails is a   *)
(* fault.                                                                  *)
LEMMA FileMetered ==
  ASSUME Types, Alone, \A q \in Procs : Metered(q), NEW p \in Procs, NEW g, faults' = 0,
         \/ (g \in GoalIds /\ Create(p, g)) \/ WriteActive(p) \/ RenewLease(p)
         \/ WriteArchive(p) \/ Unlink(p) \/ WriteFails(p)
  PROVE  \A q \in Procs : Metered(q)'
<1>1. CASE g \in GoalIds /\ Create(p, g)
  <2>1. PICK record \in Records :
          /\ record.owner = proc[p].session
          /\ active' = [active EXCEPT ![g] = record] /\ proc[p].up
          /\ proc[p].run = "working"
          /\ Becomes(p, g, proc[p].run, proc[p].audit, proc[p].metered,
                     Op("renew", g, record))
    BY <1>1, CreateEffect
  <2>2. Keeps(p)
    BY <1>1, <2>1, TypesFacts DEF Files, Keeps
  <2>3. (\A q \in Procs \ {p} : proc'[q] = proc[q]) /\ proc'[p].run # "charged"
    BY <2>1 DEF Becomes
  <2>4. Metered(p)'
    BY <2>3, Uncharged
  <2> QED
    BY <2>2, <2>3, <2>4, MeteredStep
<1>2. CASE WriteActive(p)
  <2> DEFINE op == proc[p].op
  <2>1. PICK mine \in Processes :
          /\ proc' = Replaced(p, op.goal, mine)
          /\ mine.run = proc[p].run /\ mine.metered = proc[p].metered
          /\ mine.session = proc[p].session
          /\ \/ In(p, "write") /\ mine.focus = proc[p].focus /\ mine.op = NoOp
             \/ In(p, "claim")
    BY <1>2, WriteActiveEffect
  <2>2. op # NoOp /\ op.goal \in GoalIds /\ Mastered(p) /\ proc[p].up
    BY <1>2, UnderWay DEF WriteActive, In, Alone
  <2>3. active' = [active EXCEPT ![op.goal] = op.next]
    BY <1>2 DEF WriteActive
  <2>4. /\ active'[op.goal] = op.next
        /\ \A h \in GoalIds \ {op.goal} : active'[h] = active[h]
    BY <2>2, <2>3, TypesFacts DEF Files
  <2>5. proc'[p] = mine /\ \A q \in Procs \ {p} : proc'[q] = proc[q]
    BY <2>1, <2>2, ReplacedAlone
  <2>6. Keeps(p)
    BY <2>2, <2>4 DEF Keeps, Mastered
  <2>7. ASSUME proc[p].run = "charged", proc[p].metered
        PROVE  mine.op = NoOp /\ mine.focus = op.goal /\ Within(op.next)
    <3>1. In(p, "write") /\ op.goal = proc[p].focus /\ Within(op.next)
      BY <2>2, <2>7 DEF Metered
    <3> QED
      BY <2>1, <3>1 DEF In
  <2>8. Metered(p)'
    BY <2>1, <2>4, <2>5, <2>7 DEF Metered
  <2> QED
    BY <2>5, <2>6, <2>8, MeteredStep
<1>3. CASE RenewLease(p) \/ WriteArchive(p) \/ Unlink(p)
  <2>1. proc[p].op # NoOp /\ ~In(p, "write") /\ ~(proc[p].run = "charged" /\ proc[p].metered)
    BY <1>3 DEF RenewLease, WriteArchive, Unlink, In, Metered
  <2>2. /\ \A q \in Procs \ {p} : proc'[q] = proc[q]
        /\ proc'[p].run = proc[p].run /\ proc'[p].metered = proc[p].metered
    <3>1. CASE RenewLease(p)
      BY <3>1, RenewLeaseEffect DEF Becomes
    <3>2. CASE WriteArchive(p)
      BY <3>2, WriteArchiveEffect DEF Becomes
    <3>3. CASE Unlink(p)
      <4>1. PICK mine \in Processes :
              /\ proc' = Replaced(p, proc[p].op.goal, mine)
              /\ mine.run = proc[p].run /\ mine.metered = proc[p].metered
        BY <3>3, UnlinkEffect
      <4> QED
        BY <2>1, <4>1, ReplacedAlone
    <3> QED
      BY <1>3, <3>1, <3>2, <3>3
  <2>3. Keeps(p)
    <3>1. CASE RenewLease(p) \/ WriteArchive(p)
      BY <3>1 DEF RenewLease, WriteArchive, Keeps
    <3>2. CASE Unlink(p)
      BY <2>1, <3>2, UnderWay, TypesFacts DEF Unlink, Keeps, Files
    <3> QED
      BY <1>3, <3>1, <3>2
  <2>4. Metered(p)'
    BY <2>1, <2>2 DEF Metered
  <2> QED
    BY <2>2, <2>3, <2>4, MeteredStep
<1>4. CASE WriteFails(p)
  <2>1. faults \in Nat /\ faults' = faults + 1
    BY <1>4, TypesFacts, BoundsAssumption DEF WriteFails
  <2> QED
    BY <2>1
<1> QED
  BY <1>1, <1>2, <1>3, <1>4

----------------------------------------------------------------------------
(* The invariant, and what follows from it *)

(* A cause and a fault stay on record. *)
LEMMA CausesStay ==
  ASSUME Types, Next
  PROVE  causes \subseteq causes' /\ (faults' = 0 => faults = 0)
<1>1. faults \in Nat
  BY TypesFacts, BoundsAssumption
<1>2. faults' = faults \/ faults' = faults + 1
  BY DEF Next, Start, SwitchSession, Opens, Expire, Exit, Crash, Refresh, Archive, Begin,
         Create, Claim, Select, WriteActive, RenewLease, WriteArchive, Unlink, WriteFails,
         Prompt, AgentUpdates, Mutate, StartAudit, AuditEnds, Esc, EndRun, Charge,
         Checkpoint, GoIdle
<1>3. causes' = causes \/ \E what : Blame(what)
  <2>1. ASSUME NEW p \in Procs, NEW s \in Sessions, Start(p, s) \/ SwitchSession(p, s)
        PROVE  \E what : Blame(what)
    <3>1. PICK before : Opens(p, s, before)
      BY <2>1 DEF Start, SwitchSession
    <3> QED
      BY <3>1 DEF Opens
  <2>2. ASSUME NEW s \in Sessions, Expire(s)
        PROVE  \E what : Blame(what)
    BY <2>2 DEF Expire
  <2>3. ASSUME NEW p \in Procs, NEW g \in GoalIds, Claim(p, g)
        PROVE  \E what : Blame(what)
    BY <2>3 DEF Claim
  <2> QED
    BY <2>1, <2>2, <2>3
    DEF Next, Exit, Crash, Refresh, Archive, Begin, Create, Select, WriteActive, RenewLease,
        WriteArchive, Unlink, WriteFails, Prompt, AgentUpdates, Mutate, StartAudit, AuditEnds,
        Esc, EndRun, Charge, Checkpoint, GoIdle
<1> QED
  BY <1>1, <1>2, <1>3 DEF Blame

(* While nothing gave a goal two masters, every step leaves it one. *)
LEMMA AloneStable ==
  ASSUME Types, Alone, Next, causes' = {}
  PROVE  Alone'
<1>1. CASE \E p \in Procs, s \in Sessions : Start(p, s) \/ SwitchSession(p, s)
  BY <1>1, SessionAlone
<1>2. CASE \E s \in Sessions : Expire(s)
  BY <1>2, ExpireAlone
<1>3. CASE \E p \in Procs : Exit(p) \/ Crash(p) \/ Refresh(p) \/ Archive(p)
  BY <1>3, SessionAlone
<1>4. CASE \E p \in Procs, g \in GoalIds : Create(p, g) \/ Claim(p, g) \/ Select(p, g)
  BY <1>4, SessionAlone, FileAlone
<1>5. CASE \E p \in Procs : \/ WriteActive(p) \/ RenewLease(p) \/ WriteArchive(p)
                            \/ Unlink(p) \/ WriteFails(p)
  BY <1>5, FileAlone
<1>6. CASE \E p \in Procs :
             \/ Prompt(p) \/ AgentUpdates(p) \/ StartAudit(p) \/ AuditEnds(p) \/ Esc(p)
             \/ EndRun(p) \/ Charge(p) \/ Checkpoint(p) \/ GoIdle(p)
  BY <1>6, RunAlone
<1> QED
  BY <1>1, <1>2, <1>3, <1>4, <1>5, <1>6 DEF Next

(* While no write failed either, every step leaves each charged run its charge. *)
LEMMA MeteredStable ==
  ASSUME Types, Alone, \A p \in Procs : Metered(p), Next, faults' = 0
  PROVE  \A p \in Procs : Metered(p)'
<1>1. CASE \E p \in Procs, s \in Sessions : Start(p, s) \/ SwitchSession(p, s)
  BY <1>1, SessionMetered
<1>2. CASE \E s \in Sessions : Expire(s)
  <2>1. proc' = proc /\ active' = active
    BY <1>2 DEF Expire
  <2> QED
    BY <2>1 DEF Metered, In, Focused, Owns
<1>3. CASE \E p \in Procs : Exit(p) \/ Crash(p) \/ Refresh(p) \/ Archive(p)
  BY <1>3, SessionMetered
<1>4. CASE \E p \in Procs, g \in GoalIds : Create(p, g) \/ Claim(p, g) \/ Select(p, g)
  BY <1>4, SessionMetered, FileMetered
<1>5. CASE \E p \in Procs : \/ WriteActive(p) \/ RenewLease(p) \/ WriteArchive(p)
                            \/ Unlink(p) \/ WriteFails(p)
  BY <1>5, FileMetered
<1>6. CASE \E p \in Procs :
             \/ Prompt(p) \/ AgentUpdates(p) \/ StartAudit(p) \/ AuditEnds(p) \/ Esc(p)
             \/ EndRun(p) \/ Charge(p) \/ Checkpoint(p) \/ GoIdle(p)
  BY <1>6, RunMetered
<1> QED
  BY <1>1, <1>2, <1>3, <1>4, <1>5, <1>6 DEF Next

(* The invariant holds at first. *)
LEMMA InitIInv == Init => IInv
<1> SUFFICES ASSUME Init PROVE IInv
  OBVIOUS
<1>1. Types /\ Alone /\ \A p \in Procs : Metered(p)
  BY InitTypes, InitAlone, InitMetered
<1> QED
  BY <1>1 DEF IInv

(* Every step keeps the invariant. *)
LEMMA IInvStable == IInv /\ [Next]_vars => IInv'
<1> SUFFICES ASSUME IInv, [Next]_vars
             PROVE  IInv'
  OBVIOUS
<1>1. Types'
  BY TypesStable DEF IInv
<1>2. CASE Next
  <2>1. causes \subseteq causes' /\ (faults' = 0 => faults = 0)
    BY <1>2, CausesStay DEF IInv
  <2>2. causes' = {} => Alone'
    BY <1>2, <2>1, AloneStable DEF IInv
  <2>3. causes' = {} /\ faults' = 0 => \A p \in Procs : Metered(p)'
    BY <1>2, <2>1, MeteredStable DEF IInv
  <2> QED
    BY <1>1, <2>2, <2>3 DEF IInv
<1>3. CASE UNCHANGED vars
  <2>1. UNCHANGED <<active, archived, lease, proc, starts, faults, causes>>
    BY <1>3 DEF vars
  <2>2. Alone => Alone'
    BY <2>1 DEF Alone, Single, Leased, ClaimedOnce, Mastered, In
  <2>3. \A p \in Procs : Metered(p) => Metered(p)'
    BY <2>1 DEF Metered, In, Focused, Owns
  <2> QED
    BY <1>1, <2>1, <2>2, <2>3 DEF IInv
<1> QED
  BY <1>2, <1>3

(* WritesWhatItRead: as long as no lease of a running session runs out, no *)
(* session is open twice and no claim meets its owner, every change of a   *)
(* goal replaces the file that it was made from, so that no update is lost *)
(* and no archived goal comes back.                                        *)
THEOREM NoUpdateIsLost == Spec => WritesWhatItRead
<1>1. IInv /\ [Next]_vars
        => [\A p \in Procs : Writes(p) /\ proc[p].op.stale => causes # {}]_vars
  <2>1. SUFFICES ASSUME IInv, NEW p \in Procs, Writes(p), causes = {}
                 PROVE  ~proc[p].op.stale
    OBVIOUS
  <2>2. Mastered(p)
    BY <2>1 DEF IInv, Alone
  <2> QED
    BY <2>1, <2>2 DEF Writes, Mastered
<1> QED
  BY <1>1, InitIInv, IInvStable, PTL DEF Spec, WritesWhatItRead

(* Only a checkpoint makes a charged run work again.                       *)
LEMMA OnlyCheckpoints ==
  ASSUME Types, Next, NEW p \in Procs, proc[p].run = "charged", proc'[p].run = "working"
  PROVE  Checkpoint(p)
<1>1. ASSUME NEW q \in Procs, NEW focus, NEW audit, NEW metered, NEW op,
             Becomes(q, focus, proc[q].run, audit, metered, op)
      PROVE  FALSE
  BY <1>1 DEF Becomes
<1>2. ASSUME NEW q \in Procs, NEW focus, NEW run, NEW audit, NEW metered, NEW op,
             Becomes(q, focus, run, audit, metered, op),
             proc[q].run # "charged" \/ run # "working"
      PROVE  FALSE
  BY <1>2 DEF Becomes
<1>3. ASSUME NEW q \in Procs, NEW g, NEW mine \in Processes,
             proc' = Replaced(q, g, mine), mine.run = proc[q].run
      PROVE  FALSE
  BY <1>3, ReplacedFacts DEF Stays
<1>4. ASSUME NEW q \in Procs, NEW s \in Sessions, NEW before, Opens(q, s, before)
      PROVE  FALSE
  BY <1>4, OpensEffect
<1>5. ASSUME NEW q \in Procs, proc' = [proc EXCEPT ![q] = Off]
      PROVE  FALSE
  BY <1>5, GoneEffect, OffFacts
<1>6. CASE \E q \in Procs, s \in Sessions : Start(q, s) \/ SwitchSession(q, s)
  BY <1>4, <1>6 DEF Start, SwitchSession
<1>7. CASE (\E s \in Sessions : Expire(s)) \/ (\E q \in Procs : Refresh(q))
  <2>1. proc' = proc
    BY <1>7 DEF Expire, Refresh
  <2> QED
    BY <2>1
<1>8. CASE \E q \in Procs : Exit(q) \/ Crash(q)
  BY <1>5, <1>8 DEF Exit, Crash
<1>9. ASSUME NEW q \in Procs, Archive(q) \/ AgentUpdates(q)
      PROVE  FALSE
  BY <1>1, <1>9, ArchiveEffect, AgentUpdatesEffect
<1>10. ASSUME NEW q \in Procs, NEW g \in GoalIds, Create(q, g) \/ Claim(q, g) \/ Select(q, g)
       PROVE  FALSE
  <2>1. CASE Create(q, g)
    BY <1>1, <2>1, CreateEffect
  <2>2. CASE Claim(q, g)
    BY <1>1, <2>2, ClaimEffect, ZenonT(40)
  <2>3. CASE Select(q, g)
    BY <1>1, <2>3, SelectEffect
  <2> QED
    BY <1>10, <2>1, <2>2, <2>3
<1>11. ASSUME NEW q \in Procs, WriteActive(q) \/ Unlink(q)
       PROVE  FALSE
  <2>1. CASE WriteActive(q)
    <3>1. PICK mine \in Processes :
            proc' = Replaced(q, proc[q].op.goal, mine) /\ mine.run = proc[q].run
      BY <2>1, WriteActiveEffect
    <3> QED
      BY <1>3, <3>1
  <2>2. CASE Unlink(q)
    <3>1. PICK mine \in Processes :
            proc' = Replaced(q, proc[q].op.goal, mine) /\ mine.run = proc[q].run
      BY <2>2, UnlinkEffect
    <3> QED
      BY <1>3, <3>1
  <2> QED
    BY <1>11, <2>1, <2>2
<1>12. ASSUME NEW q \in Procs, RenewLease(q) \/ WriteArchive(q) \/ WriteFails(q)
       PROVE  FALSE
  BY <1>1, <1>12, RenewLeaseEffect, WriteArchiveEffect, WriteFailsEffect
<1>13. ASSUME NEW q \in Procs, Prompt(q)
       PROVE  FALSE
  <2>1. proc[q].run # "charged"
    BY <1>13 DEF Prompt
  <2> QED
    BY <1>2, <1>13, <2>1, PromptEffect
<1>14. ASSUME NEW q \in Procs, StartAudit(q)
       PROVE  FALSE
  BY <1>2, <1>14, StartAuditEffect
<1>15. ASSUME NEW q \in Procs, AuditEnds(q)
       PROVE  FALSE
  <2>1. proc[q].run # "charged"
    BY <1>15 DEF AuditEnds
  <2> QED
    BY <1>2, <1>15, <2>1, AuditEndsEffect
<1>16. ASSUME NEW q \in Procs, Esc(q)
       PROVE  FALSE
  BY <1>1, <1>16, EscEffect
<1>17. ASSUME NEW q \in Procs, EndRun(q) \/ Charge(q) \/ GoIdle(q)
       PROVE  FALSE
  BY <1>2, <1>17, EndRunEffect, ChargeEffect, GoIdleEffect
<1>18. CASE \E q \in Procs : Checkpoint(q)
  <2>1. PICK q \in Procs : Checkpoint(q)
    BY <1>18
  <2>2. CASE q = p
    BY <2>1, <2>2
  <2>3. CASE q # p
    BY <2>1, <2>3, CheckpointEffect DEF Becomes
  <2> QED
    BY <2>2, <2>3
<1> QED
  BY <1>6, <1>7, <1>8, <1>9, <1>10, <1>11, <1>12, <1>13, <1>14, <1>15, <1>16, <1>17, <1>18
  DEF Next

(* BudgetStopsCheckpoints: a goal whose budget is used up starts no        *)
(* further checkpoint by itself, when the run before was charged, the goal *)
(* had one master and no write of a goal has failed.                       *)
THEOREM SpentBudgetStops == Spec => BudgetStopsCheckpoints
<1>1. IInv /\ [Next]_vars
        => [\A p \in Procs :
              /\ proc[p].run = "charged" /\ proc'[p].run = "working"
              /\ proc[p].metered /\ causes = {} /\ faults = 0
              => active[proc[p].focus].used < Budget]_vars
  <2>1. SUFFICES ASSUME IInv, Next, NEW p \in Procs,
                        proc[p].run = "charged", proc'[p].run = "working",
                        proc[p].metered, causes = {}, faults = 0
                 PROVE  active[proc[p].focus].used < Budget
    OBVIOUS
  <2>2. Checkpoint(p)
    BY <2>1, OnlyCheckpoints DEF IInv
  <2>3. proc[p].op = NoOp /\ Focused(p) /\ active[proc[p].focus].status = "active"
    BY <2>2 DEF Checkpoint, Free
  <2>4. Metered(p)
    BY <2>1 DEF IInv
  <2> QED
    BY <2>1, <2>3, <2>4 DEF Metered, Within
<1> QED
  BY <1>1, InitIInv, IInvStable, PTL DEF Spec, BudgetStopsCheckpoints
=============================================================================
