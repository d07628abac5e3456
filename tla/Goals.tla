------------------------------- MODULE Goals -------------------------------
(***************************************************************************)
(* Goals (vtx/agent/goal, vtx/tui/commands/goals.py): objectives kept in   *)
(* files of the project that several vtx processes work in.  A goal        *)
(* belongs to a session; a lease, renewed whenever the goal files are      *)
(* read, says that a session is still running, and the goals of the others *)
(* can be claimed.  Every change reads the goal's file and replaces it,    *)
(* without a lock.  A process runs a focused goal from checkpoint to       *)
(* checkpoint until its token budget is used up, an audit approves it, or  *)
(* the user presses Esc.                                                   *)
(*                                                                         *)
(* Nothing interleaves within a process between two awaits; between the    *)
(* processes anything does, so reading and writing are separate steps.     *)
(***************************************************************************)
EXTENDS Naturals

CONSTANTS
  Procs,       \* processes
  Sessions,    \* sessions that a process may work in
  GoalIds,     \* goals that may be created
  NoSession,   \* no session: the process is not running
  NoGoal,      \* no goal
  NoFile,      \* no such file
  NoOp,        \* no change of a goal under way
  Budget,      \* token budget of a goal, in units of what a run may use
  MaxStarts,   \* bound: processes started and sessions switched to
  MaxFaults,   \* bound: kills and failed writes
  MayHappen    \* bound: what may give a goal two masters

ASSUME NoGoalAssumption == NoGoal \notin GoalIds
ASSUME NoSessionAssumption == NoSession \notin Sessions
ASSUME BoundsAssumption == Budget \in Nat /\ MaxStarts \in Nat /\ MaxFaults \in Nat
ASSUME CausesAssumption == MayHappen \subseteq {"lapse", "twice", "race"}

VARIABLES
  active,    \* the files of open goals
  archived,  \* the files of archived goals
  lease,     \* the sessions with a lease that has not run out
  proc,      \* the processes
  starts,    \* how many sessions were opened
  faults,    \* how many kills and failed writes there were
  causes     \* history: what may have given a goal two masters

vars == <<active, archived, lease, proc, starts, faults, causes>>

----------------------------------------------------------------------------
Open == {"active", "paused", "blocked", "budget_limited"}
Records == [status : Open \cup {"complete"}, owner : Sessions, used : 0..Budget]

(* A change under way: what it will write, and whether the file has been   *)
(* replaced by another process since it was read (history).                *)
OpKinds == {"write", "claim", "renew", "archive", "unlink"}
Op(kind, g, next) == [kind |-> kind, goal |-> g, next |-> next, stale |-> FALSE]
Ops == [kind : OpKinds, goal : GoalIds, next : Records, stale : BOOLEAN]

ASSUME NoFileAssumption == NoFile \notin Records
ASSUME NoOpAssumption == NoOp \notin Ops

Off == [up |-> FALSE, session |-> NoSession, focus |-> NoGoal,
        run |-> "idle", audit |-> NoGoal, esc |-> FALSE, stopped |-> FALSE,
        billed |-> FALSE, metered |-> FALSE, op |-> NoOp]

(* A goal has one file at most in each directory, and one at least from    *)
(* its creation on, wherever a process is killed.                          *)
TypeOK ==
  /\ active \in [GoalIds -> Records \cup {NoFile}]
  /\ archived \in [GoalIds -> Records \cup {NoFile}]
  /\ lease \subseteq Sessions
  /\ DOMAIN proc = Procs
  /\ \A p \in Procs :
       /\ proc[p].up <=> proc[p].session \in Sessions
       /\ proc[p].session \in Sessions \cup {NoSession} /\ proc[p].focus \in GoalIds \cup {NoGoal}
       /\ proc[p].run \in {"idle", "working", "auditing", "ending", "charged"}
       /\ proc[p].run = "auditing" <=> proc[p].audit # NoGoal
       /\ proc[p].op # NoOp => /\ proc[p].up /\ proc[p].op.kind \in OpKinds
                               /\ proc[p].op.next \in Records
                               /\ \/ active[proc[p].op.goal] # NoFile
                                  \/ archived[proc[p].op.goal] # NoFile
       /\ proc[p].focus # NoGoal => \/ active[proc[p].focus] # NoFile
                                    \/ archived[proc[p].focus] # NoFile
  /\ \A g \in GoalIds :
       /\ active[g] # NoFile => active[g].status \in Open
       /\ archived[g] # NoFile => archived[g].status = "complete"
  /\ starts \in 0..MaxStarts /\ faults \in 0..MaxFaults /\ causes \subseteq MayHappen

Init ==
  /\ active = [g \in GoalIds |-> NoFile] /\ archived = [g \in GoalIds |-> NoFile]
  /\ lease = {}
  /\ proc = [p \in Procs |-> Off]
  /\ starts = 0 /\ faults = 0 /\ causes = {}

----------------------------------------------------------------------------
Free(p) == proc[p].up /\ proc[p].op = NoOp

(* Between the charge of a run and what follows nothing is awaited.        *)
Awaits(p) == Free(p) /\ proc[p].run # "charged"

Owns(p, g) == active[g] # NoFile /\ active[g].owner = proc[p].session

(* focused(): the file is read again every time.                           *)
Focused(p) == proc[p].focus # NoGoal /\ Owns(p, proc[p].focus)

(* pool(): whoever reads renews the lease.                                 *)
Renewed(p) == lease \cup {proc[p].session}

Blame(what) ==
  /\ what \subseteq MayHappen
  /\ causes' = causes \cup what

RunsIn(s) == {p \in Procs : proc[p].up /\ proc[p].session = s}

(* A claim that has found the session `s` gone.                            *)
Claims(q, s) ==
  /\ proc[q].op # NoOp /\ proc[q].op.kind = "claim"
  /\ active[proc[q].op.goal] # NoFile /\ active[proc[q].op.goal].owner = s

(* The processes after `p` has replaced or removed the file of `g`.        *)
Replaced(p, g, mine) ==
  [q \in Procs |-> IF q = p THEN mine
                   ELSE IF proc[q].op # NoOp /\ proc[q].op.goal = g
                        THEN [proc[q] EXCEPT !.op.stale = TRUE]
                        ELSE proc[q]]

----------------------------------------------------------------------------
(* Sessions of processes.                                                  *)

(* What a session remembers as its focus, if the goal is still its own.    *)
Restorable(s) ==
  {NoGoal} \cup {g \in GoalIds : IF active[g] # NoFile THEN active[g].owner = s
                                 ELSE archived[g] # NoFile /\ archived[g].owner = s}

(* Opening a session reads the goals, unless it remembers that none was    *)
(* focused: then its goals can be claimed although it runs.                *)
Opens(p, s, before) ==
  /\ starts < MaxStarts /\ starts' = starts + 1
  /\ \E focus \in Restorable(s), reads \in BOOLEAN :
       /\ focus # NoGoal => reads
       /\ proc' = [proc EXCEPT ![p] = [Off EXCEPT !.up = TRUE, !.session = s, !.focus = focus]]
       /\ lease' = IF reads THEN before \cup {s} ELSE before
       /\ Blame((IF reads THEN {} ELSE {"lapse"})
                \cup (IF RunsIn(s) \ {p} # {} THEN {"twice"} ELSE {})
                \cup (IF \E q \in Procs \ {p} : Claims(q, s) THEN {"race"} ELSE {}))
  /\ UNCHANGED <<active, archived, faults>>

Start(p, s) ==
  /\ ~proc[p].up
  /\ Opens(p, s, lease)

(* /resume releases the lease of the session it leaves, /new does not.     *)
SwitchSession(p, s) ==
  /\ Free(p) /\ proc[p].run = "idle" /\ s # proc[p].session
  /\ \E left \in {lease, lease \ {proc[p].session}} : Opens(p, s, left)

(* The lease is released, whoever else runs the same session.              *)
Exit(p) ==
  /\ Awaits(p)
  /\ lease' = lease \ {proc[p].session}
  /\ proc' = [proc EXCEPT ![p] = Off]
  /\ UNCHANGED <<active, archived, starts, faults, causes>>

Crash(p) ==
  /\ proc[p].up
  /\ faults < MaxFaults /\ faults' = faults + 1
  /\ proc' = [proc EXCEPT ![p] = Off]
  /\ UNCHANGED <<active, archived, lease, starts, causes>>

(* A lease runs out: of a session that has ended, or of one whose process  *)
(* is suspended or has no goal in focus.                                   *)
Expire(s) ==
  /\ s \in lease /\ lease' = lease \ {s}
  /\ Blame(IF RunsIn(s) = {} THEN {} ELSE {"lapse"})
  /\ UNCHANGED <<active, archived, proc, starts, faults>>

(* The goal's widget reads it every few seconds.                           *)
Refresh(p) ==
  /\ Awaits(p) /\ proc[p].focus # NoGoal
  /\ lease' = Renewed(p)
  /\ UNCHANGED <<active, archived, proc, starts, faults, causes>>

----------------------------------------------------------------------------
(* Changes of a goal: GoalService.                                         *)

Begin(p, op) ==
  /\ Free(p)
  /\ lease' = Renewed(p)
  /\ proc' = [proc EXCEPT ![p].op = op]
  /\ UNCHANGED <<active, archived, starts, faults, causes>>

(* mutate(): only a goal of this session, and an open one.                 *)
Mutate(p, g, next) == Owns(p, g) /\ Begin(p, Op("write", g, next))

Complete(record) == [record EXCEPT !.status = "complete"]

Archive(p) ==
  /\ Awaits(p) /\ Focused(p)
  /\ Begin(p, Op("archive", proc[p].focus, Complete(active[proc[p].focus])))

(* A new goal is in focus, and the lease is renewed once it is written.    *)
Create(p, g) ==
  LET record == [status |-> "active", owner |-> proc[p].session, used |-> 0]
  IN  /\ Free(p) /\ proc[p].run = "working" /\ ~Focused(p)
      /\ active[g] = NoFile /\ archived[g] = NoFile
      /\ active' = [active EXCEPT ![g] = record]
      /\ proc' = [proc EXCEPT ![p].focus = g, ![p].op = Op("renew", g, record)]
      /\ UNCHANGED <<archived, lease, starts, faults, causes>>

(* Mutant: the lease of the owner is not looked at. *)
ClaimRunning(p, g) ==
  /\ Free(p) /\ proc[p].run = "working"
  /\ active[g] # NoFile /\ active[g].owner # proc[p].session
  /\ proc' = [proc EXCEPT ![p].op =
                Op("claim", g, [active[g] EXCEPT !.owner = proc[p].session])]
  /\ Blame(IF \E q \in Procs : /\ proc[q].op # NoOp /\ proc[q].op.goal = g
                               /\ proc[q].op.kind \in {"claim", "renew"}
           THEN {"race"} ELSE {})
  /\ UNCHANGED <<active, archived, lease, starts, faults>>

(* claim(): the leases and the file are read together.                     *)
Claim(p, g) ==
  /\ Free(p) /\ proc[p].run = "working"
  /\ active[g] # NoFile /\ active[g].owner \notin lease \cup {proc[p].session}
  /\ proc' = [proc EXCEPT ![p].op =
                Op("claim", g, [active[g] EXCEPT !.owner = proc[p].session])]
  /\ Blame(IF \E q \in Procs : /\ proc[q].op # NoOp /\ proc[q].op.goal = g
                               /\ proc[q].op.kind \in {"claim", "renew"}
           THEN {"race"} ELSE {})
  /\ UNCHANGED <<active, archived, lease, starts, faults>>

(* The user picks one of the session's goals, or claims one that it has.   *)
Select(p, g) ==
  /\ Awaits(p) /\ Owns(p, g)
  /\ lease' = Renewed(p)
  /\ proc' = [proc EXCEPT ![p].focus = g]
  /\ UNCHANGED <<active, archived, starts, faults, causes>>

----------------------------------------------------------------------------
(* The file operations of a change.                                        *)

In(p, kind) == proc[p].op # NoOp /\ proc[p].op.kind = kind
Done(p) == [proc[p] EXCEPT !.op = NoOp]
Unfocused(x, g) == IF x.focus = g THEN [x EXCEPT !.focus = NoGoal] ELSE x

(* write_active(): the file is replaced, whatever it holds by now.         *)
WriteActive(p) ==
  LET op == proc[p].op
  IN  /\ In(p, "write") \/ In(p, "claim")
      /\ active' = [active EXCEPT ![op.goal] = op.next]
      /\ proc' = Replaced(p, op.goal,
                          IF op.kind = "write" THEN Done(p)
                          ELSE [proc[p] EXCEPT !.focus = op.goal, !.op.kind = "renew"])
      /\ UNCHANGED <<archived, lease, starts, faults, causes>>

RenewLease(p) ==
  /\ In(p, "renew")
  /\ lease' = Renewed(p)
  /\ proc' = [proc EXCEPT ![p] = Done(p)]
  /\ UNCHANGED <<active, archived, starts, faults, causes>>

(* Mutant: the active file is moved away before the archive is written. *)
WriteArchiveLast(p) ==
  LET op == proc[p].op
  IN  /\ In(p, "archive")
      /\ active' = [active EXCEPT ![op.goal] = NoFile]
      /\ proc' = Replaced(p, op.goal, [proc[p] EXCEPT !.op.kind = "unlink"])
      /\ UNCHANGED <<archived, lease, starts, faults, causes>>

(* archive() writes the archived copy first.                               *)
WriteArchive(p) ==
  LET op == proc[p].op
  IN  /\ In(p, "archive")
      /\ archived' = [archived EXCEPT ![op.goal] = op.next]
      /\ proc' = [proc EXCEPT ![p] =
                    IF active[op.goal] # NoFile THEN [proc[p] EXCEPT !.op.kind = "unlink"]
                    ELSE Unfocused(Done(p), op.goal)]
      /\ UNCHANGED <<active, lease, starts, faults, causes>>

Unlink(p) ==
  LET g == proc[p].op.goal
  IN  /\ In(p, "unlink")
      /\ active' = [active EXCEPT ![g] = NoFile]
      /\ proc' = Replaced(p, g, Unfocused(Done(p), g))
      /\ UNCHANGED <<archived, lease, starts, faults, causes>>

(* A file that cannot be written leaves all as it was; one that cannot be  *)
(* removed leaves the goal open beside its archived copy.                  *)
WriteFails(p) ==
  /\ proc[p].op # NoOp /\ proc[p].op.kind # "renew"
  /\ faults < MaxFaults /\ faults' = faults + 1
  /\ proc' = [proc EXCEPT ![p] = IF In(p, "unlink") THEN Unfocused(Done(p), proc[p].op.goal)
                                 ELSE Done(p)]
  /\ UNCHANGED <<active, archived, lease, starts, causes>>

----------------------------------------------------------------------------
(* Runs of the agent.                                                      *)

Prompt(p) ==
  /\ Free(p) /\ proc[p].run = "idle"
  /\ proc' = [proc EXCEPT ![p].run = "working", ![p].stopped = FALSE]
  /\ UNCHANGED <<active, archived, lease, starts, faults, causes>>

(* The goal tool: a status, or tasks, feedback and wording, which leave    *)
(* the status alone.                                                       *)
AgentUpdates(p) ==
  LET record == active[proc[p].focus]
  IN  /\ proc[p].run = "working" /\ Focused(p)
      /\ \E status \in {"active", "paused", "blocked", record.status} :
           Mutate(p, proc[p].focus, [record EXCEPT !.status = status])

StartAudit(p) ==
  /\ Free(p) /\ proc[p].run = "working" /\ Focused(p)
  /\ proc' = [proc EXCEPT ![p].run = "auditing", ![p].audit = proc[p].focus]
  /\ lease' = Renewed(p)
  /\ UNCHANGED <<active, archived, starts, faults, causes>>

(* The auditor answers, fails, or was aborted: the goal of before the      *)
(* audit is archived or made active, if it is still this session's.        *)
Verdict(p, g) ==
  {Op("write", g, [active[g] EXCEPT !.status = "active"])}
  \cup (IF proc[p].esc THEN {} ELSE {Op("archive", g, Complete(active[g]))})

AuditEnds(p) ==
  LET g == proc[p].audit
      after == [proc[p] EXCEPT !.run = "working", !.audit = NoGoal]
  IN  /\ Free(p) /\ proc[p].run = "auditing"
      /\ lease' = Renewed(p)
      /\ IF Owns(p, g)
         THEN \E op \in Verdict(p, g) : proc' = [proc EXCEPT ![p] = [after EXCEPT !.op = op]]
         ELSE proc' = [proc EXCEPT ![p] = after]
      /\ UNCHANGED <<active, archived, starts, faults, causes>>

(* Esc pauses a goal that is active, and cancels the run.                  *)
Esc(p) ==
  /\ Awaits(p) /\ proc[p].run # "idle"
  /\ lease' = Renewed(p)
  /\ proc' = [proc EXCEPT
       ![p].esc = TRUE,
       ![p].op = IF Focused(p) /\ active[proc[p].focus].status = "active"
                 THEN Op("write", proc[p].focus,
                         [active[proc[p].focus] EXCEPT !.status = "paused"])
                 ELSE NoOp]
  /\ UNCHANGED <<active, archived, starts, faults, causes>>

(* The loop may end before it sees the cancel.                             *)
EndRun(p) ==
  /\ Free(p) /\ proc[p].run = "working"
  /\ \E seen \in BOOLEAN :
       /\ seen => proc[p].esc
       /\ proc' = [proc EXCEPT ![p].run = "ending", ![p].esc = FALSE, ![p].stopped = seen]
  /\ UNCHANGED <<active, archived, lease, starts, faults, causes>>

(* Mutant: a goal that has just used up its budget goes on. *)
ChargedPast(record, n) ==
  [record EXCEPT !.used = IF @ + n > Budget THEN Budget ELSE @ + n,
                 !.status = IF record.used + n > Budget /\ @ = "active"
                            THEN "budget_limited" ELSE @]

(* charge_usage(): only an active goal is limited.                         *)
Charged(record, n) ==
  [record EXCEPT !.used = IF @ + n > Budget THEN Budget ELSE @ + n,
                 !.status = IF record.used + n >= Budget /\ @ = "active"
                            THEN "budget_limited" ELSE @]

(* The first run of a session only takes the totals to count from; a run   *)
(* that used no tokens is not charged.                                     *)
Charge(p) ==
  LET after == [proc[p] EXCEPT !.run = "charged", !.billed = TRUE]
  IN  /\ Free(p) /\ proc[p].run = "ending"
      /\ \/ /\ proc' = [proc EXCEPT ![p] = [after EXCEPT !.metered = FALSE]]
            /\ UNCHANGED lease
         \/ /\ proc[p].billed /\ ~Focused(p)
            /\ proc' = [proc EXCEPT ![p] = [after EXCEPT !.metered = TRUE]]
            /\ UNCHANGED lease
         \/ /\ proc[p].billed /\ Focused(p)
            /\ \E n \in 0..1 :
                 proc' = [proc EXCEPT ![p] =
                            [after EXCEPT !.metered = TRUE,
                                          !.op = Op("write", proc[p].focus,
                                                    Charged(active[proc[p].focus], n))]]
            /\ lease' = Renewed(p)
      /\ UNCHANGED <<active, archived, starts, faults, causes>>

(* An active goal goes on by itself, with the next checkpoint.             *)
Checkpoint(p) ==
  /\ Free(p) /\ proc[p].run = "charged" /\ ~proc[p].stopped
  /\ Focused(p) /\ active[proc[p].focus].status = "active"
  /\ proc' = [proc EXCEPT ![p].run = "working"]
  /\ lease' = Renewed(p)
  /\ UNCHANGED <<active, archived, starts, faults, causes>>

(* The run was stopped, the goal is not active or has to wait for the      *)
(* user's own prompt, or checkpoints are switched off.                     *)
GoIdle(p) ==
  /\ Free(p) /\ proc[p].run = "charged"
  /\ proc' = [proc EXCEPT ![p].run = "idle"]
  /\ UNCHANGED <<active, archived, lease, starts, faults, causes>>

----------------------------------------------------------------------------
Next ==
  \/ \E p \in Procs, s \in Sessions : Start(p, s) \/ SwitchSession(p, s)
  \/ \E s \in Sessions : Expire(s)
  \/ \E p \in Procs : Exit(p) \/ Crash(p) \/ Refresh(p) \/ Archive(p)
  \/ \E p \in Procs, g \in GoalIds : Create(p, g) \/ Claim(p, g) \/ Select(p, g)
  \/ \E p \in Procs : WriteActive(p) \/ RenewLease(p) \/ WriteArchive(p) \/ Unlink(p)
                      \/ WriteFails(p)
  \/ \E p \in Procs :
       \/ Prompt(p) \/ AgentUpdates(p) \/ StartAudit(p) \/ AuditEnds(p) \/ Esc(p)
       \/ EndRun(p) \/ Charge(p) \/ Checkpoint(p) \/ GoIdle(p)

Spec == Init /\ [][Next]_vars

----------------------------------------------------------------------------
(* Every change replaces the file that it was made from: no update of a    *)
(* goal is lost, and an archived goal does not come back, as long as no    *)
(* lease of a running session runs out, no session is open in two          *)
(* processes, and a goal is claimed by one process at a time while its     *)
(* owner stays away.  The claim's look at the leases (service.py:180-181)  *)
(* is all that keeps two processes from writing the same file.             *)
Writes(p) ==
  /\ proc[p].op # NoOp /\ proc[p].op.kind # "renew" /\ faults' = faults
  /\ proc'[p].op = NoOp \/ proc'[p].op.kind # proc[p].op.kind

WritesWhatItRead ==
  [][\A p \in Procs : Writes(p) /\ proc[p].op.stale => causes # {}]_vars

(* A goal whose budget is used up starts no further checkpoint by itself,  *)
(* even if the agent or a failed audit has made it active again, when the  *)
(* run before was charged and the goal has one master.                     *)
BudgetStopsCheckpoints ==
  [][\A p \in Procs :
       /\ proc[p].run = "charged" /\ proc'[p].run = "working"
       /\ proc[p].metered /\ causes = {} /\ faults = 0
       => active[proc[p].focus].used < Budget]_vars
=============================================================================
