-------------------------- MODULE BackgroundTasks --------------------------
(***************************************************************************)
(* Background sub-agents and the delivery of their results: the manager    *)
(* (vtx/agent/background.py), the drain of the agent loop that tells the   *)
(* model (vtx/agent/loop.py) and the wake-up of the idle terminal          *)
(* (vtx/tui/agent_runner.py).  Every vtx process has a manager of its own; *)
(* all of them keep their records in one directory.  Only the processes    *)
(* that run the terminal application are modelled.                         *)
(*                                                                         *)
(* What the sub-agent computes is left out: a record is its status and     *)
(* whether the parent was notified.  Writing a record replaces its file in *)
(* one step and is assumed to succeed.  Nothing locks the directory: what  *)
(* a process read there may be out of date when it marks and writes it.    *)
(* Reading and writing the files one by one makes no difference to what is *)
(* said here of a single task, so each is one step.                        *)
(***************************************************************************)
EXTENDS Naturals, Sequences

CONSTANTS
  Procs,      \* the vtx processes; each starts once
  Tasks,      \* the background tasks dispatched in all of them
  Sessions,   \* the sessions the processes work in
  NoProc,     \* no process, NoProc \notin Procs
  NoSession,  \* the parent of a task not dispatched, NoSession \notin Sessions
  MaxWakeups, \* MAX_BACKGROUND_WAKEUPS
  MaxInputs   \* bound: what the users type and click in all processes

ASSUME NoProcAssumption == NoProc \notin Procs
ASSUME SessionsAssumption == Sessions # {} /\ NoSession \notin Sessions
ASSUME WakeupsAssumption == MaxWakeups \in Nat /\ MaxInputs \in Nat

VARIABLES
  phase,      \* what each process is doing
  session,    \* the session each process works in
  context,    \* the session in the dispatcher context of each process
  mem,        \* _records of each process's manager
  rehydrated, \* the processes whose manager has read the directory
  disk,       \* the records in the directory
  switch,     \* the processes whose _pending_session_switch_id is set
  coro,       \* the runner coroutine of each task
  owner,      \* the process that dispatched the task
  parent,     \* parent_session_id of the task
  chain,      \* _bg_wakeup_chain of each process
  inputs,     \* how much of the bound has been used
  raised,     \* history: the processes whose last run was abandoned
  missed,     \* history: why the settling of a task woke nobody
  told        \* history: who appended the task's notice to their session

records == <<mem, rehydrated, disk>>
tasks == <<coro, owner, parent, missed>>
vars == <<phase, session, context, switch, records, tasks, chain, inputs, raised, told>>

----------------------------------------------------------------------------
Settling == {"completed", "error", "cancelled"}
Record == [status : Settling \cup {"none", "running"}, notified : BOOLEAN]
Absent == [status |-> "none", notified |-> FALSE]
Running == [status |-> "running", notified |-> FALSE]
Finished(status) == [status |-> status, notified |-> FALSE]

(* _is_running is set in these phases, and while the directory is read,    *)
(* when nothing else of the process can run.  It is cleared together with  *)
(* _bg_wakeup_busy, which adds nothing to it.                              *)
Busy == {"starting", "turns", "ending", "shell"}
Awake == Busy \cup {"idle"}
Up == Awake \cup {"reading", "closing"}
Phases == Up \cup {"off", "exited", "crashed"}
Reasons == {"no", "busy", "switching", "capped", "elsewhere"}

TypeOK ==
  /\ phase \in [Procs -> Phases] /\ session \in [Procs -> Sessions]
  /\ context \in [Procs -> Sessions]
  /\ mem \in [Procs -> [Tasks -> Record]] /\ disk \in [Tasks -> Record]
  /\ rehydrated \subseteq Procs /\ raised \subseteq Procs /\ switch \subseteq Procs
  /\ coro \in [Tasks -> {"none", "scheduled", "working", "over"}]
  /\ owner \in [Tasks -> Procs \cup {NoProc}]
  /\ parent \in [Tasks -> Sessions \cup {NoSession}]
  /\ chain \in [Procs -> 0..MaxWakeups]
  /\ inputs \in 0..MaxInputs
  /\ missed \in [Tasks -> Reasons]
  /\ told \in [Tasks -> Seq(Procs)]

Init ==
  /\ phase = [p \in Procs |-> "off"]
  /\ session \in [Procs -> Sessions] /\ context = session
  /\ mem = [p \in Procs |-> [t \in Tasks |-> Absent]] /\ rehydrated = {}
  /\ disk = [t \in Tasks |-> Absent] /\ switch = {}
  /\ coro = [t \in Tasks |-> "none"] /\ owner = [t \in Tasks |-> NoProc]
  /\ parent = [t \in Tasks |-> NoSession]
  /\ chain = [p \in Procs |-> 0]
  /\ inputs = 0 /\ raised = {}
  /\ missed = [t \in Tasks |-> "no"] /\ told = [t \in Tasks |-> <<>>]

----------------------------------------------------------------------------
(* The records *)

(* The records of the directory join those in memory, whichever process or *)
(* session they belong to.                                                 *)
Known(p) == [t \in Tasks |-> IF mem[p][t] = Absent THEN disk[t] ELSE mem[p][t]]

(* Mutant: failed tasks are not announced. *)
DueCompleted(p) ==
  {t \in Tasks : mem[p][t].status = "completed" /\ ~mem[p][t].notified}

(* The records drain_completed returns. *)
Due(p) == {t \in Tasks : mem[p][t].status \in Settling /\ ~mem[p][t].notified}

Marked(known, set) ==
  [t \in Tasks |-> IF t \in set THEN [known[t] EXCEPT !.notified = TRUE] ELSE known[t]]

Write(known, set) == [t \in Tasks |-> IF t \in set THEN known[t] ELSE disk[t]]

Announced(p, set) ==
  [t \in Tasks |-> IF t \in set THEN Append(told[t], p) ELSE told[t]]

(* Mutant: the flag is set in memory only. *)
DrainUnwritten(p) ==
  /\ mem' = [mem EXCEPT ![p] = Marked(mem[p], Due(p))]
  /\ told' = Announced(p, Due(p))
  /\ UNCHANGED <<rehydrated, disk>>

(* drain_completed, once the directory was read, and                       *)
(* _drain_background_notifications: every settled record in memory that    *)
(* was not notified is marked, written whatever the file says by now, and  *)
(* appended to the session the process works in.                           *)
Drain(p) ==
  /\ mem' = [mem EXCEPT ![p] = Marked(mem[p], Due(p))]
  /\ disk' = Write(Marked(mem[p], Due(p)), Due(p))
  /\ told' = Announced(p, Due(p))
  /\ UNCHANGED rehydrated

(* _persist_record after the record in memory changed. *)
Store(p, t, record) ==
  /\ mem' = [mem EXCEPT ![p][t] = record]
  /\ disk' = [disk EXCEPT ![t] = record]
  /\ UNCHANGED rehydrated

----------------------------------------------------------------------------
(* The terminal *)

Start(p) ==
  /\ phase[p] = "off"
  /\ phase' = [phase EXCEPT ![p] = "idle"]
  /\ UNCHANGED <<session, context, switch, records, tasks, chain, inputs, raised, told>>

(* Another session is loaded between two runs; the manager stays, and so   *)
(* does the dispatcher context.                                            *)
SwitchSession(p, s) ==
  /\ phase[p] = "idle" /\ s # session[p] /\ inputs < MaxInputs
  /\ session' = [session EXCEPT ![p] = s]
  /\ inputs' = inputs + 1
  /\ UNCHANGED <<phase, context, switch, records, tasks, chain, raised, told>>

(* /new and /clear begin a session at any time: they do not look whether a *)
(* run is going, and one that is goes on in the new session.               *)
NewSession(p, s) ==
  /\ phase[p] \in Awake /\ inputs < MaxInputs
  /\ \A q \in Procs : s # session[q] /\ s # context[q]
  /\ \A t \in Tasks : s # parent[t]
  /\ session' = [session EXCEPT ![p] = s]
  /\ inputs' = inputs + 1
  /\ UNCHANGED <<phase, context, switch, records, tasks, chain, raised, told>>

(* The choice of a model, a thinking level or an agent installs the        *)
(* dispatcher context anew; the change of session does not.                *)
RefreshContext(p) ==
  /\ phase[p] \in Awake /\ context[p] # session[p] /\ inputs < MaxInputs
  /\ context' = [context EXCEPT ![p] = session[p]]
  /\ inputs' = inputs + 1
  /\ UNCHANGED <<phase, session, switch, records, tasks, chain, raised, told>>

(* A click on the link of a hand-off while something runs notes the switch *)
(* for the end of the run, and interrupts.                                 *)
ClickHandoff(p) ==
  /\ phase[p] \in Busy /\ p \notin switch /\ inputs < MaxInputs
  /\ switch' = switch \cup {p}
  /\ inputs' = inputs + 1
  /\ UNCHANGED <<phase, session, context, records, tasks, chain, raised, told>>

(* A prompt while nothing runs begins a run and re-opens the budget of     *)
(* wake-ups.                                                               *)
Submit(p) ==
  /\ phase[p] = "idle" /\ inputs < MaxInputs
  /\ phase' = [phase EXCEPT ![p] = "starting"]
  /\ chain' = [chain EXCEPT ![p] = 0]
  /\ inputs' = inputs + 1
  /\ UNCHANGED <<session, context, switch, records, tasks, raised, told>>

ShellCommand(p) ==
  /\ phase[p] = "idle" /\ inputs < MaxInputs
  /\ phase' = [phase EXCEPT ![p] = "shell"]
  /\ inputs' = inputs + 1
  /\ UNCHANGED <<session, context, switch, records, tasks, chain, raised, told>>

(* The output of a `!!' command is the prompt of a run, that of a `!'      *)
(* command is only shown.                                                  *)
ShellDone(p, follow) ==
  /\ phase[p] = "shell"
  /\ phase' = [phase EXCEPT ![p] = IF follow THEN "starting" ELSE "idle"]
  /\ UNCHANGED <<session, context, switch, records, tasks, chain, inputs, raised, told>>

(* Agent.run drains before the first turn, after each turn and once more   *)
(* when the run is over.  The first drain of a process reads the directory *)
(* (_ensure_rehydrated); no other step of the process comes between.       *)
ReadDirectory(p) ==
  /\ phase[p] = "starting" /\ p \notin rehydrated
  /\ phase' = [phase EXCEPT ![p] = "reading"]
  /\ mem' = [mem EXCEPT ![p] = Known(p)]
  /\ rehydrated' = rehydrated \cup {p}
  /\ UNCHANGED <<session, context, switch, disk, tasks, chain, inputs, raised, told>>

OpenRun(p) ==
  /\ phase[p] \in {"starting", "reading"} /\ p \in rehydrated
  /\ phase' = [phase EXCEPT ![p] = "turns"]
  /\ Drain(p)
  /\ raised' = raised \ {p}
  /\ UNCHANGED <<session, context, switch, tasks, chain, inputs>>

FinishTurn(p) ==
  /\ phase[p] = "turns"
  /\ Drain(p)
  /\ UNCHANGED <<phase, session, context, switch, tasks, chain, inputs, raised>>

EndRun(p) ==
  /\ phase[p] = "turns"
  /\ phase' = [phase EXCEPT ![p] = "ending"]
  /\ Drain(p)
  /\ UNCHANGED <<session, context, switch, tasks, chain, inputs, raised>>

(* An exception, of rendering an event say, leaves the run where it is. *)
AbandonRun(p) ==
  /\ phase[p] \in {"starting", "turns"}
  /\ phase' = [phase EXCEPT ![p] = "ending"]
  /\ raised' = raised \cup {p}
  /\ UNCHANGED <<session, context, switch, records, tasks, chain, inputs, told>>

(* /usage and the choice of a session in /resume take over the worker      *)
(* group and cancel the run, or the shell command, that is in it.          *)
CancelRun(p) ==
  /\ phase[p] \in Busy
  /\ phase' = [phase EXCEPT ![p] = "idle"]
  /\ raised' = IF phase[p] \in {"starting", "turns"} THEN raised \cup {p} ELSE raised
  /\ UNCHANGED <<session, context, switch, records, tasks, chain, inputs, told>>

(* After the run: a queued prompt, or the checkpoint of a goal unless a    *)
(* switch is noted, begins the next one, and the budget of wake-ups stays  *)
(* what it is.                                                             *)
Continue(p) ==
  /\ phase[p] = "ending" /\ inputs < MaxInputs
  /\ phase' = [phase EXCEPT ![p] = "starting"]
  /\ inputs' = inputs + 1
  /\ UNCHANGED <<session, context, switch, records, tasks, chain, raised, told>>

(* The end of the run takes the noted switch with it: the session is       *)
(* loaded next, or the loading fails (SwitchSession).  A shell command     *)
(* that ends leaves it noted.                                              *)
GoIdle(p) ==
  /\ phase[p] = "ending"
  /\ phase' = [phase EXCEPT ![p] = "idle"]
  /\ switch' = switch \ {p}
  /\ UNCHANGED <<session, context, records, tasks, chain, inputs, raised, told>>

----------------------------------------------------------------------------
(* The tasks *)

(* register: the delegate tool dispatches a task during a turn, as one of  *)
(* the session that the dispatcher context holds.                          *)
Register(p, t) ==
  /\ phase[p] = "turns" /\ coro[t] = "none"
  /\ coro' = [coro EXCEPT ![t] = "scheduled"]
  /\ owner' = [owner EXCEPT ![t] = p]
  /\ parent' = [parent EXCEPT ![t] = context[p]]
  /\ Store(p, t, Running)
  /\ UNCHANGED <<phase, session, context, switch, missed, chain, inputs, raised, told>>

Begin(t) ==
  /\ coro[t] = "scheduled"
  /\ coro' = [coro EXCEPT ![t] = "working"]
  /\ UNCHANGED <<phase, session, context, switch, records, owner, parent, missed, chain, inputs,
                 raised, told>>

(* Mutant: the limit is not looked at. *)
WakeUncapped(p, t) ==
  \/ /\ phase[p] \in Busy \/ parent[t] # session[p]
     /\ missed' = [missed EXCEPT ![t] = "busy"]
     /\ UNCHANGED <<phase, chain>>
  \/ /\ phase[p] = "idle" /\ parent[t] = session[p]
     /\ chain' = [chain EXCEPT ![p] = @ + 1]
     /\ phase' = [phase EXCEPT ![p] = "starting"]
     /\ UNCHANGED missed

(* _on_background_task_settled, subscribed until the terminal closes.  A   *)
(* noted switch of session holds it up in an idle terminal too.  At the    *)
(* limit it only notes the backlog, and the count starts again.  Its test  *)
(* of the status passes: only close cancels tasks.                         *)
Wake(p, t) ==
  \/ /\ phase[p] \in Busy
     /\ missed' = [missed EXCEPT ![t] = "busy"]
     /\ UNCHANGED <<phase, chain>>
  \/ /\ phase[p] = "idle" /\ p \in switch
     /\ missed' = [missed EXCEPT ![t] = "switching"]
     /\ UNCHANGED <<phase, chain>>
  \/ /\ phase[p] = "idle" /\ p \notin switch /\ chain[p] = MaxWakeups
     /\ chain' = [chain EXCEPT ![p] = 0]
     /\ missed' = [missed EXCEPT ![t] = "capped"]
     /\ UNCHANGED phase
  \/ /\ phase[p] = "idle" /\ p \notin switch /\ chain[p] < MaxWakeups
     /\ parent[t] # session[p]
     /\ missed' = [missed EXCEPT ![t] = "elsewhere"]
     /\ UNCHANGED <<phase, chain>>
  \/ /\ phase[p] = "idle" /\ p \notin switch /\ chain[p] < MaxWakeups
     /\ parent[t] = session[p]
     /\ chain' = [chain EXCEPT ![p] = @ + 1]
     /\ phase' = [phase EXCEPT ![p] = "starting"]
     /\ UNCHANGED missed

(* The runner ends by itself: its record is written and the listener is    *)
(* called in the same step.                                                *)
Settle(t, status) ==
  /\ coro[t] = "working" /\ phase[owner[t]] \in Awake
  /\ coro' = [coro EXCEPT ![t] = "over"]
  /\ Store(owner[t], t, Finished(status))
  /\ Wake(owner[t], t)
  /\ UNCHANGED <<session, context, switch, owner, parent, inputs, raised, told>>

----------------------------------------------------------------------------
(* The end of a process *)

(* on_unmount: the listener is gone and what was running is stopped. *)
BeginClose(p) ==
  /\ phase[p] \in Awake
  /\ phase' = [phase EXCEPT ![p] = "closing"]
  /\ UNCHANGED <<session, context, switch, records, tasks, chain, inputs, raised, told>>

(* close on a task whose runner began: the runner writes how it ended, as  *)
(* cancelled unless the sub-agent returned or failed first.                *)
StopBegun(t) ==
  /\ coro[t] = "working" /\ phase[owner[t]] = "closing"
  /\ coro' = [coro EXCEPT ![t] = "over"]
  /\ \E status \in Settling : Store(owner[t], t, Finished(status))
  /\ missed' = [missed EXCEPT ![t] = "busy"]
  /\ UNCHANGED <<phase, session, context, switch, owner, parent, chain, inputs, raised, told>>

(* Mutant: close leaves the record to the runner. *)
StopScheduledUnset(t) ==
  /\ coro[t] = "scheduled" /\ phase[owner[t]] = "closing"
  /\ coro' = [coro EXCEPT ![t] = "over"]
  /\ UNCHANGED <<phase, session, context, switch, records, owner, parent, missed, chain, inputs,
                 raised, told>>

(* close on a task whose runner never began: nothing of the runner runs,   *)
(* the record is set and written by close itself.                          *)
StopScheduled(t) ==
  /\ coro[t] = "scheduled" /\ phase[owner[t]] = "closing"
  /\ coro' = [coro EXCEPT ![t] = "over"]
  /\ Store(owner[t], t, Finished("cancelled"))
  /\ missed' = [missed EXCEPT ![t] = "busy"]
  /\ UNCHANGED <<phase, session, context, switch, owner, parent, chain, inputs, raised, told>>

Owned(p) == {t \in Tasks : owner[t] = p}

(* What a process had in memory ends with it. *)
Forget(p) ==
  /\ mem' = [mem EXCEPT ![p] = [t \in Tasks |-> Absent]]
  /\ rehydrated' = rehydrated \ {p}
  /\ switch' = switch \ {p} /\ raised' = raised \ {p}
  /\ chain' = [chain EXCEPT ![p] = 0]

(* Mutant: close writes every record it knows. *)
ExitWritingAll(p) ==
  /\ phase[p] = "closing"
  /\ \A t \in Owned(p) : coro[t] = "over"
  /\ phase' = [phase EXCEPT ![p] = "exited"]
  /\ disk' = [t \in Tasks |-> IF mem[p][t] = Absent THEN disk[t] ELSE mem[p][t]]
  /\ Forget(p)
  /\ UNCHANGED <<session, context, tasks, inputs, told>>

(* close has visited every task: the ones it stopped are over. *)
Exit(p) ==
  /\ phase[p] = "closing"
  /\ \A t \in Owned(p) : coro[t] = "over"
  /\ phase' = [phase EXCEPT ![p] = "exited"]
  /\ Forget(p)
  /\ UNCHANGED <<session, context, disk, tasks, inputs, told>>

Die(p) ==
  /\ phase' = [phase EXCEPT ![p] = "crashed"]
  /\ coro' = [t \in Tasks |-> IF owner[t] = p THEN "over" ELSE coro[t]]
  /\ Forget(p)
  /\ UNCHANGED <<session, context, owner, parent, missed, inputs>>

(* The process is killed between two steps, *)
Crash(p) ==
  /\ phase[p] \in Up
  /\ Die(p)
  /\ UNCHANGED <<disk, told>>

(* or while it drains: some of the marked records have been written and,   *)
(* when all of them were, some of the notices appended.                    *)
CrashDraining(p) ==
  /\ phase[p] \in {"starting", "reading", "turns"} /\ p \in rehydrated
  /\ \E written \in SUBSET Due(p), appended \in SUBSET Due(p) :
       /\ written # Due(p) => appended = {}
       /\ disk' = Write(Marked(mem[p], written), written)
       /\ told' = Announced(p, appended)
  /\ Die(p)

----------------------------------------------------------------------------
Next ==
  \/ \E p \in Procs : \/ Start(p) \/ Submit(p) \/ ShellCommand(p)
                      \/ ReadDirectory(p) \/ OpenRun(p) \/ FinishTurn(p)
                      \/ EndRun(p) \/ AbandonRun(p) \/ CancelRun(p)
                      \/ ClickHandoff(p) \/ RefreshContext(p) \/ Continue(p)
                      \/ GoIdle(p) \/ BeginClose(p) \/ Exit(p)
                      \/ Crash(p) \/ CrashDraining(p)
  \/ \E p \in Procs, s \in Sessions : SwitchSession(p, s) \/ NewSession(p, s)
  \/ \E p \in Procs, follow \in BOOLEAN : ShellDone(p, follow)
  \/ \E p \in Procs, t \in Tasks : Register(p, t)
  \/ \E t \in Tasks : Begin(t) \/ StopBegun(t) \/ StopScheduled(t)
  \/ \E t \in Tasks, status \in {"completed", "error"} : Settle(t, status)

Spec == Init /\ [][Next]_vars

----------------------------------------------------------------------------
(* Safety *)

(* drain_completed (background.py:315-332) marks what it returns and       *)
(* writes the mark, which is all that keeps processes that share the       *)
(* directory from announcing a task again.  It keeps each of them from     *)
(* doing so twice, also across its runs and sessions; the mark is on disk  *)
(* as soon as the task is announced anywhere and stays there, whoever      *)
(* writes a copy of his own; and past its first drain no stranger holds    *)
(* a result that he could still announce.  So a second one to announce is  *)
(* the dispatcher, or read the directory before the first one marked it.   *)
OnceTold ==
  \A t \in Tasks :
    /\ \A m, n \in DOMAIN told[t] : told[t][m] = told[t][n] => m = n
    /\ told[t] # <<>> => disk[t].notified
    /\ \A p \in Procs : p # owner[t] /\ phase[p] \in Awake => t \notin Due(p)

(* The record of a task that is still running on disk has a runner that    *)
(* will write how it ended, or its process was killed: an orderly close    *)
(* leaves none behind, not even one whose runner never began.              *)
RunningIsAlive ==
  \A t \in Tasks :
    disk[t].status = "running" =>
      coro[t] \in {"scheduled", "working"} \/ phase[owner[t]] = "crashed"

(* A record that is marked as notified was announced, unless a process     *)
(* died between the write and the session.                                 *)
NotifiedIsTold ==
  \A t \in Tasks :
    disk[t].notified => told[t] # <<>> \/ \E p \in Procs : phase[p] = "crashed"

(* What a record on disk says is true of the processes: whoever reads the  *)
(* shared directory after a close may trust both its status and its flag.  *)
RecordsAreTrue == RunningIsAlive /\ NotifiedIsTold

(* Once the record of a task is settled on disk its status stays, and a    *)
(* notified one never becomes due again, whichever process writes it.      *)
SettledStays ==
  [][\A t \in Tasks :
       disk[t].status \in Settling =>
         /\ disk'[t].status = disk[t].status
         /\ disk[t].notified => disk'[t].notified]_disk

(* In an idle terminal the only results of its own the model has not heard *)
(* of are those whose settling could not wake it (a run or shell command   *)
(* was going, a switch of session was noted, the budget was used up, or    *)
(* the session that was open is not the one the dispatcher context held    *)
(* when they were dispatched), or the last run was abandoned before it     *)
(* could announce them.                                                    *)
UntoldIsMissed ==
  \A p \in Procs : \A t \in Owned(p) :
    phase[p] = "idle" /\ mem[p][t].status \in Settling /\ ~mem[p][t].notified =>
      missed[t] # "no" \/ p \in raised
=============================================================================
