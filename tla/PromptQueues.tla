---------------------------- MODULE PromptQueues ----------------------------
(***************************************************************************)
(* How the terminal application sends prompts (vtx/tui/agent_runner.py,    *)
(* app.py and queue_ui.py).  One worker at a time runs the agent or a      *)
(* shell command; what the user types meanwhile waits in one of two        *)
(* queues, which the worker empties between turns.  Esc and a click on a   *)
(* handoff link interrupt it, /usage and /resume cancel it.                *)
(*                                                                         *)
(* A step is what runs between two awaits.  The first step of a worker     *)
(* comes before the next input of the user; a sub-agent may settle first.  *)
(* Left out: approvals and questions, the limit of wake-ups and where      *)
(* notices go (BackgroundTasks), whether a goal has a checkpoint due       *)
(* (Goals), what ends a turn early (AgentLoop), and which queued prompt is *)
(* selected: any may be.                                                   *)
(***************************************************************************)
EXTENDS Naturals, SequencesExt

CONSTANTS
  Sessions,    \* the sessions that can be opened
  None,        \* no session, nothing edited
  MaxQueue,    \* the most prompts in a queue
  MaxPrompts   \* bound: the prompts the user types, numbered in that order

ASSUME BoundsAssumption == MaxQueue \in Nat \ {0} /\ MaxPrompts \in Nat

Prompts == 1 .. MaxPrompts
Queues == {"steer", "pending"}

(* _queue_editing: the queue, the place in it and the prompt. *)
Edits == [from : Queues, at : 1 .. MaxQueue, prompt : Prompts]

ASSUME NoneAssumption == None \notin Sessions \cup Edits

VARIABLES
  running,   \* _is_running
  worker,    \* where the worker is
  shell,     \* the worker began as a shell command
  current,   \* the prompt it is about to send, and whence
  interrupt, \* _interrupt_requested
  event,     \* _cancel_event: none, clear or set
  session,   \* the session of the runtime
  switch,    \* _pending_session_switch_id
  loading,   \* the session that a worker has yet to load
  queue,     \* the two queues, of prompts
  editing,   \* the queued prompt in the editor, and where it was taken from
  fate,      \* history: what became of each prompt
  typed,     \* history: the session a waiting prompt was typed in
  why,       \* history: what may delay or stop a waiting prompt
  stale      \* history: the requests that came too late for the worker

run == <<running, worker, shell, current>>
request == <<interrupt, event, switch, stale>>
past == <<fate, typed, why>>
vars == <<run, request, session, loading, queue, editing, past>>

(* Also what is sent when the program wrote the prompt. *)
Nothing == [prompt |-> 0, from |-> "program"]

Fates == {"untyped", "waiting", "sending", "past"}
Causes == {"left", "edited", "stopped"}

Init ==
  /\ running = FALSE /\ worker = "none" /\ shell = FALSE
  /\ current = Nothing
  /\ interrupt = FALSE /\ event = "none" /\ switch = None /\ stale = {}
  /\ session \in Sessions /\ loading = None
  /\ queue = [q \in Queues |-> <<>>]
  /\ editing = None
  /\ fate = [p \in Prompts |-> "untyped"]
  /\ typed = [p \in Prompts |-> None]
  /\ why = [p \in Prompts |-> {}]

Count == Cardinality({p \in Prompts : fate[p] # "untyped"})
Queued == Range(queue["steer"]) \cup Range(queue["pending"])

(* The user can type a prompt or a command: no queued prompt is edited. *)
CanType == editing = None /\ loading = None

----------------------------------------------------------------------------
(* What the properties name of a waiting prompt: it was queued while no    *)
(* run was there to take it; an interruption was asked for behind it, or   *)
(* had still to take effect when it was queued.                            *)
CausesNow ==
  (IF worker \in {"none", "shell", "dying"} THEN {"left"} ELSE {})
    \cup (IF worker = "stopping" \/ interrupt THEN {"stopped"} ELSE {})

Waiting == {p \in Prompts : fate[p] \in {"waiting", "sending"}}
Blame(ps, causes) == why' = [p \in Prompts |-> IF p \in ps THEN why[p] \cup causes ELSE why[p]]
Absolve == why' = [p \in Prompts |-> why[p] \ {"stopped"}]

(* Prompts that are sent, deleted, dropped, refused or lost. *)
Forget(ps) ==
  /\ fate' = [p \in Prompts |-> IF p \in ps THEN "past" ELSE fate[p]]
  /\ typed' = [p \in Prompts |-> IF p \in ps THEN None ELSE typed[p]]
  /\ why' = [p \in Prompts |-> IF p \in ps THEN {} ELSE why[p]]

----------------------------------------------------------------------------
(* The worker *)

(* The head of the loop in _run_agent_inner: a prompt taken up while an    *)
(* interruption is requested starts with its cancel event set.             *)
Begin(prompt) ==
  /\ running' = TRUE
  /\ worker' = "begin"
  /\ current' = prompt
  /\ event' = IF interrupt THEN "set" ELSE "clear"
  /\ UNCHANGED interrupt

(* Behind that loop, and behind the shell command it may belong to. *)
EndRun ==
  /\ running' = FALSE /\ worker' = "none" /\ shell' = FALSE /\ current' = Nothing
  /\ loading' = switch
  /\ switch' = None
  /\ event' = "none"
  /\ interrupt' = (interrupt /\ ~shell)
  /\ stale' = IF shell THEN {} ELSE stale \ {"switch"}

(* The snapshot is taken, and agent.run appends the prompt to the session. *)
TurnStarts ==
  /\ worker = "begin"
  /\ worker' = "turn"
  /\ current' = Nothing
  /\ Forget({current.prompt})
  /\ UNCHANGED <<running, shell, request, session, loading, queue, editing>>

(* The run reports how it ended.  A cancel that comes behind its last look *)
(* at the event is forgotten with the flags.                               *)
TurnEnds ==
  /\ worker = "turn"
  /\ \/ worker' = "settling"
     \/ event = "set" /\ worker' = "stopping"
  /\ interrupt' = FALSE /\ event' = "none" /\ stale' = stale \ {"interrupt"}
  /\ IF worker' = "settling" THEN Absolve ELSE UNCHANGED why
  /\ UNCHANGED <<running, shell, current, switch, session, loading, queue, editing, fate, typed>>

(* Mutant: an interruption leaves the steer queue alone. *)
StoppedPending ==
  /\ worker = "stopping"
  /\ EndRun
  /\ queue' = [queue EXCEPT !["pending"] = <<>>]
  /\ Forget(Range(queue["pending"]))
  /\ UNCHANGED <<session, editing>>

(* The snapshot is closed.  An interrupted run clears the queues. *)
Stopped ==
  /\ worker = "stopping"
  /\ EndRun
  /\ queue' = [q \in Queues |-> <<>>]
  /\ Forget(Queued)
  /\ UNCHANGED <<session, editing>>

NextQueue == IF queue["steer"] # <<>> THEN "steer" ELSE "pending"

(* Mutant: the prompt that was queued last is taken. *)
TakeLast ==
  /\ worker = "settling" /\ Queued # {}
  /\ LET q == NextQueue
         p == Last(queue[q])
     IN  /\ Begin([prompt |-> p, from |-> q])
         /\ queue' = [queue EXCEPT ![q] = Front(@)]
         /\ fate' = [fate EXCEPT ![p] = "sending"]
  /\ UNCHANGED <<shell, switch, stale, session, loading, editing, typed, why>>

(* Steered prompts come first. *)
TakeNext ==
  /\ worker = "settling" /\ Queued # {}
  /\ LET q == NextQueue
         p == Head(queue[q])
     IN  /\ Begin([prompt |-> p, from |-> q])
         /\ queue' = [queue EXCEPT ![q] = Tail(@)]
         /\ fate' = [fate EXCEPT ![p] = "sending"]
  /\ UNCHANGED <<shell, switch, stale, session, loading, editing, typed, why>>

(* Nothing is queued: a checkpoint of a goal, unless a session waits to be *)
(* switched to, or the end of the run.                                     *)
NothingQueued ==
  /\ worker = "settling" /\ Queued = {}
  /\ \/ /\ switch = None
        /\ Begin(Nothing)
        /\ UNCHANGED <<shell, switch, stale, loading>>
     \/ EndRun
  /\ UNCHANGED <<session, queue, editing, past>>

(* The output of a command typed with !! is sent as a prompt, unless the   *)
(* command was interrupted.                                                *)
ShellEnds ==
  /\ worker = "shell"
  /\ \/ /\ event # "set"
        /\ Begin(Nothing)
        /\ UNCHANGED <<shell, stale>>
     \/ /\ running' = FALSE /\ worker' = "none" /\ shell' = FALSE
        /\ interrupt' = FALSE /\ event' = "none" /\ stale' = stale \ {"interrupt"}
        /\ UNCHANGED current
  /\ UNCHANGED <<switch, session, loading, queue, editing, past>>

(* The session is read, or cannot be. *)
Load ==
  /\ loading # None
  /\ session' \in {session, loading}
  /\ loading' = None
  /\ UNCHANGED <<run, request, queue, editing, past>>

(* A sub-agent of the session settles, and the idle terminal resumes.  The *)
(* worker cancels one that has still to load a session.                    *)
WakeUp ==
  /\ ~running /\ switch = None
  /\ Begin(Nothing)
  /\ loading' = None
  /\ UNCHANGED <<shell, switch, stale, session, queue, editing, past>>

(* The worker is cancelled, and has still to come to its end. *)
CancelWorker ==
  /\ worker \notin {"none", "dying"}
  /\ worker' = "dying"
  /\ current' = Nothing
  /\ event' = "none"
  /\ stale' = stale \cup (IF interrupt THEN {"interrupt"} ELSE {})
                    \cup (IF switch # None THEN {"switch"} ELSE {})
  /\ fate' = [p \in Prompts |-> IF fate[p] = "sending" THEN "past" ELSE fate[p]]
  /\ typed' = [p \in Prompts |-> None]
  /\ why' = [p \in Prompts |-> IF p \in Queued THEN why[p] \cup {"left"}
                               ELSE IF fate[p] = "sending" THEN {} ELSE why[p]]
  /\ UNCHANGED <<running, shell, interrupt, switch>>

Dies ==
  /\ worker = "dying"
  /\ running' = FALSE /\ worker' = "none" /\ shell' = FALSE
  /\ interrupt' = (interrupt /\ ~shell)
  /\ stale' = IF shell THEN stale \ {"interrupt"} ELSE stale
  /\ UNCHANGED <<current, event, switch, session, loading, queue, editing, past>>

----------------------------------------------------------------------------
(* The user *)

(* A prompt, sent at once or queued, with the key that steers or without. *)
Submit(q) ==
  /\ CanType /\ Count < MaxPrompts
  /\ LET p == Count + 1
     IN  \/ /\ ~running
            /\ Begin([prompt |-> p, from |-> "user"])
            /\ fate' = [fate EXCEPT ![p] = "sending"]
            /\ typed' = [typed EXCEPT ![p] = session]
            /\ UNCHANGED <<queue, why>>
         \/ /\ running /\ Len(queue[q]) < MaxQueue
            /\ queue' = [queue EXCEPT ![q] = Append(@, p)]
            /\ fate' = [fate EXCEPT ![p] = "waiting"]
            /\ typed' = [typed EXCEPT ![p] = session]
            /\ Blame({p}, CausesNow)
            /\ UNCHANGED <<running, worker, current, interrupt, event>>
         \/ /\ running /\ Len(queue[q]) >= MaxQueue
            /\ Forget({p})
            /\ UNCHANGED <<running, worker, current, interrupt, event, queue>>
  /\ UNCHANGED <<shell, switch, stale, session, loading, editing>>

Shell ==
  /\ CanType /\ ~running
  /\ running' = TRUE /\ worker' = "shell" /\ shell' = TRUE
  /\ event' = "clear"
  /\ UNCHANGED <<current, interrupt, switch, stale, session, loading, queue, editing, past>>

(* _request_interrupt.  Without an event to set, the flag waits for the    *)
(* next prompt, whenever that is.                                          *)
Interrupt ==
  /\ running
  /\ interrupt' = TRUE
  /\ event' = IF event = "none" THEN "none" ELSE "set"
  /\ Blame(Waiting, {"stopped"})

Esc ==
  /\ editing = None
  /\ Interrupt
  /\ stale' = stale \cup (IF event = "none" THEN {"interrupt"} ELSE {})
  /\ UNCHANGED <<run, switch, session, loading, queue, editing, fate, typed>>

(* A click on the link to another session. *)
ClickHandoff(s) ==
  /\ s # session /\ loading = None
  /\ \/ /\ Interrupt
        /\ switch' = s
        /\ stale' = stale \cup (IF event = "none" THEN {"interrupt"} ELSE {})
                          \cup (IF worker \in {"shell", "dying"} THEN {"switch"} ELSE {})
        /\ UNCHANGED loading
     \/ /\ ~running
        /\ loading' = s
        /\ UNCHANGED <<request, why>>
  /\ UNCHANGED <<run, session, queue, editing, fate, typed>>

Usage ==
  /\ CanType
  /\ CancelWorker
  /\ UNCHANGED <<session, loading, queue, editing>>

Resume(s) ==
  /\ CanType
  /\ loading' = s
  /\ \/ CancelWorker
     \/ worker \in {"none", "dying"} /\ UNCHANGED <<run, request, past>>
  /\ UNCHANGED <<session, queue, editing>>

(* /new, which a run does not prevent, and the end of /handoff, which may  *)
(* come while one goes on.                                                 *)
NewSession(s) ==
  /\ s # session
  /\ session' = s
  /\ typed' = [p \in Prompts |-> None]
  /\ UNCHANGED <<run, request, loading, queue, editing, fate, why>>

----------------------------------------------------------------------------
(* Queued prompts are deleted and edited *)

Delete(q, i) ==
  /\ CanType /\ i \in DOMAIN queue[q]
  /\ Forget({queue[q][i]})
  /\ queue' = [queue EXCEPT ![q] = RemoveAt(@, i)]
  /\ UNCHANGED <<run, request, session, loading, editing>>

(* Mutant: the prompt is copied to the editor and stays in the queue. *)
StartEditCopied(q, i) ==
  /\ CanType /\ i \in DOMAIN queue[q]
  /\ editing' = [from |-> q, at |-> i, prompt |-> queue[q][i]]
  /\ UNCHANGED <<run, request, session, loading, queue, past>>

StartEdit(q, i) ==
  /\ CanType /\ i \in DOMAIN queue[q]
  /\ editing' = [from |-> q, at |-> i, prompt |-> queue[q][i]]
  /\ queue' = [queue EXCEPT ![q] = RemoveAt(@, i)]
  /\ UNCHANGED <<run, request, session, loading, past>>

(* The edit is finished, or cancelled with Esc: the prompt returns to its  *)
(* place, or to the end of what is left of the queue.                      *)
EndEdit ==
  /\ editing # None /\ loading = None
  /\ queue' = [queue EXCEPT ![editing.from] =
                 IF editing.at <= Len(@) THEN InsertAt(@, editing.at, editing.prompt)
                 ELSE Append(@, editing.prompt)]
  /\ editing' = None
  /\ typed' = [typed EXCEPT ![editing.prompt] = None]
  /\ Blame({editing.prompt}, {"edited"} \cup CausesNow)
  /\ UNCHANGED <<run, request, session, loading, fate>>

----------------------------------------------------------------------------
Next ==
  \/ TurnStarts \/ TurnEnds \/ Stopped \/ TakeNext \/ NothingQueued
  \/ ShellEnds \/ Load \/ WakeUp \/ Dies
  \/ Shell \/ Esc \/ Usage \/ EndEdit
  \/ \E q \in Queues : Submit(q)
  \/ \E s \in Sessions : ClickHandoff(s) \/ Resume(s) \/ NewSession(s)
  \/ \E q \in Queues, i \in 1 .. MaxQueue : Delete(q, i) \/ StartEdit(q, i)

Spec == Init /\ [][Next]_vars

----------------------------------------------------------------------------
(* Properties *)

(* The types; and every prompt that waits is in one place, once: in one of *)
(* the queues, which are never longer than the display, or in the editor.  *)
TypeOK ==
  /\ running \in BOOLEAN /\ running = (worker # "none")
  /\ worker \in {"none", "begin", "turn", "settling", "stopping", "shell", "dying"}
  /\ shell \in BOOLEAN
  /\ current \in [prompt : Prompts \cup {0}, from : Queues \cup {"user", "program"}]
  /\ interrupt \in BOOLEAN /\ event \in {"none", "clear", "set"}
  /\ session \in Sessions /\ switch \in Sessions \cup {None}
  /\ loading \in Sessions \cup {None}
  /\ queue \in [Queues -> Seq(Prompts)]
  /\ editing \in Edits \cup {None}
  /\ fate \in [Prompts -> Fates]
  /\ typed \in [Prompts -> Sessions \cup {None}]
  /\ why \in [Prompts -> SUBSET Causes]
  /\ stale \subseteq {"interrupt", "switch"}
  /\ LET edited == IF editing = None THEN <<>> ELSE <<editing.prompt>>
         waiting == queue["steer"] \o queue["pending"] \o edited
     IN  /\ IsInjective(waiting)
         /\ Range(waiting) = {p \in Prompts : fate[p] = "waiting"}
  /\ \A q \in Queues :
       Len(queue[q]) + (IF editing # None /\ editing.from = q THEN 1 ELSE 0) <= MaxQueue

(* An idle terminal has nothing left to do: no prompt is queued, unless it *)
(* came when no run was there to take it or its run was cancelled; no      *)
(* session waits to be switched to and no interruption to take effect,     *)
(* unless it was asked for when nothing looked at it any more, or the run  *)
(* was cancelled.                                                          *)
IdleIsDone ==
  ~running =>
    /\ \A p \in Queued : "left" \in why[p]
    /\ switch # None => "switch" \in stale
    /\ interrupt => "interrupt" \in stale

(* A prompt is not sent before an older one, unless it is steered and the  *)
(* other is not; the older one was edited, or was left behind by a run.    *)
SentInOrder(p) ==
  \A q \in Queued :
    q < p => \/ current.from = "steer" /\ q \in Range(queue["pending"])
             \/ why[q] \cap {"edited", "left"} # {}

(* A prompt is sent to the session it was typed in, unless it was edited   *)
(* or left behind, or a new session began while it waited.                 *)
SentWhereTyped(p) == typed[p] \in {session, None} \/ "left" \in why[p]

(* An interruption stops and drops what was typed before it, or before it  *)
(* took effect.                                                            *)
StoppedByLaterEsc(p) == "stopped" \in why[p]

(* Prompts are sent as they were typed: in their order, to their session,  *)
(* and stopped or dropped only by an interruption that came behind them;   *)
(* one that came too late for its run stops the next prompt, though.       *)
SentAsTyped ==
  /\ worker = "begin" /\ current # Nothing =>
       /\ SentInOrder(current.prompt)
       /\ SentWhereTyped(current.prompt)
       /\ event = "set" => StoppedByLaterEsc(current.prompt) \/ "interrupt" \in stale
  /\ worker = "stopping" => \A p \in Queued : StoppedByLaterEsc(p)
=============================================================================
