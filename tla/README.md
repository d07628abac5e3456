# A specification of the vtx coding agent

TLA+ modules, model-checking configurations and machine-checked proofs about the
control of vtx (`src/src/vtx/`), the harness that runs a coding agent in a terminal.
The modules are translated from the Python source; `PROJECT.json` names the lines
each definition stands for, the runs, the mutants that show each property can fail,
the hazards of the code and the theorems.  Paths below are relative to `src/vtx/` of
the repository, and line numbers are those of the commit.

## 1. The system and its parts

vtx is one Python process per terminal on one asyncio event loop.  A *step* is the
code between two awaits: nothing interleaves within it, everything may between two.
Threads are used for snapshots and a few blocking calls only.

| part | state it keeps | operations | talks to |
|---|---|---|---|
| turn engine, `agent/turn.py` | stream, blocks being collected, active and pending calls, results, stop reason, retry counters | open and retry a request, drain the stream, answer every call (approval, question, veto, run), recover from empty or truncated answers | provider (awaits), user (futures), tools, the loop (yields events) |
| agent loop, `agent/loop.py` | turn number, stop reason, interrupted flag | run of a prompt, turn after turn; drains of background results; compaction; checkpoints | the engine, the session, the background manager |
| session log, `agent/session.py` | entries in memory, JSONL file, the leaf of the tree of entries, runtime checkpoint | append, rewrite, fork, move, reload | called by loop, runtime, undo |
| sub-agent scheduler, `agent/subagents.py` | count, limit, queue of futures | acquire, release, set_limit, reset | the delegate tool |
| background sub-agents, `agent/background.py`, `tui/agent_runner.py` | records in memory and in a directory shared by all processes, listeners, wake-up budget | register, settle, drain, wake, close | loop, terminal, event loop |
| terminal application, `tui/` | running flag, prompt and steer queues, dialogs, session switch | submit, steer, interrupt, shell commands | loop, sessions, goals |
| runtime, `agent/runtime.py` | provider, session, tools, agent | initialise, switch, close | everything above |
| delegate tool, `agent/tools/task.py` | none of its own | run a sub-agent in place or in the background | scheduler, manager |
| codemode, `codemode/` | worker process, calls in flight, budgets, deadline flags | execute a script, serve its calls, kill it | tools |
| undo and snapshots, `agent/revert.py`, `agent/snapshot.py` | trees in a shadow git repository, staged revert | record, stage, commit, unrevert | session, worktree |
| goals, `agent/goal/` | goal files, leases, ledger | create, claim, mutate, charge, auto-continue | terminal, other processes |
| MCP client, `mcp/` | connections, pending requests, tool lists | connect, call, cancel, reload | server processes |
| plugin host, `plugins/` | rows, services, disposables | mount, replace, unmount | runtime |
| rate limiting, `ai/rate_limit.py` | attempts per provider | retry, wait, reset | providers |
| providers, sign-in, configuration, tools, CLI, SDK, telemetry | mostly none | conversions and input and output | |

How they interact: the terminal (or the command line) starts `Agent.run` for a
prompt; the loop runs the engine once per turn and consumes the events it yields; on
each `TurnEndEvent` it appends to the session.  A delegate call waits in the scheduler
for a slot; with `background: true` the sub-agent runs as a task of its own, and its
settling calls back into the terminal.  The user's cancel and steer events are shared
objects that loop and engine poll.

What is hard in this code, and where the properties aim:

* *interleavings*: a cancel at any wait of the engine or the loop; a cancel of a
  queued dispatch after its slot was handed over; a task that settles while its
  terminal is between running and idle;
* *retries and stale state*: the engine starts over after an attempt whose stream,
  flags or results are still around;
* *ordering*: calls, results, notices and summaries in one transcript;
* *partial failure*: one malformed call among several, a checkpoint of a turn that
  failed, a runner that never began when the process closes;
* *several processes on one directory*, which die at any point: background records,
  session files, goals;
* *writes that stop half way*, and what the next write does to the rest of a line;
* *two things that must move together*: the conversation and the files of an undo, a
  connection and the server process behind it;
* *input while something runs*: prompts queued, edited and interrupted around the end of a
  run, and flags that an ended run leaves for the next;
* *clocks and flags*: a script's deadlines, an abort and a cancel within one grace period,
  on a sandbox that other scripts share.

`hazards` in `PROJECT.json` lists each at its line, with the properties that would
catch it, or a note saying why none does yet.

### What makes each part correct

* Engine: every call of a reported message has one result, in order; nothing runs
  unapproved or from broken arguments; what ran is reported; the stop reason tells the
  loop to go on when there are results; a cancel ends the turn.
* Loop: the transcript stays well-formed whatever the turn does; the reported reason is
  the true one; background results are announced once, and before the first request.
* Scheduler: nobody waits beside a slot that is neither in use nor lost; no step takes the
  number in flight over the cap; first come first served; every waiter is served.
* Background: no process tells a result twice, and only one that read the directory before the
  result was marked tells it too; none is lost; an idle terminal owes only what a known cause
  kept from it.
* Session log: what was written is reloaded, whole and as one branch, and each way to
  lose an entry is known.
* Codemode: a script ends by its deadlines, with the reason that stopped it, and what its
  calls did is accounted for.
* Undo: conversation and worktree move together; a revert can be taken back whole; files that
  did not change while a run was going are left alone.
* Goals: one process at a time changes a goal; a spent budget stops it.
* MCP: one server at most runs, and somebody is left who will close it.
* Rate limiting: each request has its own attempts.
* Terminal queues: prompts are sent as they were typed, each once, in order and to their
  session; only what was typed before an Esc is stopped by it; an idle terminal has nothing
  left to do.
* Plugin host: a row is mounted exactly while its services are there, teardown in
  reverse order.

## 2. The modules

```
TurnContract  <--implements--  AgentTurn       <-- AgentTurn_proofs
     ^ INSTANCE                    ^ MCAgentTurn
AgentLoop     <-- MCAgentLoop, AgentLoop_proofs
SubagentScheduler <-- MCSubagentScheduler, Subagents_proofs
BackgroundTasks   <-- MCBackgroundTasks, Subagents_proofs
PromptQueues      <-- MCPromptQueues, PromptQueues_proofs
CodemodeHost      <-- MCCodemodeHost, CodemodeHost_proofs
McpConnection     <-- MCMcpConnection, McpConnection_proofs
Goals             <-- MCGoals, Goals_proofs
Revert            <-- MCRevert, Sessions_proofs
SessionLog        <-- MCSessionLog, Sessions_proofs
```

### TurnContract and AgentTurn

`TurnContract` says in three actions what a turn promises to the loop: any number of
ends without a message, then at most one with the message, whose results answer its
calls in order; or an exception.  `AgentTurn` is `_TurnRunner`: `pc` is where the
coroutine waits, `stream`, `current`, `active`, `pending`, `calls`, `results`, `stop`,
`interrupted`, `tries` are its fields, and an action is what the code does from one
wait to the next, buffers finalised and all.  It has five parts: opening the stream,
draining it (prose, calls as start/delta events or as markup in the text, end, error,
stall, cancel), finalising the calls, answering them one after another, and the
recovery loop of `_run_with_recovery` around all of it.

Data is cut to what the control depends on: text is whether there is some; arguments
are empty, a snapshot, cut, whole or JSON that is no object; a tool is one that runs
unasked, one that needs approval, `ask_user`, or unknown.  Hooks that only observe,
token counters and display events are left out.

`KeepsContract` says with the refinement mapping at the end of `AgentTurn` that every
behaviour of the engine, restarts and all, is one of `TurnContract`.  A run checks it and
`TurnKeepsContract` proves it.

### AgentLoop

`Agent.run` with `TurnContract` as its turn (`Turn == INSTANCE TurnContract`, on the loop's own
`ends` and `status`), so what is shown of the loop holds for every engine that keeps the
contract. The transcript is the session's list of entries, each with the calls or the task it is
about. Actions: begin a run (prompt, resume message), open it (the first drain), see cancel,
steer or the turn limit, start a turn, persist each turn end, drain, check for overflow,
summarise, end the run. At every await and every yield the run may be left for good, because the
task that consumes it is cancelled or stops consuming (`AbandonRun`, `AbandonReported`): `run`
catches `Exception` only (`loop.py:387`), so nothing is reported or drained, and a checkpoint
stays active. The compaction mode is read twice, as in the code: when the summary is planned
(555) and when it is over (374). Token usage is a choice (a context may overflow or not once
there was an answer).

### SubagentScheduler

`acquire` is split at its await: a dispatch is admitted, or queued on a future; a release
completes the first future that is not done, and the waiter resumes in a later step. Between the
two, cancellations, arrivals, `set_limit` with its drain, and `reset` happen. `running` is the
code's counter; `Slots` are the dispatches that really hold one, and `Lost` those that were
cancelled with one in hand, which stays counted.

### BackgroundTasks

Several processes, each with its manager's records `mem`, the flag that it has read the
directory, and the phase of its terminal; one directory `disk`; a coroutine per task. Nothing
locks the directory. So the first drain of a process is two steps, reading it (`ReadDirectory`)
and what comes after (`OpenRun`), and other processes may mark and write the same records in
between. `Drain` is `drain_completed` with the appending to the session. It is one step, since
it takes what to announce from memory and writes whole records whatever the files say by then;
that the files are read and written one by one makes no difference to what is said of a single
task. A kill may cut it anywhere (`CrashDraining`). `session` is the session the terminal works
in, `context` the one in the dispatcher context, from which a dispatch takes its parent: the two
part when the session changes, and meet again only when the context is installed anew
(`RefreshContext`). `switch` are the processes with `_pending_session_switch_id` set; a hand-off
clicked during a shell command leaves it set in an idle terminal. `/new` begins a session at any
time, `/usage` and `/resume` cancel the run (`CancelRun`). `Settle` is the runner's `finally`
block with the listener's decision in the same step. `Busy` holds from the prompt to the end of
`_run_agent`: also after the last drain of the run, while observers run and the worktree is
snapshotted, and during shell commands. `told`, `missed` and `raised` are history: who announced
a result, why a settling woke nobody, and whose last run was abandoned. Left out: `cancel()` and
`wait()`, which nothing in the program calls, records that cannot be written (the code logs and
goes on), and headless processes, which are terminals without a listener.

### SessionLog

The class `Session` of each process (`mem`: entries, leaf, and the two flags that say
how far the file is current), and one `file`: whether it has its header, its other lines, and
how the last line ends: in a newline, in the middle, or whole without its newline.  A call of
`Session` never awaits, so it is one step; but its write may stop at any byte, because the
disk is full (the process goes on with what its memory says) or because the process is
killed.  An append to a line without its end makes one undecodable line of both.  A reload
takes the lines it can decode, in their order, and ends the branch at the first parent it does
not find.  Entry kinds are those the code treats differently: messages, checkpoints and their
tombstones, charges, leaf moves.  `acked` (what a write reported as done) and `shared` (two
processes had the file open together) are history.  The names that `Revert` also has begin
with `Log` here (`LogNext`, `LogSpec`, `LogTypeOK`): one module proves about both.

### Revert

The worktree as a function of paths, the user messages of the active branch with the trees
captured around their runs, and the staged revert. A tree leaves out files over the size limit
(`Big`). Undo, redo and jumps follow `plan`, `stage`, `unrevert`, `commit` and the staging of
`/undo` and `/tree` in the terminal, with their order: what is dropped before a capture that may
fail, what is recorded although a file could not be written. Git itself is external. The user
edits files at any time: between two runs, which is one of the ways to part files and
conversation, or while a run goes, where nothing tells the edit from the agent's. `causes` is
history: which of the known ways to part files and conversation a behaviour has taken; the
properties say what holds without them.

### CodemodeHost

One sandbox and the executions on it.  The worker is an environment: it may send calls,
return or exit at any time.  The host's pump, its call tasks, the two clocks and the
abort are actions of their own; `flags` are the fields by which the sandbox remembers why
it killed a worker, shared by all executions as in the code.  A frame is a call or the
result; the contents of frames, the store and the checks of the source are left out.

### Goals

The files of open and of archived goals, the leases of sessions, and the processes, each with
its session, the goal in focus and the phase of its run. A change of a goal is two steps,
reading the file and replacing it, since nothing locks it; archiving is a write and an unlink.
Around it: sessions opened, resumed (which releases the lease of the one before) and begun anew
(which does not), claiming another session's goal, the audit, Esc, the charge of a run to the
budget, and the checkpoints by which a goal goes on by itself.

### McpConnection

One `McpServerConnection`: its client, the closed flag and the shared attempt to open a
client, which is named by the client it opens; the clients' lives from starting to
closed; and the asyncio tasks that call, connect, close and reconnect.  A prompt cancels the
worker of a `/mcp` command that is under way (`CancelTeardown`).  A step runs
between two awaits, with one simplification: the tasks that await the same attempt wake
one behind the other, in one step.  A cancel that falls between the end of an attempt
and that step leaves the same states as one right behind it.  `excuses` is history,
like `causes` above.  Left out: what `/mcp` shows, listing of tools, sign-in.

### PromptQueues

The part of the terminal application that decides what is sent next: `worker` is where the
coroutine of `_run_agent` or of a shell command waits, `running`, `interrupt`, `event` and
`switch` are the application's fields, and `queue` holds the steer queue and the pending
queue.  The worker takes a prompt (`Begin`), hands it to `agent.run` (`TurnStarts`), learns how
the run ended (`TurnEnds`), closes the snapshot, and then clears the queues after an
interruption (`Stopped`), takes the next prompt (`TakeNext`), or goes on or ends
(`NothingQueued`).  Around it the user types, steers, deletes and edits queued prompts, runs
shell commands, presses Esc, clicks on a handoff, and sends `/new`, `/usage` and `/resume`;
sub-agents that settle wake the idle terminal.  `exclusive=True` workers cancel the one before
(`CancelWorker`), which comes to its end in a later step (`Dies`).

A worker's first step comes before the user's next input.  An agent is loaded, and the bash
tool is registered: without it a shell command would return with the running flag set
(`tui/agent_runner.py:698-701`).  Which prompt is selected is any of them.  `fate`, `typed`,
`why` and `stale` are history: what became of a prompt, the session it was typed in, what may
delay or stop it, and which requests came when no worker looked at them any more.

## 3. What the runs show

Every passing run explores its whole state space with two workers.

| run | specification and bounds | shows |
|---|---|---|
| `turn_calls` | `Spec`, 2 calls and 2 indexes (symmetric), all tool kinds, 3 chunks, 1 retry of an empty answer; 1.5 M states | `AnsweredInOrder`, `NothingRunsUnapproved`, `StopReasonIsTrue`, `ExecutedIsReported`, `TypeOK` |
| `turn_promise` | `FairSpec`, 1 call, all three retry loops and follow-ups beyond their cap | `KeepsContract` (refinement), `CancelEndsTurn` (liveness) |
| `loop_session` | `FairSpec`, 5 prompts and turns, turns of up to 2 ends, 1 call, 1 task, both compaction modes, runs abandoned anywhere; 0.6 M states | `TranscriptPaired`, `EndIsTruthful`, `IdleSettledIsSeen`, `CancelEndsRun` (liveness), `TypeOK` |
| `scheduler_slots` | `FairSpec`, 4 dispatches, 2 cancels, a resize, a reset | `CapUsedAndKept`, `GrantsInOrder`, `QueueMovesWhileCountsReal` (liveness), `TypeOK` |
| `background_delivery` | `Spec`, 2 processes, 2 tasks and 2 sessions (all symmetric), limit of 1 wake-up, 3 inputs; 1.2 M states | `OnceTold`, `RecordsAreTrue`, `UntoldIsMissed`, `SettledStays`, `TypeOK` |
| `session_durable` | `LogSpec`, 2 processes (symmetric), 3 entries, 1 write that stops half way; 0.9 M states | `ReloadIsFaithful`, `LossNeedsCause`, `LogTypeOK` |
| `revert_sync` | `Spec`, 2 files (symmetric), 3 messages, 2 edits by hand between runs and any during them, 1 cause; 0.7 M states | `NeverDesync`, `HandKept`, `UnrevertIsExact`, `TypeOK` |
| `codemode_ends` | `FairSpec`, 2 scripts on one sandbox, one with a call too many | `EffectsAccounted`, `ReasonIsTrue`, `WaitsOnlyForTools` (liveness), `TypeOK` |
| `goals_masters` | `Spec`, 2 processes and 2 sessions (symmetric), 1 goal, budget 1, 3 sessions opened, 1 kill or failed write; 1.9 M states | `WritesWhatItRead`, `BudgetStopsCheckpoints`, `TypeOK` |
| `mcp_orphans` | `Spec`, 4 tasks and 3 clients (symmetric); 0.6 M states | `NoOrphan`, `TypeOK` |
| `prompts_idle` | `Spec`, 3 prompts, queues of 2, 2 sessions (symmetric); 0.7 M states | `IdleIsDone`, `SentAsTyped`, `TypeOK` |

Three properties are pairs that belong together. `CapUsedAndKept`: a dispatch waits only while
every slot of the cap is in use or was lost with a cancelled dispatch (`SlotsUsed`), and as long
as nothing is reset no step takes the number in flight over the cap of that moment (`CapKept`).
It does not say that the number comes down to a cap that was lowered, which it need not.
`RecordsAreTrue`: a task that the directory says is running has a coroutine, unless its process
was killed (`RunningIsAlive`), and one marked as notified was announced (`NotifiedIsTold`).
`ReloadIsFaithful`: a branch that is reloaded has no gap (`BranchesWhole`), and a process that
believes the file current would reload what it has in memory (`DiskAgrees`).

Why the bounds are enough. Two calls are the fewest that can be reordered, share an index, or
have one fail after the other ran; three chunks start two calls and end or spoil one; one more
retry than none reaches every state in which something of an earlier attempt is left. Five
prompts and turns are two runs of which one is cut by the limit of its turns, or three of which
two are abandoned in a turn, so that a checkpoint, a task or a summary of one meets the next.
Four dispatches put two behind a slot that is handed over while a third arrives. Two processes
are a dispatcher and a stranger that may have read the directory before the dispatcher marked a
result: `OnceTold` says of every stranger by itself that past its first drain it has nothing
left to announce, and how often each process announces, so a third one adds nothing, as its
proof for any number shows. Three inputs are a prompt, a change of session or a click on a
hand-off, and one more of any. The limit of wake-ups is 4 in the code and 1 in the run, where it
is reached by the second task.

Three entries are a message, what hangs from it, and a move or a checkpoint of either; one
write that stops leaves the file in each of its three endings, and the process that wrote or
the other one goes on from there.  Three user messages give an undo a step before it and a
redo a step after it, and two files give a run one to change and one to leave.  One cause at
a time is what the properties speak of: they say nothing once there was one, and the bound
lets every single one happen.  A script with a budget of one and two calls has one admitted
and one refused, and the second script is there to reset the flags.  Two processes and two
sessions are an owner and a claimant; a third start lets one come back.  The excuse `race`
is explored by `goals_masters`; `lapse` and `twice`, named in `MayHappen`, are not, since
`WritesWhatItRead` and `BudgetStopsCheckpoints` say nothing after them.  In `mcp_orphans`
the three clients are the one in use, one that is opened, and one more that a reconnect
opens; four tasks are two callers, a teardown and the connect of the startup.  The states
behind an excuse are reached, but not followed, for the same reason.  Three prompts are one
that is sent and two that are queued behind it, in one queue or in both, of which one is
edited while the other is taken; a queue of two, five in the code, lets the third prompt be
refused when all three come to one queue during a wake-up or a shell command.  With a fourth
prompt the run takes longer than it is worth (5 M states), and passed too.

Every counter that the code does not bound has a bound among the CONSTANTS, tested in a
guard.  `CHECK_DEADLOCK FALSE` is set where the system may stop: the turn ends, the prompts
are used up, every process has exited.

### Where the code does not do what it says

This run checks one property, the words of the repository, and TLC shows the code violating
it.

| run | what is said | what happens |
|---|---|---|
| `scheduler_lost_slot` | a slot handed to a cancelled waiter is passed on "so the queue keeps moving" (`subagents.py:67`) | it is counted again instead: with nobody waiting it stays counted for ever, and with a limit of 1 no dispatch starts again |

Seen while modelling, without a run of its own.  Where a property above names one of these
as a cause, what it says holds without that cause.

Turn and loop: the stream of an earlier request is taken for a new one, and a cancel before the
first chunk gives three ends (`turn.py:565`, against "the final event", 11); a call on an index
in use replaces the one before (against "all tool calls are collected", 14); arguments that are
JSON but no object raise out of the turn (against 1209-1211); failed and cancelled attempts are
repeated as if they were empty (607, against 540-543); a follow-up that arrives while tools run
drops their results (590); a tool that raises `TypeError` is run a second time (289); an
extension may rewrite arguments after the user approved them (1096); the provider's answer is
awaited without watching the cancel event (682), and so is a summary (`loop.py:620`);
checkpoints are dropped at every turn end, of turns that failed or were stopped too
(`loop.py:335`, against "a checkpoint left by a previous cancelled (/stop) run", 260-264,
`turn.py:574-575`, `session.py:144-147`, and "once a turn completes normally", 535), so that
nothing is resumed but a turn that raised and a run that was abandoned; an aborted compaction
makes the loop go on unprompted (`loop.py:371`, 376); the resume prompt keeps only the number of
the results it promises (508).

Sub-agents and background: shrinking the scheduler's limit does not hold new dispatches, since a
release hands its slot on although more run than the cap (`subagents.py:74-87`, against the
docstring of `set_limit`, 93-94); the number in flight comes down only once nobody is queued; a
result that arrives after the last drain of a run, while the terminal still counts as running,
waits for the next prompt (`tui/agent_runner.py:161`, against 159), and so do all results while
a switch is noted that a hand-off clicked during a shell command left behind; the session in the
dispatcher context is not changed by `new_session` and `load_session`
(`agent/runtime.py:1260-1274`, 1483-1560, against `agent/dispatcher.py:80-81`), so after `/new`,
`/clear` and `/resume` a background task carries the id of the session before and does not wake
the idle terminal (`tui/agent_runner.py:166-168`, against 137-140); the budget of wake-ups is
reset where it is exhausted, so it bounds nothing (216, against 56-59), and the message that the
results are in the conversation is wrong; a result is announced in whichever session drains
first (`background.py:315` does not look at the parent session), and once more by every process
that read the directory before it was marked there, since nothing is locked between reading
(225-263), marking and writing (315-332, against "once", 9).

Session and undo: each redo plans from its own boundary and lists only the files it put back
itself (`revert.py:428`, against "the two directions can never desync", 7): after two undos and
two redos, files that only the older run changed stay undone, which is the cause `redo` of
`NeverDesync`; what a run changed is the difference of two worktrees (223-225), so what the user
edited by hand while it went is attributed to it, and an undo overwrites or deletes it (393-415,
against "only files recorded in a tool result's `file_changes`" and "a revert that silently
clobbers their work is worse than no revert at all", 27-32), which is why `HandKept` speaks of
files that did not change while a run was going; a line cut inside a character makes `load`
raise, and the session cannot be opened (`session.py:982`); undoing to a message by `/tree` that
`/undo` would go to moves the conversation only (`tui/completion_ui.py:308`, against 323-325).

Codemode: the wall clock cannot end a script that returned and waits for a call it did not
await (`codemode/host.py:494`, against 653-654); the cancel event of one execution is
replaced by the next (`coding_agent/tools/codemode.py:419`).

Goals: a lease runs out while its session has no goal in focus, and two processes may open one
session, so a goal can have two masters; `/new` and `/clear` change the session under a run and
release no lease (`tui/commands/sessions.py:27-60`), and the goal tool goes by the dispatcher
context, which keeps the session before (`agent/goal/tools.py:64`); a kill between the archived
copy and the removal leaves a goal both open and archived (`agent/goal/storage.py:217`); every
writer of a goal uses the same temporary name (203-208); an Esc during an audit is undone by its
verdict (`agent/goal/tools.py:545`); the first run of a session is never charged; a provider
that fails at once is called again without end by the checkpoints (`tui/agent_runner.py:352`);
the Esc that found no run cancels the next prompt; subtasks added by `update_task` lose their
parent (`agent/goal/service.py:362-375`).

MCP: callers that share an attempt get a `CancelledError` nobody meant for them
(`mcp/manager.py:214-217`), and the late ones clear an attempt that is not theirs; a failed
call forgets the client of the moment, living or newer (394); two `/mcp reconnect` at once
leave a server that nobody closes (449, the workers are not exclusive), and so may a reload
(538-541); Esc does not reach a call that waits for a connection; a prompt sent while
`/mcp reconnect` is under way cancels it (`tui/commands/mcp.py:47` starts a worker in the default
group, `tui/app.py:1209` an exclusive one), which leaves the connection shut down, its server
perhaps asked to end and not terminated.

Terminal: prompts typed while an interrupted run still closes its snapshot are cleared with the
rest of the queue (`tui/agent_runner.py:333-340`); an Esc after the flags of a run were reset
stays in `_interrupt_requested` and stops the next prompt before it begins; an Esc after the
run's last look at the event is forgotten, and the queue goes on; `/usage` and `/resume` cancel
a run and leave its queues, which wait for the next run to end; so do prompts queued, and a
handoff clicked, during a `!` command, and the pending switch also holds up wake-ups and
checkpoints; `/new` and the end of `/handoff` change the session under a run; a wake-up right
after a run ended cancels the session switch that was scheduled with it.  Not checked: finishing
the edit of a queued prompt drops its images (`tui/queue_ui.py:120`, against `CHANGELOG.md:227`).

## 4. Fairness

* `AgentTurn!FairSpec`: weak fairness of everything the event loop, a started tool, and
  the provider's answer to a *request* drive.  Chunks, approvals and answers of the user
  are not fair: the turn must end without them once it is cancelled.  That a request is
  answered is an assumption: the code awaits it without watching the cancel event
  (`turn.py:682`).
* `AgentLoop!FairSpec`: the loop's own steps, and the end of a turn once it is
  cancelled, which is `CancelEndsTurn` of the engine.
* `SubagentScheduler!SchedFairSpec`: a resumed task runs, and an admitted sub-agent ends
  (its turns are limited, its stream has a time-out).  Cancels, arrivals and resizes are
  not fair.  Because of the slot that can be lost, liveness is stated for the executions
  in which the count stays real, and the run `scheduler_lost_slot` shows the others.
* `CodemodeHost!FairSpec`: the pump runs when it can, the wall clock and the grace period
  pass, and a call that was cancelled ends.  Nothing is assumed of the script or of a tool
  that is left to itself: a script may loop, and a tool may never answer.
* `BackgroundTasks`, `SessionLog`, `Revert`, `Goals`, `McpConnection` and `PromptQueues` are
  safety only; `IdleIsDone` is what the last says of a queue that nobody empties.
  `UntoldIsMissed` is the safety form of "an idle terminal owes its model nothing that could
  have woken it": what it owes settled during a run or a shell command, beside a noted switch,
  with the budget used up, or for another session than the open one, or its last run was
  abandoned.

## 5. What is proved

The theorems hold for all values of the constants that satisfy the named assumptions
(`NoCall` is no call, limits are natural numbers, the calls an engine can be sent are
finitely many, and so on), checked by TLAPS.

Of the scheduler, `Subagents_proofs` proves `SchedTypeCorrect`, `NoLostWakeUp`
(`WaitersImplySaturation`), `InFlightWithinLimits` (`InFlightBound`), `WaitsForUsedSlots`
(`SlotsUsed`) and `CapNotExceeded` (`CapKept`), these two together as `CapIsUsedAndKept`,
`CountNeverTooLow` (`CountCoversSlots`) and `SlotsAreGrantedInOrder` (`GrantsInOrder`) for any
number of dispatches, limits and cancellations. Saturation is inductive because a hand-over that
leaves somebody pending has used up what it had to give (`HandOverFacts`). The bound on what is
in flight is not: an arrival is admitted on the count, so the invariant `SlotsBounded` adds that
the count covers the slots, which holds because a hand-over gives away no more slots than it
adds to the count (`HandOverGains`). `SlotsBounded` also bounds every step that raises the
number in flight (`SlotsStep`), which is `CapKept`. `SlotsUsed` needs the other direction, that
the count stands for something: every slot it counts is in use or lost (`CountExplained`). A
hand-over adds one for each dispatch it wakes, so this rests on `QueueWellFormed`: a dispatch is
in the queue once, and whoever waits has its place there. The order rests on saturation: an
arrival gets a slot only when nobody is pending.

`AgentTurn_proofs` proves `TypeCorrect`, `EveryCallIsAnswered`, `ApprovalIsAsked`,
`StopReasonsAgree` and `EffectsAreReported`, for any sets of calls, indexes and tools, and
any limits.  Its invariant `IInv` was checked with TLC before the
proof.  The parts that make it inductive:

* `Waiting`: in the states that answer a call there is a call without a result;
* `Collected`, `Matched`: once the stream is drained nothing is active, the pending calls
  are the calls of the message, and the results are those of a prefix of them;
* `Asked`: in the states after the approval the next call was approved or needs none;
* `Honest`, `Agreeing`: a cancelled or stalled attempt carries its stop reason until the
  message is reported, although the flag outlives the attempt;
* `Tracked`, `Reported`: what ran in this attempt is among its results, and an attempt
  with results is never started over except by a follow-up.

Each part has a lemma per group of actions, and the theorems combine them.

The module also proves the refinement, `TurnKeepsContract`: `Spec` implies `KeepsContract`.
`ContractInit` maps the initial states, and `ContractStep` maps every step to one of the
contract or to a stutter, with one lemma per kind (`AppendedEnd` for the end with a message,
`FruitlessStep` for one without, `MessageStep` for what happens in between).  A message
of the contract has no more calls than there are, so the proof needs a part of its own,
`Distinct`: no call is collected twice, because each is new when it starts, and one that takes
the place of another with its index removes that one.

`AgentLoop_proofs` proves `TypeCorrect`, `MessagesKeepTheirResults` (`TranscriptPaired`),
`RunsEndTruthfully` (`EndIsTruthful`) and `SettledWhileIdleIsSeen` (`IdleSettledIsSeen`).
Since the loop runs over `TurnContract`, what is proved here and the refinement together hold
for the engine.  The parts of its invariant `IInv`:

* `Paired`: a message is followed at once by its own results, in order, and every result
  belongs to a message before it;
* `Announced`: from the opening drain of a run on, what was owed when it began has been drained,
  and what was drained is in the session;
* `Between`: what a run begins with and why it ends: its turns are used up, it is paused, or it
  was interrupted or failed;
* `Caused`, `Stopped`: a stop reason that is remembered has its cause: the cancel, the steer,
  or, unless the turn is `Fresh`, a last message without calls, which stays the last one when
  that reason was reported;
* `Checkpointed`: a turn that finished has no checkpoint, so one that is left stands for a turn
  that raised or for a run that was abandoned;
* `Reported`: nothing is reported while a run goes, and what an idle loop has reported, if
  anything, has its cause.

`CodemodeHost_proofs` proves `CallsStayWithinBudget` (`TypeOK`), `NoCallOutlivesItsScript`
(`EffectsAccounted`) and `LoneScriptsKnowTheirEnd` (`ReasonIsTrue`) for any sets of runs and
calls and any budgets.  Its invariant says per run that the calls taken up fit the budget
(`Budgeted`), what is settled at the point the pump has come to (`Phased`: nothing is left
running once it reaps the worker), that the sandbox's flags are those of the run as long as it
is alone (`Told`), and that its outcome then has its cause (`Reasoned`).  `Solitary` is the
part over two runs: beside a run that is alone no other is active.  Without it the flags,
which all runs share, could have been set by somebody else.

`McpConnection_proofs` proves `TypeCorrect` and `NoServerIsOrphaned` (`NoOrphan`) for any
sets of tasks and clients.  `TypeCorrect` holds also after the excuses that `NoOrphan` names
and beyond the constraint of the run.  The invariant is therefore in two halves, `Sound`
always and `Alone` while there is no excuse: one task at most shuts the
connection down, which then is closed, and all who wait wait for the same attempt (`InLine`);
an attempt under way is the connection's and has somebody who waits for it (`Attempted`); a
connected client is the one the connection holds, and one that is being closed has its task
(`Held`).

Of background tasks, `Subagents_proofs` proves `TypeOK`, `OnceTold`, `RecordsAreTrue`, its halves,
`UntoldIsMissed` and `SettledStays`, for any sets of processes, tasks and sessions and any
limits, from the assumptions that `NoProc` is no process and that there is a session to work
in.  `OnceTold` is not inductive: a process may hold a copy of a
record that says less than the directory.  Its invariant `IInv`, checked with TLC before the
proof, has `OnceTold` and `RecordsAreTrue` among its parts and says which copies can exist:

* `Dispatched`: a task that was dispatched has an owner that was started;
* `Unsettled`: before the runner has ended no copy is settled and nothing was announced;
* `Agreed`: a settled copy agrees with the directory on how the task ended;
* `ForeignCopies`: a stranger has a result left to announce only between reading the directory
  and the drain behind it, so a copy of his that is still running never becomes due;
* `Heard`: what was announced is marked in the directory, and in the memory of every process that
  announced it and still runs;
* `Pending`: a result the terminal has not announced has a run ahead of it, unless settling
  it woke nobody or a run was abandoned.

The lemma `DueFacts` draws the consequence the theorems rest on: what is due to a process has
ended, agrees with the directory, and was not announced by this process; others may have
announced it, and that is all `OnceTold` leaves open.  The lemmas `DrainedTask`, `LeftTask`,
`RegisteredTask` and `EndedTask` say what each kind of step does to one task; each part of `IInv`
has a lemma with one case per kind.

`PromptQueues_proofs` proves `TypeOK`, `IdleIsDone` and `SentAsTyped` for any number of prompts
and sessions and any size of the queues, from the assumptions that `None` is no session and no
edit and that a queue has room for a prompt.  The parts of its invariant `IInv`, checked with
TLC before the proof:

* `Numbered`, `Places`: the prompts typed so far are those up to some number, so a new one is
  later than all that wait, and each that waits is in one queue or in the editor, once;
* `Sending`: the prompt about to be sent is known as such until it is handed over;
* `Requests`: an interruption or a switch that is asked for is for the worker that is there,
  or is on record as too late; a set event comes with the flag that set it;
* `LeftBehind`, `Blamed`: where no run will take the queue, all of it is known as left, and
  while an interruption is due, all of it is older than that, or came before it took effect;
* `InOrder`, `EditInOrder`: a prompt behind another one in a queue is younger, or was edited or
  left, and so is what stands at or behind the place the edited prompt returns to.
  `EditInOrder` is what makes the order survive that the queue moves while its prompt is
  edited;
* `Typed`: what waits was typed in the session there is, or has lost its session for a cause
  the property names.

The module begins with what taking, deleting, inserting and appending do to a sequence without
repetitions: its set, its order, and what is at or behind a place.

`Goals_proofs` proves `TypeCorrect`, `NoUpdateIsLost` (`WritesWhatItRead`) and
`SpentBudgetStops` (`BudgetStopsCheckpoints`) for any sets of processes, sessions and goals and
any budget, from the assumptions that `NoFile` is no record and `NoOp` no change.  Its invariant
`IInv`, checked with TLC before the proof, has three levels, since each excuse takes
something away.  Always, a change under way is of a goal that has a file (`Sound`), which is
why no goal loses its last one.  While nothing has given a goal two masters (`Alone`):

* `Single`, `Leased`: a session runs once, and a running one has its lease, so a claim that
  reads the leases sees it;
* `Mastered`: a change under way is not overtaken, and is of a goal of its own session, or
  claims one whose owner does not run;
* `ClaimedOnce`: no two claims are of the same goal.

`NoRival` draws the consequence: two changes under way are of two goals, so what one process
replaces is what nobody else has read.  While no write has failed either, `Metered` says that
a charged run has its charge in the file or is about to write it, and that the charge
leaves the goal active only within its budget.  A failed write breaks it, and so does a second
master, who may write back the record from before the charge: the property names both.

Of undo and redo, `Sessions_proofs` proves `TypeCorrect`, `FilesOfTheUserAreKept` (`HandKept`),
`RedoGivesBack` (`UnrevertIsExact`) and `FilesFollowTheConversation` (`NeverDesync`) for any
files, any contents and branches of any length, from the assumptions that `None`, `Idle` and
`NoTree` are none of the things they stand in for.  None of the three properties is
inductive.  The parts of the invariant `IInv`, checked with TLC before the proof:

* `Accounted`: what a snapshot record or a staged revert names changed while a run was going, by
  the agent or by hand, and during a run every other file is as in its baseline, so what is put
  back is never what the user did between the runs;
* `Exact`: a revert staged once has the files of before it, or had nothing to put back;
* `Chained`, `Snapped`: while nothing parted them, every message begins with the files the one
  before it ended with, and its record is what its run changed;
* `Redoable`: a revert of the newest message knows the files its run ended with.

`NeverDesync` needs the last three together, for only then does the plan of an undo, which takes
each file from the first record that names it, give the files of the message it goes to
(`PlanIsRight`).  That is an induction along the branch; it is done with a least counterexample
(`Unchanged`), which the prover can follow.

Of the session log, `Sessions_proofs` proves `LogTypeCorrect`, `ReopenIsFaithful`
(`ReloadIsFaithful`) and `LossHasCause` (`LossNeedsCause`) for any set of processes and any
number of entries and of writes that stop half way.  The parts of its invariant `LogIInv`,
checked with TLC before the proof:

* `Numbered`: ids rise along the file and along every memory, so an id is at one place;
* `Rooted`, `Counted`, `LeafKnown`: what an entry hangs from was once reported as written or
  stands before it; what a process counts as written was; its leaf is an entry of its own.
  So a single line is appended only behind lines that were written;
* `Lone`, `Remembered`: while no two processes had the file open together, one is up at most,
  and every line of the file is one it remembers, up to a message whose rewriting is still due
  and a checkpoint switched off by a move or by a later one (`Overtaken`).

`MirrorFacts` and `SyncedFacts` draw the consequence: a file with all the entries of the process
has the same tree, texts and leaf, and resumes at the same checkpoint unless there was a
move.  `LossNeedsCause` needs the type invariant and the kinds of steps (`StepFacts`) only,
because a process whose write failed stays dirty and its next write is the whole file.

Only model-checked: every liveness property.  Liveness under fairness,
ENABLED, induction over data other than by a least number, and recursive operators are outside
what this prover handles, so they stay with TLC; no module here declares a recursive operator.

## 6. Plan

1. `RateLimit`: attempts per provider shared by concurrent requests (`ai/rate_limit.py:123`).
2. `PluginHost`: mounting by available services, replacement of a row, teardown.

The project keeps to a dozen runs: as modules are added, runs that show a single small
disagreement give way, and what they showed stays in the list of section 3.

## 7. Not modelled

Providers and stream translation (any order of chunks they can produce is an input of
`AgentTurn`), sign-in, configuration, themes, rendering and key bindings, the contents
of files, prompts and summaries, the tools' own effects, telemetry, packaging.  These
are conversions or input and output without interleavings of their own.  The runtime's
wiring and the permission decision enter the models as constants.  In `Goals`, a
session that `/new` or `/clear` changes under a run, and the goal tool's own session, are left
out: a change for another session than the open one is what `lapse` already excuses.  The SDK's
runner repeats the engine's and loop's job sequentially for embedders and comes after the plan.
