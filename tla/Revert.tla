------------------------------ MODULE Revert ------------------------------
(***************************************************************************)
(* Undo and redo (vtx/agent/revert.py over vtx/agent/snapshot.py): the     *)
(* conversation and the files of the project are moved together along the  *)
(* user messages of the session's branch.  Every run of the agent is       *)
(* bracketed by two snapshots of the worktree; an undo puts the files of   *)
(* the undone runs back and stages a boundary, the next prompt commits it. *)
(*                                                                         *)
(* A snapshot is the contents of the files git can hold: files over the    *)
(* size limit are not in it.  Files change by the agent while it runs and  *)
(* by the user's own hand at any time.                                     *)
(***************************************************************************)
EXTENDS Naturals, Sequences, FiniteSets, SequencesExt

CONSTANTS
  Paths,        \* files of the project
  Texts,        \* contents a snapshot can hold
  Absent,       \* no such file
  Big,          \* contents over the size limit of a snapshot
  None,         \* no staged revert
  Idle,         \* no run
  NoTree,       \* no snapshot
  MaxMessages,  \* bound: user messages of the branch
  MaxEdits,     \* bound: edits by hand between runs once there is a message
  MaxCauses     \* bound: kinds of things that can part files and conversation

ASSUME ContentsAssumption == Absent \notin Texts /\ Big \notin Texts /\ Absent # Big
ASSUME BoundsAssumption == MaxMessages \in Nat /\ MaxEdits \in Nat /\ MaxCauses \in Nat

VARIABLES
  worktree,  \* the files on disk
  branch,    \* the user messages of the active branch, with their snapshots
  revert,    \* the staged revert
  run,       \* the run of the agent: its baseline, or that there is none
  hand,      \* history: the files as the user last left them, while untouched
  touched,   \* history: the files that changed while a run was going
  edits,     \* how many edits by hand there were
  causes     \* history: what may have parted files and conversation

vars == <<worktree, branch, revert, run, hand, touched, edits, causes>>

----------------------------------------------------------------------------
Contents == Texts \cup {Absent, Big}
Trees == [Paths -> Texts \cup {Absent}]
Causes == {"edit", "capture", "big", "restore", "redo", "notice", "jump"}

(* capture() leaves large files out. *)
Seen(files) == [p \in Paths |-> IF files[p] = Big THEN Absent ELSE files[p]]
Differ(from, to) == {p \in Paths : from[p] # to[p]}

(* A user message: the worktree when it was sent and when its run ended,   *)
(* both history, and the snapshot record of the run.                       *)
Message(files) == [began |-> files, ended |-> files, start |-> NoTree, changed |-> {}]

(* Conversation up to the message `b`, without the work that followed it.  *)
CutTo(b) == SubSeq(branch, 1, b - 1) \o <<Message(branch[b].began)>>

(* plan(): for every file its text in the first tree of a run that changed *)
(* it.                                                                     *)
Recorded(b) == {i \in b..Len(branch) : branch[i].start # NoTree}
PlanPaths(b) == UNION {branch[i].changed : i \in Recorded(b)}

(* Mutant: a later run overrides an earlier one. *)
PlanTextLast(b, p) ==
  branch[CHOOSE i \in Recorded(b) :
           /\ p \in branch[i].changed
           /\ \A j \in Recorded(b) : p \in branch[j].changed => j <= i].start[p]

PlanText(b, p) ==
  branch[CHOOSE i \in Recorded(b) :
           /\ p \in branch[i].changed
           /\ \A j \in Recorded(b) : p \in branch[j].changed => i <= j].start[p]

Staged == revert # None

(* previous_boundary() and next_boundary(); 0 is no boundary.              *)
Previous == IF Staged THEN revert.boundary - 1 ELSE Len(branch)
(* Mutant: the redo goes past the newest message. *)
FollowingPast == revert.boundary + 1

Following == IF revert.boundary < Len(branch) THEN revert.boundary + 1 ELSE 0

----------------------------------------------------------------------------
MessageType ==
  [began : [Paths -> Contents], ended : [Paths -> Contents],
   start : Trees \cup {NoTree}, changed : SUBSET Paths]

RevertType ==
  [boundary : 1..MaxMessages, files : SUBSET Paths, original : Trees \cup {NoTree},
   before : [Paths -> Contents] \cup {NoTree}, after : [Paths -> Contents] \cup {NoTree}]

(* What stands for nothing is none of the things it stands in for.        *)
ASSUME NoneAssumption == None \notin RevertType
ASSUME IdleAssumption == Idle \notin Trees \cup {NoTree}
ASSUME NoTreeAssumption == NoTree \notin [Paths -> Contents]

TypeOK ==
  /\ worktree \in [Paths -> Contents] /\ hand \in [Paths -> Contents]
  /\ branch \in Seq(MessageType) /\ Len(branch) <= MaxMessages
  /\ revert # None => revert \in RevertType /\ revert.boundary <= Len(branch)
  /\ run \in {Idle, NoTree} \cup Trees
  /\ touched \subseteq Paths /\ edits \in 0..MaxEdits /\ causes \subseteq Causes

Init ==
  /\ worktree \in [Paths -> Texts \cup {Absent}] /\ hand = worktree
  /\ branch = <<>> /\ revert = None /\ run = Idle
  /\ touched = {} /\ edits = 0 /\ causes = {}

----------------------------------------------------------------------------
(* History: what happened in a step, within the bound.                     *)
Blame(what) ==
  LET all == causes \cup what
                    \cup (IF Seen(worktree) # worktree THEN {"big"} ELSE {})
  IN  Cardinality(all) <= MaxCauses /\ causes' = all

----------------------------------------------------------------------------
(* A run of the agent.                                                     *)

(* The prompt commits a staged revert: the leaf moves to the boundary      *)
(* message, which stays.  Then the worktree is captured, if it can be.     *)
Prompt ==
  LET kept == IF Staged THEN CutTo(revert.boundary) ELSE branch
  IN  /\ run = Idle /\ Len(kept) < MaxMessages
      /\ branch' = Append(kept, Message(worktree))
      /\ revert' = None
      /\ \/ run' = Seen(worktree) /\ Blame({})
         \/ run' = NoTree /\ Blame({"capture"})
      /\ UNCHANGED <<worktree, hand, touched, edits>>

AgentWrites(p, content) ==
  /\ run # Idle /\ worktree[p] # content
  /\ worktree' = [worktree EXCEPT ![p] = content]
  /\ touched' = touched \cup {p}
  /\ hand' = [hand EXCEPT ![p] = Absent]
  /\ UNCHANGED <<branch, revert, run, edits, causes>>

(* Notices of background tasks, the resumed checkpoint and the message     *)
(* after a compaction are user messages too.                               *)
Notice ==
  /\ run # Idle /\ Len(branch) < MaxMessages
  /\ branch' = Append(branch, Message(worktree))
  /\ Blame({"notice"})
  /\ UNCHANGED <<worktree, revert, run, hand, touched, edits>>

(* Mutant: every file is recorded as changed. *)
EndRunEverything ==
  LET last == [branch[Len(branch)] EXCEPT !.ended = worktree]
      record == [last EXCEPT !.start = run, !.changed = Paths]
  IN  /\ run \notin {Idle, NoTree} /\ run' = Idle
      /\ branch' = [branch EXCEPT ![Len(branch)] = record]
      /\ Blame({})
      /\ UNCHANGED <<worktree, revert, hand, touched, edits>>

(* record_turn_snapshot(): the record goes to the last user message.       *)
EndRun ==
  LET last == [branch[Len(branch)] EXCEPT !.ended = worktree]
      record == [last EXCEPT !.start = run, !.changed = Differ(run, Seen(worktree))]
  IN  /\ run # Idle /\ run' = Idle
      /\ \/ /\ run # NoTree
            /\ branch' = [branch EXCEPT ![Len(branch)] = record]
            /\ Blame({})
         \/ /\ branch' = [branch EXCEPT ![Len(branch)] = last]
            /\ Blame({"capture"})
      /\ UNCHANGED <<worktree, revert, hand, touched, edits>>

(* While a run goes whose worktree was captured, nothing tells the user's  *)
(* edit from the agent's.                                                  *)
UserEdits(p, content) ==
  /\ worktree[p] # content
  /\ worktree' = [worktree EXCEPT ![p] = content]
  /\ IF run \in {Idle, NoTree} /\ p \notin touched
     THEN hand' = [hand EXCEPT ![p] = content] /\ UNCHANGED touched
     ELSE hand' = [hand EXCEPT ![p] = Absent] /\ touched' = touched \cup {p}
  /\ IF run = Idle /\ branch # <<>>
     THEN edits < MaxEdits /\ edits' = edits + 1 /\ Blame({"edit"})
     ELSE UNCHANGED <<edits, causes>>
  /\ UNCHANGED <<branch, revert, run>>

----------------------------------------------------------------------------
(* stage(): the outcomes of a revert to the message `b`.                   *)

Original ==
  IF Staged THEN revert.original ELSE NoTree

(* `before` and `after` are history, of a revert that is staged once.      *)
Revert(b, files, original, after) ==
  [boundary |-> b, files |-> files, original |-> original,
   before |-> IF Staged THEN NoTree ELSE worktree,
   after |-> IF Staged THEN NoTree ELSE after]

(* Only files that differ are put back; one that cannot be written stays   *)
(* as it is, and is listed as reverted all the same.                       *)
Targets(b) == {p \in PlanPaths(b) : PlanText(b, p) # Seen(worktree)[p]}

(* restore(): any of the files may fail. *)
PutBack(tree, paths, why) ==
  \E failed \in SUBSET paths :
    /\ worktree' = [p \in Paths |-> IF p \in paths \ failed THEN tree[p] ELSE worktree[p]]
    /\ Blame(why \cup (IF failed = {} THEN {} ELSE {"restore"}))

StageConversation(b, why) ==
  /\ PlanPaths(b) = {}
  /\ revert' = Revert(b, {}, Original, worktree)
  /\ Blame(why)
  /\ UNCHANGED worktree

(* Mutant: the original files are captured after the restore. *)
StageFilesCapturedAfter(b, why) ==
  /\ PlanPaths(b) # {}
  /\ PutBack([p \in Targets(b) |-> PlanText(b, p)], Targets(b), why)
  /\ revert' = Revert(b, Targets(b), Seen(worktree'), worktree')

(* The files of before the first stage are kept for all later ones.        *)
StageFiles(b, why) ==
  /\ PlanPaths(b) # {}
  /\ PutBack([p \in Targets(b) |-> PlanText(b, p)], Targets(b), why)
  /\ revert' = Revert(b, Targets(b), IF Original = NoTree THEN Seen(worktree) ELSE Original,
                      worktree')

(* The earlier revert is dropped before the worktree is captured.          *)
StageRaises(b, why) ==
  /\ PlanPaths(b) # {}
  /\ revert' = None
  /\ Blame(why \cup {"capture"})
  /\ UNCHANGED worktree

Stage(b, why) ==
  StageConversation(b, why) \/ StageFiles(b, why) \/ StageRaises(b, why)

Undo ==
  /\ run = Idle /\ Previous # 0
  /\ Stage(Previous, {})
  /\ UNCHANGED <<branch, run, hand, touched, edits>>

RedoStep ==
  /\ run = Idle /\ Staged /\ Following # 0
  /\ Stage(Following, {"redo"})
  /\ UNCHANGED <<branch, run, hand, touched, edits>>

(* unrevert(), at the newest message.                                      *)
Unrevert ==
  /\ run = Idle /\ Staged /\ Following = 0
  /\ revert' = None
  /\ IF revert.original = NoTree \/ revert.files = {}
     THEN UNCHANGED worktree /\ Blame({})
     ELSE PutBack(revert.original, revert.files, {})
  /\ UNCHANGED <<branch, run, hand, touched, edits>>

(* A jump in the tree to the message `b`, or into its run: the files are   *)
(* reverted, unless /undo would go to the same message, the revert is      *)
(* committed, and then the leaf moves to what was picked.                  *)
JumpFiles(b, why) ==
  IF b = Previous
  THEN UNCHANGED worktree /\ Blame(why \cup {"jump"})
  ELSE \/ PutBack([p \in Targets(b) |-> PlanText(b, p)], Targets(b), why)
       \/ UNCHANGED worktree /\ Blame(why \cup {"capture"})

JumpBefore(b) ==
  /\ run = Idle /\ b \in DOMAIN branch
  /\ branch' = SubSeq(branch, 1, b - 1)
  /\ revert' = None
  /\ JumpFiles(b, IF Staged /\ b > revert.boundary THEN {"redo"} ELSE {})
  /\ UNCHANGED <<run, hand, touched, edits>>

JumpInto(b) ==
  /\ run = Idle /\ b \in DOMAIN branch
  /\ branch' = CutTo(b)
  /\ revert' = None
  /\ JumpFiles(b, {"jump"})
  /\ UNCHANGED <<run, hand, touched, edits>>

----------------------------------------------------------------------------
Next ==
  \/ Prompt \/ Notice \/ EndRun
  \/ \E p \in Paths, content \in Contents : AgentWrites(p, content) \/ UserEdits(p, content)
  \/ Undo \/ RedoStep \/ Unrevert
  \/ \E b \in 1..MaxMessages : JumpBefore(b) \/ JumpInto(b)

Spec == Init /\ [][Next]_vars

----------------------------------------------------------------------------
(* Where the conversation stands, as the files should be.                  *)
Standing ==
  IF Staged THEN branch[revert.boundary].began ELSE Last(branch).ended

InStep == run = Idle /\ branch # <<>> => worktree = Standing

(* Files and conversation never part, by runs, undos, the redo of a single *)
(* undo, commits and jumps, unless one of the causes was there: a file     *)
(* edited by hand or too large, a snapshot or a file that failed, a notice *)
(* in the middle of a run, a redo over several steps, or a jump that moves *)
(* the conversation only.                                                  *)
NeverDesync == causes = {} => InStep

(* A file of the user's own is as the user left it, whatever is undone,    *)
(* redone or jumped over (revert.py:27-32), unless it was edited while a   *)
(* run was going: the run's record is the difference of two worktrees,     *)
(* which takes such an edit for the agent's, and an undo overwrites it.    *)
HandKept == \A p \in Paths \ touched : worktree[p] = hand[p]

(* The redo of an undo that was staged once gives back exactly the files   *)
(* of before it, with the user's own edits, if nobody edited in between    *)
(* and every file could be captured and written.                           *)
UnrevertIsExact ==
  [][ /\ Staged /\ Following = 0 /\ revert' = None /\ run' = Idle /\ branch' = branch
      /\ revert.before # NoTree /\ worktree = revert.after
      /\ causes' \cap {"big", "restore", "capture"} = {}
      => worktree' = revert.before ]_vars
=============================================================================
