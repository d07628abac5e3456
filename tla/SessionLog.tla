---------------------------- MODULE SessionLog ----------------------------
(***************************************************************************)
(* The session log (vtx/agent/session.py, class Session): a tree of        *)
(* entries kept in memory and in a file of JSON lines.  Entries are        *)
(* appended to the file once the session is worth keeping, the whole file  *)
(* is rewritten when the flags say that it lags behind, and a session that *)
(* is opened again takes what the file still holds.                        *)
(*                                                                         *)
(* Several processes may have the same file open: nothing locks it.  A     *)
(* write can stop half way because the disk is full, and then the process  *)
(* goes on, or because the process is killed.  One call of Session is one  *)
(* step: it never waits for anything in between.                           *)
(*                                                                         *)
(* The names that every module has are prefixed here (LogInit, LogNext),   *)
(* so that Sessions_proofs can extend this module and Revert together.     *)
(***************************************************************************)
EXTENDS Naturals, Sequences, FiniteSets, SequencesExt

CONSTANTS
  Procs,       \* the processes that may have the session open
  First,       \* the process that created the session
  Messages,    \* the kinds of entries it makes beside checkpoints and leaves
  MaxEntries,  \* bound: entries ever made
  MaxFaults    \* bound: writes that stop half way

ASSUME FirstAssumption == First \in Procs
ASSUME MessagesAssumption == Messages \subseteq {"user", "assistant", "charge"}
ASSUME LogBoundsAssumption == MaxEntries \in Nat /\ MaxFaults \in Nat

VARIABLES
  mem,     \* the Session object of each process
  file,    \* whether the file has its header, its other lines, and its end
  made,    \* how many entries have been made
  faults,  \* how many writes have stopped half way
  shared,  \* history: two processes have had the file open together
  acked    \* history: the entries whose writing has returned, or that were read

logVars == <<mem, file, made, faults, shared, acked>>

----------------------------------------------------------------------------
Ids == 1..MaxEntries
NoId == 0

(* "user" stands for every entry that is not written on its own account:  *)
(* user and custom messages, changes of model, thinking level and name.   *)
Kinds == {"user", "assistant", "checkpoint", "charge", "leaf"}

Entry(id, parent, kind) ==
  [id |-> id, parent |-> parent, kind |-> kind, target |-> NoId, active |-> FALSE,
   text |-> "old"]

(* How the file ends: with a newline, with a piece of a line, or with a    *)
(* whole line that lacks its newline.                                      *)
Tails == {"clean", "torn", "bare"}

IdsOf(entries) == {entries[i].id : i \in DOMAIN entries}

(* load() needs the header and skips lines that cannot be decoded: the     *)
(* lines of the file are those that can.                                   *)
Loadable == file.header

EntryOf(entries, id) == CHOOSE e \in ToSet(entries) : e.id = id

(* get_branch() walks the parents and stops at the first missing entry:    *)
(* what it collects is in every set that has the leaf and, with an entry,  *)
(* its parent.                                                             *)
Closed(entries, ids) ==
  \A i \in DOMAIN entries : entries[i].id \in ids => entries[i].parent \in ids

Branch(entries, leaf) ==
  {id \in IdsOf(entries) :
     \A ids \in SUBSET (Ids \cup {NoId}) :
       leaf \in ids /\ Closed(entries, ids) => id \in ids}

LeafOf(entries) ==
  IF entries = <<>> THEN NoId
  ELSE IF Last(entries).kind = "leaf" THEN Last(entries).target ELSE Last(entries).id

(* The checkpoint a run resumes: the newest of the branch, if active.      *)
Checkpoint(entries, leaf) ==
  LET points == {id \in Branch(entries, leaf) :
                   EntryOf(entries, id).kind = "checkpoint"}
      newest == CHOOSE id \in points : \A other \in points : other <= id
  IN  IF points # {} /\ EntryOf(entries, newest).active THEN newest ELSE NoId

----------------------------------------------------------------------------
EntryType ==
  [id : Ids, parent : Ids \cup {NoId}, kind : Kinds, target : Ids \cup {NoId},
   active : BOOLEAN, text : {"old", "new"}]

MemoryType ==
  [up : BOOLEAN, entries : Seq(EntryType), leaf : Ids \cup {NoId},
   flushed : BOOLEAN, count : Nat]

LogTypeOK ==
  /\ mem \in [Procs -> MemoryType]
  /\ \A p \in Procs : mem[p].count <= Len(mem[p].entries)
  /\ file \in [header : BOOLEAN, lines : Seq(EntryType), tail : Tails]
  /\ made \in 0..MaxEntries /\ faults \in 0..MaxFaults
  /\ shared \in BOOLEAN /\ acked \subseteq Ids

Empty(up) ==
  [up |-> up, entries |-> <<>>, leaf |-> NoId, flushed |-> FALSE, count |-> 0]

LogInit ==
  /\ mem = [p \in Procs |-> Empty(p = First)]
  /\ file = [header |-> FALSE, lines |-> <<>>, tail |-> "clean"]
  /\ made = 0 /\ faults = 0 /\ shared = FALSE /\ acked = {}

----------------------------------------------------------------------------
(* The file after writing.                                                 *)

Whole(m) == [header |-> TRUE, lines |-> m.entries, tail |-> "clean"]

(* A rewrite truncates first; it may stop after any number of bytes.       *)
WholeCut(m) ==
  {[header |-> FALSE, lines |-> <<>>, tail |-> end] : end \in {"clean", "torn"}}
  \cup {[header |-> TRUE, lines |-> SubSeq(m.entries, 1, n), tail |-> end] :
          n \in 0..Len(m.entries), end \in {"clean", "bare"}}
  \cup {[header |-> TRUE, lines |-> SubSeq(m.entries, 1, n), tail |-> "torn"] :
          n \in 0..Len(m.entries) - 1}

(* A line written behind an unfinished one becomes one line with it, which *)
(* no reader can decode.                                                   *)
Glued ==
  IF file.tail # "bare" THEN file
  ELSE IF file.lines = <<>> THEN [file EXCEPT !.header = FALSE]
  ELSE [file EXCEPT !.lines = Front(file.lines)]

Added(e) == [file EXCEPT !.lines = Append(file.lines, e)]

Longer(e) ==
  IF file.tail = "clean" THEN Added(e) ELSE [Glued EXCEPT !.tail = "clean"]

LongerCut(e) ==
  {file, [Glued EXCEPT !.tail = "torn"]}
  \cup (IF file.tail = "clean" THEN {[Added(e) EXCEPT !.tail = "bare"]} ELSE {})

----------------------------------------------------------------------------
(* Mutant: the entries are counted before they are written. *)
WriteCountingFirst(p, m, good, cut, after, written) ==
  \/ /\ file' = good
     /\ mem' = [mem EXCEPT ![p] = after]
     /\ acked' = acked \cup written
     /\ UNCHANGED faults
  \/ /\ faults < MaxFaults /\ faults' = faults + 1
     /\ file' \in cut
     /\ \E left \in {after, Empty(FALSE)} : mem' = [mem EXCEPT ![p] = left]
     /\ UNCHANGED acked

(* Writing ends well, or the process goes on with its flags as they were,  *)
(* or it is killed.                                                        *)
Write(p, m, good, cut, after, written) ==
  \/ /\ file' = good
     /\ mem' = [mem EXCEPT ![p] = after]
     /\ acked' = acked \cup written
     /\ UNCHANGED faults
  \/ /\ faults < MaxFaults /\ faults' = faults + 1
     /\ file' \in cut
     /\ \E left \in {m, Empty(FALSE)} : mem' = [mem EXCEPT ![p] = left]
     /\ UNCHANGED acked

Flushed(m) == [m EXCEPT !.flushed = TRUE, !.count = Len(m.entries)]

(* The session is written from the first assistant message on; a new leaf, *)
(* a checkpoint and a charge are written in any case.                      *)
WorthWriting(m, e) ==
  \/ \E i \in DOMAIN m.entries : m.entries[i].kind = "assistant"
  \/ e.kind \in {"leaf", "checkpoint", "charge"}

(* The whole file is rewritten when earlier entries are not in it.         *)
Lagging(m) == m.count < Len(m.entries) - 1 \/ ~m.flushed

Persist(p, m, e) ==
  \/ /\ ~WorthWriting(m, e)
     /\ mem' = [mem EXCEPT ![p] = m]
     /\ UNCHANGED <<file, faults, acked>>
  \/ /\ WorthWriting(m, e) /\ Lagging(m)
     /\ Write(p, m, Whole(m), WholeCut(m), Flushed(m), IdsOf(m.entries))
  \/ /\ WorthWriting(m, e) /\ ~Lagging(m)
     /\ Write(p, m, Longer(e), LongerCut(e), [m EXCEPT !.count = m.count + 1],
              {e.id})

AppendEntry(p, m, e) ==
  /\ made < MaxEntries /\ made' = made + 1
  /\ Persist(p, [m EXCEPT !.entries = Append(m.entries, e),
                          !.leaf = IF e.kind = "leaf" THEN e.target ELSE e.id], e)

NewEntry(p, kind) == Entry(made + 1, mem[p].leaf, kind)

----------------------------------------------------------------------------
(* The operations of a session.                                            *)

AppendMessage(p, kind) ==
  /\ mem[p].up
  /\ AppendEntry(p, mem[p], NewEntry(p, kind))
  /\ UNCHANGED shared

OnBranch(p, i) == mem[p].entries[i].id \in Branch(mem[p].entries, mem[p].leaf)

(* A new checkpoint switches off the earlier ones of the branch, in memory.*)
AppendCheckpoint(p) ==
  LET off == [i \in DOMAIN mem[p].entries |->
                [mem[p].entries[i] EXCEPT
                   !.active = mem[p].entries[i].active /\ ~OnBranch(p, i)]]
  IN  /\ mem[p].up
      /\ AppendEntry(p, [mem[p] EXCEPT !.entries = off],
                     [NewEntry(p, "checkpoint") EXCEPT !.active = TRUE])
      /\ UNCHANGED shared

(* Mutant: the checkpoint is switched off in memory, without an entry. *)
ClearCheckpointInPlace(p) ==
  /\ mem[p].up
  /\ mem' = [mem EXCEPT ![p].entries =
                [i \in DOMAIN mem[p].entries |->
                   [mem[p].entries[i] EXCEPT !.active = FALSE]]]
  /\ UNCHANGED <<file, made, faults, shared, acked>>

(* A turn that is over is not resumed: the tombstone is an entry.          *)
ClearCheckpoint(p) ==
  /\ mem[p].up
  /\ \E i \in DOMAIN mem[p].entries : mem[p].entries[i].active /\ OnBranch(p, i)
  /\ AppendEntry(p, mem[p], NewEntry(p, "checkpoint"))
  /\ UNCHANGED shared

MoveTo(p, target) ==
  /\ mem[p].up
  /\ target \in IdsOf(mem[p].entries) \cup {NoId}
  /\ AppendEntry(p, mem[p], [NewEntry(p, "leaf") EXCEPT !.target = target])
  /\ UNCHANGED shared

(* The message in the slot changes in memory; the next write that is worth *)
(* it rewrites the file.                                                   *)
ReplaceMessage(p, i) ==
  /\ mem[p].up
  /\ i \in DOMAIN mem[p].entries /\ mem[p].entries[i].kind = "user"
  /\ mem' = [mem EXCEPT ![p].entries[i].text = "new", ![p].flushed = FALSE]
  /\ UNCHANGED <<file, made, faults, shared, acked>>

(* A new prompt or tool list in the header rewrites the file whatever the  *)
(* flags say, and leaves them alone.                                       *)
SetHeader(p) ==
  /\ mem[p].up
  /\ Write(p, mem[p], Whole(mem[p]), WholeCut(mem[p]), mem[p], IdsOf(mem[p].entries))
  /\ UNCHANGED <<made, shared>>

EnsurePersisted(p) ==
  /\ mem[p].up
  /\ Write(p, mem[p], Whole(mem[p]), WholeCut(mem[p]), Flushed(mem[p]),
           IdsOf(mem[p].entries))
  /\ UNCHANGED <<made, shared>>

(* Mutant: the header is counted as an entry. *)
OpenedCountingHeader(lines) ==
  [up |-> TRUE, entries |-> lines, leaf |-> LeafOf(lines), flushed |-> TRUE,
   count |-> Len(lines) + 1]

Opened(lines) ==
  [up |-> TRUE, entries |-> lines, leaf |-> LeafOf(lines), flushed |-> TRUE,
   count |-> Len(lines)]

(* Any process can open a file that has a header.                          *)
Load(p) ==
  /\ ~mem[p].up /\ Loadable
  /\ mem' = [mem EXCEPT ![p] = Opened(file.lines)]
  /\ acked' = acked \cup IdsOf(file.lines)
  /\ shared' = (shared \/ \E q \in Procs : mem[q].up)
  /\ UNCHANGED <<file, made, faults>>

(* A process ends between two writes, in order or killed.                  *)
Exit(p) ==
  /\ mem[p].up
  /\ mem' = [mem EXCEPT ![p] = Empty(FALSE)]
  /\ UNCHANGED <<file, made, faults, shared, acked>>

LogNext ==
  \E p \in Procs :
    \/ \E kind \in Messages : AppendMessage(p, kind)
    \/ AppendCheckpoint(p) \/ ClearCheckpoint(p)
    \/ \E target \in Ids \cup {NoId} : MoveTo(p, target)
    \/ \E i \in Ids : ReplaceMessage(p, i)
    \/ SetHeader(p) \/ EnsurePersisted(p)
    \/ Load(p) \/ Exit(p)

LogSpec == LogInit /\ [][LogNext]_logVars

----------------------------------------------------------------------------
(* Entries that a later write of a live process brings back.               *)
Dirty(m) == m.count < Len(m.entries) \/ ~m.flushed
Healing ==
  UNION {IdsOf(mem[p].entries) : p \in {q \in Procs : mem[q].up /\ Dirty(mem[q])}}

Missing == acked \ (IdsOf(file.lines) \cup Healing)

(* What a reload walks is whole while the file has all that was written:   *)
(* every entry of the file has its parent, and a leaf its target, in the   *)
(* file.  An entry written before those it hangs from would end the walk   *)
(* of get_branch() there, as the comments in load() warn.                  *)
BranchesWhole ==
  acked \subseteq IdsOf(file.lines) =>
    \A i \in DOMAIN file.lines :
      /\ file.lines[i].parent \in IdsOf(file.lines) \cup {NoId}
      /\ file.lines[i].target \in IdsOf(file.lines) \cup {NoId}

Synced(p) ==
  /\ mem[p].up /\ ~Dirty(mem[p])
  /\ file.tail = "clean" /\ IdsOf(file.lines) = IdsOf(mem[p].entries)

(* A session that one process at a time has open and whose flags say that  *)
(* it is on disk can be opened again as it is: the messages of the slots   *)
(* are the current ones, and a run resumes the same checkpoint, or none.   *)
(* After a move in the tree the disk may offer one that memory has         *)
(* switched off, never the other way round.                                *)
DiskAgrees ==
  \A p \in Procs :
    ~shared /\ Synced(p) =>
      LET now == Checkpoint(mem[p].entries, mem[p].leaf)
          then == Checkpoint(file.lines, LeafOf(file.lines))
      IN  /\ \A id \in IdsOf(file.lines) :
               EntryOf(file.lines, id).text = EntryOf(mem[p].entries, id).text
          /\ now # then => /\ now = NoId
                            /\ \E i \in DOMAIN file.lines : file.lines[i].kind = "leaf"

(* A process that opens the session finds what the one before it had: a    *)
(* branch without gaps, its messages and its checkpoint.                   *)
ReloadIsFaithful == BranchesWhole /\ DiskAgrees

(* An entry whose writing has returned is lost only by a process that ends *)
(* with unwritten entries or in a write, by a rewrite of the header (or    *)
(* for a handoff) that fails while the flags call the file current, by a   *)
(* line behind an unfinished one, or by a process that rewrites the file   *)
(* without an entry of another.  A failed append is made good.             *)
Ends == \E p \in Procs : mem[p].up /\ ~mem'[p].up
FailedRewrite == faults' # faults /\ made' = made
Behind == file.tail # "clean" /\ file' # file /\ file'.lines = Glued.lines
Foreign ==
  \E p \in Procs :
    LET known == IdsOf(mem'[p].entries)
    IN  /\ mem[p].up /\ IdsOf(file'.lines) \subseteq known
        /\ ~(IdsOf(file.lines) \subseteq known)

LossNeedsCause ==
  [][Ends \/ FailedRewrite \/ Behind \/ Foreign \/ Missing' \subseteq Missing]_logVars
=============================================================================
