-------------------------- MODULE Sessions_proofs --------------------------
(***************************************************************************)
(* Theorems about a session: its log, for any processes and any number of  *)
(* entries and of failures, and undo and redo, for any files, any contents *)
(* and branches of any length.                                             *)
(***************************************************************************)
EXTENDS SessionLog, Revert, TLAPS, SequenceTheorems, WellFoundedInduction

----------------------------------------------------------------------------
(* The session log.                                                        *)
(*                                                                         *)
(* A rewrite puts into the file what one process holds, a new line only    *)
(* goes behind entries that were written.  So what an entry hangs from     *)
(* stands before it, or was written once; and while one process at a time  *)
(* is up, each line is one that the process remembers.                     *)

(* Entries are numbered as they are made. *)
Rising(entries, last) ==
  /\ \A i, j \in DOMAIN entries : i < j => entries[i].id < entries[j].id
  /\ \A i \in DOMAIN entries : entries[i].id <= last

Numbered == Rising(file.lines, made) /\ \A p \in Procs : Rising(mem[p].entries, made)

(* What an entry hangs from was written once, or stands before it.         *)
Hung(entries, written) ==
  \A i \in DOMAIN entries : \A id \in {entries[i].parent, entries[i].target} :
    id = NoId \/ id \in written \/ \E j \in 1..i - 1 : entries[j].id = id

Rooted == Hung(file.lines, acked) /\ \A p \in Procs : Hung(mem[p].entries, acked)

(* The entries a process counts were written. *)
Counted == \A p \in Procs : \A i \in 1..mem[p].count : mem[p].entries[i].id \in acked

(* The next entry hangs from where the session stands. *)
LeafKnown == \A p \in Procs : mem[p].leaf = LeafOf(mem[p].entries)

(* A session that was never shared has one process. *)
Lone == ~shared => \A p, q \in Procs : mem[p].up /\ mem[q].up => p = q

(* The same place in the tree. *)
Same(a, b) == a.id = b.id /\ a.parent = b.parent /\ a.kind = b.kind /\ a.target = b.target

(* There was a move, or a later checkpoint on the branch.                  *)
Overtaken(m, id) ==
  \/ \E i \in DOMAIN m.entries : m.entries[i].kind = "leaf"
  \/ \E i \in DOMAIN m.entries :
       /\ m.entries[i].kind = "checkpoint" /\ id < m.entries[i].id
       /\ m.entries[i].id \in Branch(m.entries, m.leaf)

(* A line of the file is what the process remembers, but for a message it  *)
(* has yet to rewrite and a checkpoint it has switched off.                *)
Alike(m, line, entry) ==
  /\ Same(line, entry)
  /\ m.flushed => line.text = entry.text
  /\ entry.active => line.active
  /\ line.active => entry.active \/ Overtaken(m, line.id)

(* Each line is an entry of the process. *)
Remembers(m, lines) ==
  \A i \in DOMAIN lines : \E j \in DOMAIN m.entries : Alike(m, lines[i], m.entries[j])

Remembered == ~shared => \A p \in Procs : mem[p].up => Remembers(mem[p], file.lines)

----------------------------------------------------------------------------
(* The file and the memory of a process *)

(* The beginning of a sequence. *)
Begins(short, long) ==
  Len(short) <= Len(long) /\ \A i \in 1..Len(short) : short[i] = long[i]

(* The first entries of a sequence. *)
LEMMA FirstEntries ==
  ASSUME NEW S, NEW s \in Seq(S), NEW n \in 0..Len(s)
  PROVE  /\ SubSeq(s, 1, n) \in Seq(S) /\ Len(SubSeq(s, 1, n)) = n
         /\ \A i \in 1..n : SubSeq(s, 1, n)[i] = s[i]
BY SubSeqProperties

(* What an entry is. *)
LEMMA EntryFacts ==
  /\ \A e \in EntryType :
       /\ e.id \in Ids /\ e.parent \in Ids \cup {NoId} /\ e.kind \in Kinds
       /\ e.target \in Ids \cup {NoId} /\ e.active \in BOOLEAN /\ e.text \in {"old", "new"}
  /\ \A id \in Ids, parent \in Ids \cup {NoId}, kind \in Kinds :
       LET e == Entry(id, parent, kind)
       IN  /\ e \in EntryType /\ e.id = id /\ e.parent = parent /\ e.kind = kind
           /\ e.target = NoId /\ e.active = FALSE /\ e.text = "old"
  /\ \A id \in Ids : id \in Nat /\ 1 <= id /\ id <= MaxEntries /\ id # NoId
BY LogBoundsAssumption DEF EntryType, Entry, Ids, NoId

(* What is in memory. *)
LEMMA MemoryFacts ==
  ASSUME NEW m \in MemoryType
  PROVE  /\ m.up \in BOOLEAN /\ m.entries \in Seq(EntryType) /\ m.leaf \in Ids \cup {NoId}
         /\ m.flushed \in BOOLEAN /\ m.count \in Nat
         /\ Len(m.entries) \in Nat /\ DOMAIN m.entries = 1..Len(m.entries)
         /\ \A i \in 1..Len(m.entries) : m.entries[i] \in EntryType
         /\ IdsOf(m.entries) \subseteq Ids
<1>1. m.entries \in Seq(EntryType)
  BY DEF MemoryType
<1>2. \A i \in 1..Len(m.entries) : m.entries[i] \in EntryType
  BY <1>1
<1> QED
  BY <1>1, <1>2, EntryFacts DEF MemoryType, IdsOf

(* What the file and the memories are. *)
LEMMA LogTypeFacts ==
  ASSUME LogTypeOK
  PROVE  /\ \A p \in Procs : mem[p] \in MemoryType /\ mem[p].count <= Len(mem[p].entries)
         /\ file.lines \in Seq(EntryType) /\ file.tail \in Tails /\ file.header \in BOOLEAN
         /\ Len(file.lines) \in Nat /\ DOMAIN file.lines = 1..Len(file.lines)
         /\ \A i \in 1..Len(file.lines) : file.lines[i] \in EntryType
         /\ IdsOf(file.lines) \subseteq Ids
         /\ made \in Nat /\ acked \subseteq Ids /\ shared \in BOOLEAN
         /\ made < MaxEntries => made + 1 \in Ids
<1>1. file.lines \in Seq(EntryType) /\ file.tail \in Tails /\ file.header \in BOOLEAN
  BY DEF LogTypeOK
<1>2. \A i \in 1..Len(file.lines) : file.lines[i] \in EntryType
  BY <1>1
<1>3. IdsOf(file.lines) \subseteq Ids
  BY <1>1, <1>2, EntryFacts DEF IdsOf
<1>4. made \in Nat /\ (made < MaxEntries => made + 1 \in Ids)
  BY LogBoundsAssumption DEF LogTypeOK, Ids
<1> QED
  BY <1>1, <1>2, <1>3, <1>4 DEF LogTypeOK

(* The file after a rewrite that stopped. *)
LEMMA WholeFacts ==
  ASSUME NEW m \in MemoryType, NEW f \in {Whole(m)} \cup WholeCut(m)
  PROVE  /\ f \in [header : BOOLEAN, lines : Seq(EntryType), tail : Tails]
         /\ Begins(f.lines, m.entries)
<1>1. m.entries \in Seq(EntryType) /\ Len(m.entries) \in Nat
  BY MemoryFacts
<1>2. CASE f = Whole(m)
  BY <1>1, <1>2 DEF Whole, Tails, Begins
<1>3. CASE \E tail \in {"clean", "torn"} : f = [header |-> FALSE, lines |-> <<>>, tail |-> tail]
  BY <1>1, <1>3 DEF Tails, Begins
<1>4. CASE \E n \in 0..Len(m.entries), tail \in Tails :
             f = [header |-> TRUE, lines |-> SubSeq(m.entries, 1, n), tail |-> tail]
  <2>1. PICK n \in 0..Len(m.entries), tail \in Tails :
               f = [header |-> TRUE, lines |-> SubSeq(m.entries, 1, n), tail |-> tail]
    BY <1>4
  <2> DEFINE short == SubSeq(m.entries, 1, n)
  <2>2. /\ short \in Seq(EntryType) /\ Len(short) = n
        /\ \A i \in 1..n : short[i] = m.entries[i]
    BY <1>1, FirstEntries
  <2> HIDE DEF short
  <2>3. f = [header |-> TRUE, lines |-> short, tail |-> tail]
    BY <2>1 DEF short
  <2> QED
    BY <1>1, <2>2, <2>3 DEF Begins
<1>5. \/ f = Whole(m)
      \/ \E tail \in {"clean", "torn"} : f = [header |-> FALSE, lines |-> <<>>, tail |-> tail]
      \/ \E n \in 0..Len(m.entries), tail \in Tails :
           f = [header |-> TRUE, lines |-> SubSeq(m.entries, 1, n), tail |-> tail]
  BY <1>1 DEF WholeCut, Tails
<1> QED
  BY <1>2, <1>3, <1>4, <1>5

(* What an unfinished line leaves of the others. *)
LEMMA GluedFacts ==
  ASSUME LogTypeOK
  PROVE  /\ Glued \in [header : BOOLEAN, lines : Seq(EntryType), tail : Tails]
         /\ Begins(Glued.lines, file.lines)
         /\ file.tail = "clean" => Glued = file
<1>1. /\ file \in [header : BOOLEAN, lines : Seq(EntryType), tail : Tails]
      /\ file.lines \in Seq(EntryType) /\ Len(file.lines) \in Nat
  BY LogTypeFacts DEF LogTypeOK
<1>2. CASE file.tail # "bare"
  BY <1>1, <1>2 DEF Glued, Begins
<1>3. CASE file.tail = "bare" /\ file.lines = <<>>
  <2>1. Glued = [file EXCEPT !.header = FALSE]
    BY <1>3 DEF Glued
  <2>2. Glued.lines = file.lines
    BY <1>1, <2>1
  <2>3. Glued \in [header : BOOLEAN, lines : Seq(EntryType), tail : Tails]
    BY <1>1, <2>1
  <2>4. Begins(Glued.lines, file.lines)
    BY <1>1, <2>2 DEF Begins
  <2> QED
    BY <1>3, <2>3, <2>4
<1>4. CASE file.tail = "bare" /\ file.lines # <<>>
  <2> DEFINE short == SubSeq(file.lines, 1, Len(file.lines) - 1)
  <2>1. 1 \in 1..Len(file.lines) + 1 /\ Len(file.lines) - 1 \in 0..Len(file.lines)
    BY <1>1, <1>4, EmptySeq
  <2>2. /\ short \in Seq(EntryType) /\ Len(short) = Len(file.lines) - 1
        /\ \A i \in 1..Len(file.lines) - 1 : short[i] = file.lines[i]
    BY <1>1, <2>1, FirstEntries
  <2>3. Glued = [file EXCEPT !.lines = short]
    BY <1>4 DEF Glued, Front
  <2> HIDE DEF short
  <2> QED
    BY <1>1, <1>4, <2>2, <2>3 DEF Begins
<1> QED
  BY <1>2, <1>3, <1>4

(* The file after a line was added, or a part of it. *)
LEMMA LongerFacts ==
  ASSUME LogTypeOK, NEW e \in EntryType, NEW f \in {Longer(e)} \cup LongerCut(e)
  PROVE  /\ f \in [header : BOOLEAN, lines : Seq(EntryType), tail : Tails]
         /\ Begins(f.lines, file.lines) \/ f.lines = Append(file.lines, e)
         /\ file.tail = "clean" => f.lines \in {file.lines, Append(file.lines, e)}
         /\ file.tail = "clean" /\ f = Longer(e) => f.lines = Append(file.lines, e)
         /\ file.tail # "clean" /\ f # file => f.lines = Glued.lines
<1>1. /\ file \in [header : BOOLEAN, lines : Seq(EntryType), tail : Tails]
      /\ file.lines \in Seq(EntryType) /\ Len(file.lines) \in Nat
      /\ "clean" \in Tails /\ "torn" \in Tails /\ "bare" \in Tails
  BY LogTypeFacts DEF LogTypeOK, Tails
<1> DEFINE longer == Append(file.lines, e)
<1>2. longer \in Seq(EntryType)
  BY <1>1, AppendProperties
<1>3. Added(e) = [file EXCEPT !.lines = longer]
  BY DEF Added
<1> HIDE DEF longer
<1>4. /\ Added(e) \in [header : BOOLEAN, lines : Seq(EntryType), tail : Tails]
      /\ Added(e).lines = longer
  BY <1>1, <1>2, <1>3
<1>5. /\ Glued \in [header : BOOLEAN, lines : Seq(EntryType), tail : Tails]
      /\ Begins(Glued.lines, file.lines)
      /\ file.tail = "clean" => Glued = file
  BY GluedFacts
<1>6. Begins(file.lines, file.lines)
  BY <1>1 DEF Begins
<1>7. CASE f = file
  BY <1>1, <1>6, <1>7 DEF Longer, Added
<1>8. CASE /\ \E tail \in Tails : f = [Glued EXCEPT !.tail = tail]
           /\ file.tail = "clean" => f # Longer(e)
  BY <1>1, <1>5, <1>8
<1>9. CASE file.tail = "clean" /\ \E tail \in Tails : f = [Added(e) EXCEPT !.tail = tail]
  BY <1>1, <1>4, <1>9 DEF longer
<1> QED
  BY <1>1, <1>4, <1>5, <1>7, <1>8, <1>9 DEF Longer, LongerCut

----------------------------------------------------------------------------
(* What a step does to the log *)

(* Nothing more counts as written: the write stopped, or was not due.      *)
Unwritten(p, m, e) ==
  /\ mem'[p] \in {m, Empty(FALSE)} /\ acked' = acked
  /\ \/ file' = file
     \/ file' \in WholeCut(m)
     \/ ~Lagging(m) /\ file' \in LongerCut(e)

(* The whole file is what the process holds.                               *)
Rewritten(p, m) ==
  mem'[p] \in {m, Flushed(m)} /\ file' = Whole(m) /\ acked' = acked \cup IdsOf(m.entries)

(* The new entry is the last line.                                         *)
Extended(p, m, e) ==
  /\ ~Lagging(m) /\ file' = Longer(e) /\ acked' = acked \cup {e.id}
  /\ mem'[p] = [m EXCEPT !.count = m.count + 1]

(* The other processes do not notice.                                      *)
Others(p) ==
  /\ mem' = [q \in Procs |-> mem'[q]] /\ \A q \in Procs \ {p} : mem'[q] = mem[q]
  /\ faults' \in 0..MaxFaults

(* The flags after a rewrite. *)
LEMMA FlushedFacts ==
  ASSUME NEW m \in MemoryType
  PROVE  /\ Flushed(m) \in MemoryType /\ Flushed(m).up = m.up
         /\ Flushed(m).entries = m.entries /\ Flushed(m).leaf = m.leaf
         /\ Flushed(m).flushed /\ Flushed(m).count = Len(m.entries)
<1> DEFINE n == Len(m.entries)
<1>1. n \in Nat
  BY MemoryFacts
<1> HIDE DEF n
<1>2. Flushed(m) = [m EXCEPT !.flushed = TRUE, !.count = n]
  BY DEF Flushed, n
<1>3. Flushed(m) \in MemoryType
  BY <1>1, <1>2 DEF MemoryType
<1>4. /\ Flushed(m).up = m.up /\ Flushed(m).entries = m.entries /\ Flushed(m).leaf = m.leaf
      /\ Flushed(m).flushed /\ Flushed(m).count = n
  BY <1>2 DEF MemoryType
<1> QED
  BY <1>3, <1>4 DEF n

(* The count after a line was added. *)
LEMMA CountFacts ==
  ASSUME NEW m \in MemoryType, NEW after, after = [m EXCEPT !.count = m.count + 1]
  PROVE  /\ after \in MemoryType /\ after.up = m.up /\ after.entries = m.entries
         /\ after.leaf = m.leaf /\ after.flushed = m.flushed /\ after.count = m.count + 1
<1> DEFINE n == m.count + 1
<1>1. n \in Nat
  BY MemoryFacts
<1>2. after = [m EXCEPT !.count = n]
  OBVIOUS
<1> HIDE DEF n
<1>3. /\ after \in MemoryType /\ after.up = m.up /\ after.entries = m.entries
      /\ after.leaf = m.leaf /\ after.flushed = m.flushed /\ after.count = n
  BY <1>1, <1>2 DEF MemoryType
<1> QED
  BY <1>3 DEF n

(* A process that has nothing. *)
LEMMA EmptyFacts ==
  \A up \in BOOLEAN :
    /\ Empty(up) \in MemoryType /\ Empty(up).up = up /\ Empty(up).entries = <<>>
    /\ Empty(up).leaf = NoId /\ Empty(up).count = 0
    /\ Empty(up).count <= Len(Empty(up).entries)
<1>1. \A up \in BOOLEAN :
        /\ Empty(up).up = up /\ Empty(up).entries = <<>>
        /\ Empty(up).leaf = NoId /\ Empty(up).count = 0
        /\ Empty(up).count <= Len(Empty(up).entries)
  BY DEF Empty
<1>2. \A up \in BOOLEAN : Empty(up) \in MemoryType
  BY DEF Empty, MemoryType
<1> QED
  BY <1>1, <1>2

(* One of the three happens to an entry that was added. *)
LEMMA PersistFacts ==
  ASSUME LogTypeOK, NEW p \in Procs, NEW m \in MemoryType, NEW e \in EntryType,
         mem[p].up, Persist(p, m, e)
  PROVE  /\ Unwritten(p, m, e) \/ Rewritten(p, m) \/ Extended(p, m, e)
         /\ Others(p)
<1>1. mem \in [Procs -> MemoryType] /\ faults \in 0..MaxFaults /\ MaxFaults \in Nat
  BY LogBoundsAssumption DEF LogTypeOK
<1>9. \A left : mem' = [mem EXCEPT ![p] = left] =>
        /\ mem'[p] = left /\ mem' = [q \in Procs |-> mem'[q]]
        /\ \A q \in Procs \ {p} : mem'[q] = mem[q]
  BY <1>1
<1>2. CASE mem' = [mem EXCEPT ![p] = m] /\ UNCHANGED <<file, faults, acked>>
  BY <1>1, <1>2, <1>9 DEF Unwritten, Others
<1>3. CASE Lagging(m) /\ Write(p, m, Whole(m), WholeCut(m), Flushed(m), IdsOf(m.entries))
  <2>1. CASE /\ file' = Whole(m) /\ mem' = [mem EXCEPT ![p] = Flushed(m)]
             /\ acked' = acked \cup IdsOf(m.entries) /\ faults' = faults
    BY <1>1, <1>9, <2>1 DEF Rewritten, Others
  <2>2. CASE /\ faults < MaxFaults /\ faults' = faults + 1 /\ file' \in WholeCut(m)
             /\ \E left \in {m, Empty(FALSE)} : mem' = [mem EXCEPT ![p] = left]
             /\ acked' = acked
    <3>1. PICK left \in {m, Empty(FALSE)} : mem' = [mem EXCEPT ![p] = left]
      BY <2>2
    <3>2. mem'[p] \in {m, Empty(FALSE)}
      BY <1>9, <3>1
    <3>3. faults' \in 0..MaxFaults
      BY <1>1, <2>2
    <3> QED
      BY <1>3, <1>9, <2>2, <3>1, <3>2, <3>3 DEF Unwritten, Others
  <2> QED
    BY <1>3, <2>1, <2>2 DEF Write
<1>4. CASE /\ ~Lagging(m)
           /\ Write(p, m, Longer(e), LongerCut(e), [m EXCEPT !.count = m.count + 1], {e.id})
  <2> DEFINE after == [m EXCEPT !.count = m.count + 1]
  <2>1. Write(p, m, Longer(e), LongerCut(e), after, {e.id})
    BY <1>4
  <2> HIDE DEF after
  <2>2. CASE /\ file' = Longer(e) /\ mem' = [mem EXCEPT ![p] = after]
             /\ acked' = acked \cup {e.id} /\ faults' = faults
    <3>1. /\ mem'[p] = after /\ mem' = [q \in Procs |-> mem'[q]]
          /\ \A q \in Procs \ {p} : mem'[q] = mem[q]
      BY <1>9, <2>2
    <3> QED
      BY <1>1, <1>4, <2>2, <3>1 DEF Extended, Others, after
  <2>3. CASE /\ faults < MaxFaults /\ faults' = faults + 1 /\ file' \in LongerCut(e)
             /\ \E left \in {m, Empty(FALSE)} : mem' = [mem EXCEPT ![p] = left]
             /\ acked' = acked
    <3>1. PICK left \in {m, Empty(FALSE)} : mem' = [mem EXCEPT ![p] = left]
      BY <2>3
    <3>2. mem'[p] \in {m, Empty(FALSE)}
      BY <1>9, <3>1
    <3>3. faults' \in 0..MaxFaults
      BY <1>1, <2>3
    <3> QED
      BY <1>4, <1>9, <2>3, <3>1, <3>2, <3>3 DEF Unwritten, Others
  <2> QED
    BY <2>1, <2>2, <2>3 DEF Write
<1> QED
  BY <1>2, <1>3, <1>4 DEF Persist

(* The entry that is made hangs from the leaf.                             *)
New(p, e) ==
  /\ e \in EntryType /\ e.id = made + 1 /\ e.parent = mem[p].leaf /\ e.text = "old"
  /\ e.target \in IdsOf(mem[p].entries) \cup {NoId}

(* A new checkpoint switches off others, and changes nothing else.         *)
Switched(p, before, e) ==
  /\ before \in Seq(EntryType) /\ Len(before) = Len(mem[p].entries)
  /\ \A i \in 1..Len(before) :
       /\ Same(mem[p].entries[i], before[i]) /\ before[i].text = mem[p].entries[i].text
       /\ before[i].active => mem[p].entries[i].active
       /\ mem[p].entries[i].active => before[i].active \/ e.kind = "checkpoint"

(* What the process holds with the new entry.                              *)
With(p, before, e, m) ==
  /\ m \in MemoryType /\ m.up /\ m.entries = Append(before, e)
  /\ m.leaf = (IF e.kind = "leaf" THEN e.target ELSE e.id)
  /\ m.flushed = mem[p].flushed /\ m.count = mem[p].count

(* An entry is added behind those of some memory. *)
LEMMA AppendEntryFacts ==
  ASSUME NEW p \in Procs, NEW base \in MemoryType, NEW e \in EntryType, base.up,
         base.flushed = mem[p].flushed, base.count = mem[p].count, AppendEntry(p, base, e)
  PROVE  /\ made < MaxEntries /\ made' = made + 1
         /\ \E m \in MemoryType : With(p, base.entries, e, m) /\ Persist(p, m, e)
<1> DEFINE longer == Append(base.entries, e)
           leaf == IF e.kind = "leaf" THEN e.target ELSE e.id
           m == [base EXCEPT !.entries = longer, !.leaf = leaf]
<1>1. longer \in Seq(EntryType)
  BY MemoryFacts, AppendProperties
<1>2. leaf \in Ids \cup {NoId}
  BY EntryFacts
<1>3. made < MaxEntries /\ made' = made + 1 /\ Persist(p, m, e)
  BY DEF AppendEntry
<1> HIDE DEF longer, leaf
<1>4. /\ m \in MemoryType /\ m.up = base.up /\ m.entries = longer /\ m.leaf = leaf
      /\ m.flushed = base.flushed /\ m.count = base.count
  BY <1>1, <1>2 DEF MemoryType
<1> HIDE DEF m
<1> QED
  BY <1>3, <1>4 DEF With, longer, leaf

(* What the operations that add an entry have in common. *)
LEMMA AddingFacts ==
  ASSUME LogTypeOK, NEW p \in Procs,
         \/ \E kind \in Messages : AppendMessage(p, kind)
         \/ AppendCheckpoint(p) \/ ClearCheckpoint(p) \/ \E target : MoveTo(p, target)
  PROVE  /\ mem[p].up /\ made < MaxEntries /\ made' = made + 1 /\ shared' = shared
         /\ \E before \in Seq(EntryType), e \in EntryType :
              /\ New(p, e) /\ Switched(p, before, e)
              /\ \E m \in MemoryType : With(p, before, e, m) /\ Persist(p, m, e)
<1>1. /\ mem[p] \in MemoryType /\ mem[p].entries \in Seq(EntryType)
      /\ Len(mem[p].entries) \in Nat /\ mem[p].leaf \in Ids \cup {NoId}
      /\ DOMAIN mem[p].entries = 1..Len(mem[p].entries)
      /\ \A i \in 1..Len(mem[p].entries) : mem[p].entries[i] \in EntryType
      /\ IdsOf(mem[p].entries) \subseteq Ids
  BY LogTypeFacts, MemoryFacts
<1>2. \A e : Switched(p, mem[p].entries, e)
  BY <1>1 DEF Switched, Same
<1>3. ASSUME NEW e \in EntryType, New(p, e), mem[p].up, AppendEntry(p, mem[p], e)
      PROVE  /\ made < MaxEntries /\ made' = made + 1
             /\ \E before \in Seq(EntryType), entry \in EntryType :
                  /\ New(p, entry) /\ Switched(p, before, entry)
                  /\ \E m \in MemoryType : With(p, before, entry, m) /\ Persist(p, m, entry)
  BY <1>1, <1>2, <1>3, AppendEntryFacts
<1>4. \A kind \in Kinds : made < MaxEntries =>
        LET e == NewEntry(p, kind)
        IN  /\ e \in EntryType /\ e.id = made + 1 /\ e.parent = mem[p].leaf /\ e.kind = kind
            /\ e.target = NoId /\ e.active = FALSE /\ e.text = "old"
  <2> SUFFICES ASSUME NEW kind \in Kinds, made < MaxEntries
               PROVE  LET e == NewEntry(p, kind)
                      IN  /\ e \in EntryType /\ e.id = made + 1 /\ e.parent = mem[p].leaf
                          /\ e.kind = kind /\ e.target = NoId /\ e.active = FALSE
                          /\ e.text = "old"
    OBVIOUS
  <2> DEFINE id == made + 1
             parent == mem[p].leaf
  <2>1. id \in Ids /\ parent \in Ids \cup {NoId}
    BY <1>1, LogTypeFacts
  <2>2. NewEntry(p, kind) = Entry(id, parent, kind)
    BY DEF NewEntry
  <2> HIDE DEF id, parent
  <2>3. LET e == Entry(id, parent, kind)
        IN  /\ e \in EntryType /\ e.id = id /\ e.parent = parent /\ e.kind = kind
            /\ e.target = NoId /\ e.active = FALSE /\ e.text = "old"
    BY <2>1, EntryFacts
  <2> QED
    BY <2>2, <2>3 DEF id, parent
<1>5. ASSUME NEW kind \in Messages, AppendMessage(p, kind)
      PROVE  /\ mem[p].up /\ shared' = shared /\ New(p, NewEntry(p, kind))
             /\ AppendEntry(p, mem[p], NewEntry(p, kind))
  <2>1. kind \in Kinds /\ made < MaxEntries
    BY <1>5, MessagesAssumption DEF Kinds, AppendMessage, AppendEntry
  <2> QED
    BY <1>4, <1>5, <2>1 DEF AppendMessage, New
<1>6. ASSUME ClearCheckpoint(p)
      PROVE  /\ mem[p].up /\ shared' = shared /\ New(p, NewEntry(p, "checkpoint"))
             /\ AppendEntry(p, mem[p], NewEntry(p, "checkpoint"))
  <2>1. "checkpoint" \in Kinds /\ made < MaxEntries
    BY <1>6 DEF Kinds, ClearCheckpoint, AppendEntry
  <2> QED
    BY <1>4, <1>6, <2>1 DEF ClearCheckpoint, New
<1>7. ASSUME NEW target, MoveTo(p, target)
      PROVE  /\ mem[p].up /\ shared' = shared
             /\ \E e \in EntryType : New(p, e) /\ AppendEntry(p, mem[p], e)
  <2> DEFINE old == NewEntry(p, "leaf")
             e == [old EXCEPT !.target = target]
  <2>1. "leaf" \in Kinds /\ made < MaxEntries /\ target \in IdsOf(mem[p].entries) \cup {NoId}
        /\ AppendEntry(p, mem[p], e) /\ mem[p].up /\ shared' = shared
    BY <1>7 DEF Kinds, MoveTo, AppendEntry
  <2>2. old \in EntryType /\ old.id = made + 1 /\ old.parent = mem[p].leaf /\ old.text = "old"
    BY <1>4, <2>1
  <2> HIDE DEF old
  <2>3. /\ e \in EntryType /\ e.id = old.id /\ e.parent = old.parent /\ e.text = old.text
        /\ e.target = target
    BY <1>1, <2>1, <2>2 DEF EntryType
  <2> HIDE DEF e
  <2> QED
    BY <2>1, <2>2, <2>3 DEF New
<1>8. ASSUME AppendCheckpoint(p)
      PROVE  /\ mem[p].up /\ made < MaxEntries /\ made' = made + 1 /\ shared' = shared
             /\ \E before \in Seq(EntryType), e \in EntryType :
                  /\ New(p, e) /\ Switched(p, before, e)
                  /\ \E m \in MemoryType : With(p, before, e, m) /\ Persist(p, m, e)
  <2> DEFINE off == [i \in DOMAIN mem[p].entries |->
                       [mem[p].entries[i] EXCEPT
                          !.active = mem[p].entries[i].active /\ ~OnBranch(p, i)]]
             old == NewEntry(p, "checkpoint")
             e == [old EXCEPT !.active = TRUE]
             base == [mem[p] EXCEPT !.entries = off]
  <2>1. "checkpoint" \in Kinds /\ made < MaxEntries /\ AppendEntry(p, base, e)
        /\ mem[p].up /\ shared' = shared
    BY <1>8 DEF Kinds, AppendCheckpoint, AppendEntry
  <2>2. /\ old \in EntryType /\ old.id = made + 1 /\ old.parent = mem[p].leaf
        /\ old.text = "old" /\ old.target = NoId /\ old.kind = "checkpoint"
    BY <1>4, <2>1
  <2> HIDE DEF old
  <2>3. /\ e \in EntryType /\ e.id = old.id /\ e.parent = old.parent /\ e.text = old.text
        /\ e.target = old.target /\ e.kind = old.kind
    BY <2>2 DEF EntryType
  <2> HIDE DEF e
  <2>4. ASSUME NEW i \in 1..Len(mem[p].entries)
        PROVE  /\ off[i] \in EntryType /\ Same(mem[p].entries[i], off[i])
               /\ off[i].text = mem[p].entries[i].text
               /\ off[i].active => mem[p].entries[i].active
    <3> DEFINE entry == mem[p].entries[i]
               active == entry.active /\ ~OnBranch(p, i)
    <3>1. entry \in EntryType /\ active \in BOOLEAN /\ (active => entry.active)
      BY <1>1, EntryFacts
    <3>2. off[i] = [entry EXCEPT !.active = active]
      BY <1>1
    <3> HIDE DEF entry, active, off
    <3>3. /\ off[i] \in EntryType /\ Same(entry, off[i]) /\ off[i].text = entry.text
          /\ off[i].active = active
      BY <3>1, <3>2 DEF EntryType, Same
    <3> QED
      BY <3>1, <3>3 DEF entry
  <2>5. off = [i \in 1..Len(mem[p].entries) |-> off[i]]
    BY <1>1
  <2> HIDE DEF off
  <2>6. off \in Seq(EntryType) /\ Len(off) = Len(mem[p].entries)
    <3> DEFINE n == Len(mem[p].entries)
    <3>1. off \in [1..n -> EntryType]
      BY <2>4, <2>5
    <3>2. n \in Nat
      BY <1>1
    <3> HIDE DEF n
    <3>3. off \in Seq(EntryType) /\ Len(off) = n
      BY <3>1, <3>2
    <3> QED
      BY <3>3 DEF n
  <2>7. Switched(p, off, e)
    BY <2>2, <2>3, <2>4, <2>6 DEF Switched
  <2>8. /\ base \in MemoryType /\ base.up = mem[p].up /\ base.entries = off
        /\ base.flushed = mem[p].flushed /\ base.count = mem[p].count
    BY <1>1, <2>6 DEF MemoryType
  <2> HIDE DEF base
  <2>9. New(p, e)
    BY <2>2, <2>3 DEF New
  <2>10. /\ made' = made + 1
         /\ \E m \in MemoryType : With(p, base.entries, e, m) /\ Persist(p, m, e)
    BY <2>1, <2>3, <2>8, AppendEntryFacts
  <2> QED
    BY <2>1, <2>3, <2>6, <2>7, <2>8, <2>9, <2>10
<1> QED
  BY <1>3, <1>5, <1>6, <1>7, <1>8, <1>1 DEF New

----------------------------------------------------------------------------
(* The steps of the log *)

(* A process adds an entry.                                                *)
Adds(p, before, e, m) ==
  /\ mem[p].up /\ made < MaxEntries /\ made' = made + 1 /\ shared' = shared
  /\ New(p, e) /\ Switched(p, before, e) /\ With(p, before, e, m) /\ Others(p)
  /\ Unwritten(p, m, e) \/ Rewritten(p, m) \/ Extended(p, m, e)

(* A rewrite that adds nothing stops half way.                             *)
Stopped(p) ==
  /\ faults' # faults /\ file' \in WholeCut(mem[p]) /\ acked' = acked
  /\ mem'[p] \in {mem[p], Empty(FALSE)}

(* A process rewrites the file and adds nothing.                           *)
Restates(p) ==
  /\ mem[p].up /\ made' = made /\ shared' = shared /\ Others(p)
  /\ Rewritten(p, mem[p]) \/ Stopped(p)

(* A process changes a message.                                            *)
Replaces(p) ==
  /\ mem[p].up /\ made' = made /\ shared' = shared /\ Others(p)
  /\ file' = file /\ acked' = acked
  /\ mem'[p] \in MemoryType /\ mem'[p].up /\ mem'[p].leaf = mem[p].leaf
  /\ ~mem'[p].flushed /\ mem'[p].count = mem[p].count
  /\ Len(mem'[p].entries) = Len(mem[p].entries)
  /\ \A i \in 1..Len(mem[p].entries) :
       /\ Same(mem[p].entries[i], mem'[p].entries[i])
       /\ mem'[p].entries[i].active = mem[p].entries[i].active

(* A process opens the file.                                               *)
Loads(p) ==
  /\ ~mem[p].up /\ made' = made /\ Others(p) /\ file' = file
  /\ acked' = acked \cup IdsOf(file.lines)
  /\ shared' = (shared \/ \E q \in Procs : mem[q].up)
  /\ mem'[p] \in MemoryType /\ mem'[p].up /\ mem'[p].entries = file.lines
  /\ mem'[p].leaf = LeafOf(file.lines) /\ mem'[p].count = Len(file.lines)

(* A process ends.                                                         *)
Exits(p) ==
  /\ mem[p].up /\ made' = made /\ shared' = shared /\ Others(p)
  /\ file' = file /\ acked' = acked /\ mem'[p] = Empty(FALSE)

(* The leaf of well-formed entries is an entry. *)
LEMMA LeafType ==
  ASSUME NEW entries \in Seq(EntryType)
  PROVE  LeafOf(entries) \in Ids \cup {NoId}
<1>1. entries # <<>> => Last(entries) \in EntryType
  BY EmptySeq DEF Last
<1> QED
  BY <1>1, EntryFacts DEF LeafOf

(* A change of one memory leaves the others. *)
LEMMA OthersFacts ==
  ASSUME LogTypeOK, NEW p \in Procs, NEW left, mem' = [mem EXCEPT ![p] = left],
         faults' \in 0..MaxFaults
  PROVE  Others(p) /\ mem'[p] = left
BY DEF Others, LogTypeOK

(* A rewrite that does not wait for an entry. *)
LEMMA RestateFacts ==
  ASSUME LogTypeOK, NEW p \in Procs, SetHeader(p) \/ EnsurePersisted(p)
  PROVE  Restates(p)
<1> DEFINE m == mem[p]
<1>1. /\ m.up /\ made' = made /\ shared' = shared
      /\ \E after \in {m, Flushed(m)} :
           Write(p, m, Whole(m), WholeCut(m), after, IdsOf(m.entries))
  BY DEF SetHeader, EnsurePersisted
<1> HIDE DEF m
<1>2. PICK after \in {m, Flushed(m)} :
             Write(p, m, Whole(m), WholeCut(m), after, IdsOf(m.entries))
  BY <1>1
<1>3. faults \in 0..MaxFaults /\ MaxFaults \in Nat
  BY LogBoundsAssumption DEF LogTypeOK
<1>4. CASE /\ file' = Whole(m) /\ mem' = [mem EXCEPT ![p] = after]
           /\ acked' = acked \cup IdsOf(m.entries) /\ faults' = faults
  <2>1. Others(p) /\ mem'[p] = after
    BY <1>3, <1>4, OthersFacts
  <2>2. Rewritten(p, m)
    BY <1>2, <1>4, <2>1 DEF Rewritten
  <2> QED
    BY <1>1, <2>1, <2>2 DEF Restates, m
<1>5. CASE /\ faults < MaxFaults /\ faults' = faults + 1 /\ file' \in WholeCut(m)
           /\ \E left \in {m, Empty(FALSE)} : mem' = [mem EXCEPT ![p] = left]
           /\ acked' = acked
  <2>1. PICK left \in {m, Empty(FALSE)} : mem' = [mem EXCEPT ![p] = left]
    BY <1>5
  <2>2. faults' \in 0..MaxFaults /\ faults' # faults
    BY <1>3, <1>5
  <2>3. Others(p) /\ mem'[p] = left
    BY <2>1, <2>2, OthersFacts
  <2> QED
    BY <1>1, <1>5, <2>2, <2>3 DEF Restates, Stopped, m
<1> QED
  BY <1>2, <1>4, <1>5 DEF Write

(* A message that is replaced stays where it is in the tree. *)
LEMMA ReplaceFacts ==
  ASSUME LogTypeOK, NEW p \in Procs, NEW i, ReplaceMessage(p, i)
  PROVE  Replaces(p)
<1> DEFINE old == mem[p].entries
           changed == [old[i] EXCEPT !.text = "new"]
           entries == [old EXCEPT ![i] = changed]
           last == [mem[p] EXCEPT !.entries = entries]
           left == [last EXCEPT !.flushed = FALSE]
<1>1. /\ mem[p] \in MemoryType /\ old \in Seq(EntryType) /\ Len(old) \in Nat
      /\ DOMAIN old = 1..Len(old) /\ i \in 1..Len(old) /\ mem[p].up
      /\ \A k \in 1..Len(old) : old[k] \in EntryType
  BY LogTypeFacts, MemoryFacts DEF ReplaceMessage
<1>2. faults \in 0..MaxFaults
  BY DEF LogTypeOK
<1>3. mem' = [mem EXCEPT ![p] = left] /\ UNCHANGED <<file, made, faults, shared, acked>>
  BY DEF ReplaceMessage, LogTypeOK
<1>4. /\ changed \in EntryType /\ Same(old[i], changed) /\ changed.active = old[i].active
  BY <1>1 DEF EntryType, Same
<1> HIDE DEF changed
<1>5. /\ entries \in Seq(EntryType) /\ Len(entries) = Len(old)
      /\ \A k \in 1..Len(old) :
           Same(old[k], entries[k]) /\ entries[k].active = old[k].active
  BY <1>1, <1>4 DEF Same
<1> HIDE DEF entries
<1>6. /\ last \in MemoryType /\ last.up = mem[p].up /\ last.leaf = mem[p].leaf
      /\ last.count = mem[p].count /\ last.entries = entries
  BY <1>1, <1>5 DEF MemoryType
<1> HIDE DEF last
<1>7. /\ left \in MemoryType /\ left.up = last.up /\ left.leaf = last.leaf
      /\ left.count = last.count /\ left.entries = last.entries /\ ~left.flushed
  BY <1>6 DEF MemoryType
<1> HIDE DEF left
<1>8. Others(p) /\ mem'[p] = left
  BY <1>2, <1>3, OthersFacts
<1> QED
  BY <1>1, <1>3, <1>5, <1>6, <1>7, <1>8 DEF Replaces

(* A process takes what the file holds. *)
LEMMA LoadFacts ==
  ASSUME LogTypeOK, NEW p \in Procs, Load(p)
  PROVE  Loads(p)
<1> DEFINE leaf == LeafOf(file.lines)
           count == Len(file.lines)
           lines == file.lines
           left == Opened(lines)
<1>1. leaf \in Ids \cup {NoId} /\ count \in Nat /\ lines \in Seq(EntryType)
  BY LeafType, LogTypeFacts
<1>2. faults \in 0..MaxFaults
  BY DEF LogTypeOK
<1>3. /\ ~mem[p].up /\ mem' = [mem EXCEPT ![p] = left] /\ UNCHANGED <<file, made, faults>>
      /\ acked' = acked \cup IdsOf(lines)
      /\ shared' = (shared \/ \E q \in Procs : mem[q].up)
  BY DEF Load
<1>4. left = [up |-> TRUE, entries |-> lines, leaf |-> leaf, flushed |-> TRUE, count |-> count]
  BY DEF Opened
<1> HIDE DEF leaf, count, lines, left
<1>5. /\ left \in MemoryType /\ left.up /\ left.entries = lines /\ left.leaf = leaf
      /\ left.count = count
  BY <1>1, <1>4 DEF MemoryType
<1>6. Others(p) /\ mem'[p] = left
  BY <1>2, <1>3, OthersFacts
<1> QED
  BY <1>3, <1>5, <1>6 DEF Loads, leaf, count, lines

(* What every step does. *)
LEMMA StepFacts ==
  ASSUME LogTypeOK, LogNext
  PROVE  \E p \in Procs :
           \/ \E before \in Seq(EntryType), e \in EntryType, m \in MemoryType :
                Adds(p, before, e, m)
           \/ Restates(p) \/ Replaces(p) \/ Loads(p) \/ Exits(p)
<1>1. PICK p \in Procs :
        \/ \E kind \in Messages : AppendMessage(p, kind)
        \/ AppendCheckpoint(p) \/ ClearCheckpoint(p)
        \/ \E target \in Ids \cup {NoId} : MoveTo(p, target)
        \/ \E i \in Ids : ReplaceMessage(p, i)
        \/ SetHeader(p) \/ EnsurePersisted(p)
        \/ Load(p) \/ Exit(p)
  BY DEF LogNext
<1>2. CASE \/ \E kind \in Messages : AppendMessage(p, kind)
           \/ AppendCheckpoint(p) \/ ClearCheckpoint(p) \/ \E target : MoveTo(p, target)
  <2>1. /\ mem[p].up /\ made < MaxEntries /\ made' = made + 1 /\ shared' = shared
        /\ \E before \in Seq(EntryType), e \in EntryType :
             /\ New(p, e) /\ Switched(p, before, e)
             /\ \E m \in MemoryType : With(p, before, e, m) /\ Persist(p, m, e)
    BY <1>2, AddingFacts
  <2>2. PICK before \in Seq(EntryType), e \in EntryType :
             /\ New(p, e) /\ Switched(p, before, e)
             /\ \E m \in MemoryType : With(p, before, e, m) /\ Persist(p, m, e)
    BY <2>1
  <2>3. PICK m \in MemoryType : With(p, before, e, m) /\ Persist(p, m, e)
    BY <2>2
  <2>4. /\ Unwritten(p, m, e) \/ Rewritten(p, m) \/ Extended(p, m, e)
        /\ Others(p)
    BY <2>1, <2>3, PersistFacts
  <2>5. Adds(p, before, e, m)
    BY <2>1, <2>2, <2>3, <2>4 DEF Adds
  <2> QED
    BY <2>5
<1>3. ASSUME NEW i \in Ids, ReplaceMessage(p, i) PROVE Replaces(p)
  BY <1>3, ReplaceFacts
<1>4. CASE Exit(p)
  <2>1. Others(p) /\ mem'[p] = Empty(FALSE)
    BY <1>4, OthersFacts DEF Exit, LogTypeOK
  <2> QED
    BY <1>4, <2>1 DEF Exit, Exits
<1> QED
  BY <1>1, <1>2, <1>3, <1>4, RestateFacts, LoadFacts

----------------------------------------------------------------------------
(* Types *)

(* What a write leaves in memory, and of what it counts as written.        *)
Outcome(p, m) ==
  /\ file' \in [header : BOOLEAN, lines : Seq(EntryType), tail : Tails]
  /\ mem'[p] \in MemoryType /\ mem'[p].count <= Len(mem'[p].entries)
  /\ acked \subseteq acked' /\ acked' \subseteq Ids
  /\ \/ mem'[p] = Empty(FALSE)
     \/ /\ mem'[p].up /\ mem'[p].entries = m.entries /\ mem'[p].leaf = m.leaf
        /\ \A i \in 1..mem'[p].count : i <= m.count \/ m.entries[i].id \in acked'
        /\ mem'[p].flushed => m.flushed \/ file'.lines = m.entries

(* The file after a write is the beginning of what it was, or of what the  *)
(* process holds, or has one line more. *)
Lines(m, e) ==
  \/ Begins(file'.lines, file.lines) \/ Begins(file'.lines, m.entries)
  \/ ~Lagging(m) /\ file'.lines = Append(file.lines, e)

(* A rewrite puts all the process holds into the file. *)
LEMMA RewrittenFacts ==
  ASSUME LogTypeOK, NEW p \in Procs, NEW m \in MemoryType, m.up,
         m.count <= Len(m.entries), Rewritten(p, m)
  PROVE  Outcome(p, m) /\ file'.lines = m.entries /\ Begins(file'.lines, m.entries)
<1>1. /\ m.entries \in Seq(EntryType) /\ Len(m.entries) \in Nat /\ IdsOf(m.entries) \subseteq Ids
      /\ DOMAIN m.entries = 1..Len(m.entries)
  BY MemoryFacts
<1>2. /\ file' \in [header : BOOLEAN, lines : Seq(EntryType), tail : Tails]
      /\ Begins(file'.lines, m.entries)
  BY WholeFacts DEF Rewritten
<1>3. file'.lines = m.entries /\ acked' = acked \cup IdsOf(m.entries) /\ acked \subseteq Ids
  BY DEF Rewritten, Whole, LogTypeOK
<1>4. /\ mem'[p] \in MemoryType /\ mem'[p].count <= Len(mem'[p].entries)
      /\ mem'[p].up /\ mem'[p].entries = m.entries /\ mem'[p].leaf = m.leaf
  <2>1. CASE mem'[p] = m
    BY <2>1
  <2>2. CASE mem'[p] = Flushed(m)
    <3>1. /\ Flushed(m) \in MemoryType /\ Flushed(m).up /\ Flushed(m).entries = m.entries
          /\ Flushed(m).leaf = m.leaf /\ Flushed(m).count = Len(m.entries)
      BY FlushedFacts
    <3>2. Flushed(m).count <= Len(Flushed(m).entries)
      BY <1>1, <3>1
    <3> QED
      BY <2>2, <3>1, <3>2
  <2> QED
    BY <2>1, <2>2 DEF Rewritten
<1>5. \A i \in 1..Len(m.entries) : m.entries[i].id \in acked'
  BY <1>1, <1>3 DEF IdsOf
<1>6. mem'[p].count \in Nat /\ Len(m.entries) \in Nat
  BY <1>1, <1>4, MemoryFacts
<1>7. \A i \in 1..mem'[p].count : i \in 1..Len(m.entries)
  BY <1>4, <1>6
<1> QED
  BY <1>1, <1>2, <1>3, <1>4, <1>5, <1>7 DEF Outcome

(* A rewrite may stop and leave the flags as they were. *)
LEMMA StoppedFacts ==
  ASSUME LogTypeOK, NEW p \in Procs, NEW m \in MemoryType, m.up,
         m.count <= Len(m.entries), mem'[p] \in {m, Empty(FALSE)}, acked' = acked,
         file' \in [header : BOOLEAN, lines : Seq(EntryType), tail : Tails]
  PROVE  Outcome(p, m)
<1>1. m.count \in Nat /\ acked \subseteq Ids
  BY MemoryFacts DEF LogTypeOK
<1>2. \A i \in 1..m.count : i <= m.count
  BY <1>1
<1>3. CASE mem'[p] = m
  BY <1>1, <1>2, <1>3 DEF Outcome
<1>4. CASE mem'[p] = Empty(FALSE)
  <2>1. mem'[p] \in MemoryType /\ mem'[p].count <= Len(mem'[p].entries)
    BY <1>4, EmptyFacts
  <2> QED
    BY <1>1, <1>4, <2>1 DEF Outcome
<1> QED
  BY <1>3, <1>4

(* What the process holds when it writes a new entry. *)
LEMMA HeldFacts ==
  ASSUME LogTypeOK, NEW p \in Procs, NEW before \in Seq(EntryType), NEW e \in EntryType,
         NEW m \in MemoryType, Adds(p, before, e, m)
  PROVE  /\ Len(mem[p].entries) \in Nat /\ Len(m.entries) = Len(mem[p].entries) + 1
         /\ m.entries[Len(m.entries)] = e /\ m.up
         /\ \A i \in 1..Len(mem[p].entries) :
              m.entries[i] = before[i] /\ Same(mem[p].entries[i], m.entries[i])
         /\ m.count = mem[p].count /\ m.count \in Nat /\ m.count <= Len(m.entries) - 1
         /\ ~Lagging(m) => m.flushed /\ m.count = Len(mem[p].entries)
<1>1. /\ m.entries = Append(before, e) /\ m.count = mem[p].count /\ m.up
      /\ Len(before) = Len(mem[p].entries)
      /\ \A i \in 1..Len(before) : Same(mem[p].entries[i], before[i])
  BY DEF Adds, With, Switched
<1>2. /\ mem[p].count \in Nat /\ mem[p].count <= Len(mem[p].entries)
      /\ Len(mem[p].entries) \in Nat
  BY LogTypeFacts, MemoryFacts
<1>3. /\ Len(m.entries) = Len(before) + 1 /\ m.entries[Len(before) + 1] = e
      /\ \A i \in 1..Len(before) : m.entries[i] = before[i]
  BY <1>1, AppendProperties
<1>4. ~Lagging(m) => m.flushed /\ m.count = Len(mem[p].entries)
  BY <1>1, <1>2, <1>3, MemoryFacts DEF Lagging
<1> QED
  BY <1>1, <1>2, <1>3, <1>4

(* What adding an entry does to the memory and to the file. *)
LEMMA AddsFacts ==
  ASSUME LogTypeOK, NEW p \in Procs, NEW before \in Seq(EntryType), NEW e \in EntryType,
         NEW m \in MemoryType, Adds(p, before, e, m)
  PROVE  Outcome(p, m) /\ Lines(m, e)
<1>1. /\ m.entries \in Seq(EntryType) /\ Len(m.entries) \in Nat
      /\ m.count \in Nat /\ m.count <= Len(m.entries) - 1 /\ m.up
      /\ ~Lagging(m) => m.count = Len(m.entries) - 1
      /\ m.entries[Len(m.entries)] = e
      /\ m.count <= Len(m.entries)
  BY HeldFacts, MemoryFacts
<1>2. /\ file \in [header : BOOLEAN, lines : Seq(EntryType), tail : Tails]
      /\ Begins(file.lines, file.lines)
  BY LogTypeFacts DEF LogTypeOK, Begins
<1>3. CASE Unwritten(p, m, e)
  <2>1. /\ file' \in [header : BOOLEAN, lines : Seq(EntryType), tail : Tails]
        /\ Lines(m, e)
    <3>1. CASE file' = file
      BY <1>2, <3>1 DEF Lines
    <3>2. CASE file' \in WholeCut(m)
      BY <3>2, WholeFacts DEF Lines
    <3>3. CASE ~Lagging(m) /\ file' \in LongerCut(e)
      BY <3>3, LongerFacts DEF Lines
    <3> QED
      BY <1>3, <3>1, <3>2, <3>3 DEF Unwritten
  <2>2. Outcome(p, m)
    BY <1>1, <1>3, <2>1, StoppedFacts DEF Unwritten
  <2> QED
    BY <2>1, <2>2
<1>4. CASE Rewritten(p, m)
  BY <1>1, <1>4, RewrittenFacts DEF Lines
<1>5. CASE Extended(p, m, e)
  <2>1. /\ file' \in [header : BOOLEAN, lines : Seq(EntryType), tail : Tails]
        /\ Lines(m, e)
    BY <1>5, LongerFacts DEF Extended, Lines
  <2>2. /\ acked' = acked \cup {e.id} /\ ~Lagging(m)
        /\ mem'[p] = [m EXCEPT !.count = m.count + 1]
    BY <1>5 DEF Extended
  <2>3. /\ mem'[p] \in MemoryType /\ mem'[p].up /\ mem'[p].entries = m.entries
        /\ mem'[p].leaf = m.leaf /\ mem'[p].flushed = m.flushed /\ mem'[p].count = m.count + 1
    BY <1>1, <2>2, CountFacts
  <2>4. acked' \subseteq Ids /\ acked \subseteq acked'
    BY <2>2, EntryFacts DEF LogTypeOK
  <2>5. \A i \in 1..mem'[p].count : i <= m.count \/ m.entries[i].id \in acked'
    BY <1>1, <2>2, <2>3
  <2>6. mem'[p].count <= Len(mem'[p].entries)
    BY <1>1, <2>2, <2>3
  <2>7. mem'[p].flushed => m.flushed
    BY <2>3
  <2> QED
    BY <2>1, <2>3, <2>4, <2>5, <2>6, <2>7 DEF Outcome
<1> QED
  BY <1>3, <1>4, <1>5 DEF Adds

(* What a rewrite that adds nothing does. *)
LEMMA RestatesFacts ==
  ASSUME LogTypeOK, NEW p \in Procs, Restates(p)
  PROVE  Outcome(p, mem[p]) /\ Begins(file'.lines, mem[p].entries)
<1>1. mem[p] \in MemoryType /\ mem[p].count <= Len(mem[p].entries) /\ mem[p].up
  BY LogTypeFacts DEF Restates
<1>2. CASE Rewritten(p, mem[p])
  BY <1>1, <1>2, RewrittenFacts
<1>3. CASE Stopped(p)
  <2>1. /\ file' \in [header : BOOLEAN, lines : Seq(EntryType), tail : Tails]
        /\ Begins(file'.lines, mem[p].entries)
    BY <1>1, <1>3, WholeFacts DEF Stopped
  <2> QED
    BY <1>1, <1>3, <2>1, StoppedFacts DEF Stopped
<1> QED
  BY <1>2, <1>3 DEF Restates

(* The types hold at the beginning. *)
LEMMA LogInitTypes == LogInit => LogTypeOK
<1> SUFFICES ASSUME LogInit PROVE LogTypeOK
  OBVIOUS
<1>2. \A up \in BOOLEAN :
        Empty(up) \in MemoryType /\ Empty(up).count = 0 /\ Empty(up).entries = <<>>
  BY EmptyFacts
<1>3. /\ mem \in [Procs -> MemoryType]
      /\ \A p \in Procs : mem[p].count = 0 /\ mem[p].entries = <<>>
  <2>1. mem = [p \in Procs |-> Empty(p = First)]
    BY DEF LogInit
  <2>2. \A p \in Procs : \E up \in BOOLEAN : mem[p] = Empty(up)
    BY <2>1
  <2>3. \A p \in Procs : mem[p] \in MemoryType /\ mem[p].count = 0 /\ mem[p].entries = <<>>
    BY <1>2, <2>2
  <2>4. mem = [p \in Procs |-> mem[p]]
    BY <2>1
  <2> QED
    BY <2>3, <2>4
<1>4. \A p \in Procs : mem[p].count <= Len(mem[p].entries)
  BY <1>3
<1>5. file \in [header : BOOLEAN, lines : Seq(EntryType), tail : Tails]
  BY DEF LogInit, Tails
<1>6. made = 0 /\ faults = 0 /\ shared = FALSE /\ acked = {}
  BY DEF LogInit
<1>7. made \in 0..MaxEntries /\ faults \in 0..MaxFaults
  BY <1>6, LogBoundsAssumption
<1>8. shared \in BOOLEAN /\ acked \subseteq Ids
  BY <1>6
<1> QED
  BY <1>3, <1>4, <1>5, <1>7, <1>8 DEF LogTypeOK

(* Every step keeps the types. *)
LEMMA StepTypes == LogTypeOK /\ [LogNext]_logVars => LogTypeOK'
<1> SUFFICES ASSUME LogTypeOK, [LogNext]_logVars PROVE LogTypeOK'
  OBVIOUS
<1>1. ASSUME NEW p \in Procs, Others(p), mem'[p] \in MemoryType,
             mem'[p].count <= Len(mem'[p].entries),
             file' \in [header : BOOLEAN, lines : Seq(EntryType), tail : Tails],
             made' \in 0..MaxEntries, shared' \in BOOLEAN, acked' \subseteq Ids
      PROVE  LogTypeOK'
  <2>1. \A q \in Procs : mem'[q] \in MemoryType /\ mem'[q].count <= Len(mem'[q].entries)
    BY <1>1, LogTypeFacts DEF Others
  <2>2. mem' \in [Procs -> MemoryType]
    BY <1>1, <2>1 DEF Others
  <2> QED
    BY <1>1, <2>1, <2>2 DEF LogTypeOK, Others
<1>2. /\ file \in [header : BOOLEAN, lines : Seq(EntryType), tail : Tails]
      /\ made \in 0..MaxEntries /\ shared \in BOOLEAN /\ acked \subseteq Ids /\ MaxEntries \in Nat
      /\ IdsOf(file.lines) \subseteq Ids /\ Len(file.lines) \in Nat
  BY LogBoundsAssumption, LogTypeFacts DEF LogTypeOK
<1>3. CASE LogNext
  <2>1. PICK p \in Procs :
           \/ \E before \in Seq(EntryType), e \in EntryType, m \in MemoryType :
                Adds(p, before, e, m)
           \/ Restates(p) \/ Replaces(p) \/ Loads(p) \/ Exits(p)
    BY <1>3, StepFacts
  <2>2. ASSUME NEW before \in Seq(EntryType), NEW e \in EntryType, NEW m \in MemoryType,
               Adds(p, before, e, m)
        PROVE  LogTypeOK'
    <3>1. Outcome(p, m)
      BY <2>2, AddsFacts
    <3>2. Others(p) /\ made' \in 0..MaxEntries /\ shared' = shared
      BY <1>2, <2>2 DEF Adds
    <3> QED
      BY <1>1, <1>2, <3>1, <3>2 DEF Outcome
  <2>3. CASE Restates(p)
    <3>1. Outcome(p, mem[p]) /\ Others(p) /\ made' = made /\ shared' = shared
      BY <2>3, RestatesFacts DEF Restates
    <3> QED
      BY <1>1, <1>2, <3>1 DEF Outcome
  <2>4. CASE Replaces(p)
    <3>1. mem'[p].count <= Len(mem'[p].entries)
      BY <2>4, LogTypeFacts DEF Replaces
    <3> QED
      BY <1>1, <1>2, <2>4, <3>1 DEF Replaces
  <2>5. CASE Loads(p)
    <3>1. shared' \in BOOLEAN /\ acked' \subseteq Ids
      BY <1>2, <2>5 DEF Loads
    <3> QED
      BY <1>1, <1>2, <2>5, <3>1 DEF Loads
  <2>6. CASE Exits(p)
    BY <1>1, <1>2, <2>6, EmptyFacts DEF Exits
  <2> QED
    BY <2>1, <2>2, <2>3, <2>4, <2>5, <2>6
<1>4. CASE UNCHANGED logVars
  BY <1>4 DEF logVars, LogTypeOK
<1> QED
  BY <1>3, <1>4

(* The type invariant: a process counts no more entries as written than    *)
(* it has.                                                                 *)
THEOREM LogTypeCorrect == LogSpec => []LogTypeOK
<1>1. LogInit => LogTypeOK
  BY LogInitTypes
<1>2. LogTypeOK /\ [LogNext]_logVars => LogTypeOK'
  BY StepTypes
<1> QED
  BY <1>1, <1>2, PTL DEF LogSpec

----------------------------------------------------------------------------
(* The numbers of the entries *)

(* Sequences of entries have the domain of a sequence. *)
LEMMA EntriesFacts ==
  ASSUME NEW entries \in Seq(EntryType)
  PROVE  /\ Len(entries) \in Nat /\ DOMAIN entries = 1..Len(entries)
         /\ \A i \in 1..Len(entries) : entries[i] \in EntryType /\ entries[i].id \in Ids
         /\ IdsOf(entries) = {entries[i].id : i \in 1..Len(entries)}
         /\ IdsOf(entries) \subseteq Ids
<1>1. Len(entries) \in Nat /\ DOMAIN entries = 1..Len(entries)
  OBVIOUS
<1>2. \A i \in 1..Len(entries) : entries[i] \in EntryType /\ entries[i].id \in Ids
  BY EntryFacts
<1> QED
  BY <1>1, <1>2 DEF IdsOf

(* An entry behind others. *)
LEMMA BehindFacts ==
  ASSUME NEW entries \in Seq(EntryType), NEW e \in EntryType
  PROVE  LET longer == Append(entries, e)
         IN  /\ longer \in Seq(EntryType) /\ Len(longer) = Len(entries) + 1
             /\ longer[Len(longer)] = e
             /\ \A i \in 1..Len(entries) : longer[i] = entries[i]
             /\ IdsOf(longer) = IdsOf(entries) \cup {e.id}
<1> DEFINE longer == Append(entries, e)
<1>1. /\ longer \in Seq(EntryType) /\ Len(longer) = Len(entries) + 1
      /\ longer[Len(entries) + 1] = e /\ \A i \in 1..Len(entries) : longer[i] = entries[i]
      /\ Len(entries) \in Nat
  BY AppendProperties
<1> HIDE DEF longer
<1>2. /\ IdsOf(longer) = {longer[i].id : i \in 1..Len(entries) + 1}
      /\ IdsOf(entries) = {entries[i].id : i \in 1..Len(entries)}
  BY <1>1, EntriesFacts
<1>3. IdsOf(longer) = IdsOf(entries) \cup {e.id}
  BY <1>1, <1>2
<1>4. /\ longer \in Seq(EntryType) /\ Len(longer) = Len(entries) + 1
      /\ longer[Len(longer)] = e /\ \A i \in 1..Len(entries) : longer[i] = entries[i]
      /\ IdsOf(longer) = IdsOf(entries) \cup {e.id}
  BY <1>1, <1>3
<1> QED
  BY <1>4 DEF longer

(* Numbers that rise also do so in a part, with later entries or none. *)
LEMMA RisingFacts ==
  /\ \A short, long \in Seq(EntryType) : \A last, later \in Nat :
       Begins(short, long) /\ Rising(long, last) /\ last <= later => Rising(short, later)
  /\ \A old, new \in Seq(EntryType) : \A last \in Nat :
       /\ Rising(old, last) /\ Len(new) = Len(old)
       /\ \A i \in 1..Len(old) : Same(old[i], new[i])
       => Rising(new, last)
  /\ \A entries \in Seq(EntryType), e \in EntryType : \A last \in Nat :
       Rising(entries, last) /\ e.id = last + 1 => Rising(Append(entries, e), last + 1)
<1>1. ASSUME NEW short \in Seq(EntryType), NEW long \in Seq(EntryType), NEW last \in Nat,
             NEW later \in Nat, Begins(short, long), Rising(long, last), last <= later
      PROVE  Rising(short, later)
  <2>1. /\ DOMAIN short = 1..Len(short) /\ DOMAIN long = 1..Len(long)
        /\ Len(short) \in Nat /\ Len(long) \in Nat /\ Len(short) <= Len(long)
        /\ \A i \in 1..Len(short) : short[i] = long[i] /\ i \in 1..Len(long) /\ long[i].id \in Nat
    BY <1>1, EntriesFacts, EntryFacts DEF Begins
  <2>2. \A i \in 1..Len(short) : short[i].id <= last /\ short[i].id \in Nat
    BY <1>1, <2>1 DEF Rising
  <2>3. \A i \in 1..Len(short) : short[i].id <= later
    BY <1>1, <2>2
  <2> QED
    BY <1>1, <2>1, <2>3 DEF Rising
<1>2. ASSUME NEW old \in Seq(EntryType), NEW new \in Seq(EntryType), NEW last \in Nat,
             Rising(old, last), Len(new) = Len(old),
             \A i \in 1..Len(old) : Same(old[i], new[i])
      PROVE  Rising(new, last)
  <2>1. DOMAIN old = 1..Len(old) /\ DOMAIN new = 1..Len(old)
    BY <1>2, EntriesFacts
  <2>2. \A i \in 1..Len(old) : new[i].id = old[i].id
    BY <1>2 DEF Same
  <2> QED
    BY <1>2, <2>1, <2>2 DEF Rising
<1>3. ASSUME NEW entries \in Seq(EntryType), NEW e \in EntryType, NEW last \in Nat,
             Rising(entries, last), e.id = last + 1
      PROVE  Rising(Append(entries, e), last + 1)
  <2> DEFINE longer == Append(entries, e)
  <2>1. /\ DOMAIN longer = 1..Len(entries) + 1 /\ DOMAIN entries = 1..Len(entries)
        /\ longer[Len(entries) + 1] = e /\ \A i \in 1..Len(entries) : longer[i] = entries[i]
        /\ Len(entries) \in Nat /\ \A i \in 1..Len(entries) : entries[i].id \in Nat
    BY AppendProperties, EntriesFacts, EntryFacts
  <2> HIDE DEF longer
  <2>2. \A i \in 1..Len(entries) : longer[i].id = entries[i].id /\ longer[i].id <= last
    BY <1>3, <2>1 DEF Rising
  <2>3. longer[Len(entries) + 1].id = last + 1
    BY <1>3, <2>1
  <2>4. \A i \in DOMAIN longer : longer[i].id <= last + 1
    BY <2>1, <2>2, <2>3
  <2>5. ASSUME NEW i \in DOMAIN longer, NEW j \in DOMAIN longer, i < j
        PROVE  longer[i].id < longer[j].id
    <3>1. i \in 1..Len(entries)
      BY <2>1, <2>5
    <3>2. CASE j \in 1..Len(entries)
      BY <1>3, <2>1, <2>2, <2>5, <3>1, <3>2 DEF Rising
    <3>3. CASE j = Len(entries) + 1
      BY <2>1, <2>2, <2>3, <3>1, <3>3
    <3> QED
      BY <2>1, <3>2, <3>3
  <2>6. Rising(longer, last + 1)
    BY <2>4, <2>5 DEF Rising
  <2> QED
    BY <2>6 DEF longer
<1> QED
  BY <1>1, <1>2, <1>3

(* What the process holds with the new entry is numbered. *)
LEMMA HeldRising ==
  ASSUME LogTypeOK, Numbered, NEW p \in Procs, NEW before \in Seq(EntryType),
         NEW e \in EntryType, NEW m \in MemoryType, Adds(p, before, e, m)
  PROVE  Rising(m.entries, made + 1) /\ made \in Nat /\ made + 1 \in Nat /\ e.id = made + 1
<1>1. mem[p].entries \in Seq(EntryType) /\ made \in Nat /\ made + 1 \in Nat
  BY LogTypeFacts, MemoryFacts
<1>2. /\ m.entries = Append(before, e) /\ e.id = made + 1 /\ Len(before) = Len(mem[p].entries)
      /\ \A i \in 1..Len(before) : Same(mem[p].entries[i], before[i])
  BY DEF Adds, With, New, Switched
<1>3. Rising(before, made)
  BY <1>1, <1>2, RisingFacts DEF Numbered
<1> QED
  BY <1>1, <1>2, <1>3, RisingFacts

(* Every step keeps the numbers. *)
LEMMA StepNumbered ==
  ASSUME LogTypeOK, LogTypeOK', Numbered, LogNext
  PROVE  Numbered'
<1>1. /\ made \in Nat /\ file.lines \in Seq(EntryType)
      /\ file'.lines \in Seq(EntryType) /\ Rising(file.lines, made)
      /\ \A q \in Procs : Rising(mem[q].entries, made)
      /\ \A q \in Procs : mem[q].entries \in Seq(EntryType)
      /\ \A q \in Procs : mem'[q].entries \in Seq(EntryType)
  BY LogTypeFacts, MemoryFacts DEF Numbered, LogTypeOK
<1>2. \A entries \in Seq(EntryType) : Begins(entries, entries)
  BY EntriesFacts DEF Begins
<1>3. \A last : Rising(<<>>, last)
  BY DEF Rising
<1>4. ASSUME NEW p \in Procs, Others(p), made' \in Nat, made <= made',
             Rising(file'.lines, made'), Rising(mem'[p].entries, made')
      PROVE  Numbered'
  <2>1. \A q \in Procs \ {p} : Rising(mem'[q].entries, made')
    BY <1>1, <1>2, <1>4, RisingFacts DEF Others
  <2> QED
    BY <1>4, <2>1 DEF Numbered
<1>5. PICK p \in Procs :
         \/ \E before \in Seq(EntryType), e \in EntryType, m \in MemoryType :
              Adds(p, before, e, m)
         \/ Restates(p) \/ Replaces(p) \/ Loads(p) \/ Exits(p)
  BY StepFacts
<1>6. ASSUME NEW before \in Seq(EntryType), NEW e \in EntryType, NEW m \in MemoryType,
             Adds(p, before, e, m)
      PROVE  Numbered'
  <2>1. Rising(m.entries, made + 1) /\ made + 1 \in Nat /\ made <= made + 1
        /\ made + 1 <= made + 1 /\ e.id = made + 1
    BY <1>6, HeldRising, <1>1
  <2>2. Outcome(p, m) /\ Lines(m, e) /\ Others(p) /\ made' = made + 1
    BY <1>6, AddsFacts DEF Adds
  <2>3. m.entries \in Seq(EntryType)
    BY MemoryFacts
  <2>4. Rising(file'.lines, made + 1)
    BY <1>1, <2>1, <2>2, <2>3, RisingFacts DEF Lines
  <2>5. Rising(mem'[p].entries, made + 1)
    BY <1>3, <2>1, <2>2, EmptyFacts DEF Outcome
  <2> QED
    BY <1>4, <2>1, <2>2, <2>4, <2>5
<1>7. CASE Restates(p)
  <2>1. /\ Outcome(p, mem[p]) /\ Begins(file'.lines, mem[p].entries)
        /\ Others(p) /\ made' = made
    BY <1>7, RestatesFacts DEF Restates
  <2>2. Rising(file'.lines, made)
    BY <1>1, <2>1, RisingFacts
  <2>3. Rising(mem'[p].entries, made)
    BY <1>1, <1>3, <2>1, EmptyFacts DEF Outcome
  <2> QED
    BY <1>1, <1>4, <2>1, <2>2, <2>3
<1>8. CASE Replaces(p)
  <2>1. Rising(mem'[p].entries, made)
    BY <1>1, <1>8, RisingFacts DEF Replaces
  <2> QED
    BY <1>1, <1>4, <1>8, <2>1 DEF Replaces
<1>9. CASE Loads(p)
  BY <1>1, <1>4, <1>9 DEF Loads
<1>10. CASE Exits(p)
  <2>1. mem'[p].entries = <<>> /\ made' = made /\ Others(p) /\ file' = file
    BY <1>10, EmptyFacts DEF Exits
  <2>2. Rising(mem'[p].entries, made)
    BY <1>3, <2>1
  <2> QED
    BY <1>1, <1>4, <2>1, <2>2
<1> QED
  BY <1>5, <1>6, <1>7, <1>8, <1>9, <1>10

----------------------------------------------------------------------------
(* What an entry hangs from *)

(* The leaf of entries is none of them, the last, or what it hangs from.   *)
LEMMA LeafFacts ==
  ASSUME NEW entries \in Seq(EntryType), NEW written, Hung(entries, written)
  PROVE  LeafOf(entries) \in {NoId} \cup IdsOf(entries) \cup written
<1>1. /\ Len(entries) \in Nat /\ DOMAIN entries = 1..Len(entries)
      /\ IdsOf(entries) = {entries[i].id : i \in 1..Len(entries)}
  BY EntriesFacts
<1>2. CASE entries # <<>>
  <2> DEFINE n == Len(entries)
  <2>1. n \in 1..Len(entries) /\ Last(entries) = entries[n]
    BY <1>1, <1>2, EmptySeq DEF Last
  <2>2. entries[n].id \in IdsOf(entries)
    BY <1>1, <2>1
  <2>3. \/ entries[n].target = NoId \/ entries[n].target \in written
        \/ \E j \in 1..n - 1 : entries[j].id = entries[n].target
    BY <1>1, <2>1 DEF Hung
  <2>4. entries[n].target \in {NoId} \cup IdsOf(entries) \cup written
    BY <1>1, <2>1, <2>3
  <2> HIDE DEF n
  <2> QED
    BY <1>2, <2>1, <2>2, <2>4 DEF LeafOf
<1> QED
  BY <1>2 DEF LeafOf

(* What hangs together does so in a part, and with more entries written.   *)
LEMMA HungFacts ==
  /\ \A short, long \in Seq(EntryType) : \A written, later :
       Begins(short, long) /\ Hung(long, written) /\ written \subseteq later
       => Hung(short, later)
  /\ \A old, new \in Seq(EntryType) : \A written :
       /\ Hung(old, written) /\ Len(new) = Len(old)
       /\ \A i \in 1..Len(old) : Same(old[i], new[i])
       => Hung(new, written)
  /\ \A entries \in Seq(EntryType), e \in EntryType : \A written :
       /\ Hung(entries, written)
       /\ e.parent \in {NoId} \cup IdsOf(entries) \cup written
       /\ e.target \in {NoId} \cup IdsOf(entries) \cup written
       => Hung(Append(entries, e), written)
<1>1. ASSUME NEW short \in Seq(EntryType), NEW long \in Seq(EntryType), NEW written, NEW later,
             Begins(short, long), Hung(long, written), written \subseteq later
      PROVE  Hung(short, later)
  <2>1. /\ DOMAIN short = 1..Len(short) /\ DOMAIN long = 1..Len(long)
        /\ Len(short) \in Nat /\ Len(long) \in Nat /\ Len(short) <= Len(long)
        /\ \A i \in 1..Len(short) : short[i] = long[i]
    BY <1>1, EntriesFacts DEF Begins
  <2> SUFFICES ASSUME NEW i \in 1..Len(short), NEW id \in {short[i].parent, short[i].target},
                      id # NoId, id \notin later
               PROVE  \E j \in 1..i - 1 : short[j].id = id
    BY <2>1 DEF Hung
  <2>2. i \in 1..Len(long) /\ id \in {long[i].parent, long[i].target} /\ id \notin written
    BY <1>1, <2>1
  <2>3. PICK j \in 1..i - 1 : long[j].id = id
    BY <1>1, <2>1, <2>2 DEF Hung
  <2>4. j \in 1..Len(short)
    BY <2>1
  <2> QED
    BY <2>1, <2>3, <2>4
<1>2. ASSUME NEW old \in Seq(EntryType), NEW new \in Seq(EntryType), NEW written,
             Hung(old, written), Len(new) = Len(old),
             \A i \in 1..Len(old) : Same(old[i], new[i])
      PROVE  Hung(new, written)
  <2>1. DOMAIN old = 1..Len(old) /\ DOMAIN new = 1..Len(old) /\ Len(old) \in Nat
    BY <1>2, EntriesFacts
  <2>2. \A i \in 1..Len(old) :
          new[i].id = old[i].id /\ new[i].parent = old[i].parent /\ new[i].target = old[i].target
    BY <1>2 DEF Same
  <2> SUFFICES ASSUME NEW i \in 1..Len(old), NEW id \in {new[i].parent, new[i].target},
                      id # NoId, id \notin written
               PROVE  \E j \in 1..i - 1 : new[j].id = id
    BY <2>1 DEF Hung
  <2>3. PICK j \in 1..i - 1 : old[j].id = id
    BY <1>2, <2>1, <2>2, SMTT(30) DEF Hung
  <2>4. j \in 1..Len(old)
    BY <2>1
  <2> QED
    BY <2>2, <2>3, <2>4
<1>3. ASSUME NEW entries \in Seq(EntryType), NEW e \in EntryType, NEW written,
             Hung(entries, written),
             e.parent \in {NoId} \cup IdsOf(entries) \cup written,
             e.target \in {NoId} \cup IdsOf(entries) \cup written
      PROVE  Hung(Append(entries, e), written)
  <2> DEFINE longer == Append(entries, e)
  <2>1. /\ DOMAIN longer = 1..Len(entries) + 1 /\ DOMAIN entries = 1..Len(entries)
        /\ longer[Len(entries) + 1] = e /\ \A i \in 1..Len(entries) : longer[i] = entries[i]
        /\ Len(entries) \in Nat /\ IdsOf(entries) = {entries[i].id : i \in 1..Len(entries)}
    BY AppendProperties, EntriesFacts
  <2> HIDE DEF longer
  <2> SUFFICES ASSUME NEW i \in 1..Len(entries) + 1,
                      NEW id \in {longer[i].parent, longer[i].target}, id # NoId, id \notin written
               PROVE  \E j \in 1..i - 1 : longer[j].id = id
    BY <2>1 DEF Hung, longer
  <2>2. CASE i \in 1..Len(entries)
    <3>1. id \in {entries[i].parent, entries[i].target}
      BY <2>1, <2>2
    <3>2. PICK j \in 1..i - 1 : entries[j].id = id
      BY <1>3, <2>1, <2>2, <3>1 DEF Hung
    <3>3. j \in 1..Len(entries)
      BY <2>1, <2>2
    <3> QED
      BY <2>1, <3>2, <3>3
  <2>3. CASE i = Len(entries) + 1
    <3>1. id \in IdsOf(entries)
      BY <1>3, <2>1, <2>3
    <3>2. PICK j \in 1..Len(entries) : entries[j].id = id
      BY <2>1, <3>1
    <3>3. j \in 1..i - 1 /\ longer[j].id = id
      BY <2>1, <2>3, <3>2
    <3> QED
      BY <3>3
  <2> QED
    BY <2>1, <2>2, <2>3
<1> QED
  BY <1>1, <1>2, <1>3

(* What a new entry hangs from is known to the process, and written when   *)
(* no earlier entry lags behind. *)
LEMMA HeldHung ==
  ASSUME LogTypeOK, Rooted, Counted, LeafKnown, NEW p \in Procs,
         NEW before \in Seq(EntryType), NEW e \in EntryType, NEW m \in MemoryType,
         Adds(p, before, e, m)
  PROVE  /\ Hung(m.entries, acked)
         /\ ~Lagging(m) => e.parent \in {NoId} \cup acked /\ e.target \in {NoId} \cup acked
<1> DEFINE old == mem[p].entries
<1>1. /\ old \in Seq(EntryType) /\ Hung(old, acked) /\ mem[p].leaf = LeafOf(old)
      /\ \A i \in 1..mem[p].count : old[i].id \in acked
      /\ Len(old) \in Nat /\ IdsOf(old) = {old[i].id : i \in 1..Len(old)}
  BY LogTypeFacts, MemoryFacts, EntriesFacts DEF Rooted, Counted, LeafKnown
<1>2. /\ m.entries = Append(before, e) /\ e.parent = LeafOf(old) /\ Len(before) = Len(old)
      /\ e.target \in IdsOf(old) \cup {NoId} /\ \A i \in 1..Len(before) : Same(old[i], before[i])
  BY <1>1 DEF Adds, With, New, Switched
<1>3. ~Lagging(m) => mem[p].count = Len(old)
  BY HeldFacts
<1> HIDE DEF old
<1>4. e.parent \in {NoId} \cup IdsOf(old) \cup acked
  BY <1>1, <1>2, LeafFacts
<1>5. Hung(before, acked)
  BY <1>1, <1>2, HungFacts
<1>6. IdsOf(before) = IdsOf(old)
  <2>1. IdsOf(before) = {before[i].id : i \in 1..Len(old)}
    BY <1>2, EntriesFacts
  <2>2. \A i \in 1..Len(old) : before[i].id = old[i].id
    BY <1>2 DEF Same
  <2> QED
    BY <1>1, <2>1, <2>2
<1>7. Hung(m.entries, acked)
  BY <1>2, <1>4, <1>5, <1>6, HungFacts
<1>8. ~Lagging(m) => IdsOf(old) \subseteq acked
  BY <1>1, <1>3
<1> QED
  BY <1>2, <1>4, <1>7, <1>8

(* The leaf of entries is decided by the last. *)
LEMMA LastFacts ==
  /\ LeafOf(<<>>) = NoId
  /\ \A entries \in Seq(EntryType), e \in EntryType :
       LeafOf(Append(entries, e)) = IF e.kind = "leaf" THEN e.target ELSE e.id
  /\ \A old, new \in Seq(EntryType) :
       Len(new) = Len(old) /\ (\A i \in 1..Len(old) : Same(old[i], new[i]))
       => LeafOf(new) = LeafOf(old)
<1>1. LeafOf(<<>>) = NoId
  BY DEF LeafOf
<1>2. ASSUME NEW entries \in Seq(EntryType), NEW e \in EntryType
      PROVE  LeafOf(Append(entries, e)) = IF e.kind = "leaf" THEN e.target ELSE e.id
  <2> DEFINE longer == Append(entries, e)
  <2>1. /\ Len(entries) \in Nat /\ Len(longer) = Len(entries) + 1
        /\ longer[Len(longer)] = e /\ longer \in Seq(EntryType)
    BY AppendProperties
  <2> HIDE DEF longer
  <2>2. longer # <<>> /\ Last(longer) = e
    BY <2>1, EmptySeq DEF Last
  <2>3. LeafOf(longer) = IF e.kind = "leaf" THEN e.target ELSE e.id
    BY <2>2 DEF LeafOf
  <2> QED
    BY <2>3 DEF longer
<1>3. ASSUME NEW old \in Seq(EntryType), NEW new \in Seq(EntryType), Len(new) = Len(old),
             \A i \in 1..Len(old) : Same(old[i], new[i])
      PROVE  LeafOf(new) = LeafOf(old)
  <2>1. CASE old = <<>>
    <3>1. new = <<>>
      BY <1>3, <2>1, EmptySeq
    <3> QED
      BY <2>1, <3>1
  <2>2. CASE old # <<>>
    <3>1. new # <<>> /\ Len(old) \in 1..Len(old) /\ Len(old) \in Nat
      BY <1>3, <2>2, EmptySeq
    <3>2. Same(old[Len(old)], new[Len(old)])
      BY <1>3, <3>1
    <3>3. Same(Last(old), Last(new))
      BY <1>3, <3>2 DEF Last
    <3> QED
      BY <2>2, <3>1, <3>3 DEF LeafOf, Same
  <2> QED
    BY <2>1, <2>2
<1> QED
  BY <1>1, <1>2, <1>3

(* The tree: what an entry hangs from, what is counted, and the leaf.      *)
Tree == Rooted /\ Counted /\ LeafKnown

(* Adding an entry keeps the tree together. *)
LEMMA AddsTree ==
  ASSUME LogTypeOK, LogTypeOK', Tree, NEW p \in Procs, NEW before \in Seq(EntryType),
         NEW e \in EntryType, NEW m \in MemoryType, Adds(p, before, e, m)
  PROVE  /\ Hung(file'.lines, acked') /\ Hung(mem'[p].entries, acked')
         /\ \A i \in 1..mem'[p].count : mem'[p].entries[i].id \in acked'
         /\ mem'[p].leaf = LeafOf(mem'[p].entries)
<1>1. Outcome(p, m) /\ Lines(m, e) /\ acked \subseteq acked'
  BY AddsFacts DEF Outcome
<1>2. /\ file.lines \in Seq(EntryType) /\ file'.lines \in Seq(EntryType)
      /\ m.entries \in Seq(EntryType) /\ Hung(file.lines, acked)
  BY LogTypeFacts, MemoryFacts DEF Tree, Rooted, LogTypeOK
<1>3. Hung(m.entries, acked) /\ Hung(<<>>, acked')
  BY HeldHung DEF Hung, Tree
<1>4. Begins(m.entries, m.entries)
  BY <1>2, EntriesFacts DEF Begins
<1>5. Hung(m.entries, acked')
  BY <1>1, <1>2, <1>3, <1>4, HungFacts
<1>6. Hung(file'.lines, acked')
  <2>1. CASE Begins(file'.lines, file.lines) \/ Begins(file'.lines, m.entries)
    BY <1>1, <1>2, <1>3, <2>1, HungFacts
  <2>2. CASE ~Lagging(m) /\ file'.lines = Append(file.lines, e)
    <3>1. e.parent \in {NoId} \cup acked /\ e.target \in {NoId} \cup acked
      BY <2>2, HeldHung DEF Tree
    <3>2. Hung(file'.lines, acked)
      BY <1>2, <2>2, <3>1, HungFacts
    <3>3. Begins(file'.lines, file'.lines)
      BY <1>2, EntriesFacts DEF Begins
    <3> QED
      BY <1>1, <1>2, <3>2, <3>3, HungFacts
  <2> QED
    BY <1>1, <2>1, <2>2 DEF Lines
<1>7. CASE mem'[p] = Empty(FALSE)
  <2>1. mem'[p].entries = <<>> /\ mem'[p].leaf = NoId /\ mem'[p].count = 0
    BY <1>7, EmptyFacts
  <2> QED
    BY <1>3, <1>6, <2>1, LastFacts
<1>8. CASE /\ mem'[p].up /\ mem'[p].entries = m.entries /\ mem'[p].leaf = m.leaf
           /\ \A i \in 1..mem'[p].count : i <= m.count \/ m.entries[i].id \in acked'
  <2>1. mem'[p].leaf = LeafOf(mem'[p].entries)
    BY <1>8, LastFacts DEF Adds, With
  <2>2. /\ mem[p].count \in Nat /\ mem[p].count <= Len(mem[p].entries) /\ m.count = mem[p].count
        /\ \A i \in 1..mem[p].count : mem[p].entries[i].id \in acked
        /\ Len(mem[p].entries) \in Nat
    BY LogTypeFacts, MemoryFacts, HeldFacts DEF Tree, Counted
  <2>3. \A i \in 1..mem[p].count : m.entries[i].id \in acked
    <3> SUFFICES ASSUME NEW i \in 1..mem[p].count PROVE m.entries[i].id \in acked
      OBVIOUS
    <3>1. i \in 1..Len(mem[p].entries)
      BY <2>2
    <3>2. Same(mem[p].entries[i], m.entries[i])
      BY <3>1, HeldFacts
    <3> QED
      BY <2>2, <3>2 DEF Same
  <2>4. mem'[p].count \in Nat
    BY <1>1, MemoryFacts DEF Outcome
  <2>5. ASSUME NEW i \in 1..mem'[p].count PROVE mem'[p].entries[i].id \in acked'
    <3>1. CASE i <= m.count
      <4>1. i \in 1..mem[p].count
        BY <2>2, <2>4, <3>1
      <4> QED
        BY <1>1, <1>8, <2>3, <4>1
    <3>2. CASE m.entries[i].id \in acked'
      BY <1>8, <3>2
    <3> QED
      BY <1>8, <3>1, <3>2
  <2> QED
    BY <1>5, <1>6, <1>8, <2>1, <2>5
<1> QED
  BY <1>1, <1>7, <1>8 DEF Outcome

(* Every step keeps the tree together. *)
LEMMA StepTree ==
  ASSUME LogTypeOK, LogTypeOK', Tree, LogNext
  PROVE  Tree'
<1>1. /\ acked \subseteq Ids /\ file.lines \in Seq(EntryType) /\ file'.lines \in Seq(EntryType)
      /\ \A q \in Procs : mem[q] \in MemoryType /\ mem'[q] \in MemoryType
      /\ \A q \in Procs : mem[q].entries \in Seq(EntryType)
      /\ \A q \in Procs : mem'[q].entries \in Seq(EntryType)
  BY LogTypeFacts, MemoryFacts DEF LogTypeOK
<1>2. /\ Hung(file.lines, acked) /\ \A q \in Procs : Hung(mem[q].entries, acked)
      /\ \A q \in Procs : \A i \in 1..mem[q].count : mem[q].entries[i].id \in acked
      /\ \A q \in Procs : mem[q].leaf = LeafOf(mem[q].entries)
  BY DEF Tree, Rooted, Counted, LeafKnown
<1>3. \A entries \in Seq(EntryType) : Begins(entries, entries)
  BY EntriesFacts DEF Begins
<1>4. ASSUME NEW p \in Procs, Others(p), acked \subseteq acked',
             Hung(file'.lines, acked'), Hung(mem'[p].entries, acked'),
             \A i \in 1..mem'[p].count : mem'[p].entries[i].id \in acked',
             mem'[p].leaf = LeafOf(mem'[p].entries)
      PROVE  Tree'
  <2>1. ASSUME NEW q \in Procs \ {p}
        PROVE  /\ Hung(mem'[q].entries, acked') /\ mem'[q].leaf = LeafOf(mem'[q].entries)
               /\ \A i \in 1..mem'[q].count : mem'[q].entries[i].id \in acked'
    <3>1. mem'[q] = mem[q]
      BY <1>4 DEF Others
    <3>2. Hung(mem[q].entries, acked')
      BY <1>1, <1>2, <1>3, <1>4, HungFacts
    <3> QED
      BY <1>2, <1>4, <3>1, <3>2
  <2> QED
    BY <1>4, <2>1 DEF Tree, Rooted, Counted, LeafKnown
<1>5. PICK p \in Procs :
         \/ \E before \in Seq(EntryType), e \in EntryType, m \in MemoryType :
              Adds(p, before, e, m)
         \/ Restates(p) \/ Replaces(p) \/ Loads(p) \/ Exits(p)
  BY StepFacts
<1>6. ASSUME NEW before \in Seq(EntryType), NEW e \in EntryType, NEW m \in MemoryType,
             Adds(p, before, e, m)
      PROVE  Tree'
  <2>1. Others(p) /\ acked \subseteq acked'
    BY <1>6, AddsFacts DEF Adds, Outcome
  <2> QED
    BY <1>4, <1>6, <2>1, AddsTree
<1>7. CASE Restates(p)
  <2>1. /\ Outcome(p, mem[p]) /\ Begins(file'.lines, mem[p].entries)
        /\ Others(p) /\ acked \subseteq acked'
    BY <1>7, RestatesFacts DEF Restates, Outcome
  <2>2. Hung(file'.lines, acked') /\ Hung(mem[p].entries, acked')
    BY <1>1, <1>2, <1>3, <2>1, HungFacts
  <2>3. CASE mem'[p] = Empty(FALSE)
    <3>1. mem'[p].entries = <<>> /\ mem'[p].leaf = NoId /\ mem'[p].count = 0
      BY <2>3, EmptyFacts
    <3>2. Hung(<<>>, acked')
      BY DEF Hung
    <3> QED
      BY <1>4, <2>1, <2>2, <3>1, <3>2, LastFacts
  <2>4. CASE /\ mem'[p].entries = mem[p].entries /\ mem'[p].leaf = mem[p].leaf
             /\ \A i \in 1..mem'[p].count : i <= mem[p].count \/ mem[p].entries[i].id \in acked'
    <3>1. mem'[p].count \in Nat /\ mem[p].count \in Nat
      BY <1>1, MemoryFacts
    <3>2. \A i \in 1..mem'[p].count : i <= mem[p].count => i \in 1..mem[p].count
      BY <3>1
    <3>3. \A i \in 1..mem'[p].count : mem'[p].entries[i].id \in acked'
      BY <1>2, <2>1, <2>4, <3>2
    <3> QED
      BY <1>2, <1>4, <2>1, <2>2, <2>4, <3>3
  <2> QED
    BY <2>1, <2>3, <2>4 DEF Outcome
<1>8. CASE Replaces(p)
  <2>1. /\ Others(p) /\ file' = file /\ acked' = acked /\ mem'[p].leaf = mem[p].leaf
        /\ mem'[p].count = mem[p].count /\ Len(mem'[p].entries) = Len(mem[p].entries)
        /\ \A i \in 1..Len(mem[p].entries) : Same(mem[p].entries[i], mem'[p].entries[i])
    BY <1>8 DEF Replaces
  <2>2. Hung(mem'[p].entries, acked) /\ mem'[p].leaf = LeafOf(mem'[p].entries)
    BY <1>1, <1>2, <2>1, HungFacts, LastFacts
  <2>3. \A i \in 1..mem'[p].count : mem'[p].entries[i].id \in acked
    <3>1. mem[p].count \in Nat /\ mem[p].count <= Len(mem[p].entries) /\ Len(mem[p].entries) \in Nat
      BY LogTypeFacts, MemoryFacts
    <3>2. \A i \in 1..mem[p].count : i \in 1..Len(mem[p].entries)
      BY <3>1
    <3>3. \A i \in 1..mem[p].count : mem'[p].entries[i].id = mem[p].entries[i].id
      BY <2>1, <3>2 DEF Same
    <3> QED
      BY <1>2, <2>1, <3>3
  <2> QED
    BY <1>2, <1>4, <2>1, <2>2, <2>3
<1>9. CASE Loads(p)
  <2>1. /\ Others(p) /\ file' = file /\ acked' = acked \cup IdsOf(file.lines)
        /\ mem'[p].entries = file.lines /\ mem'[p].leaf = LeafOf(file.lines)
        /\ mem'[p].count = Len(file.lines)
    BY <1>9 DEF Loads
  <2>2. Hung(file.lines, acked')
    BY <1>1, <1>2, <1>3, <2>1, HungFacts
  <2>3. \A i \in 1..Len(file.lines) : file.lines[i].id \in acked'
    BY <1>1, <2>1, EntriesFacts
  <2> QED
    BY <1>4, <2>1, <2>2, <2>3
<1>10. CASE Exits(p)
  <2>1. Others(p) /\ file' = file /\ acked' = acked /\ mem'[p] = Empty(FALSE)
    BY <1>10 DEF Exits
  <2>2. mem'[p].entries = <<>> /\ mem'[p].leaf = NoId /\ mem'[p].count = 0
    BY <2>1, EmptyFacts
  <2>3. Hung(<<>>, acked')
    BY DEF Hung
  <2>4. /\ Hung(file'.lines, acked') /\ Hung(mem'[p].entries, acked')
        /\ mem'[p].leaf = LeafOf(mem'[p].entries)
    BY <1>2, <2>1, <2>2, <2>3, LastFacts
  <2>5. \A i \in 1..mem'[p].count : mem'[p].entries[i].id \in acked'
    BY <2>2
  <2> QED
    BY <1>4, <2>1, <2>4, <2>5
<1> QED
  BY <1>5, <1>6, <1>7, <1>8, <1>9, <1>10

----------------------------------------------------------------------------
(* Branches *)

(* A branch has the entry it starts from and, with an entry, its parent;   *)
(* it is no smaller in a tree with more entries.                           *)
LEMMA BranchFacts ==
  /\ \A entries : \A leaf \in IdsOf(entries) : leaf \in Branch(entries, leaf)
  /\ \A old, new \in Seq(EntryType) : \A leaf :
       Len(old) <= Len(new) /\ (\A i \in 1..Len(old) : Same(old[i], new[i]))
       => Branch(old, leaf) \subseteq Branch(new, leaf)
  /\ \A entries \in Seq(EntryType) : \A i \in 1..Len(entries) :
       Branch(entries, entries[i].parent) \subseteq Branch(entries, entries[i].id)
<1>1. ASSUME NEW entries, NEW leaf \in IdsOf(entries)
      PROVE  leaf \in Branch(entries, leaf)
  BY DEF Branch
<1>2. ASSUME NEW old \in Seq(EntryType), NEW new \in Seq(EntryType), NEW leaf,
             Len(old) <= Len(new), \A i \in 1..Len(old) : Same(old[i], new[i])
      PROVE  Branch(old, leaf) \subseteq Branch(new, leaf)
  <2>1. /\ DOMAIN old = 1..Len(old) /\ DOMAIN new = 1..Len(new)
        /\ Len(old) \in Nat /\ Len(new) \in Nat
        /\ IdsOf(old) = {old[i].id : i \in 1..Len(old)}
        /\ IdsOf(new) = {new[i].id : i \in 1..Len(new)}
    BY EntriesFacts
  <2>2. \A i \in 1..Len(old) :
          i \in 1..Len(new) /\ new[i].id = old[i].id /\ new[i].parent = old[i].parent
    BY <1>2, <2>1 DEF Same
  <2>3. \A ids : Closed(new, ids) => Closed(old, ids)
    BY <2>1, <2>2 DEF Closed
  <2>4. IdsOf(old) \subseteq IdsOf(new)
    BY <2>1, <2>2
  <2> QED
    BY <2>3, <2>4 DEF Branch
<1>3. ASSUME NEW entries \in Seq(EntryType), NEW i \in 1..Len(entries)
      PROVE  Branch(entries, entries[i].parent) \subseteq Branch(entries, entries[i].id)
  <2>1. \A ids : Closed(entries, ids) /\ entries[i].id \in ids => entries[i].parent \in ids
    BY <1>3, EntriesFacts DEF Closed
  <2> QED
    BY <2>1 DEF Branch
<1> QED
  BY <1>1, <1>2, <1>3

(* A checkpoint that was overtaken stays so while the tree keeps its shape *)
(* or grows at the leaf. *)
LEMMA OvertakenFacts ==
  /\ \A m, n \in MemoryType :
       /\ Len(n.entries) = Len(m.entries) /\ n.leaf = m.leaf
       /\ \A i \in 1..Len(m.entries) : Same(m.entries[i], n.entries[i])
       => \A id : Overtaken(m, id) => Overtaken(n, id)
  /\ \A m, n \in MemoryType : \A e \in EntryType :
       /\ Len(n.entries) = Len(m.entries) + 1 /\ n.entries[Len(n.entries)] = e
       /\ \A i \in 1..Len(m.entries) : Same(m.entries[i], n.entries[i])
       /\ e.parent = m.leaf /\ n.leaf = (IF e.kind = "leaf" THEN e.target ELSE e.id)
       => \A id : Overtaken(m, id) => Overtaken(n, id)
<1>1. ASSUME NEW m \in MemoryType, NEW n \in MemoryType,
             Len(m.entries) <= Len(n.entries),
             \A i \in 1..Len(m.entries) : Same(m.entries[i], n.entries[i]),
             \/ \E i \in 1..Len(n.entries) : n.entries[i].kind = "leaf"
             \/ Branch(m.entries, m.leaf) \subseteq Branch(n.entries, n.leaf),
             NEW id, Overtaken(m, id)
      PROVE  Overtaken(n, id)
  <2>1. /\ DOMAIN m.entries = 1..Len(m.entries) /\ DOMAIN n.entries = 1..Len(n.entries)
        /\ Len(m.entries) \in Nat /\ Len(n.entries) \in Nat
    BY MemoryFacts
  <2>2. \A i \in 1..Len(m.entries) :
          i \in 1..Len(n.entries) /\ n.entries[i].id = m.entries[i].id
          /\ n.entries[i].kind = m.entries[i].kind
    BY <1>1, <2>1 DEF Same
  <2>3. CASE \E i \in 1..Len(n.entries) : n.entries[i].kind = "leaf"
    BY <2>1, <2>3 DEF Overtaken
  <2>4. CASE /\ Branch(m.entries, m.leaf) \subseteq Branch(n.entries, n.leaf)
             /\ ~\E i \in 1..Len(n.entries) : n.entries[i].kind = "leaf"
    <3>1. ~\E i \in DOMAIN m.entries : m.entries[i].kind = "leaf"
      BY <2>1, <2>2, <2>4
    <3>2. PICK i \in 1..Len(m.entries) :
                 /\ m.entries[i].kind = "checkpoint" /\ id < m.entries[i].id
                 /\ m.entries[i].id \in Branch(m.entries, m.leaf)
      BY <1>1, <2>1, <3>1 DEF Overtaken
    <3>3. /\ i \in DOMAIN n.entries /\ n.entries[i].kind = "checkpoint"
          /\ id < n.entries[i].id /\ n.entries[i].id \in Branch(n.entries, n.leaf)
      BY <2>1, <2>2, <2>4, <3>2
    <3> QED
      BY <3>3 DEF Overtaken
  <2> QED
    BY <1>1, <2>3, <2>4
<1>2. ASSUME NEW m \in MemoryType, NEW n \in MemoryType,
             Len(n.entries) = Len(m.entries), n.leaf = m.leaf,
             \A i \in 1..Len(m.entries) : Same(m.entries[i], n.entries[i])
      PROVE  \A id : Overtaken(m, id) => Overtaken(n, id)
  <2>1. /\ m.entries \in Seq(EntryType) /\ n.entries \in Seq(EntryType)
        /\ Len(m.entries) <= Len(n.entries)
    BY <1>2, MemoryFacts
  <2>2. Branch(m.entries, m.leaf) \subseteq Branch(n.entries, n.leaf)
    BY <1>2, <2>1, BranchFacts
  <2> QED
    BY <1>1, <1>2, <2>1, <2>2
<1>3. ASSUME NEW m \in MemoryType, NEW n \in MemoryType, NEW e \in EntryType,
             Len(n.entries) = Len(m.entries) + 1, n.entries[Len(n.entries)] = e,
             \A i \in 1..Len(m.entries) : Same(m.entries[i], n.entries[i]),
             e.parent = m.leaf, n.leaf = (IF e.kind = "leaf" THEN e.target ELSE e.id)
      PROVE  \A id : Overtaken(m, id) => Overtaken(n, id)
  <2>1. /\ m.entries \in Seq(EntryType) /\ n.entries \in Seq(EntryType)
        /\ Len(m.entries) \in Nat /\ Len(m.entries) <= Len(n.entries)
        /\ Len(n.entries) \in 1..Len(n.entries)
    BY <1>3, MemoryFacts
  <2>2. CASE e.kind = "leaf"
    <3>1. \E i \in 1..Len(n.entries) : n.entries[i].kind = "leaf"
      BY <1>3, <2>1, <2>2
    <3> QED
      BY <1>1, <1>3, <2>1, <3>1
  <2>3. CASE e.kind # "leaf"
    <3>1. Branch(m.entries, m.leaf) \subseteq Branch(n.entries, m.leaf)
      BY <1>3, <2>1, BranchFacts
    <3>2. Branch(n.entries, m.leaf) \subseteq Branch(n.entries, e.id)
      BY <1>3, <2>1, BranchFacts
    <3>3. Branch(m.entries, m.leaf) \subseteq Branch(n.entries, n.leaf)
      BY <1>3, <2>3, <3>1, <3>2
    <3> QED
      BY <1>1, <1>3, <2>1, <3>3
  <2> QED
    BY <2>2, <2>3
<1> QED
  BY <1>2, <1>3

----------------------------------------------------------------------------
(* What a lone process remembers of the file *)

(* Lines are remembered line by line. *)
LEMMA RemembersFacts ==
  ASSUME NEW m \in MemoryType
  PROVE  /\ \A x : Alike(m, x, x)
         /\ \A short, long \in Seq(EntryType) :
              Begins(short, long) /\ Remembers(m, long) => Remembers(m, short)
         /\ Remembers(m, m.entries)
         /\ \A lines \in Seq(EntryType) : \A i \in 1..Len(m.entries) :
              Remembers(m, lines) => Remembers(m, Append(lines, m.entries[i]))
<1>1. m.entries \in Seq(EntryType) /\ DOMAIN m.entries = 1..Len(m.entries)
  BY MemoryFacts
<1>2. \A x : Alike(m, x, x)
  BY DEF Alike, Same
<1>3. ASSUME NEW short \in Seq(EntryType), NEW long \in Seq(EntryType),
             Begins(short, long), Remembers(m, long)
      PROVE  Remembers(m, short)
  <2>1. /\ DOMAIN short = 1..Len(short) /\ DOMAIN long = 1..Len(long)
        /\ \A i \in 1..Len(short) : i \in 1..Len(long) /\ short[i] = long[i]
    BY <1>3, EntriesFacts DEF Begins
  <2> QED
    BY <1>3, <2>1 DEF Remembers
<1>4. Remembers(m, m.entries)
  BY <1>2 DEF Remembers
<1>5. ASSUME NEW lines \in Seq(EntryType), NEW i \in 1..Len(m.entries), Remembers(m, lines)
      PROVE  Remembers(m, Append(lines, m.entries[i]))
  <2> DEFINE e == m.entries[i]
             longer == Append(lines, e)
  <2>1. e \in EntryType
    BY <1>1
  <2>2. /\ DOMAIN lines = 1..Len(lines) /\ DOMAIN longer = 1..Len(lines) + 1
        /\ Len(lines) \in Nat /\ longer[Len(lines) + 1] = e
        /\ \A k \in 1..Len(lines) : longer[k] = lines[k]
    BY <2>1, AppendProperties
  <2> HIDE DEF longer
  <2>3. ASSUME NEW k \in DOMAIN longer
        PROVE  \E j \in DOMAIN m.entries : Alike(m, longer[k], m.entries[j])
    <3>1. CASE k \in 1..Len(lines)
      BY <1>5, <2>2, <3>1 DEF Remembers
    <3>2. CASE k = Len(lines) + 1
      <4>1. Alike(m, longer[k], m.entries[i])
        BY <1>2, <2>2, <3>2
      <4> QED
        BY <1>1, <4>1
    <3> QED
      BY <2>2, <3>1, <3>2
  <2>4. Remembers(m, longer)
    BY <2>3 DEF Remembers
  <2> QED
    BY <2>4 DEF longer
<1> QED
  BY <1>2, <1>3, <1>4, <1>5

(* What is known with the flag down is known with the flag up, or rewritten. *)
LEMMA KeptFacts ==
  ASSUME NEW m \in MemoryType, NEW n \in MemoryType, n.entries = m.entries,
         n.leaf = m.leaf, n.flushed => m.flushed
  PROVE  \A lines : Remembers(m, lines) => Remembers(n, lines)
<1>1. \A id : Overtaken(m, id) => Overtaken(n, id)
  BY DEF Overtaken
<1>2. \A x, y : Alike(m, x, y) => Alike(n, x, y)
  BY <1>1 DEF Alike
<1> QED
  BY <1>2 DEF Remembers

(* With a new entry a process still knows the file as it was. *)
LEMMA HeldRemembers ==
  ASSUME LogTypeOK, Numbered, NEW p \in Procs, NEW before \in Seq(EntryType),
         NEW e \in EntryType, NEW m \in MemoryType, Adds(p, before, e, m),
         Remembers(mem[p], file.lines)
  PROVE  Remembers(m, file.lines)
<1> DEFINE old == mem[p]
<1>1. /\ old \in MemoryType /\ DOMAIN old.entries = 1..Len(old.entries)
      /\ DOMAIN m.entries = 1..Len(m.entries) /\ Len(old.entries) \in Nat
      /\ DOMAIN file.lines = 1..Len(file.lines)
      /\ \A i \in 1..Len(file.lines) : file.lines[i] \in EntryType
      /\ made \in Nat
  BY LogTypeFacts, MemoryFacts
<1>2. /\ Len(m.entries) = Len(old.entries) + 1 /\ m.entries[Len(m.entries)] = e
      /\ \A i \in 1..Len(old.entries) :
           m.entries[i] = before[i] /\ Same(old.entries[i], m.entries[i])
  BY HeldFacts
<1>3. /\ e.id = made + 1 /\ e.parent = old.leaf /\ m.flushed = old.flushed
      /\ m.leaf = (IF e.kind = "leaf" THEN e.target ELSE e.id)
      /\ Len(before) = Len(old.entries)
      /\ \A i \in 1..Len(before) :
           /\ before[i].text = old.entries[i].text
           /\ before[i].active => old.entries[i].active
           /\ old.entries[i].active => before[i].active \/ e.kind = "checkpoint"
  BY DEF Adds, New, With, Switched
<1>4. \A i \in 1..Len(file.lines) : file.lines[i].id <= made
  BY <1>1 DEF Numbered, Rising
<1>5. Remembers(old, file.lines)
  OBVIOUS
<1> HIDE DEF old
<1>6. \A id : Overtaken(old, id) => Overtaken(m, id)
  BY <1>1, <1>2, <1>3, OvertakenFacts
<1>7. e.kind = "checkpoint" => \A id \in Nat : id <= made => Overtaken(m, id)
  <2> SUFFICES ASSUME e.kind = "checkpoint", NEW id \in Nat, id <= made
               PROVE  Overtaken(m, id)
    OBVIOUS
  <2> DEFINE n == Len(m.entries)
  <2>1. n \in DOMAIN m.entries /\ m.entries[n] = e /\ m.leaf = e.id /\ id < e.id
    BY <1>1, <1>2, <1>3
  <2>2. e.id \in IdsOf(m.entries)
    BY <2>1 DEF IdsOf
  <2>3. e.id \in Branch(m.entries, m.leaf)
    BY <2>1, <2>2, BranchFacts
  <2> HIDE DEF n
  <2> QED
    BY <2>1, <2>3 DEF Overtaken
<1>8. ASSUME NEW i \in DOMAIN file.lines
      PROVE  \E j \in DOMAIN m.entries : Alike(m, file.lines[i], m.entries[j])
  <2> DEFINE line == file.lines[i]
  <2>1. line.id \in Nat /\ line.id <= made
    BY <1>1, <1>4, EntryFacts
  <2>2. PICK j \in 1..Len(old.entries) : Alike(old, line, old.entries[j])
    BY <1>1, <1>5 DEF Remembers
  <2> HIDE DEF line
  <2>3. j \in 1..Len(m.entries) /\ j \in 1..Len(before)
    BY <1>1, <1>2, <1>3
  <2>4. Same(line, m.entries[j])
    BY <1>2, <2>2 DEF Alike, Same
  <2>5. /\ m.entries[j].text = old.entries[j].text
        /\ m.entries[j].active => old.entries[j].active
        /\ old.entries[j].active => m.entries[j].active \/ e.kind = "checkpoint"
    BY <1>2, <1>3, <2>3
  <2>6. line.active => m.entries[j].active \/ Overtaken(m, line.id)
    BY <1>6, <1>7, <2>1, <2>2, <2>5 DEF Alike
  <2>7. Alike(m, line, m.entries[j])
    BY <1>3, <2>2, <2>4, <2>5, <2>6 DEF Alike
  <2> QED
    BY <1>1, <2>3, <2>7 DEF line
<1> QED
  BY <1>8 DEF Remembers

(* One process at a time, that remembers the file. *)
Alone == Lone /\ Remembered

(* Every step of a lone process keeps what it remembers. *)
LEMMA StepAlone ==
  ASSUME LogTypeOK, LogTypeOK', Numbered, Alone, LogNext
  PROVE  Alone'
<1> SUFFICES ASSUME ~shared'
             PROVE  /\ \A p, q \in Procs : mem'[p].up /\ mem'[q].up => p = q
                    /\ \A p \in Procs : mem'[p].up => Remembers(mem'[p], file'.lines)
  BY DEF Alone, Lone, Remembered
<1>1. /\ file.lines \in Seq(EntryType) /\ file'.lines \in Seq(EntryType)
      /\ \A q \in Procs : mem[q] \in MemoryType /\ mem'[q] \in MemoryType
  BY LogTypeFacts DEF LogTypeOK
<1>2. PICK p \in Procs :
         \/ \E before \in Seq(EntryType), e \in EntryType, m \in MemoryType :
              Adds(p, before, e, m)
         \/ Restates(p) \/ Replaces(p) \/ Loads(p) \/ Exits(p)
  BY StepFacts
<1>3. ~shared
  BY <1>2 DEF Adds, Restates, Replaces, Loads, Exits
<1>4. /\ \A q, r \in Procs : mem[q].up /\ mem[r].up => q = r
      /\ \A q \in Procs : mem[q].up => Remembers(mem[q], file.lines)
  BY <1>3 DEF Alone, Lone, Remembered
<1>5. Others(p)
  BY <1>2 DEF Adds, Restates, Replaces, Loads, Exits
<1>6. \A q \in Procs \ {p} : ~mem'[q].up
  BY <1>2, <1>4, <1>5 DEF Adds, Restates, Replaces, Loads, Exits, Others
<1>7. SUFFICES ASSUME mem'[p].up PROVE Remembers(mem'[p], file'.lines)
  BY <1>6
<1>8. ~mem[p].up \/ Remembers(mem[p], file.lines)
  BY <1>4
<1>9. mem'[p] # Empty(FALSE)
  BY <1>7, EmptyFacts
<1>10. ASSUME NEW m \in MemoryType, Outcome(p, m), Remembers(m, file'.lines)
       PROVE  Remembers(mem'[p], file'.lines)
  <2>1. /\ mem'[p].entries = m.entries /\ mem'[p].leaf = m.leaf
        /\ mem'[p].flushed => m.flushed \/ file'.lines = m.entries
    BY <1>9, <1>10 DEF Outcome
  <2>2. CASE mem'[p].flushed => m.flushed
    BY <1>1, <1>10, <2>1, <2>2, KeptFacts
  <2>3. CASE file'.lines = m.entries
    BY <1>1, <2>1, <2>3, RemembersFacts
  <2> QED
    BY <2>1, <2>2, <2>3
<1>11. ASSUME NEW before \in Seq(EntryType), NEW e \in EntryType, NEW m \in MemoryType,
              Adds(p, before, e, m)
       PROVE  Remembers(mem'[p], file'.lines)
  <2>1. Outcome(p, m) /\ Lines(m, e)
    BY <1>11, AddsFacts
  <2>2. Remembers(m, file.lines)
    BY <1>8, <1>11, HeldRemembers DEF Adds
  <2>3. /\ m.entries \in Seq(EntryType) /\ m.entries[Len(m.entries)] = e
        /\ Len(m.entries) \in 1..Len(m.entries)
    BY <1>11, HeldFacts, MemoryFacts
  <2>4. Remembers(m, file'.lines)
    <3>1. CASE Begins(file'.lines, file.lines) \/ Begins(file'.lines, m.entries)
      BY <1>1, <2>2, <2>3, <3>1, RemembersFacts
    <3>2. CASE file'.lines = Append(file.lines, e)
      <4>1. \A i \in 1..Len(m.entries) : Remembers(m, Append(file.lines, m.entries[i]))
        BY <1>1, <2>2, RemembersFacts
      <4>2. Remembers(m, Append(file.lines, m.entries[Len(m.entries)]))
        BY <2>3, <4>1
      <4> QED
        BY <2>3, <3>2, <4>2
    <3> QED
      BY <2>1, <3>1, <3>2 DEF Lines
  <2> QED
    BY <1>10, <2>1, <2>4
<1>12. CASE Restates(p)
  <2>1. Outcome(p, mem[p]) /\ Begins(file'.lines, mem[p].entries)
    BY <1>12, RestatesFacts
  <2>2. mem[p] \in MemoryType /\ mem[p].entries \in Seq(EntryType)
    BY <1>1, MemoryFacts
  <2>3. Remembers(mem[p], file'.lines)
    BY <1>1, <2>1, <2>2, RemembersFacts
  <2> QED
    BY <1>10, <2>1, <2>2, <2>3
<1>13. CASE Replaces(p)
  <2> DEFINE m == mem[p]
             n == mem'[p]
  <2>1. /\ m \in MemoryType /\ n \in MemoryType /\ Remembers(m, file.lines)
        /\ DOMAIN m.entries = 1..Len(m.entries) /\ DOMAIN n.entries = 1..Len(n.entries)
    BY <1>1, <1>8, <1>13, MemoryFacts DEF Replaces
  <2>2. /\ ~n.flushed /\ n.leaf = m.leaf /\ Len(n.entries) = Len(m.entries)
        /\ \A i \in 1..Len(m.entries) :
             Same(m.entries[i], n.entries[i]) /\ n.entries[i].active = m.entries[i].active
        /\ file' = file
    BY <1>13 DEF Replaces
  <2> HIDE DEF m, n
  <2>3. \A id : Overtaken(m, id) => Overtaken(n, id)
    BY <2>1, <2>2, OvertakenFacts
  <2>4. \A x : \A i \in 1..Len(m.entries) : Alike(m, x, m.entries[i]) => Alike(n, x, n.entries[i])
    BY <2>2, <2>3 DEF Alike, Same
  <2>5. Remembers(n, file.lines)
    BY <2>1, <2>2, <2>4 DEF Remembers
  <2> QED
    BY <2>2, <2>5 DEF n
<1>14. CASE Loads(p)
  <2>1. mem'[p].entries = file.lines /\ file' = file
    BY <1>14 DEF Loads
  <2>2. Remembers(mem'[p], mem'[p].entries)
    BY <1>1, RemembersFacts
  <2> QED
    BY <2>1, <2>2
<1>15. CASE Exits(p)
  BY <1>9, <1>15 DEF Exits
<1> QED
  BY <1>2, <1>11, <1>12, <1>13, <1>14, <1>15

----------------------------------------------------------------------------
(* The disk mirrors the memory *)

(* The least of some numbers. *)
LEMMA Least ==
  ASSUME NEW S \in SUBSET Nat, S # {}
  PROVE  \E i \in S : \A j \in S : i <= j
<1> DEFINE R == OpToRel(<, Nat)
<1>1. IsWellFoundedOn(R, Nat)
  BY NatLessThanWellFounded
<1>2. \A i, j \in Nat : i < j => <<i, j>> \in R
  BY DEF OpToRel
<1> HIDE DEF R
<1>3. PICK i \in S : \A j \in S : ~(<<j, i>> \in R)
  BY <1>1, WFMin
<1>4. \A j \in S : ~(j < i)
  BY <1>2, <1>3, Zenon
<1> QED
  BY <1>4

(* The newest of some entries. *)
LEMMA NewestExists ==
  ASSUME NEW points \in SUBSET Ids, points # {}
  PROVE  \E id \in points : \A other \in points : other <= id
<1> DEFINE ages == {MaxEntries - id : id \in points}
<1>1. MaxEntries \in Nat /\ \A id \in points : id \in Nat /\ id <= MaxEntries
  BY LogBoundsAssumption DEF Ids
<1>2. ages \in SUBSET Nat /\ ages # {}
  BY <1>1
<1>3. PICK age \in ages : \A other \in ages : age <= other
  BY <1>2, Least
<1>4. PICK id \in points : age = MaxEntries - id
  BY <1>3
<1>5. \A other \in points : MaxEntries - other \in ages
  OBVIOUS
<1> HIDE DEF ages
<1>6. \A other \in points : other <= id
  BY <1>1, <1>3, <1>4, <1>5
<1> QED
  BY <1>4, <1>6

(* Where the numbers rise each is found once. *)
LEMMA EntryFound ==
  ASSUME NEW entries \in Seq(EntryType), NEW last, Rising(entries, last),
         NEW i \in 1..Len(entries)
  PROVE  EntryOf(entries, entries[i].id) = entries[i]
<1>1. /\ DOMAIN entries = 1..Len(entries) /\ Len(entries) \in Nat
      /\ \A k \in 1..Len(entries) : entries[k].id \in Nat
  BY EntriesFacts, EntryFacts
<1>2. \A j \in 1..Len(entries) : entries[j].id = entries[i].id => j = i
  <2> SUFFICES ASSUME NEW j \in 1..Len(entries), entries[j].id = entries[i].id, j # i
               PROVE  FALSE
    OBVIOUS
  <2>1. j < i \/ i < j
    BY <1>1
  <2> QED
    BY <1>1, <2>1 DEF Rising
<1>3. entries[i] \in ToSet(entries)
  BY <1>1 DEF ToSet
<1>4. \A e \in ToSet(entries) : e.id = entries[i].id => e = entries[i]
  BY <1>1, <1>2 DEF ToSet
<1> QED
  BY <1>3, <1>4 DEF EntryOf

(* Where the numbers rise the last is the greatest. *)
LEMMA LastRises ==
  ASSUME NEW entries \in Seq(EntryType), NEW last, Rising(entries, last)
  PROVE  /\ entries = <<>> <=> IdsOf(entries) = {}
         /\ entries # <<>> =>
              /\ Len(entries) \in 1..Len(entries)
              /\ \A i \in 1..Len(entries) : entries[i].id <= entries[Len(entries)].id
<1>1. /\ DOMAIN entries = 1..Len(entries) /\ Len(entries) \in Nat
      /\ IdsOf(entries) = {entries[i].id : i \in 1..Len(entries)}
      /\ \A k \in 1..Len(entries) : entries[k].id \in Nat
  BY EntriesFacts, EntryFacts
<1>2. CASE entries = <<>>
  BY <1>2 DEF IdsOf
<1>3. CASE entries # <<>>
  <2> DEFINE n == Len(entries)
  <2>1. n \in 1..Len(entries) /\ n \in Nat
    BY <1>1, <1>3, EmptySeq
  <2>2. entries[n].id \in IdsOf(entries)
    BY <1>1, <2>1
  <2> HIDE DEF n
  <2>3. ASSUME NEW i \in 1..Len(entries) PROVE entries[i].id <= entries[n].id
    <3>1. i \in 1..n
      BY <2>3 DEF n
    <3>2. i < n \/ i = n
      BY <2>1, <3>1
    <3> QED
      BY <1>1, <2>1, <3>2 DEF Rising
  <2> QED
    BY <1>3, <2>1, <2>2, <2>3 DEF n
<1> QED
  BY <1>2, <1>3

(* Lines that are remembered and have all the numbers are the same tree.   *)
LEMMA MirrorFacts ==
  ASSUME NEW m \in MemoryType, NEW lines \in Seq(EntryType), NEW last,
         Rising(m.entries, last), Rising(lines, last),
         IdsOf(lines) = IdsOf(m.entries), Remembers(m, lines)
  PROVE  /\ \A id \in IdsOf(lines) :
              Alike(m, EntryOf(lines, id), EntryOf(m.entries, id))
         /\ \A leaf : Branch(lines, leaf) = Branch(m.entries, leaf)
         /\ LeafOf(lines) = LeafOf(m.entries)
<1> DEFINE entries == m.entries
<1>1. /\ entries \in Seq(EntryType)
      /\ DOMAIN entries = 1..Len(entries) /\ DOMAIN lines = 1..Len(lines)
      /\ IdsOf(entries) = {entries[i].id : i \in 1..Len(entries)}
      /\ IdsOf(lines) = {lines[i].id : i \in 1..Len(lines)}
      /\ Len(entries) \in Nat /\ Len(lines) \in Nat
      /\ \A k \in 1..Len(entries) : entries[k].id \in Nat
      /\ \A k \in 1..Len(lines) : lines[k].id \in Nat
  BY MemoryFacts, EntriesFacts, EntryFacts
<1>2. \A i \in 1..Len(lines) : \E j \in 1..Len(entries) : Alike(m, lines[i], entries[j])
  BY <1>1 DEF Remembers
<1>3. /\ \A i \in 1..Len(entries) : EntryOf(entries, entries[i].id) = entries[i]
      /\ \A i \in 1..Len(lines) : EntryOf(lines, lines[i].id) = lines[i]
  BY <1>1, EntryFound
<1>4. Rising(entries, last)
  OBVIOUS
<1>5. IdsOf(lines) = IdsOf(entries)
  OBVIOUS
<1> HIDE DEF entries
<1>6. ASSUME NEW i \in 1..Len(lines), NEW j \in 1..Len(entries), lines[i].id = entries[j].id
      PROVE  Alike(m, lines[i], entries[j])
  <2>1. PICK k \in 1..Len(entries) : Alike(m, lines[i], entries[k])
    BY <1>2
  <2>2. entries[k].id = entries[j].id
    BY <1>6, <2>1 DEF Alike, Same
  <2>3. entries[k] = entries[j]
    BY <1>3, <2>2
  <2> QED
    BY <2>1, <2>3
<1>7. ASSUME NEW id \in IdsOf(lines)
      PROVE  Alike(m, EntryOf(lines, id), EntryOf(entries, id))
  <2>1. PICK i \in 1..Len(lines) : lines[i].id = id
    BY <1>1
  <2>2. PICK j \in 1..Len(entries) : entries[j].id = id
    BY <1>1, <1>5
  <2>3. EntryOf(lines, id) = lines[i] /\ EntryOf(entries, id) = entries[j]
    BY <1>3, <2>1, <2>2
  <2> QED
    BY <1>6, <2>1, <2>2, <2>3
<1>8. ASSUME NEW leaf
      PROVE  Branch(lines, leaf) = Branch(entries, leaf)
  <2>1. ASSUME NEW ids
        PROVE  Closed(lines, ids) <=> Closed(entries, ids)
    <3>1. ASSUME Closed(lines, ids), NEW j \in 1..Len(entries), entries[j].id \in ids
          PROVE  entries[j].parent \in ids
      <4>1. PICK i \in 1..Len(lines) : lines[i].id = entries[j].id
        BY <1>1, <1>5
      <4>2. lines[i].parent = entries[j].parent
        BY <1>6, <4>1 DEF Alike, Same
      <4>3. lines[i].parent \in ids
        BY <1>1, <3>1, <4>1 DEF Closed
      <4> QED
        BY <4>2, <4>3
    <3>2. ASSUME Closed(entries, ids), NEW i \in 1..Len(lines), lines[i].id \in ids
          PROVE  lines[i].parent \in ids
      <4>1. PICK j \in 1..Len(entries) : entries[j].id = lines[i].id
        BY <1>1, <1>5
      <4>2. lines[i].parent = entries[j].parent
        BY <1>6, <4>1 DEF Alike, Same
      <4>3. entries[j].parent \in ids
        BY <1>1, <3>2, <4>1 DEF Closed
      <4> QED
        BY <4>2, <4>3
    <3>3. Closed(lines, ids) => Closed(entries, ids)
      BY <1>1, <3>1 DEF Closed
    <3>4. Closed(entries, ids) => Closed(lines, ids)
      BY <1>1, <3>2 DEF Closed
    <3> QED
      BY <3>3, <3>4
  <2> QED
    BY <1>5, <2>1 DEF Branch
<1>9. LeafOf(lines) = LeafOf(entries)
  <2>1. CASE lines = <<>> \/ entries = <<>>
    <3>1. lines = entries
      BY <1>1, <1>4, <1>5, <2>1, LastRises
    <3> QED
      BY <3>1
  <2>2. CASE lines # <<>> /\ entries # <<>>
    <3> DEFINE a == Len(lines)
               b == Len(entries)
    <3>1. /\ a \in 1..Len(lines) /\ \A i \in 1..Len(lines) : lines[i].id <= lines[a].id
          /\ b \in 1..Len(entries) /\ \A i \in 1..Len(entries) : entries[i].id <= entries[b].id
      BY <1>1, <1>4, <2>2, LastRises
    <3>2. Last(lines) = lines[a] /\ Last(entries) = entries[b]
      BY DEF Last
    <3> HIDE DEF a, b
    <3>3. PICK i \in 1..Len(lines) : lines[i].id = entries[b].id
      BY <1>1, <1>5, <3>1
    <3>4. PICK j \in 1..Len(entries) : entries[j].id = lines[a].id
      BY <1>1, <1>5, <3>1
    <3>5. lines[a].id <= entries[b].id /\ entries[b].id <= lines[a].id
      BY <3>1, <3>3, <3>4
    <3>6. lines[a].id = entries[b].id
      BY <1>1, <3>1, <3>5
    <3>7. Same(lines[a], entries[b])
      BY <1>6, <3>1, <3>6 DEF Alike
    <3> QED
      BY <2>2, <3>2, <3>7 DEF LeafOf, Same
  <2> QED
    BY <2>1, <2>2
<1> QED
  BY <1>7, <1>8, <1>9 DEF entries

(* The checkpoints of a branch, and the newest.                            *)
Points(entries, leaf) ==
  {id \in Branch(entries, leaf) : EntryOf(entries, id).kind = "checkpoint"}

Newest(points) == CHOOSE id \in points : \A other \in points : other <= id

(* The checkpoint is the newest of the branch. *)
LEMMA CheckpointFacts ==
  ASSUME NEW entries \in Seq(EntryType), NEW leaf
  PROVE  /\ Checkpoint(entries, leaf) =
              IF /\ Points(entries, leaf) # {}
                 /\ EntryOf(entries, Newest(Points(entries, leaf))).active
              THEN Newest(Points(entries, leaf)) ELSE NoId
         /\ Points(entries, leaf) # {} =>
              /\ Newest(Points(entries, leaf)) \in Points(entries, leaf)
              /\ \A other \in Points(entries, leaf) : other <= Newest(Points(entries, leaf))
         /\ Points(entries, leaf) \subseteq IdsOf(entries)
<1>1. Points(entries, leaf) \subseteq IdsOf(entries) /\ IdsOf(entries) \subseteq Ids
  BY EntriesFacts DEF Branch, Points
<1> DEFINE points == Points(entries, leaf)
<1>2. points # {} => \E id \in points : \A other \in points : other <= id
  BY <1>1, NewestExists
<1>3. Checkpoint(entries, leaf) =
        IF points # {} /\ EntryOf(entries, Newest(points)).active THEN Newest(points) ELSE NoId
  BY DEF Checkpoint, Points, Newest
<1> HIDE DEF points
<1>4. points # {} => Newest(points) \in points /\ \A other \in points : other <= Newest(points)
  BY <1>2 DEF Newest
<1> QED
  BY <1>1, <1>3, <1>4 DEF points

(* What is synced is resumed alike. *)
LEMMA SyncedFacts ==
  ASSUME LogTypeOK, Numbered, LeafKnown, NEW p \in Procs, Synced(p),
         Remembers(mem[p], file.lines)
  PROVE  LET now == Checkpoint(mem[p].entries, mem[p].leaf)
             then == Checkpoint(file.lines, LeafOf(file.lines))
         IN  /\ \A id \in IdsOf(file.lines) :
                  EntryOf(file.lines, id).text = EntryOf(mem[p].entries, id).text
             /\ now # then => /\ now = NoId
                               /\ \E i \in DOMAIN file.lines : file.lines[i].kind = "leaf"
<1> DEFINE m == mem[p]
           lines == file.lines
<1>1. /\ m \in MemoryType /\ lines \in Seq(EntryType) /\ m.entries \in Seq(EntryType)
      /\ Rising(m.entries, made) /\ Rising(lines, made) /\ m.leaf = LeafOf(m.entries)
      /\ m.flushed /\ IdsOf(lines) = IdsOf(m.entries) /\ Remembers(m, lines)
  BY LogTypeFacts, MemoryFacts DEF Numbered, LeafKnown, Synced, Dirty
<1> HIDE DEF m, lines
<1>2. /\ \A id \in IdsOf(lines) : Alike(m, EntryOf(lines, id), EntryOf(m.entries, id))
      /\ \A leaf : Branch(lines, leaf) = Branch(m.entries, leaf)
      /\ LeafOf(lines) = m.leaf
  BY <1>1, MirrorFacts
<1>3. \A id \in IdsOf(lines) : EntryOf(lines, id).text = EntryOf(m.entries, id).text
  BY <1>1, <1>2 DEF Alike
<1> DEFINE points == Points(m.entries, m.leaf)
           newest == Newest(points)
           now == Checkpoint(m.entries, m.leaf)
           then == Checkpoint(lines, m.leaf)
<1>4. points \subseteq IdsOf(lines)
  BY <1>1, CheckpointFacts
<1>5. points = Points(lines, m.leaf)
  <2>1. \A id \in Branch(m.entries, m.leaf) : id \in IdsOf(lines)
    BY <1>1 DEF Branch
  <2>2. \A id \in IdsOf(lines) : EntryOf(lines, id).kind = EntryOf(m.entries, id).kind
    BY <1>2 DEF Alike, Same
  <2> QED
    BY <1>2, <2>1, <2>2 DEF Points
<1>6. /\ now = IF points # {} /\ EntryOf(m.entries, newest).active THEN newest ELSE NoId
      /\ points # {} => newest \in points /\ \A other \in points : other <= newest
  BY <1>1, CheckpointFacts
<1>7. then = IF points # {} /\ EntryOf(lines, newest).active THEN newest ELSE NoId
  BY <1>1, <1>5, CheckpointFacts
<1> HIDE DEF points, newest, now, then
<1>8. ASSUME now # then
      PROVE  now = NoId /\ \E i \in DOMAIN lines : lines[i].kind = "leaf"
  <2>1. points # {} /\ newest \in points /\ newest \in IdsOf(lines)
    BY <1>4, <1>6, <1>7, <1>8
  <2> DEFINE disk == EntryOf(lines, newest)
             own == EntryOf(m.entries, newest)
  <2>2. Alike(m, disk, own)
    BY <1>2, <2>1
  <2>3. disk.active # own.active
    BY <1>6, <1>7, <1>8
  <2>4. \E i \in 1..Len(lines) : lines[i] = disk /\ lines[i].id = newest
    <3>1. PICK i \in 1..Len(lines) : lines[i].id = newest
      BY <1>1, <2>1, EntriesFacts
    <3> QED
      BY <1>1, <3>1, EntryFound
  <2>5. \E i \in 1..Len(m.entries) : m.entries[i] = own
    <3>1. PICK i \in 1..Len(m.entries) : m.entries[i].id = newest
      BY <1>1, <2>1, EntriesFacts
    <3> QED
      BY <1>1, <3>1, EntryFound
  <2>6. disk.active \in BOOLEAN /\ own.active \in BOOLEAN
    BY <1>1, <2>4, <2>5, EntriesFacts, EntryFacts
  <2>7. disk.id = newest
    BY <2>4
  <2> HIDE DEF disk, own
  <2>8. disk.active /\ ~own.active /\ Overtaken(m, newest)
    BY <2>2, <2>3, <2>6, <2>7 DEF Alike
  <2>9. now = NoId
    BY <1>6, <2>8 DEF own
  <2>10. ~\E i \in DOMAIN m.entries :
            /\ m.entries[i].kind = "checkpoint" /\ newest < m.entries[i].id
            /\ m.entries[i].id \in Branch(m.entries, m.leaf)
    <3> SUFFICES ASSUME NEW i \in DOMAIN m.entries, m.entries[i].kind = "checkpoint",
                        newest < m.entries[i].id,
                        m.entries[i].id \in Branch(m.entries, m.leaf)
                 PROVE  FALSE
      OBVIOUS
    <3>1. i \in 1..Len(m.entries) /\ m.entries[i].id \in Ids
      BY <1>1, EntriesFacts
    <3>2. EntryOf(m.entries, m.entries[i].id) = m.entries[i]
      BY <1>1, <3>1, EntryFound
    <3>3. m.entries[i].id \in points
      BY <3>2 DEF points, Points
    <3>4. newest \in Nat /\ m.entries[i].id \in Nat
      BY <1>1, <2>1, <3>1, EntriesFacts, EntryFacts
    <3> QED
      BY <1>6, <2>1, <3>3, <3>4
  <2>11. PICK i \in 1..Len(m.entries) : m.entries[i].kind = "leaf"
    BY <1>1, <2>8, <2>10, EntriesFacts DEF Overtaken
  <2>12. PICK k \in 1..Len(lines) : lines[k].id = m.entries[i].id
    BY <1>1, EntriesFacts
  <2>13. EntryOf(lines, lines[k].id) = lines[k] /\ EntryOf(m.entries, lines[k].id) = m.entries[i]
    BY <1>1, <2>12, EntryFound
  <2>14. lines[k].kind = "leaf"
    BY <1>1, <1>2, <2>11, <2>13, EntriesFacts DEF Alike, Same
  <2> QED
    BY <1>1, <2>9, <2>14, EntriesFacts
<1> QED
  BY <1>2, <1>3, <1>8 DEF m, lines, now, then

----------------------------------------------------------------------------
(* The theorems *)

(* The inductive invariant of the log.                                     *)
LogIInv == LogTypeOK /\ Numbered /\ Tree /\ Alone

(* What a process opens is whole and the same. *)
LEMMA FaithfulFacts == LogIInv => ReloadIsFaithful
<1> SUFFICES ASSUME LogIInv PROVE ReloadIsFaithful
  OBVIOUS
<1>1. LogTypeOK /\ Numbered /\ Rooted /\ LeafKnown /\ Lone /\ Remembered
  BY DEF LogIInv, Tree, Alone
<1>2. BranchesWhole
  <2>1. /\ DOMAIN file.lines = 1..Len(file.lines) /\ Len(file.lines) \in Nat
        /\ IdsOf(file.lines) = {file.lines[i].id : i \in 1..Len(file.lines)}
    BY <1>1, LogTypeFacts, EntriesFacts
  <2>2. ASSUME acked \subseteq IdsOf(file.lines), NEW i \in DOMAIN file.lines,
               NEW id \in {file.lines[i].parent, file.lines[i].target}
        PROVE  id \in IdsOf(file.lines) \cup {NoId}
    <3>1. id = NoId \/ id \in acked \/ \E j \in 1..i - 1 : file.lines[j].id = id
      BY <1>1 DEF Rooted, Hung
    <3>2. \A j \in 1..i - 1 : j \in 1..Len(file.lines)
      BY <2>1
    <3> QED
      BY <2>1, <2>2, <3>1, <3>2
  <2> QED
    BY <2>2 DEF BranchesWhole
<1>3. DiskAgrees
  <2> SUFFICES ASSUME NEW p \in Procs, ~shared, Synced(p)
               PROVE  LET now == Checkpoint(mem[p].entries, mem[p].leaf)
                          then == Checkpoint(file.lines, LeafOf(file.lines))
                      IN  /\ \A id \in IdsOf(file.lines) :
                               EntryOf(file.lines, id).text = EntryOf(mem[p].entries, id).text
                          /\ now # then => /\ now = NoId
                                            /\ \E i \in DOMAIN file.lines :
                                                 file.lines[i].kind = "leaf"
    BY DEF DiskAgrees
  <2>1. Remembers(mem[p], file.lines)
    BY <1>1 DEF Remembered, Synced
  <2> QED
    BY <1>1, <2>1, SyncedFacts
<1> QED
  BY <1>2, <1>3 DEF ReloadIsFaithful

(* The invariant holds at the beginning. *)
LEMMA InitInvariant == LogInit => LogIInv
<1> SUFFICES ASSUME LogInit PROVE LogIInv
  OBVIOUS
<1>1. LogTypeOK
  BY LogInitTypes
<1>2. file.lines = <<>>
  BY DEF LogInit
<1>3. \A p \in Procs : \E up \in BOOLEAN : mem[p] = Empty(up) /\ (up => p = First)
  BY DEF LogInit
<1>4. \A p \in Procs :
        /\ mem[p].entries = <<>> /\ mem[p].leaf = NoId /\ mem[p].count = 0
        /\ mem[p].up => p = First
  BY <1>3, EmptyFacts
<1>5. Rising(<<>>, made) /\ Hung(<<>>, acked) /\ \A m : Remembers(m, <<>>)
  BY DEF Rising, Hung, Remembers
<1>6. Numbered
  BY <1>2, <1>4, <1>5 DEF Numbered
<1>7. Tree
  <2>1. Rooted
    BY <1>2, <1>4, <1>5 DEF Rooted
  <2>2. Counted
    BY <1>4 DEF Counted
  <2>3. LeafKnown
    BY <1>4, LastFacts DEF LeafKnown
  <2> QED
    BY <2>1, <2>2, <2>3 DEF Tree
<1>8. Alone
  BY <1>2, <1>4, <1>5 DEF Alone, Lone, Remembered
<1> QED
  BY <1>1, <1>6, <1>7, <1>8 DEF LogIInv

(* Every step keeps the invariant. *)
LEMMA StepInvariant == LogIInv /\ [LogNext]_logVars => LogIInv'
<1> SUFFICES ASSUME LogIInv, [LogNext]_logVars PROVE LogIInv'
  OBVIOUS
<1>1. LogTypeOK'
  BY StepTypes DEF LogIInv
<1>2. CASE LogNext
  BY <1>1, <1>2, StepNumbered, StepTree, StepAlone DEF LogIInv
<1>3. CASE UNCHANGED logVars
  <2>1. Numbered'
    BY <1>3 DEF LogIInv, logVars, Numbered
  <2>2. Tree'
    BY <1>3 DEF LogIInv, logVars, Tree, Rooted, Counted, LeafKnown
  <2>3. Alone'
    BY <1>3 DEF LogIInv, logVars, Alone, Lone, Remembered
  <2> QED
    BY <1>1, <2>1, <2>2, <2>3 DEF LogIInv
<1> QED
  BY <1>2, <1>3

(* A session that one process at a time has open and whose flags say that  *)
(* it is on disk is found again as it was: its branch without gaps while   *)
(* all that was written is there, its messages, and its checkpoint.        *)
THEOREM ReopenIsFaithful == LogSpec => []ReloadIsFaithful
<1>1. LogInit => LogIInv
  BY InitInvariant
<1>2. LogIInv /\ [LogNext]_logVars => LogIInv'
  BY StepInvariant
<1>3. LogIInv => ReloadIsFaithful
  BY FaithfulFacts
<1> QED
  BY <1>1, <1>2, <1>3, PTL DEF LogSpec

(* A part has no other numbers. *)
LEMMA BeginsIds ==
  ASSUME NEW short \in Seq(EntryType), NEW long \in Seq(EntryType), Begins(short, long)
  PROVE  IdsOf(short) \subseteq IdsOf(long)
<1>1. /\ IdsOf(short) = {short[i].id : i \in 1..Len(short)}
      /\ IdsOf(long) = {long[i].id : i \in 1..Len(long)}
      /\ Len(short) \in Nat /\ Len(long) \in Nat
  BY EntriesFacts
<1>2. \A i \in 1..Len(short) : i \in 1..Len(long) /\ short[i].id = long[i].id
  BY <1>1 DEF Begins
<1> QED
  BY <1>1, <1>2

(* Adding an entry loses nothing without a cause. *)
LEMMA AddsLoss ==
  ASSUME LogTypeOK, NEW p \in Procs, NEW before \in Seq(EntryType), NEW e \in EntryType,
         NEW m \in MemoryType, Adds(p, before, e, m), ~Ends, ~Behind, ~Foreign
  PROVE  LET kept == IdsOf(file'.lines) \cup
                       (IF mem'[p].up /\ Dirty(mem'[p]) THEN IdsOf(mem'[p].entries) ELSE {})
         IN  /\ IdsOf(file.lines) \subseteq kept
             /\ acked' \subseteq acked \cup kept
             /\ Dirty(mem[p]) => IdsOf(mem[p].entries) \subseteq kept
<1> DEFINE own == IF mem'[p].up /\ Dirty(mem'[p]) THEN IdsOf(mem'[p].entries) ELSE {}
           kept == IdsOf(file'.lines) \cup own
<1>1. /\ m.up /\ m.entries \in Seq(EntryType) /\ file.lines \in Seq(EntryType)
      /\ m.count <= Len(m.entries) - 1 /\ m.count \in Nat /\ Len(m.entries) \in Nat
      /\ Len(mem[p].entries) \in Nat /\ Len(m.entries) = Len(mem[p].entries) + 1
      /\ mem[p].entries \in Seq(EntryType) /\ mem[p].up
      /\ m.count = mem[p].count /\ m.flushed = mem[p].flushed
      /\ ~Lagging(m) => m.flushed /\ m.count = Len(mem[p].entries)
      /\ \A i \in 1..Len(mem[p].entries) : Same(mem[p].entries[i], m.entries[i])
      /\ m.entries[Len(m.entries)] = e
  <2>1. /\ m.entries \in Seq(EntryType) /\ file.lines \in Seq(EntryType)
        /\ mem[p].entries \in Seq(EntryType) /\ Len(m.entries) \in Nat
    BY LogTypeFacts, MemoryFacts
  <2>2. mem[p].up /\ m.flushed = mem[p].flushed
    BY DEF Adds, With
  <2>3. /\ Len(mem[p].entries) \in Nat /\ Len(m.entries) = Len(mem[p].entries) + 1
        /\ m.entries[Len(m.entries)] = e /\ m.up
        /\ \A i \in 1..Len(mem[p].entries) : Same(mem[p].entries[i], m.entries[i])
        /\ m.count = mem[p].count /\ m.count \in Nat /\ m.count <= Len(m.entries) - 1
        /\ ~Lagging(m) => m.flushed /\ m.count = Len(mem[p].entries)
    BY HeldFacts
  <2> QED
    BY <2>1, <2>2, <2>3
<1>2. IdsOf(mem[p].entries) \subseteq IdsOf(m.entries) /\ e.id \in IdsOf(m.entries)
  <2>1. /\ IdsOf(mem[p].entries) = {mem[p].entries[i].id : i \in 1..Len(mem[p].entries)}
        /\ IdsOf(m.entries) = {m.entries[i].id : i \in 1..Len(m.entries)}
    BY <1>1, EntriesFacts
  <2>2. \A i \in 1..Len(mem[p].entries) :
          i \in 1..Len(m.entries) /\ mem[p].entries[i].id = m.entries[i].id
    BY <1>1 DEF Same
  <2>3. Len(m.entries) \in 1..Len(m.entries)
    BY <1>1
  <2> QED
    BY <1>1, <2>1, <2>2, <2>3
<1>3. IdsOf(file'.lines) \subseteq IdsOf(mem'[p].entries)
        => IdsOf(file.lines) \subseteq IdsOf(mem'[p].entries)
  BY <1>1 DEF Foreign
<1>4. mem'[p].up
  BY <1>1 DEF Ends
<1>5. Outcome(p, m)
  BY AddsFacts
<1>6. mem'[p].entries = m.entries
  BY <1>4, <1>5, EmptyFacts DEF Outcome
<1>7. CASE Rewritten(p, m)
  <2>1. file'.lines = m.entries /\ acked' = acked \cup IdsOf(m.entries)
    BY <1>1, <1>7 DEF Rewritten, Whole
  <2>2. IdsOf(file.lines) \subseteq IdsOf(m.entries)
    BY <1>3, <1>6, <2>1
  <2> QED
    BY <1>2, <2>1, <2>2
<1>8. CASE Unwritten(p, m, e)
  <2>1. mem'[p] = m /\ acked' = acked
    BY <1>4, <1>8, EmptyFacts DEF Unwritten
  <2>2. Dirty(mem'[p]) /\ own = IdsOf(m.entries)
    <3>1. m.count < Len(m.entries)
      BY <1>1
    <3> QED
      BY <1>4, <2>1, <3>1 DEF Dirty
  <2>3. IdsOf(file.lines) \subseteq kept
    <3>1. CASE file' = file
      BY <3>1
    <3>2. CASE file' \in WholeCut(m)
      <4>1. Begins(file'.lines, m.entries) /\ file'.lines \in Seq(EntryType)
        BY <3>2, WholeFacts
      <4>2. IdsOf(file'.lines) \subseteq IdsOf(m.entries)
        BY <1>1, <4>1, BeginsIds
      <4>3. IdsOf(file.lines) \subseteq IdsOf(m.entries)
        BY <1>3, <1>6, <4>2
      <4> QED
        BY <2>2, <4>3
    <3>3. CASE file' \in LongerCut(e)
      <4>1. /\ file.tail = "clean" => file'.lines \in {file.lines, Append(file.lines, e)}
            /\ file.tail # "clean" /\ file' # file => file'.lines = Glued.lines
        BY <3>3, LongerFacts
      <4>2. file' = file \/ file.tail = "clean"
        BY <4>1 DEF Behind
      <4>3. IdsOf(file.lines) \subseteq IdsOf(Append(file.lines, e))
        BY <1>1, BehindFacts
      <4>4. CASE file' = file
        BY <4>4
      <4>5. CASE file.tail = "clean"
        BY <4>1, <4>3, <4>5
      <4> QED
        BY <4>2, <4>4, <4>5
    <3> QED
      BY <1>8, <3>1, <3>2, <3>3 DEF Unwritten
  <2> QED
    BY <1>2, <2>1, <2>2, <2>3
<1>9. CASE Extended(p, m, e)
  <2>1. ~Lagging(m) /\ file' = Longer(e) /\ acked' = acked \cup {e.id}
    BY <1>9 DEF Extended
  <2>2. ~Dirty(mem[p])
    BY <1>1, <2>1 DEF Dirty
  <2>3. file.tail = "clean"
    <3> SUFFICES ASSUME file.tail # "clean" PROVE FALSE
      OBVIOUS
    <3>1. file'.tail = "clean"
      <4>1. Glued \in [header : BOOLEAN, lines : Seq(EntryType), tail : Tails]
        BY GluedFacts
      <4> QED
        BY <2>1, <4>1 DEF Longer
    <3>2. file' # file
      BY <3>1
    <3>3. file'.lines = Glued.lines
      BY <2>1, <3>2, LongerFacts
    <3> QED
      BY <3>2, <3>3 DEF Behind
  <2>4. file'.lines = Append(file.lines, e)
    BY <2>1, <2>3, LongerFacts
  <2>5. IdsOf(file'.lines) = IdsOf(file.lines) \cup {e.id}
    BY <1>1, <2>4, BehindFacts
  <2> QED
    BY <2>1, <2>2, <2>5
<1> QED
  BY <1>7, <1>8, <1>9 DEF Adds

(* A step without a cause loses nothing. *)
LEMMA StepLoss ==
  ASSUME LogTypeOK, LogNext, ~Ends, ~FailedRewrite, ~Behind, ~Foreign
  PROVE  Missing' \subseteq Missing
<1>1. /\ \A x : x \in Healing <=>
                \E q \in Procs : mem[q].up /\ Dirty(mem[q]) /\ x \in IdsOf(mem[q].entries)
      /\ \A x : x \in Healing' <=>
                \E q \in Procs : mem'[q].up /\ Dirty(mem'[q]) /\ x \in IdsOf(mem'[q].entries)
  BY DEF Healing
<1>2. ASSUME NEW p \in Procs, Others(p),
             IdsOf(file.lines) \subseteq IdsOf(file'.lines) \cup Healing',
             acked' \subseteq acked \cup IdsOf(file'.lines) \cup Healing',
             mem[p].up /\ Dirty(mem[p]) =>
               IdsOf(mem[p].entries) \subseteq IdsOf(file'.lines) \cup Healing'
      PROVE  Missing' \subseteq Missing
  <2>1. Healing \subseteq IdsOf(file'.lines) \cup Healing'
    BY <1>1, <1>2 DEF Others
  <2> QED
    BY <1>2, <2>1 DEF Missing
<1>3. PICK p \in Procs :
         \/ \E before \in Seq(EntryType), e \in EntryType, m \in MemoryType :
              Adds(p, before, e, m)
         \/ Restates(p) \/ Replaces(p) \/ Loads(p) \/ Exits(p)
  BY StepFacts
<1>4. (IF mem'[p].up /\ Dirty(mem'[p]) THEN IdsOf(mem'[p].entries) ELSE {}) \subseteq Healing'
  BY <1>1
<1>5. ASSUME NEW before \in Seq(EntryType), NEW e \in EntryType, NEW m \in MemoryType,
             Adds(p, before, e, m)
      PROVE  Missing' \subseteq Missing
  <2> DEFINE own == IF mem'[p].up /\ Dirty(mem'[p]) THEN IdsOf(mem'[p].entries) ELSE {}
             kept == IdsOf(file'.lines) \cup own
  <2>1. /\ IdsOf(file.lines) \subseteq kept /\ acked' \subseteq acked \cup kept
        /\ Dirty(mem[p]) => IdsOf(mem[p].entries) \subseteq kept
    BY <1>5, AddsLoss
  <2>2. Others(p) /\ own \subseteq Healing'
    BY <1>4, <1>5 DEF Adds
  <2> HIDE DEF own
  <2> QED
    BY <1>2, <2>1, <2>2
<1>6. CASE Restates(p)
  <2>1. ~Stopped(p)
    BY <1>6 DEF FailedRewrite, Stopped, Restates
  <2>2. /\ Others(p) /\ mem[p].up /\ mem'[p] \in {mem[p], Flushed(mem[p])}
        /\ file'.lines = mem[p].entries /\ acked' = acked \cup IdsOf(mem[p].entries)
    BY <1>6, <2>1 DEF Restates, Rewritten, Whole
  <2>3. mem'[p].entries = mem[p].entries
    BY <2>2, FlushedFacts, LogTypeFacts
  <2>4. IdsOf(file.lines) \subseteq IdsOf(mem[p].entries)
    BY <2>2, <2>3 DEF Foreign
  <2> QED
    BY <1>2, <2>2, <2>4
<1>7. CASE Replaces(p)
  <2>1. /\ Others(p) /\ file' = file /\ acked' = acked /\ mem'[p].up /\ ~mem'[p].flushed
        /\ Len(mem'[p].entries) = Len(mem[p].entries)
        /\ \A i \in 1..Len(mem[p].entries) : Same(mem[p].entries[i], mem'[p].entries[i])
        /\ mem'[p] \in MemoryType /\ mem[p] \in MemoryType
    BY <1>7, LogTypeFacts DEF Replaces
  <2>2. IdsOf(mem[p].entries) \subseteq IdsOf(mem'[p].entries)
    <3>1. /\ IdsOf(mem[p].entries) = {mem[p].entries[i].id : i \in 1..Len(mem[p].entries)}
          /\ IdsOf(mem'[p].entries) = {mem'[p].entries[i].id : i \in 1..Len(mem[p].entries)}
      BY <2>1, MemoryFacts, EntriesFacts
    <3>2. \A i \in 1..Len(mem[p].entries) : mem[p].entries[i].id = mem'[p].entries[i].id
      BY <2>1 DEF Same
    <3> QED
      BY <3>1, <3>2
  <2>3. IdsOf(mem'[p].entries) \subseteq Healing'
    BY <1>1, <2>1 DEF Dirty
  <2> QED
    BY <1>2, <2>1, <2>2, <2>3
<1>8. CASE Loads(p)
  BY <1>2, <1>8 DEF Loads
<1>9. CASE Exits(p)
  BY <1>9, EmptyFacts DEF Exits, Ends
<1> QED
  BY <1>3, <1>5, <1>6, <1>7, <1>8, <1>9

(* An entry whose writing has returned is lost only when a process ends, a *)
(* rewrite of the header fails, a line goes behind an unfinished one, or a *)
(* process rewrites the file without an entry of another.                  *)
THEOREM LossHasCause == LogSpec => LossNeedsCause
<1>1. LogTypeOK /\ [LogNext]_logVars
        => [Ends \/ FailedRewrite \/ Behind \/ Foreign \/ Missing' \subseteq Missing]_logVars
  BY StepLoss
<1> QED
  BY <1>1, LogTypeCorrect, PTL DEF LogSpec, LossNeedsCause

----------------------------------------------------------------------------
(* Undo and redo *)

(* A revert is staged between runs; a run has its message.                 *)
Placed ==
  /\ Staged => run = Idle
  /\ run # Idle => branch # <<>>

Types == TypeOK /\ Placed

(* Whatever a snapshot or a revert names changed during a run, and during  *)
(* a run the other files are those of its baseline.                        *)
Accounted ==
  /\ \A i \in DOMAIN branch : branch[i].changed \subseteq touched
  /\ Staged => revert.files \subseteq touched
  /\ run \in Trees => \A p \in Paths \ touched : run[p] = Seen(worktree)[p]

(* A message whose run is over, with the record of what the run changed,   *)
(* or left behind when the work that followed it was cut off.              *)
Settled(message) ==
  /\ message.ended \in Trees
  /\ \/ /\ message.start = message.began
        /\ message.changed = Differ(message.began, message.ended)
     \/ message.start = NoTree /\ message.ended = message.began

(* Every message begins where the one before it ended.                     *)
Chained == \A i \in 1..Len(branch) - 1 : branch[i].ended = branch[i + 1].began

Snapped ==
  /\ \A i \in DOMAIN branch :
       /\ branch[i].began \in Trees
       /\ i < Len(branch) \/ run = Idle => Settled(branch[i])
  /\ run # Idle => run = branch[Len(branch)].began

(* The files that a redo from the newest message would bring back.         *)
Returned(original, files, p) ==
  IF original = NoTree \/ p \notin files THEN branch[Len(branch)].began[p] ELSE original[p]

Redoable ==
  Staged /\ revert.boundary = Len(branch) =>
    \A p \in Paths :
      Returned(revert.original, revert.files, p) = branch[Len(branch)].ended[p]

Together == Chained /\ Snapped /\ InStep /\ Redoable

(* A revert that was staged once knows the files of before it.             *)
Exact ==
  Staged /\ revert.before # NoTree /\ causes \cap {"big", "restore", "capture"} = {} =>
    /\ revert.before \in Trees
    /\ \/ /\ revert.original = NoTree /\ PlanPaths(revert.boundary) = {}
          /\ revert.after = revert.before
       \/ /\ revert.original = revert.before /\ PlanPaths(revert.boundary) # {}
          /\ \A p \in Paths \ revert.files : revert.after[p] = revert.before[p]

IInv ==
  /\ Types /\ Accounted /\ HandKept
  /\ causes = {} => Together
  /\ Exact

----------------------------------------------------------------------------
(* The branch *)

(* What the contents of files are. *)
LEMMA ContentsFacts ==
  /\ Trees \subseteq [Paths -> Contents] /\ NoTree \notin Trees /\ Idle \notin Trees
  /\ Idle # NoTree
  /\ \A files \in [Paths -> Contents] :
       /\ Seen(files) \in Trees
       /\ Seen(files) = files <=> files \in Trees
       /\ \A p \in Paths : files[p] # Big => Seen(files)[p] = files[p]
<1>1. Trees \subseteq [Paths -> Contents]
  BY DEF Trees, Contents
<1>2. ASSUME NEW files \in [Paths -> Contents]
      PROVE  /\ Seen(files) \in Trees
             /\ Seen(files) = files <=> files \in Trees
             /\ \A p \in Paths : files[p] # Big => Seen(files)[p] = files[p]
  <2>1. Seen(files) \in Trees
    BY DEF Seen, Trees, Contents
  <2>2. ASSUME files \in Trees PROVE Seen(files) = files
    <3>1. \A p \in Paths : files[p] # Big
      BY <2>2, ContentsAssumption DEF Trees
    <3> QED
      BY <2>2, <3>1 DEF Seen, Trees
  <2> QED
    BY <2>1, <2>2 DEF Seen
<1> QED
  BY <1>1, <1>2, IdleAssumption, NoTreeAssumption

(* The types of what is kept. *)
LEMMA TypeFacts ==
  ASSUME TypeOK
  PROVE  /\ worktree \in [Paths -> Contents] /\ hand \in [Paths -> Contents]
         /\ branch \in Seq(MessageType) /\ Len(branch) \in Nat /\ Len(branch) <= MaxMessages
         /\ DOMAIN branch = 1..Len(branch)
         /\ \A i \in 1..Len(branch) : branch[i] \in MessageType
         /\ touched \subseteq Paths /\ edits \in 0..MaxEdits /\ causes \subseteq Causes
         /\ Staged => /\ revert \in RevertType /\ revert.boundary \in 1..Len(branch)
BY BoundsAssumption DEF TypeOK, Staged, RevertType

(* What a message holds. *)
LEMMA MessageFacts ==
  /\ \A files \in [Paths -> Contents] :
       /\ Message(files) \in MessageType /\ Message(files).began = files
       /\ Message(files).ended = files /\ Message(files).start = NoTree
       /\ Message(files).changed = {}
  /\ \A m \in MessageType :
       /\ m.began \in [Paths -> Contents] /\ m.ended \in [Paths -> Contents]
       /\ m.start \in Trees \cup {NoTree} /\ m.changed \subseteq Paths
BY DEF Message, MessageType

(* The branch cut to the messages before the b-th. *)
LEMMA BeforeFacts ==
  ASSUME TypeOK, NEW b \in 1..Len(branch)
  PROVE  LET short == SubSeq(branch, 1, b - 1)
         IN  /\ short \in Seq(MessageType) /\ Len(short) = b - 1
             /\ \A i \in 1..b - 1 : short[i] = branch[i]
<1>1. branch \in Seq(MessageType) /\ 1 \in 1..Len(branch) + 1 /\ b - 1 \in 0..Len(branch)
  BY TypeFacts
<1> QED
  BY <1>1, SubSeqProperties

(* The branch cut to the b-th message. *)
LEMMA CutFacts ==
  ASSUME TypeOK, NEW b \in 1..Len(branch)
  PROVE  /\ CutTo(b) \in Seq(MessageType) /\ Len(CutTo(b)) = b
         /\ \A i \in 1..b - 1 : CutTo(b)[i] = branch[i]
         /\ CutTo(b)[b] = Message(branch[b].began)
<1> DEFINE short == SubSeq(branch, 1, b - 1)
           m == Message(branch[b].began)
<1>1. /\ short \in Seq(MessageType) /\ Len(short) = b - 1
      /\ \A i \in 1..b - 1 : short[i] = branch[i]
  BY BeforeFacts
<1>2. m \in MessageType
  BY TypeFacts, MessageFacts
<1> HIDE DEF short, m
<1>3. /\ <<m>> \in Seq(MessageType) /\ Len(<<m>>) = 1 /\ <<m>>[1] = m
  BY <1>2
<1>4. /\ short \o <<m>> \in Seq(MessageType) /\ Len(short \o <<m>>) = b
      /\ \A i \in 1..b - 1 : (short \o <<m>>)[i] = short[i]
      /\ (short \o <<m>>)[b] = m
  BY <1>1, <1>3, ConcatProperties
<1> QED
  BY <1>1, <1>4 DEF CutTo, short, m

(* A message is appended. *)
LEMMA AppendFacts ==
  ASSUME NEW kept \in Seq(MessageType), NEW m \in MessageType
  PROVE  /\ Append(kept, m) \in Seq(MessageType) /\ Len(Append(kept, m)) = Len(kept) + 1
         /\ \A i \in 1..Len(kept) : Append(kept, m)[i] = kept[i]
         /\ Append(kept, m)[Len(kept) + 1] = m
BY AppendProperties

(* The newest message is replaced. *)
LEMMA NewestFacts ==
  ASSUME TypeOK, branch # <<>>, NEW m \in MessageType
  PROVE  LET after == [branch EXCEPT ![Len(branch)] = m]
         IN  /\ after \in Seq(MessageType) /\ Len(after) = Len(branch)
             /\ \A i \in 1..Len(branch) - 1 : after[i] = branch[i]
             /\ after[Len(branch)] = m
<1> DEFINE n == Len(branch)
<1>1. branch \in Seq(MessageType) /\ n \in 1..Len(branch) /\ n \in Nat
  BY TypeFacts, EmptySeq
<1> QED
  BY <1>1, ExceptSeq

(* plan(): the text of a file is that of the first record that changed it. *)
LEMMA PlanFacts ==
  ASSUME TypeOK, NEW b \in Nat \ {0}, NEW p \in PlanPaths(b)
  PROVE  /\ p \in Paths /\ PlanText(b, p) \in Texts \cup {Absent}
         /\ \E i \in b..Len(branch) :
              /\ branch[i].start \in Trees /\ p \in branch[i].changed
              /\ PlanText(b, p) = branch[i].start[p]
              /\ \A j \in b..Len(branch) :
                   branch[j].start # NoTree /\ p \in branch[j].changed => i <= j
<1> DEFINE S == {i \in Recorded(b) : p \in branch[i].changed}
           Earliest(i) == /\ p \in branch[i].changed
                       /\ \A j \in Recorded(b) : p \in branch[j].changed => i <= j
<1>1. S # {} /\ S \in SUBSET Nat
  BY TypeFacts DEF PlanPaths, Recorded
<1> HIDE DEF S
<1>2. PICK least \in S : \A j \in S : least <= j
  BY <1>1, Least
<1>3. least \in Recorded(b) /\ Earliest(least)
  BY <1>2 DEF S
<1> DEFINE i == CHOOSE k \in Recorded(b) : Earliest(k)
<1>4. i \in Recorded(b) /\ Earliest(i)
  BY <1>3
<1>5. PlanText(b, p) = branch[i].start[p]
  BY DEF PlanText
<1> HIDE DEF i
<1>6. i \in b..Len(branch) /\ branch[i].start # NoTree /\ i \in 1..Len(branch)
  BY <1>4, TypeFacts DEF Recorded
<1>7. branch[i].start \in Trees /\ branch[i].changed \subseteq Paths
  BY <1>6, TypeFacts, MessageFacts
<1>8. \A j \in b..Len(branch) :
        branch[j].start # NoTree /\ p \in branch[j].changed => i <= j
  BY <1>4 DEF Recorded
<1>9. p \in Paths /\ branch[i].start[p] \in Texts \cup {Absent}
  BY <1>4, <1>7 DEF Trees
<1> QED
  BY <1>4, <1>5, <1>6, <1>7, <1>8, <1>9

----------------------------------------------------------------------------
(* What a step does to the files *)

(* What happened is kept, and a large file shows. *)
LEMMA BlameFacts ==
  ASSUME TypeOK, NEW what \in SUBSET Causes, Blame(what)
  PROVE  /\ causes \subseteq causes' /\ what \subseteq causes' /\ causes' \subseteq Causes
         /\ "big" \notin causes' => worktree \in Trees
<1>1. Seen(worktree) # worktree => "big" \in causes'
  BY DEF Blame
<1>2. worktree \in [Paths -> Contents] /\ causes \subseteq Causes
  BY TypeFacts
<1> QED
  BY <1>1, <1>2, ContentsFacts DEF Blame, Causes

(* restore(): the files that are put back, unless one failed. *)
LEMMA PutBackFacts ==
  ASSUME TypeOK, NEW why \in SUBSET Causes, NEW paths \in SUBSET Paths, NEW tree,
         \A p \in paths : tree[p] \in Texts \cup {Absent},
         PutBack(tree, paths, why)
  PROVE  /\ worktree' \in [Paths -> Contents]
         /\ \A p \in Paths \ paths : worktree'[p] = worktree[p]
         /\ causes \subseteq causes' /\ why \subseteq causes' /\ causes' \subseteq Causes
         /\ "restore" \notin causes' => \A p \in paths : worktree'[p] = tree[p]
         /\ "big" \notin causes' => worktree \in Trees
<1>1. PICK failed \in SUBSET paths :
        /\ worktree' = [p \in Paths |-> IF p \in paths \ failed THEN tree[p] ELSE worktree[p]]
        /\ Blame(why \cup (IF failed = {} THEN {} ELSE {"restore"}))
  BY DEF PutBack
<1> DEFINE what == why \cup (IF failed = {} THEN {} ELSE {"restore"})
<1>2. what \in SUBSET Causes /\ Blame(what)
  BY <1>1 DEF Causes
<1>3. failed # {} => "restore" \in what
  OBVIOUS
<1>4. why \subseteq what
  OBVIOUS
<1> HIDE DEF what
<1>5. /\ causes \subseteq causes' /\ what \subseteq causes' /\ causes' \subseteq Causes
      /\ "big" \notin causes' => worktree \in Trees
  BY <1>2, BlameFacts
<1>6. worktree \in [Paths -> Contents]
  BY TypeFacts
<1> QED
  BY <1>1, <1>3, <1>4, <1>5, <1>6 DEF Contents

(* The files that go back to what they were at the message `b`. *)
LEMMA TargetFacts ==
  ASSUME TypeOK, NEW b \in Nat \ {0}, NEW why \in SUBSET Causes,
         PutBack([p \in Targets(b) |-> PlanText(b, p)], Targets(b), why)
  PROVE  /\ worktree' \in [Paths -> Contents]
         /\ \A p \in Paths \ Targets(b) : worktree'[p] = worktree[p]
         /\ Targets(b) \subseteq PlanPaths(b) /\ PlanPaths(b) \subseteq Paths
         /\ causes \subseteq causes' /\ why \subseteq causes' /\ causes' \subseteq Causes
         /\ "restore" \notin causes' => \A p \in Targets(b) : worktree'[p] = PlanText(b, p)
         /\ "big" \notin causes' => worktree \in Trees
         /\ causes' \cap {"restore", "big"} = {} =>
              \A p \in PlanPaths(b) : worktree'[p] = PlanText(b, p)
<1> DEFINE tree == [p \in Targets(b) |-> PlanText(b, p)]
<1>1. \A p \in PlanPaths(b) : p \in Paths /\ PlanText(b, p) \in Texts \cup {Absent}
  BY PlanFacts
<1>2. Targets(b) \subseteq PlanPaths(b)
  BY DEF Targets
<1>3. \A p \in Targets(b) : tree[p] = PlanText(b, p)
  OBVIOUS
<1>4. PutBack(tree, Targets(b), why)
  OBVIOUS
<1> HIDE DEF tree
<1>5. Targets(b) \in SUBSET Paths /\ \A p \in Targets(b) : tree[p] \in Texts \cup {Absent}
  BY <1>1, <1>2, <1>3
<1>6. /\ worktree' \in [Paths -> Contents]
      /\ \A p \in Paths \ Targets(b) : worktree'[p] = worktree[p]
      /\ causes \subseteq causes' /\ why \subseteq causes' /\ causes' \subseteq Causes
      /\ "restore" \notin causes' => \A p \in Targets(b) : worktree'[p] = tree[p]
      /\ "big" \notin causes' => worktree \in Trees
  BY <1>4, <1>5, PutBackFacts
<1>7. ASSUME causes' \cap {"restore", "big"} = {}, NEW p \in PlanPaths(b)
      PROVE  worktree'[p] = PlanText(b, p)
  <2>1. CASE p \in Targets(b)
    BY <1>3, <1>6, <1>7, <2>1
  <2>2. CASE p \notin Targets(b)
    <3>1. PlanText(b, p) = Seen(worktree)[p] /\ p \in Paths
      BY <1>1, <2>2 DEF Targets
    <3>2. Seen(worktree) = worktree
      BY <1>6, <1>7, TypeFacts, ContentsFacts
    <3> QED
      BY <1>6, <2>2, <3>1, <3>2
  <2> QED
    BY <2>1, <2>2
<1> QED
  BY <1>1, <1>2, <1>3, <1>6, <1>7

(* The revert that is staged, for a message `b`.                           *)
RevertsTo(b, files, original) ==
  /\ revert' \in RevertType
  /\ revert'.boundary = b /\ revert'.files = files /\ revert'.original = original
  /\ revert'.before = IF Staged THEN NoTree ELSE worktree
  /\ revert'.after = IF Staged THEN NoTree ELSE worktree'

LEMMA RevertsToFacts ==
  ASSUME TypeOK, NEW b \in 1..MaxMessages, NEW files \in SUBSET Paths,
         NEW original \in Trees \cup {NoTree}, worktree' \in [Paths -> Contents],
         revert' = Revert(b, files, original, worktree')
  PROVE  RevertsTo(b, files, original)
<1>1. worktree \in [Paths -> Contents]
  BY TypeFacts
<1> QED
  BY <1>1 DEF Revert, RevertsTo, RevertType

(* stage(): the conversation alone, the files with it, or a revert that is *)
(* dropped since the worktree cannot be captured.                          *)
LEMMA StageFacts ==
  ASSUME Types, NEW b \in 1..Len(branch), NEW why \in SUBSET Causes, Stage(b, why)
  PROVE  /\ worktree' \in [Paths -> Contents]
         /\ \A p \in Paths \ PlanPaths(b) : worktree'[p] = worktree[p]
         /\ PlanPaths(b) \subseteq Paths
         /\ causes \subseteq causes' /\ why \subseteq causes' /\ causes' \subseteq Causes
         /\ "big" \notin causes' => worktree \in Trees
         /\ causes' \cap {"restore", "big", "capture"} = {} =>
              \A p \in PlanPaths(b) : worktree'[p] = PlanText(b, p)
         /\ \/ PlanPaths(b) = {} /\ worktree' = worktree /\ RevertsTo(b, {}, Original)
            \/ /\ PlanPaths(b) # {}
               /\ \A p \in Paths \ Targets(b) : worktree'[p] = worktree[p]
               /\ RevertsTo(b, Targets(b), IF Original = NoTree THEN Seen(worktree)
                                           ELSE Original)
            \/ revert' = None /\ worktree' = worktree /\ "capture" \in causes'
<1>1. /\ worktree \in [Paths -> Contents] /\ b \in Nat \ {0} /\ b \in 1..MaxMessages
      /\ Original \in Trees \cup {NoTree}
      /\ PlanPaths(b) \subseteq Paths /\ Targets(b) \subseteq PlanPaths(b)
  <2>1. worktree \in [Paths -> Contents] /\ b \in Nat \ {0} /\ b \in 1..MaxMessages
    BY TypeFacts, BoundsAssumption DEF Types
  <2>2. Original \in Trees \cup {NoTree}
    BY TypeFacts DEF Types, Original, RevertType
  <2> QED
    BY <2>1, <2>2, PlanFacts DEF Types, Targets
<1>2. CASE StageConversation(b, why)
  <2>1. /\ PlanPaths(b) = {} /\ worktree' = worktree /\ Blame(why)
        /\ revert' = Revert(b, {}, Original, worktree')
    BY <1>2 DEF StageConversation
  <2>2. RevertsTo(b, {}, Original)
    BY <1>1, <2>1, RevertsToFacts DEF Types
  <2> QED
    BY <1>1, <2>1, <2>2, BlameFacts DEF Types
<1>3. CASE StageFiles(b, why)
  <2> DEFINE original == IF Original = NoTree THEN Seen(worktree) ELSE Original
  <2>1. /\ PlanPaths(b) # {}
        /\ PutBack([p \in Targets(b) |-> PlanText(b, p)], Targets(b), why)
        /\ revert' = Revert(b, Targets(b), original, worktree')
    BY <1>3 DEF StageFiles
  <2>2. original \in Trees \cup {NoTree} /\ Targets(b) \in SUBSET Paths
    BY <1>1, ContentsFacts
  <2>3. /\ worktree' \in [Paths -> Contents]
        /\ \A p \in Paths \ Targets(b) : worktree'[p] = worktree[p]
        /\ causes \subseteq causes' /\ why \subseteq causes' /\ causes' \subseteq Causes
        /\ "big" \notin causes' => worktree \in Trees
        /\ causes' \cap {"restore", "big"} = {} =>
             \A p \in PlanPaths(b) : worktree'[p] = PlanText(b, p)
    BY <1>1, <2>1, TargetFacts DEF Types
  <2>4. RevertsTo(b, Targets(b), original)
    <3> HIDE DEF original
    <3> QED
      BY <1>1, <2>1, <2>2, <2>3, RevertsToFacts DEF Types
  <2>5. /\ \A p \in Paths \ PlanPaths(b) : worktree'[p] = worktree[p]
        /\ causes' \cap {"restore", "big", "capture"} = {} =>
             \A p \in PlanPaths(b) : worktree'[p] = PlanText(b, p)
    BY <1>1, <2>3
  <2> QED
    BY <1>1, <2>1, <2>3, <2>4, <2>5
<1>4. CASE StageRaises(b, why)
  <2>1. /\ revert' = None /\ worktree' = worktree
        /\ Blame(why \cup {"capture"}) /\ why \cup {"capture"} \in SUBSET Causes
    BY <1>4 DEF StageRaises, Causes
  <2> DEFINE what == why \cup {"capture"}
  <2>2. why \subseteq what /\ "capture" \in what /\ what \in SUBSET Causes /\ Blame(what)
    BY <2>1
  <2> HIDE DEF what
  <2>3. /\ causes \subseteq causes' /\ what \subseteq causes' /\ causes' \subseteq Causes
        /\ "big" \notin causes' => worktree \in Trees
    BY <2>2, BlameFacts DEF Types
  <2> QED
    BY <1>1, <2>1, <2>2, <2>3
<1> QED
  BY <1>2, <1>3, <1>4 DEF Stage

(* The files of a jump, unless it leaves them alone. *)
LEMMA JumpFacts ==
  ASSUME Types, NEW b \in 1..Len(branch), NEW why \in SUBSET Causes, JumpFiles(b, why)
  PROVE  /\ worktree' \in [Paths -> Contents]
         /\ \A p \in Paths \ PlanPaths(b) : worktree'[p] = worktree[p]
         /\ PlanPaths(b) \subseteq Paths
         /\ causes \subseteq causes' /\ why \subseteq causes' /\ causes' \subseteq Causes
         /\ "big" \notin causes' => worktree \in Trees
         /\ causes' \cap {"restore", "big", "capture", "jump"} = {} =>
              \A p \in PlanPaths(b) : worktree'[p] = PlanText(b, p)
<1>1. worktree \in [Paths -> Contents] /\ b \in Nat \ {0}
  BY TypeFacts DEF Types
<1>2. PlanPaths(b) \subseteq Paths
  BY <1>1, PlanFacts DEF Types
<1>3. ASSUME NEW c \in {"jump", "capture"}, worktree' = worktree, Blame(why \cup {c})
      PROVE  /\ causes \subseteq causes' /\ why \subseteq causes' /\ causes' \subseteq Causes
             /\ c \in causes'
             /\ "big" \notin causes' => worktree \in Trees
  <2> DEFINE what == why \cup {c}
  <2>1. why \subseteq what /\ c \in what /\ what \in SUBSET Causes /\ Blame(what)
    BY <1>3 DEF Causes
  <2> HIDE DEF what
  <2> QED
    BY <2>1, BlameFacts DEF Types
<1>4. CASE b = Previous
  <2>1. worktree' = worktree /\ Blame(why \cup {"jump"})
    BY <1>4 DEF JumpFiles
  <2>2. /\ causes \subseteq causes' /\ why \subseteq causes' /\ causes' \subseteq Causes
        /\ "jump" \in causes'
        /\ "big" \notin causes' => worktree \in Trees
    BY <1>3, <2>1
  <2> QED
    BY <1>1, <1>2, <2>1, <2>2
<1>5. CASE PutBack([p \in Targets(b) |-> PlanText(b, p)], Targets(b), why)
  <2>1. /\ worktree' \in [Paths -> Contents]
        /\ \A p \in Paths \ Targets(b) : worktree'[p] = worktree[p]
        /\ Targets(b) \subseteq PlanPaths(b)
        /\ causes \subseteq causes' /\ why \subseteq causes' /\ causes' \subseteq Causes
        /\ "big" \notin causes' => worktree \in Trees
        /\ causes' \cap {"restore", "big"} = {} =>
             \A p \in PlanPaths(b) : worktree'[p] = PlanText(b, p)
    BY <1>1, <1>5, TargetFacts DEF Types
  <2>2. \A p \in Paths \ PlanPaths(b) : worktree'[p] = worktree[p]
    BY <2>1
  <2> QED
    BY <1>2, <2>1, <2>2
<1>6. CASE b # Previous /\ worktree' = worktree /\ Blame(why \cup {"capture"})
  <2>1. /\ causes \subseteq causes' /\ why \subseteq causes' /\ causes' \subseteq Causes
        /\ "capture" \in causes'
        /\ "big" \notin causes' => worktree \in Trees
    BY <1>3, <1>6
  <2> QED
    BY <1>1, <1>2, <1>6, <2>1
<1> QED
  BY <1>4, <1>5, <1>6 DEF JumpFiles

----------------------------------------------------------------------------
(* Type correctness *)

(* The types at first. *)
LEMMA InitTypes == Init => Types
<1> SUFFICES ASSUME Init PROVE Types
  OBVIOUS
<1>1. worktree \in [Paths -> Contents] /\ branch \in Seq(MessageType) /\ Len(branch) = 0
  BY DEF Init, Contents
<1> QED
  BY <1>1, BoundsAssumption DEF Init, Types, TypeOK, Placed, Staged, Causes

(* The types after the steps of a run, and of the user's hand. *)
LEMMA RunTypes ==
  ASSUME Types,
         \/ Prompt \/ Notice \/ EndRun
         \/ \E p \in Paths, content \in Contents : AgentWrites(p, content)
                                                   \/ UserEdits(p, content)
  PROVE  Types'
<1>1. /\ worktree \in [Paths -> Contents] /\ hand \in [Paths -> Contents]
      /\ branch \in Seq(MessageType) /\ Len(branch) \in Nat /\ Len(branch) <= MaxMessages
      /\ touched \subseteq Paths /\ edits \in 0..MaxEdits /\ causes \subseteq Causes
      /\ Message(worktree) \in MessageType
      /\ Staged => revert.boundary \in 1..Len(branch)
      /\ MaxMessages \in Nat /\ MaxEdits \in Nat
      /\ run \in {Idle, NoTree} \cup Trees
  BY TypeFacts, MessageFacts, BoundsAssumption DEF Types, TypeOK
<1>2. CASE Prompt
  <2> DEFINE kept == IF Staged THEN CutTo(revert.boundary) ELSE branch
  <2>1. kept \in Seq(MessageType) /\ Len(kept) \in Nat
    BY <1>1, CutFacts DEF Types
  <2>2. /\ Len(kept) < MaxMessages /\ branch' = Append(kept, Message(worktree))
        /\ revert' = None /\ run' \in {Seen(worktree), NoTree}
        /\ Blame({}) \/ Blame({"capture"})
        /\ UNCHANGED <<worktree, hand, touched, edits>>
    BY <1>2 DEF Prompt
  <2> HIDE DEF kept
  <2>3. branch' \in Seq(MessageType) /\ Len(branch') = Len(kept) + 1
    BY <1>1, <2>1, <2>2, AppendFacts
  <2>4. causes' \subseteq Causes
    BY <2>2, BlameFacts DEF Types, Causes
  <2>5. run' \in {Idle, NoTree} \cup Trees /\ branch' # <<>>
    BY <1>1, <2>1, <2>2, <2>3, ContentsFacts
  <2> QED
    BY <1>1, <2>1, <2>2, <2>3, <2>4, <2>5 DEF Types, TypeOK, Placed, Staged
<1>3. CASE Notice
  <2>1. /\ run # Idle /\ Len(branch) < MaxMessages /\ branch' = Append(branch, Message(worktree))
        /\ Blame({"notice"}) /\ UNCHANGED <<worktree, revert, run, hand, touched, edits>>
    BY <1>3 DEF Notice
  <2>2. branch' \in Seq(MessageType) /\ Len(branch') = Len(branch) + 1
    BY <1>1, <2>1, AppendFacts
  <2>3. causes' \subseteq Causes /\ revert = None
    BY <2>1, BlameFacts DEF Types, Causes, Placed, Staged
  <2> QED
    BY <1>1, <2>1, <2>2, <2>3 DEF Types, TypeOK, Placed, Staged
<1>4. CASE EndRun
  <2> DEFINE last == [branch[Len(branch)] EXCEPT !.ended = worktree]
             record == [last EXCEPT !.start = run, !.changed = Differ(run, Seen(worktree))]
  <2>1. run # Idle /\ revert = None /\ branch # <<>>
    BY <1>4 DEF EndRun, Types, Placed, Staged
  <2>2. branch[Len(branch)] \in MessageType
    BY <1>1, <2>1, TypeFacts, EmptySeq DEF Types
  <2>3. last \in MessageType
    BY <1>1, <2>2 DEF MessageType
  <2>4. run # NoTree => record \in MessageType
    <3>1. run # NoTree => run \in Trees \cup {NoTree}
      BY <1>1, <2>1
    <3>2. Differ(run, Seen(worktree)) \in SUBSET Paths
      BY DEF Differ
    <3> HIDE DEF last
    <3> QED
      BY <2>3, <3>1, <3>2 DEF MessageType
  <2>5. PICK m \in MessageType : branch' = [branch EXCEPT ![Len(branch)] = m]
    BY <1>4, <2>3, <2>4 DEF EndRun
  <2>6. branch' \in Seq(MessageType) /\ Len(branch') = Len(branch)
    BY <2>1, <2>5, NewestFacts DEF Types
  <2>7. causes' \subseteq Causes
    BY <1>4, BlameFacts DEF EndRun, Types, Causes
  <2> QED
    BY <1>1, <1>4, <2>1, <2>6, <2>7 DEF EndRun, Types, TypeOK, Placed, Staged
<1>5. ASSUME NEW p \in Paths, NEW content \in Contents, AgentWrites(p, content)
      PROVE  Types'
  <2>1. worktree' \in [Paths -> Contents] /\ hand' \in [Paths -> Contents]
    BY <1>1, <1>5 DEF AgentWrites, Contents
  <2> QED
    BY <1>1, <1>5, <2>1 DEF AgentWrites, Types, TypeOK, Placed, Staged
<1>6. ASSUME NEW p \in Paths, NEW content \in Contents, UserEdits(p, content)
      PROVE  Types'
  <2>1. /\ worktree' \in [Paths -> Contents] /\ hand' \in [Paths -> Contents]
        /\ touched' \subseteq Paths
    BY <1>1, <1>6 DEF UserEdits, Contents
  <2>2. causes' \subseteq Causes /\ edits' \in 0..MaxEdits
    <3>1. CASE run = Idle /\ branch # <<>>
      <4>1. edits < MaxEdits /\ edits' = edits + 1 /\ Blame({"edit"})
        BY <1>6, <3>1 DEF UserEdits
      <4> QED
        BY <1>1, <4>1, BlameFacts DEF Types, Causes
    <3>2. CASE ~(run = Idle /\ branch # <<>>)
      BY <1>1, <1>6, <3>2 DEF UserEdits
    <3> QED
      BY <3>1, <3>2
  <2>3. UNCHANGED <<branch, revert, run>>
    BY <1>6 DEF UserEdits
  <2> QED
    BY <1>1, <2>1, <2>2, <2>3 DEF Types, TypeOK, Placed, Staged
<1> QED
  BY <1>2, <1>3, <1>4, <1>5, <1>6

(* An undo and a redo stage a message of the branch. *)
LEMMA StagingFacts ==
  ASSUME Types, Undo \/ RedoStep
  PROVE  /\ run = Idle /\ UNCHANGED <<branch, run, hand, touched, edits>>
         /\ \E b \in 1..Len(branch), why \in SUBSET Causes :
              /\ Stage(b, why)
              /\ \/ why = {"redo"} /\ Staged
                 \/ /\ Undo
                    /\ Staged => b = revert.boundary - 1
                    /\ ~Staged => b = Len(branch)
<1>1. Len(branch) \in Nat /\ (Staged => revert.boundary \in 1..Len(branch))
  BY TypeFacts DEF Types
<1>2. CASE Undo
  <2>1. Previous \in 1..Len(branch) /\ {} \in SUBSET Causes
    BY <1>1, <1>2 DEF Undo, Previous
  <2> QED
    BY <1>2, <2>1 DEF Undo, Previous
<1>3. CASE RedoStep
  <2>1. Following \in 1..Len(branch) /\ {"redo"} \in SUBSET Causes
    BY <1>1, <1>3 DEF RedoStep, Following, Causes
  <2> QED
    BY <1>3, <2>1 DEF RedoStep
<1> QED
  BY <1>2, <1>3

(* The files of before the undo are put back, as far as it changed them.   *)
LEMMA UnrevertFacts ==
  ASSUME Types, Unrevert
  PROVE  /\ worktree' \in [Paths -> Contents] /\ Staged /\ revert' = None
         /\ revert.boundary = Len(branch)
         /\ UNCHANGED <<branch, run, hand, touched, edits>>
         /\ \A p \in Paths \ revert.files : worktree'[p] = worktree[p]
         /\ causes \subseteq causes' /\ causes' \subseteq Causes
         /\ "big" \notin causes' => worktree \in Trees
         /\ revert.original = NoTree => worktree' = worktree
         /\ "restore" \notin causes' /\ revert.original # NoTree =>
              \A p \in revert.files : worktree'[p] = revert.original[p]
<1>1. /\ Staged /\ Following = 0 /\ revert' = None
      /\ UNCHANGED <<branch, run, hand, touched, edits>>
      /\ IF revert.original = NoTree \/ revert.files = {}
         THEN UNCHANGED worktree /\ Blame({})
         ELSE PutBack(revert.original, revert.files, {})
  BY DEF Unrevert
<1>2. /\ worktree \in [Paths -> Contents] /\ revert.files \in SUBSET Paths
      /\ revert.original \in Trees \cup {NoTree} /\ revert.boundary \in 1..Len(branch)
      /\ Len(branch) \in Nat
  BY <1>1, TypeFacts DEF Types, RevertType
<1>3. revert.boundary = Len(branch)
  BY <1>1, <1>2 DEF Following
<1>4. CASE revert.original = NoTree \/ revert.files = {}
  <2>1. worktree' = worktree /\ Blame({}) /\ {} \in SUBSET Causes
    BY <1>1, <1>4
  <2> QED
    BY <1>1, <1>2, <1>3, <1>4, <2>1, BlameFacts DEF Types
<1>5. CASE ~(revert.original = NoTree \/ revert.files = {})
  <2> DEFINE files == revert.files
             tree == revert.original
             why == {}
  <2>1. PutBack(tree, files, why) /\ why \in SUBSET Causes /\ files \in SUBSET Paths
    BY <1>1, <1>2, <1>5
  <2>2. TypeOK /\ \A p \in files : tree[p] \in Texts \cup {Absent}
    BY <1>2, <1>5 DEF Trees, Types
  <2> HIDE DEF files, tree, why
  <2>3. /\ worktree' \in [Paths -> Contents]
        /\ \A p \in Paths \ files : worktree'[p] = worktree[p]
        /\ causes \subseteq causes' /\ causes' \subseteq Causes
        /\ "restore" \notin causes' => \A p \in files : worktree'[p] = tree[p]
        /\ "big" \notin causes' => worktree \in Trees
    BY <2>1, <2>2, PutBackFacts
  <2> QED
    BY <1>1, <1>3, <1>5, <2>3 DEF files, tree
<1> QED
  BY <1>4, <1>5

(* A jump cuts the branch, before a message or after it. *)
LEMMA JumpingFacts ==
  ASSUME Types, NEW b, JumpBefore(b) \/ JumpInto(b)
  PROVE  /\ b \in 1..Len(branch) /\ run = Idle /\ revert' = None
         /\ UNCHANGED <<run, hand, touched, edits>>
         /\ branch' \in Seq(MessageType)
         /\ \A i \in 1..b - 1 : branch'[i] = branch[i]
         /\ \E why \in SUBSET Causes :
              /\ JumpFiles(b, why)
              /\ \/ /\ Len(branch') = b - 1
                    /\ (Staged /\ b > revert.boundary => "redo" \in why)
                 \/ /\ Len(branch') = b /\ branch'[b] = Message(branch[b].began)
                    /\ "jump" \in why
<1>1. b \in 1..Len(branch)
  BY TypeFacts DEF Types, JumpBefore, JumpInto
<1>2. CASE JumpBefore(b)
  <2> DEFINE why == IF Staged /\ b > revert.boundary THEN {"redo"} ELSE {}
  <2>1. why \in SUBSET Causes /\ JumpFiles(b, why)
    BY <1>2 DEF JumpBefore, Causes
  <2>2. /\ branch' \in Seq(MessageType) /\ Len(branch') = b - 1
        /\ \A i \in 1..b - 1 : branch'[i] = branch[i]
    BY <1>1, <1>2, BeforeFacts DEF JumpBefore, Types
  <2> QED
    BY <1>1, <1>2, <2>1, <2>2 DEF JumpBefore
<1>3. CASE JumpInto(b)
  <2>1. {"jump"} \in SUBSET Causes /\ JumpFiles(b, {"jump"})
    BY <1>3 DEF JumpInto, Causes
  <2>2. /\ branch' \in Seq(MessageType) /\ Len(branch') = b
        /\ \A i \in 1..b - 1 : branch'[i] = branch[i]
        /\ branch'[b] = Message(branch[b].began)
    BY <1>1, <1>3, CutFacts DEF JumpInto, Types
  <2> QED
    BY <1>1, <1>3, <2>1, <2>2 DEF JumpInto
<1> QED
  BY <1>2, <1>3

(* The types after undos, redos and jumps. *)
LEMMA MoveTypes ==
  ASSUME Types, Undo \/ RedoStep \/ Unrevert \/ \E b : JumpBefore(b) \/ JumpInto(b)
  PROVE  Types'
<1>1. /\ worktree \in [Paths -> Contents] /\ hand \in [Paths -> Contents]
      /\ branch \in Seq(MessageType) /\ Len(branch) \in Nat /\ Len(branch) <= MaxMessages
      /\ touched \subseteq Paths /\ edits \in 0..MaxEdits
      /\ run \in {Idle, NoTree} \cup Trees
  BY TypeFacts DEF Types, TypeOK
<1>2. CASE Undo \/ RedoStep
  <2>1. /\ run = Idle /\ UNCHANGED <<branch, run, hand, touched, edits>>
        /\ \E b \in 1..Len(branch), why \in SUBSET Causes : Stage(b, why)
    BY <1>2, StagingFacts
  <2>2. PICK b \in 1..Len(branch), why \in SUBSET Causes : Stage(b, why)
    BY <2>1
  <2>3. worktree' \in [Paths -> Contents] /\ causes' \subseteq Causes
    BY <2>2, StageFacts
  <2>4. revert' # None => revert' \in RevertType /\ revert'.boundary = b
    BY <2>2, StageFacts DEF RevertsTo
  <2> QED
    BY <1>1, <2>1, <2>3, <2>4 DEF Types, TypeOK, Placed, Staged
<1>3. CASE Unrevert
  <2>1. /\ worktree' \in [Paths -> Contents] /\ causes' \subseteq Causes /\ revert' = None
        /\ UNCHANGED <<branch, run, hand, touched, edits>>
    BY <1>3, UnrevertFacts
  <2> QED
    BY <1>1, <2>1 DEF Types, TypeOK, Placed, Staged
<1>4. ASSUME NEW b, JumpBefore(b) \/ JumpInto(b) PROVE Types'
  <2>1. /\ b \in 1..Len(branch) /\ run = Idle /\ revert' = None
        /\ UNCHANGED <<run, hand, touched, edits>> /\ branch' \in Seq(MessageType)
        /\ Len(branch') \in {b - 1, b}
    BY <1>4, JumpingFacts
  <2>2. PICK why \in SUBSET Causes : JumpFiles(b, why)
    BY <1>4, JumpingFacts
  <2>3. worktree' \in [Paths -> Contents] /\ causes' \subseteq Causes
    BY <2>1, <2>2, JumpFacts
  <2>4. Len(branch') <= MaxMessages
    BY <1>1, <2>1, BoundsAssumption
  <2>5. TypeOK'
    BY <1>1, <2>1, <2>3, <2>4 DEF TypeOK
  <2> QED
    BY <2>1, <2>5 DEF Types, Placed, Staged
<1> QED
  BY <1>2, <1>3, <1>4

(* Every step keeps the types. *)
LEMMA TypesStable == Types /\ [Next]_vars => Types'
<1>1. ASSUME Types, UNCHANGED vars PROVE Types'
  BY <1>1 DEF vars, Types, TypeOK, Placed, Staged
<1> QED
  BY <1>1, RunTypes, MoveTypes DEF Next

(* TypeOK is an invariant: the staged revert is of a message of the        *)
(* branch, snapshots hold only what git can hold, and the branch is within *)
(* its bound.                                                              *)
THEOREM TypeCorrect == Spec => []TypeOK
<1>1. Types => TypeOK
  BY DEF Types
<1> QED
  BY <1>1, InitTypes, TypesStable, PTL DEF Spec

----------------------------------------------------------------------------
(* The user's files *)

(* Whatever an undo puts back was changed by a run. *)
LEMMA PlanTouched ==
  ASSUME Accounted, DOMAIN branch = 1..Len(branch), Len(branch) \in Nat, NEW b \in Nat \ {0}
  PROVE  PlanPaths(b) \subseteq touched
BY DEF Accounted, PlanPaths, Recorded

(* Between runs only the files of runs change, or the user changes them. *)
LEMMA KeptByMoves ==
  ASSUME Accounted, HandKept, touched' = touched, hand' = hand,
         run' = Idle,
         \A p \in Paths \ touched : worktree'[p] = worktree[p],
         \A i \in DOMAIN branch' : branch'[i].changed \subseteq touched,
         revert' # None => revert'.files \subseteq touched
  PROVE  (Accounted /\ HandKept)'
<1>1. Idle \notin Trees
  BY ContentsFacts
<1> QED
  BY <1>1 DEF Accounted, HandKept, Staged

(* A run keeps account of what it changes. *)
LEMMA RunAccounted ==
  ASSUME Types, Types', Accounted, HandKept,
         \/ Prompt \/ Notice \/ EndRun
         \/ \E p \in Paths, content \in Contents : AgentWrites(p, content)
                                                   \/ UserEdits(p, content)
  PROVE  (Accounted /\ HandKept)'
<1>1. /\ worktree \in [Paths -> Contents] /\ hand \in [Paths -> Contents]
      /\ branch \in Seq(MessageType) /\ Len(branch) \in Nat
      /\ DOMAIN branch = 1..Len(branch) /\ DOMAIN branch' = 1..Len(branch')
      /\ Message(worktree) \in MessageType /\ Message(worktree).changed = {}
      /\ Staged => revert.boundary \in 1..Len(branch)
      /\ Idle \notin Trees /\ NoTree \notin Trees
      /\ \A i \in 1..Len(branch) : branch[i].changed \subseteq touched
  BY TypeFacts, MessageFacts, ContentsFacts DEF Types, TypeOK, Accounted
<1>2. CASE Prompt
  <2> DEFINE kept == IF Staged THEN CutTo(revert.boundary) ELSE branch
  <2>1. /\ kept \in Seq(MessageType) /\ Len(kept) \in Nat
        /\ \A i \in 1..Len(kept) : kept[i].changed \subseteq touched
    <3>1. ASSUME NEW b \in 1..Len(branch)
          PROVE  /\ CutTo(b) \in Seq(MessageType) /\ Len(CutTo(b)) = b
                 /\ \A i \in 1..b : CutTo(b)[i].changed \subseteq touched
      <4>1. Message(branch[b].began).changed = {}
        BY TypeFacts, MessageFacts DEF Types
      <4> QED
        BY <1>1, <4>1, CutFacts DEF Types
    <3> QED
      BY <1>1, <3>1
  <2>2. /\ branch' = Append(kept, Message(worktree)) /\ revert' = None
        /\ run' \in {Seen(worktree), NoTree} /\ UNCHANGED <<worktree, hand, touched>>
    BY <1>2 DEF Prompt
  <2> HIDE DEF kept
  <2>3. \A i \in DOMAIN branch' : branch'[i].changed \subseteq touched
    <3>1. /\ Len(branch') = Len(kept) + 1 /\ branch'[Len(kept) + 1] = Message(worktree)
          /\ \A i \in 1..Len(kept) : branch'[i] = kept[i]
      BY <1>1, <2>1, <2>2, AppendFacts
    <3> QED
      BY <1>1, <2>1, <3>1
  <2> QED
    BY <1>1, <2>2, <2>3 DEF Accounted, HandKept, Staged
<1>3. CASE Notice
  <2>1. /\ branch' = Append(branch, Message(worktree))
        /\ UNCHANGED <<worktree, revert, run, hand, touched>>
    BY <1>3 DEF Notice
  <2>2. /\ Len(branch') = Len(branch) + 1 /\ branch'[Len(branch) + 1] = Message(worktree)
        /\ \A i \in 1..Len(branch) : branch'[i] = branch[i]
    BY <1>1, <2>1, AppendFacts
  <2>3. \A i \in DOMAIN branch' : branch'[i].changed \subseteq touched
    BY <1>1, <2>2
  <2> QED
    BY <2>1, <2>3 DEF Accounted, HandKept, Staged
<1>4. CASE EndRun
  <2> DEFINE n == Len(branch)
             last == [branch[n] EXCEPT !.ended = worktree]
             record == [last EXCEPT !.start = run, !.changed = Differ(run, Seen(worktree))]
  <2>1. run # Idle /\ branch # <<>> /\ run' = Idle /\ UNCHANGED <<worktree, revert, hand, touched>>
    BY <1>4 DEF EndRun, Types, Placed
  <2>2. n \in 1..Len(branch) /\ branch[n] \in MessageType
    BY <1>1, <2>1, TypeFacts, EmptySeq DEF Types
  <2>3. last \in MessageType /\ last.changed = branch[n].changed
    BY <1>1, <2>2 DEF MessageType
  <2>4. run # NoTree => record \in MessageType /\ record.changed \subseteq touched
    <3>1. run # NoTree => run \in Trees
      BY <2>1 DEF Types, TypeOK
    <3>2. run \in Trees => Differ(run, Seen(worktree)) \subseteq touched
      BY DEF Differ, Accounted
    <3>3. Differ(run, Seen(worktree)) \in SUBSET Paths
      BY DEF Differ
    <3> HIDE DEF last
    <3> QED
      BY <2>3, <3>1, <3>2, <3>3 DEF MessageType
  <2>5. PICK m \in MessageType :
          branch' = [branch EXCEPT ![n] = m] /\ m.changed \subseteq touched
    BY <1>1, <1>4, <2>2, <2>3, <2>4 DEF EndRun
  <2>6. /\ Len(branch') = Len(branch) /\ branch'[Len(branch)] = m
        /\ \A i \in 1..Len(branch) - 1 : branch'[i] = branch[i]
    BY <2>1, <2>5, NewestFacts DEF Types
  <2>7. \A i \in DOMAIN branch' : branch'[i].changed \subseteq touched
    BY <1>1, <2>2, <2>5, <2>6
  <2>8. revert' # None => revert'.files \subseteq touched
    BY <2>1 DEF Accounted, Staged
  <2> QED
    BY <2>1, <2>7, <2>8, KeptByMoves
<1>5. ASSUME NEW p \in Paths, NEW content \in Contents, AgentWrites(p, content)
      PROVE  (Accounted /\ HandKept)'
  <2>1. /\ touched' = touched \cup {p} /\ UNCHANGED <<branch, revert, run>>
        /\ \A q \in Paths \ {p} : worktree'[q] = worktree[q] /\ hand'[q] = hand[q]
    BY <1>1, <1>5 DEF AgentWrites
  <2>2. \A q \in Paths \ {p} : Seen(worktree')[q] = Seen(worktree)[q]
    BY <2>1 DEF Seen
  <2> QED
    BY <2>1, <2>2 DEF Accounted, HandKept, Staged
<1>6. ASSUME NEW p \in Paths, NEW content \in Contents, UserEdits(p, content)
      PROVE  (Accounted /\ HandKept)'
  <2>1. /\ UNCHANGED <<branch, revert, run>>
        /\ \A q \in Paths \ {p} : worktree'[q] = worktree[q] /\ hand'[q] = hand[q]
        /\ worktree'[p] = content
        /\ \/ touched' = touched \cup {p}
           \/ touched' = touched /\ hand'[p] = content /\ run \in {Idle, NoTree}
    BY <1>1, <1>6 DEF UserEdits
  <2>2. \A q \in Paths \ {p} : Seen(worktree')[q] = Seen(worktree)[q]
    BY <2>1 DEF Seen
  <2>3. run \in {Idle, NoTree} => run \notin Trees
    BY ContentsFacts
  <2> QED
    BY <2>1, <2>2, <2>3 DEF Accounted, HandKept, Staged
<1> QED
  BY <1>2, <1>3, <1>4, <1>5, <1>6

(* An undo, a redo and a jump leave alone what no run has changed. *)
LEMMA MoveAccounted ==
  ASSUME Types, Types', Accounted, HandKept,
         Undo \/ RedoStep \/ Unrevert \/ \E b : JumpBefore(b) \/ JumpInto(b)
  PROVE  (Accounted /\ HandKept)'
<1>1. /\ Len(branch) \in Nat
      /\ DOMAIN branch = 1..Len(branch) /\ DOMAIN branch' = 1..Len(branch')
      /\ \A i \in 1..Len(branch) : branch[i].changed \subseteq touched
      /\ \A b \in 1..Len(branch) : PlanPaths(b) \subseteq touched
  <2>1. Len(branch) \in Nat /\ DOMAIN branch = 1..Len(branch) /\ DOMAIN branch' = 1..Len(branch')
    BY TypeFacts DEF Types, TypeOK
  <2> QED
    BY <2>1, PlanTouched DEF Accounted
<1>2. CASE Undo \/ RedoStep
  <2>1. run = Idle /\ UNCHANGED <<branch, run, hand, touched>>
    BY <1>2, StagingFacts
  <2>2. PICK b \in 1..Len(branch), why \in SUBSET Causes : Stage(b, why)
    BY <1>2, StagingFacts
  <2>3. \A p \in Paths \ PlanPaths(b) : worktree'[p] = worktree[p]
    BY <2>2, StageFacts
  <2>4. revert' # None => revert'.files \subseteq PlanPaths(b)
    BY <2>2, StageFacts DEF RevertsTo, Targets
  <2> QED
    BY <1>1, <2>1, <2>2, <2>3, <2>4, KeptByMoves
<1>3. CASE Unrevert
  <2>1. /\ run' = Idle /\ UNCHANGED <<branch, hand, touched>> /\ Staged /\ revert' = None
        /\ \A p \in Paths \ revert.files : worktree'[p] = worktree[p]
    BY <1>3, UnrevertFacts DEF Unrevert
  <2>2. \A p \in Paths \ touched : worktree'[p] = worktree[p]
    BY <2>1 DEF Accounted
  <2> QED
    BY <1>1, <2>1, <2>2, KeptByMoves
<1>4. ASSUME NEW b, JumpBefore(b) \/ JumpInto(b) PROVE (Accounted /\ HandKept)'
  <2>1. /\ b \in 1..Len(branch) /\ run' = Idle /\ revert' = None
        /\ UNCHANGED <<hand, touched>>
        /\ \A i \in 1..b - 1 : branch'[i] = branch[i]
    BY <1>4, JumpingFacts
  <2>2. PICK why \in SUBSET Causes :
          /\ JumpFiles(b, why)
          /\ \/ Len(branch') = b - 1
             \/ Len(branch') = b /\ branch'[b] = Message(branch[b].began)
    BY <1>4, JumpingFacts
  <2>3. \A p \in Paths \ PlanPaths(b) : worktree'[p] = worktree[p]
    BY <2>1, <2>2, JumpFacts
  <2>4. \A i \in DOMAIN branch' : branch'[i].changed \subseteq touched
    <3>1. Message(branch[b].began).changed = {}
      BY <2>1, TypeFacts, MessageFacts DEF Types
    <3> QED
      BY <1>1, <2>1, <2>2, <3>1
  <2> QED
    BY <1>1, <2>1, <2>3, <2>4, KeptByMoves
<1> QED
  BY <1>2, <1>3, <1>4

(* Every step keeps account of what runs have changed. *)
LEMMA AccountedStable ==
  Types /\ Accounted /\ HandKept /\ [Next]_vars => (Accounted /\ HandKept)'
<1>1. ASSUME Accounted, HandKept, UNCHANGED vars PROVE (Accounted /\ HandKept)'
  BY <1>1 DEF vars, Accounted, HandKept, Staged, Seen
<1> QED
  BY <1>1, TypesStable, RunAccounted, MoveAccounted DEF Next

(* HandKept is an invariant: a file that did not change while a run was    *)
(* going is as the user left it, whatever is undone, redone, committed or  *)
(* jumped over, and whatever fails.  What the user edits while a run is    *)
(* going is outside it: the code takes it for the agent's.                 *)
THEOREM FilesOfTheUserAreKept == Spec => []HandKept
<1>1. Init => Accounted /\ HandKept
  <2> SUFFICES ASSUME Init PROVE Accounted /\ HandKept
    OBVIOUS
  <2>1. DOMAIN branch = {} /\ Idle \notin Trees
    BY ContentsFacts DEF Init
  <2> QED
    BY <2>1 DEF Init, Accounted, HandKept, Staged
<1> QED
  BY <1>1, InitTypes, TypesStable, AccountedStable, PTL DEF Spec

----------------------------------------------------------------------------
(* The redo of an undo *)

(* Nothing happened that makes a redo inexact.                             *)
Clean == causes \cap {"big", "restore", "capture"} = {}

(* Every step keeps what a revert knows of the files before it. *)
LEMMA ExactStable == Types /\ Exact /\ [Next]_vars => Exact'
<1> SUFFICES ASSUME Types, Exact, [Next]_vars, Staged', revert'.before # NoTree, Clean'
             PROVE  /\ revert'.before \in Trees
                    /\ \/ /\ revert'.original = NoTree /\ PlanPaths(revert.boundary)' = {}
                          /\ revert'.after = revert'.before
                       \/ /\ revert'.original = revert'.before
                          /\ PlanPaths(revert.boundary)' # {}
                          /\ \A p \in Paths \ revert'.files :
                               revert'.after[p] = revert'.before[p]
  BY DEF Exact, Clean
<1>1. ASSUME revert' = revert, branch' = branch, causes \subseteq causes'
      PROVE  /\ revert'.before \in Trees
             /\ \/ /\ revert'.original = NoTree /\ PlanPaths(revert.boundary)' = {}
                   /\ revert'.after = revert'.before
                \/ /\ revert'.original = revert'.before
                   /\ PlanPaths(revert.boundary)' # {}
                   /\ \A p \in Paths \ revert'.files :
                        revert'.after[p] = revert'.before[p]
  <2>1. PlanPaths(revert.boundary)' = PlanPaths(revert.boundary)
    BY <1>1 DEF PlanPaths, Recorded
  <2>2. Staged /\ Clean
    BY <1>1 DEF Staged, Clean
  <2> QED
    BY <1>1, <2>1, <2>2 DEF Exact, Clean
<1>2. ASSUME \/ Prompt \/ Notice \/ EndRun \/ Unrevert
             \/ \E p \in Paths, content \in Contents : AgentWrites(p, content)
             \/ \E b : JumpBefore(b) \/ JumpInto(b)
      PROVE  FALSE
  BY <1>2 DEF Prompt, Notice, EndRun, Unrevert, AgentWrites, JumpBefore, JumpInto, Types,
              Placed, Staged
<1>3. CASE \E p \in Paths, content \in Contents : UserEdits(p, content)
  <2>1. revert' = revert /\ branch' = branch /\ (causes' = causes \/ Blame({"edit"}))
    BY <1>3 DEF UserEdits
  <2>2. causes \subseteq causes'
    BY <2>1 DEF Blame
  <2> QED
    BY <1>1, <2>1, <2>2
<1>4. CASE Undo \/ RedoStep
  <2>1. branch' = branch
    BY <1>4, StagingFacts
  <2>2. PICK b \in 1..Len(branch), why \in SUBSET Causes : Stage(b, why)
    BY <1>4, StagingFacts
  <2>3. /\ worktree \in Trees
        /\ \/ PlanPaths(b) = {} /\ worktree' = worktree /\ RevertsTo(b, {}, Original)
           \/ /\ PlanPaths(b) # {}
              /\ \A p \in Paths \ Targets(b) : worktree'[p] = worktree[p]
              /\ RevertsTo(b, Targets(b), IF Original = NoTree THEN Seen(worktree)
                                          ELSE Original)
    BY <2>2, StageFacts DEF Clean, Staged
  <2>4. ~Staged /\ Original = NoTree /\ revert'.before = worktree
    BY <2>3 DEF RevertsTo, Original
  <2>5. Seen(worktree) = worktree
    BY <2>3, TypeFacts, ContentsFacts DEF Types
  <2>6. revert'.boundary = b /\ revert'.after = worktree'
    BY <2>3, <2>4 DEF RevertsTo
  <2>7. PlanPaths(revert.boundary)' = PlanPaths(b)
    BY <2>1, <2>6 DEF PlanPaths, Recorded
  <2>8. CASE PlanPaths(b) = {} /\ worktree' = worktree /\ RevertsTo(b, {}, Original)
    BY <2>3, <2>4, <2>6, <2>7, <2>8 DEF RevertsTo
  <2>9. CASE /\ PlanPaths(b) # {}
             /\ \A p \in Paths \ Targets(b) : worktree'[p] = worktree[p]
             /\ RevertsTo(b, Targets(b), IF Original = NoTree THEN Seen(worktree)
                                         ELSE Original)
    BY <2>3, <2>4, <2>5, <2>6, <2>7, <2>9 DEF RevertsTo
  <2> QED
    BY <2>3, <2>8, <2>9
<1>5. CASE UNCHANGED vars
  BY <1>1, <1>5 DEF vars
<1> QED
  BY <1>2, <1>3, <1>4, <1>5 DEF Next

(* A redo at the newest message puts back the files of before the undo. *)
LEMMA RedoExact ==
  ASSUME Types, Exact, Unrevert, revert.before # NoTree, worktree = revert.after, Clean'
  PROVE  worktree' = revert.before
<1>1. /\ worktree \in [Paths -> Contents] /\ worktree' \in [Paths -> Contents] /\ Staged
      /\ \A p \in Paths \ revert.files : worktree'[p] = worktree[p]
      /\ revert.original = NoTree => worktree' = worktree
      /\ revert.original # NoTree => \A p \in revert.files : worktree'[p] = revert.original[p]
      /\ Clean
  BY UnrevertFacts, TypeFacts DEF Clean, Types
<1>2. /\ revert.before \in Trees /\ NoTree \notin Trees
      /\ \/ /\ revert.original = NoTree
            /\ revert.after = revert.before
         \/ /\ revert.original = revert.before
            /\ \A p \in Paths \ revert.files : revert.after[p] = revert.before[p]
  BY <1>1, ContentsFacts DEF Exact, Clean
<1>3. CASE revert.original = NoTree /\ revert.after = revert.before
  BY <1>1, <1>3
<1>4. CASE /\ revert.original = revert.before
           /\ \A p \in Paths \ revert.files : revert.after[p] = revert.before[p]
  <2>1. \A p \in Paths : worktree'[p] = revert.before[p]
    BY <1>1, <1>2, <1>4
  <2>2. revert.before \in [Paths -> Contents]
    BY <1>2, ContentsFacts
  <2> QED
    BY <1>1, <2>1, <2>2
<1> QED
  BY <1>2, <1>3, <1>4

(* A jump that leaves the branch as it is has nothing to put back. *)
LEMMA NoJumpBack ==
  ASSUME Types, Exact, NEW b, JumpBefore(b) \/ JumpInto(b), branch' = branch,
         Staged, Following = 0, revert.before # NoTree, worktree = revert.after, Clean'
  PROVE  worktree' = revert.before
<1>1. /\ b \in 1..Len(branch) /\ Len(branch) \in Nat
      /\ worktree \in [Paths -> Contents] /\ revert.boundary \in 1..Len(branch)
  BY JumpingFacts, TypeFacts DEF Types
<1>2. PICK why \in SUBSET Causes :
        /\ JumpFiles(b, why)
        /\ \/ Len(branch') = b - 1
           \/ Len(branch') = b /\ branch'[b] = Message(branch[b].began)
  BY JumpingFacts
<1>3. b = Len(branch) /\ branch[b] = Message(branch[b].began)
  BY <1>1, <1>2
<1>4. revert.boundary = b
  BY <1>1, <1>3 DEF Following
<1>5. branch[b].start = NoTree
  BY <1>1, <1>3, TypeFacts, MessageFacts DEF Types
<1>6. PlanPaths(b) = {}
  BY <1>1, <1>3, <1>5 DEF PlanPaths, Recorded
<1>7. /\ worktree' \in [Paths -> Contents] /\ causes \subseteq causes'
      /\ \A p \in Paths : worktree'[p] = worktree[p]
  BY <1>1, <1>2, <1>6, JumpFacts
<1>8. worktree' = worktree
  BY <1>1, <1>7
<1> QED
  BY <1>4, <1>6, <1>7, <1>8 DEF Exact, Clean

(* UnrevertIsExact: the redo of an undo that was staged once gives back    *)
(* exactly the files of before it, with the user's own edits, unless they  *)
(* were edited in between, too large, or not captured or written.          *)
THEOREM RedoGivesBack == Spec => UnrevertIsExact
<1>1. Init => Exact
  BY DEF Init, Exact, Staged
<1>2. Types /\ Exact /\ [Next]_vars
        => [ /\ Staged /\ Following = 0 /\ revert' = None /\ run' = Idle /\ branch' = branch
             /\ revert.before # NoTree /\ worktree = revert.after
             /\ causes' \cap {"big", "restore", "capture"} = {}
             => worktree' = revert.before ]_vars
  <2> SUFFICES ASSUME Types, Exact, Next, Staged, Following = 0, revert' = None, run' = Idle,
                      branch' = branch, revert.before # NoTree, worktree = revert.after,
                      Clean'
               PROVE  worktree' = revert.before
    BY DEF Clean
  <2>1. run = Idle
    BY DEF Types, Placed
  <2>2. ASSUME Prompt PROVE FALSE
    <3>1. worktree \in [Paths -> Contents] /\ run' \in {Seen(worktree), NoTree}
      BY <2>2, TypeFacts DEF Prompt, Types
    <3> QED
      BY <3>1, ContentsFacts
  <2>3. ASSUME \/ Notice \/ EndRun
               \/ \E p \in Paths, content \in Contents : \/ AgentWrites(p, content)
                                                         \/ UserEdits(p, content)
        PROVE  FALSE
    BY <2>1, <2>3 DEF Notice, EndRun, AgentWrites, UserEdits, Staged
  <2>4. ASSUME Undo \/ RedoStep PROVE FALSE
    <3>1. PICK b \in 1..Len(branch), why \in SUBSET Causes : Stage(b, why)
      BY <2>4, StagingFacts
    <3>2. revert' \in RevertType \/ "capture" \in causes'
      BY <3>1, StageFacts DEF RevertsTo
    <3> QED
      BY <3>2, NoneAssumption DEF Clean
  <2> QED
    BY <2>2, <2>3, <2>4, RedoExact, NoJumpBack DEF Next
<1> QED
  BY <1>1, <1>2, InitTypes, TypesStable, ExactStable, PTL DEF Spec, UnrevertIsExact

----------------------------------------------------------------------------
(* Conversation and files *)

(* The run of the message `i` has recorded a change of the file.           *)
Changes(i, p) == branch[i].start # NoTree /\ p \in branch[i].changed

(* All runs are over, and the branch is whole.                             *)
AtRest == Types /\ run = Idle /\ Chained /\ Snapped

(* What is known of each message between runs. *)
LEMMA RestFacts ==
  ASSUME AtRest
  PROVE  /\ Len(branch) \in Nat
         /\ \A i \in 1..Len(branch) :
              /\ branch[i].began \in Trees /\ branch[i].ended \in Trees
              /\ Settled(branch[i])
              /\ branch[i].start # NoTree => branch[i].start = branch[i].began
              /\ \A p \in Paths :
                   ~Changes(i, p) => branch[i].ended[p] = branch[i].began[p]
         /\ \A i \in 1..Len(branch) - 1 : branch[i].ended = branch[i + 1].began
<1>1. Len(branch) \in Nat /\ DOMAIN branch = 1..Len(branch) /\ NoTree \notin Trees
  BY TypeFacts, ContentsFacts DEF AtRest, Types
<1>2. ASSUME NEW i \in 1..Len(branch)
      PROVE  branch[i].began \in Trees /\ Settled(branch[i])
  BY <1>1, <1>2 DEF AtRest, Snapped
<1>3. ASSUME NEW i \in 1..Len(branch)
      PROVE  /\ branch[i].ended \in Trees
             /\ branch[i].start # NoTree => branch[i].start = branch[i].began
             /\ \A p \in Paths : ~Changes(i, p) => branch[i].ended[p] = branch[i].began[p]
  BY <1>1, <1>2 DEF Settled, Changes, Differ
<1> QED
  BY <1>1, <1>2, <1>3 DEF AtRest, Chained

(* A file that no run has changed since the message `b` is as it was then. *)
LEMMA Unchanged ==
  ASSUME AtRest, NEW b \in 1..Len(branch), NEW k \in b..Len(branch), NEW p \in Paths,
         \A i \in b..k - 1 : ~Changes(i, p)
  PROVE  branch[k].began[p] = branch[b].began[p]
<1> DEFINE Wrong == {m \in b..k : branch[m].began[p] # branch[b].began[p]}
<1>1. SUFFICES ASSUME Wrong # {} PROVE FALSE
  BY RestFacts
<1>2. Wrong \in SUBSET Nat
  OBVIOUS
<1> HIDE DEF Wrong
<1>3. PICK m \in Wrong : \A j \in Wrong : m <= j
  BY <1>1, <1>2, Least
<1>4. m \in b..k /\ branch[m].began[p] # branch[b].began[p] /\ m # b
  BY <1>3 DEF Wrong
<1>5. /\ m - 1 \in b..k /\ m - 1 \in 1..Len(branch) - 1 /\ m - 1 \in b..k - 1
      /\ Len(branch) \in Nat /\ m \in Nat
  <2>1. Len(branch) \in Nat
    BY RestFacts
  <2>2. b \in Nat /\ k \in Nat /\ m \in Nat /\ 1 <= b /\ b < m /\ m <= k /\ k <= Len(branch)
    BY <1>4, <2>1
  <2> QED
    BY <2>1, <2>2
<1>6. branch[m - 1].began[p] = branch[b].began[p]
  <2>1. ~(m <= m - 1)
    BY <1>5
  <2>2. m - 1 \notin Wrong
    BY <1>3, <2>1
  <2> QED
    BY <1>5, <2>2 DEF Wrong
<1>7. branch[m - 1].ended[p] = branch[m - 1].began[p]
  BY <1>5, RestFacts
<1>8. branch[m - 1].ended = branch[m].began
  BY <1>4, <1>5, RestFacts
<1> QED
  BY <1>4, <1>6, <1>7, <1>8

(* plan() finds the files as they were at the message. *)
LEMMA PlanIsRight ==
  ASSUME AtRest, NEW b \in 1..Len(branch)
  PROVE  /\ \A p \in PlanPaths(b) : PlanText(b, p) = branch[b].began[p]
         /\ \A p \in Paths \ PlanPaths(b) :
              /\ \A k \in b..Len(branch) : branch[k].began[p] = branch[b].began[p]
              /\ branch[Len(branch)].ended[p] = branch[b].began[p]
<1>1. TypeOK /\ b \in Nat \ {0} /\ Len(branch) \in Nat /\ NoTree \notin Trees
  BY TypeFacts, ContentsFacts DEF AtRest, Types
<1>2. ASSUME NEW p \in PlanPaths(b) PROVE PlanText(b, p) = branch[b].began[p]
  <2>1. PICK i \in b..Len(branch) :
          /\ branch[i].start \in Trees /\ p \in branch[i].changed
          /\ PlanText(b, p) = branch[i].start[p]
          /\ \A j \in b..Len(branch) :
               branch[j].start # NoTree /\ p \in branch[j].changed => i <= j
    BY <1>1, PlanFacts
  <2>2. p \in Paths
    BY <1>1, PlanFacts
  <2>3. branch[i].start = branch[i].began
    BY <1>1, <2>1, RestFacts
  <2>4. \A j \in b..i - 1 : ~Changes(j, p)
    BY <1>1, <2>1 DEF Changes
  <2>5. branch[i].began[p] = branch[b].began[p]
    BY <2>2, <2>4, Unchanged
  <2> QED
    BY <2>1, <2>3, <2>5
<1>3. ASSUME NEW p \in Paths \ PlanPaths(b)
      PROVE  /\ \A k \in b..Len(branch) : branch[k].began[p] = branch[b].began[p]
             /\ branch[Len(branch)].ended[p] = branch[b].began[p]
  <2>1. \A i \in b..Len(branch) : ~Changes(i, p)
    BY DEF PlanPaths, Recorded, Changes
  <2>2. ASSUME NEW k \in b..Len(branch) PROVE branch[k].began[p] = branch[b].began[p]
    BY <1>1, <2>1, Unchanged
  <2>3. branch[Len(branch)].ended[p] = branch[Len(branch)].began[p]
    BY <1>1, <2>1, RestFacts
  <2> QED
    BY <1>1, <2>2, <2>3
<1> QED
  BY <1>2, <1>3

(* Where the files are that belong to a message from `b` on.               *)
Since(b) == \/ worktree = branch[Len(branch)].ended
            \/ \E k \in b..Len(branch) : worktree = branch[k].began

(* The planned files put back make the worktree that of the message. *)
LEMMA PutBackIsRight ==
  ASSUME AtRest, NEW b \in 1..Len(branch), Since(b), worktree' \in [Paths -> Contents],
         \A p \in PlanPaths(b) : worktree'[p] = PlanText(b, p),
         \A p \in Paths \ PlanPaths(b) : worktree'[p] = worktree[p]
  PROVE  worktree' = branch[b].began
<1>1. \A p \in Paths : worktree'[p] = branch[b].began[p]
  BY PlanIsRight DEF Since
<1>2. branch[b].began \in [Paths -> Contents]
  BY RestFacts, ContentsFacts
<1> QED
  BY <1>1, <1>2

(* The files are those of the message where the conversation stands. *)
LEMMA StandingFacts ==
  ASSUME AtRest, InStep, branch # <<>>
  PROVE  /\ Len(branch) \in 1..Len(branch)
         /\ Staged => /\ worktree = branch[revert.boundary].began
                      /\ revert.boundary \in 1..Len(branch)
         /\ ~Staged => worktree = branch[Len(branch)].ended
<1>1. branch \in Seq(MessageType) /\ Len(branch) \in Nat
  BY TypeFacts DEF AtRest, Types
<1>2. Len(branch) \in 1..Len(branch)
  BY <1>1, EmptySeq
<1> QED
  BY <1>2, TypeFacts DEF AtRest, Types, InStep, Standing, Last

(* What a branch is after a run, or cut back to a message. *)
LEMMA WholeBranch ==
  ASSUME AtRest, NEW b \in 1..Len(branch),
         DOMAIN branch' = 1..b, Len(branch') = b, \A i \in 1..b : branch'[i] = branch[i],
         run' = Idle
  PROVE  (Chained /\ Snapped)'
<1>1. Len(branch) \in Nat /\ b \in Nat
  BY RestFacts
<1>2. \A i \in 1..b : branch[i].began \in Trees /\ Settled(branch[i])
  BY <1>1, RestFacts
<1>3. \A i \in 1..b - 1 : branch[i].ended = branch[i + 1].began
  BY <1>1, RestFacts
<1>4. Chained'
  BY <1>1, <1>3 DEF Chained
<1>5. \A i \in 1..b : Settled(branch'[i])
  BY <1>2
<1> QED
  BY <1>2, <1>4, <1>5 DEF Snapped, Settled

(* A prompt continues from the files that its branch ends with. *)
LEMMA PromptTogether ==
  ASSUME Types, Types', Together, Prompt, causes' = {}
  PROVE  Together'
<1> DEFINE kept == IF Staged THEN CutTo(revert.boundary) ELSE branch
           m == Message(worktree)
<1>1. /\ run = Idle /\ branch' = Append(kept, m) /\ revert' = None
  BY DEF Prompt
<1>2. worktree \in Trees /\ worktree' = worktree /\ run' = worktree /\ run' # Idle
  <2>1. worktree \in [Paths -> Contents]
    BY TypeFacts DEF Types
  <2>2. Blame({}) /\ run' = Seen(worktree) /\ {} \in SUBSET Causes
    BY DEF Prompt, Blame
  <2>3. worktree \in Trees
    BY <2>2, BlameFacts DEF Types
  <2> QED
    BY <2>1, <2>2, <2>3, ContentsFacts DEF Prompt
<1>3. AtRest
  BY <1>1 DEF AtRest, Together
<1>4. /\ m \in MessageType /\ m.began = worktree /\ m.ended = worktree
      /\ Len(branch) \in Nat /\ branch \in Seq(MessageType)
  BY MessageFacts, TypeFacts DEF Types
<1>5. /\ kept \in Seq(MessageType) /\ Len(kept) \in Nat
      /\ \A i \in 1..Len(kept) : kept[i].began \in Trees /\ Settled(kept[i])
      /\ \A i \in 1..Len(kept) - 1 : kept[i].ended = kept[i + 1].began
      /\ Len(kept) # 0 => kept[Len(kept)].ended = worktree
  <2>1. CASE Staged
    <3> DEFINE b == revert.boundary
               cut == Message(branch[b].began)
    <3>1. b \in 1..Len(branch) /\ worktree = branch[b].began
      <4>1. b \in 1..Len(branch)
        BY <2>1, TypeFacts DEF Types
      <4>2. branch # <<>>
        BY <4>1
      <4> QED
        BY <1>3, <2>1, <4>1, <4>2, StandingFacts DEF Together
    <3>2. /\ CutTo(b) \in Seq(MessageType) /\ Len(CutTo(b)) = b
          /\ \A i \in 1..b - 1 : CutTo(b)[i] = branch[i]
          /\ CutTo(b)[b] = cut
      BY <3>1, CutFacts DEF Types
    <3>3. /\ cut.began = worktree /\ cut.ended = worktree /\ cut.start = NoTree
          /\ Settled(cut)
      BY <1>2, <3>1, ContentsFacts, MessageFacts DEF Settled
    <3>4. \A i \in 1..b - 1 : /\ branch[i].began \in Trees /\ Settled(branch[i])
                              /\ branch[i].ended = branch[i + 1].began
      BY <1>3, <1>4, <3>1, RestFacts
    <3> HIDE DEF cut
    <3>5. /\ \A i \in 1..b : CutTo(b)[i].began \in Trees /\ Settled(CutTo(b)[i])
          /\ \A i \in 1..b - 1 : CutTo(b)[i].ended = CutTo(b)[i + 1].began
      <4>1. ASSUME NEW i \in 1..b
            PROVE  CutTo(b)[i].began \in Trees /\ Settled(CutTo(b)[i])
        <5>1. CASE i = b
          BY <1>2, <3>2, <3>3, <5>1
        <5>2. CASE i # b
          <6>1. i \in 1..b - 1
            BY <1>4, <3>1, <5>2
          <6> QED
            BY <3>2, <3>4, <6>1
        <5> QED
          BY <5>1, <5>2
      <4>2. ASSUME NEW i \in 1..b - 1
            PROVE  CutTo(b)[i].ended = CutTo(b)[i + 1].began
        <5>1. CASE i + 1 = b
          BY <3>1, <3>2, <3>3, <3>4, <5>1
        <5>2. CASE i + 1 # b
          <6>1. i + 1 \in 1..b - 1
            BY <1>4, <3>1, <5>2
          <6> QED
            BY <3>2, <3>4, <6>1
        <5> QED
          BY <5>1, <5>2
      <4> QED
        BY <4>1, <4>2
    <3> QED
      BY <1>4, <2>1, <3>1, <3>2, <3>3, <3>5
  <2>2. CASE ~Staged
    <3>1. Len(branch) # 0 => branch[Len(branch)].ended = worktree
      BY <1>3, <2>2, StandingFacts DEF Together
    <3> QED
      BY <1>3, <1>4, <2>2, <3>1, RestFacts
  <2> QED
    BY <2>1, <2>2
<1> HIDE DEF kept, m
<1> DEFINE n == Len(kept)
<1>6. /\ Len(branch') = n + 1 /\ DOMAIN branch' = 1..n + 1 /\ branch'[n + 1] = m
      /\ \A i \in 1..n : branch'[i] = kept[i]
  BY <1>1, <1>4, <1>5, AppendFacts
<1> HIDE DEF n
<1>7. n \in Nat /\ n = Len(kept)
  BY <1>5 DEF n
<1>8. Chained'
  <2>1. ASSUME NEW i \in 1..n PROVE branch'[i].ended = branch'[i + 1].began
    <3>1. CASE i = n
      BY <1>4, <1>5, <1>6, <1>7, <3>1
    <3>2. CASE i # n
      <4>1. i \in 1..n - 1 /\ i + 1 \in 1..n
        BY <1>7, <3>2
      <4> QED
        BY <1>5, <1>6, <1>7, <4>1
    <3> QED
      BY <3>1, <3>2
  <2> QED
    BY <1>6, <1>7, <2>1 DEF Chained
<1>9. Snapped'
  <2>1. \A i \in 1..n : branch'[i].began \in Trees /\ Settled(branch'[i])
    BY <1>5, <1>6, <1>7
  <2>2. branch'[n + 1].began = run'
    BY <1>2, <1>4, <1>6
  <2> QED
    BY <1>2, <1>6, <1>7, <2>1, <2>2 DEF Snapped, Settled
<1> QED
  BY <1>1, <1>2, <1>8, <1>9 DEF Together, InStep, Redoable, Staged

(* The record of a run says what it changed. *)
LEMMA EndTogether ==
  ASSUME Types, Types', Together, EndRun, causes' = {}
  PROVE  Together'
<1> DEFINE n == Len(branch)
           last == [branch[n] EXCEPT !.ended = worktree]
           record == [last EXCEPT !.start = run, !.changed = Differ(run, Seen(worktree))]
<1>1. /\ run # Idle /\ run # NoTree /\ run' = Idle /\ Blame({})
      /\ branch' = [branch EXCEPT ![n] = record] /\ worktree' = worktree
      /\ revert' = revert
  BY DEF EndRun, Blame
<1>2. /\ revert = None /\ branch # <<>> /\ run \in Trees /\ {} \in SUBSET Causes
      /\ worktree \in [Paths -> Contents]
  BY <1>1, TypeFacts DEF Types, Placed, Staged, TypeOK
<1>3. worktree \in Trees /\ Seen(worktree) = worktree
  BY <1>1, <1>2, BlameFacts, ContentsFacts DEF Types
<1>4. /\ branch \in Seq(MessageType) /\ n \in Nat /\ n \in 1..n /\ branch[n] \in MessageType
      /\ DOMAIN branch = 1..n /\ DOMAIN branch' = 1..Len(branch')
  <2>1. branch \in Seq(MessageType) /\ n \in Nat /\ DOMAIN branch = 1..n
    BY TypeFacts DEF Types
  <2>2. n \in 1..n
    BY <1>2, <2>1, EmptySeq
  <2> QED
    BY <2>1, <2>2, TypeFacts DEF Types
<1>5. branch[n].began = run
  BY <1>1 DEF Together, Snapped
<1>6. /\ record \in MessageType /\ record.began = branch[n].began
      /\ record.ended = worktree /\ record.start = run
      /\ record.changed = Differ(run, worktree)
  <2> DEFINE changed == Differ(run, Seen(worktree))
  <2>1. changed \in SUBSET Paths
    BY DEF Differ
  <2>2. changed = Differ(run, worktree)
    BY <1>3
  <2>3. last \in MessageType /\ last.began = branch[n].began /\ last.ended = worktree
    BY <1>2, <1>4 DEF MessageType
  <2> HIDE DEF changed, last
  <2>4. record = [last EXCEPT !.start = run, !.changed = changed]
    BY DEF changed
  <2> HIDE DEF record
  <2> QED
    BY <1>2, <2>1, <2>2, <2>3, <2>4 DEF MessageType
<1> HIDE DEF last, record
<1>7. /\ Len(branch') = n /\ branch'[n] = record
      /\ \A i \in 1..n - 1 : branch'[i] = branch[i]
  BY <1>1, <1>2, <1>6, NewestFacts DEF Types
<1>8. Settled(record)
  BY <1>3, <1>5, <1>6 DEF Settled
<1>9. \A i \in 1..n - 1 : /\ branch[i].began \in Trees /\ Settled(branch[i])
                          /\ branch[i].ended = branch[i + 1].began
  BY <1>4 DEF Together, Snapped, Chained
<1> HIDE DEF n
<1>10. Chained'
  <2>1. ASSUME NEW i \in 1..n - 1 PROVE branch'[i].ended = branch'[i + 1].began
    <3>1. CASE i + 1 = n
      BY <1>6, <1>7, <1>9, <3>1
    <3>2. CASE i + 1 # n
      <4>1. i + 1 \in 1..n - 1
        BY <1>4, <3>2
      <4> QED
        BY <1>7, <1>9, <4>1
    <3> QED
      BY <3>1, <3>2
  <2> QED
    BY <1>7, <2>1 DEF Chained
<1>11. Snapped'
  <2>1. ASSUME NEW i \in 1..n PROVE branch'[i].began \in Trees /\ Settled(branch'[i])
    <3>1. CASE i = n
      BY <1>2, <1>5, <1>6, <1>7, <1>8, <3>1
    <3>2. CASE i # n
      <4>1. i \in 1..n - 1
        BY <1>4, <3>2
      <4> QED
        BY <1>7, <1>9, <4>1
    <3> QED
      BY <3>1, <3>2
  <2> QED
    BY <1>1, <1>4, <1>7, <2>1 DEF Snapped, Settled
<1>12. Last(branch)' = record
  BY <1>7 DEF Last
<1>13. InStep'
  BY <1>1, <1>2, <1>6, <1>12 DEF InStep, Standing, Staged
<1> QED
  BY <1>1, <1>2, <1>10, <1>11, <1>13 DEF Together, Redoable, Staged

(* What may have parted files and conversation is never forgotten. *)
LEMMA CausesKept == Types /\ Next => causes \subseteq causes'
<1> SUFFICES ASSUME Types, Next PROVE causes \subseteq causes'
  OBVIOUS
<1>2. CASE \/ Prompt \/ Notice \/ EndRun
           \/ \E p \in Paths, content \in Contents : \/ AgentWrites(p, content)
                                                     \/ UserEdits(p, content)
  BY <1>2 DEF Prompt, Notice, EndRun, AgentWrites, UserEdits, Blame
<1>3. CASE Undo \/ RedoStep
  BY <1>3, StagingFacts, StageFacts
<1>4. CASE Unrevert
  BY <1>4, UnrevertFacts
<1>5. CASE \E b : JumpBefore(b) \/ JumpInto(b)
  BY <1>5, JumpingFacts, JumpFacts
<1> QED
  BY <1>2, <1>3, <1>4, <1>5 DEF Next

(* A run that is not over yet, and edits by hand. *)
LEMMA WritesTogether ==
  ASSUME Types, Types', Together, NEW p \in Paths, NEW content \in Contents,
         AgentWrites(p, content) \/ UserEdits(p, content), causes' = {}
  PROVE  Together'
<1>1. CASE AgentWrites(p, content) \/ run # Idle
  <2>1. UNCHANGED <<branch, revert, run>> /\ run # Idle
    BY <1>1 DEF AgentWrites, UserEdits
  <2>2. ~Staged'
    BY <2>1 DEF Types, Placed, Staged
  <2>3. (Chained /\ Snapped)'
    BY <2>1 DEF Together, Chained, Snapped
  <2> QED
    BY <2>1, <2>2, <2>3 DEF Together, InStep, Redoable
<1>2. CASE UserEdits(p, content) /\ run = Idle
  <2>1. UNCHANGED <<branch, revert, run>>
    BY <1>2 DEF UserEdits
  <2>2. branch = <<>>
    BY <1>2 DEF UserEdits, Blame
  <2>3. ~Staged'
    BY <2>1, <2>2, TypeFacts DEF Types, Staged
  <2>4. (Chained /\ Snapped)'
    BY <2>1 DEF Together, Chained, Snapped
  <2> QED
    BY <2>1, <2>2, <2>3, <2>4 DEF Together, InStep, Redoable
<1> QED
  BY <1>1, <1>2

(* A notice in a run, a redo over several steps and a jump into a run are  *)
(* causes of their own.                                                    *)
LEMMA PartingSteps ==
  ASSUME Types, causes' = {}
  PROVE  ~Notice /\ ~RedoStep /\ \A b : ~JumpInto(b)
<1>1. ~Notice
  BY DEF Notice, Blame
<1>2. ASSUME RedoStep PROVE FALSE
  <2>1. Following \in 1..Len(branch) /\ {"redo"} \in SUBSET Causes
        /\ Stage(Following, {"redo"})
    BY <1>2, TypeFacts DEF RedoStep, Following, Causes, Types
  <2> DEFINE b == Following
             why == {"redo"}
  <2>2. b \in 1..Len(branch) /\ why \in SUBSET Causes /\ Stage(b, why) /\ "redo" \in why
    BY <2>1
  <2> HIDE DEF b, why
  <2>3. why \subseteq causes'
    BY <2>2, StageFacts
  <2> QED
    BY <2>2, <2>3
<1>3. ASSUME NEW b, JumpInto(b) PROVE FALSE
  <2> DEFINE why == {"jump"}
  <2>1. b \in 1..Len(branch) /\ why \in SUBSET Causes /\ JumpFiles(b, why) /\ "jump" \in why
    BY <1>3, TypeFacts DEF JumpInto, Causes, Types
  <2> HIDE DEF why
  <2>2. why \subseteq causes'
    BY <2>1, JumpFacts
  <2> QED
    BY <2>1, <2>2
<1> QED
  BY <1>1, <1>2, <1>3

(* An undo puts the files back to the message before, and knows the files  *)
(* of the newest run when it starts from there.                            *)
LEMMA UndoTogether ==
  ASSUME Types, Types', Together, Undo, causes' = {}
  PROVE  Together'
<1> DEFINE n == Len(branch)
<1>1. /\ run = Idle /\ UNCHANGED <<branch, run>> /\ AtRest
  BY StagingFacts DEF AtRest, Together
<1>2. PICK b \in 1..n, why \in SUBSET Causes :
        /\ Stage(b, why) /\ "redo" \notin why
        /\ Staged => b = revert.boundary - 1
        /\ ~Staged => b = n
  <2>1. PICK b \in 1..n, why \in SUBSET Causes :
          /\ Stage(b, why)
          /\ \/ why = {"redo"} /\ Staged
             \/ /\ Staged => b = revert.boundary - 1
                /\ ~Staged => b = n
    BY StagingFacts
  <2>2. why \subseteq causes'
    BY <2>1, StageFacts
  <2> QED
    BY <2>1, <2>2
<1>3. /\ n \in Nat /\ branch # <<>> /\ b \in 1..n /\ n \in 1..n
      /\ Staged => worktree = branch[revert.boundary].began /\ revert.boundary \in b..n
      /\ ~Staged => worktree = branch[n].ended
  <2>1. n \in Nat /\ branch # <<>> /\ b \in 1..n
    BY <1>1, RestFacts
  <2>2. /\ n \in 1..n
        /\ Staged => worktree = branch[revert.boundary].began /\ revert.boundary \in 1..n
        /\ ~Staged => worktree = branch[n].ended
    BY <1>1, <2>1, StandingFacts DEF Together
  <2> QED
    BY <1>2, <2>1, <2>2
<1>4. /\ worktree \in Trees /\ Seen(worktree) = worktree /\ worktree \in [Paths -> Contents]
  BY <1>2, StageFacts, TypeFacts, ContentsFacts DEF Types
<1>5. /\ worktree' \in [Paths -> Contents]
      /\ \A p \in Paths \ PlanPaths(b) : worktree'[p] = worktree[p]
      /\ \A p \in PlanPaths(b) : worktree'[p] = PlanText(b, p)
      /\ \/ PlanPaths(b) = {} /\ RevertsTo(b, {}, Original)
         \/ RevertsTo(b, Targets(b), IF Original = NoTree THEN Seen(worktree) ELSE Original)
  BY <1>2, StageFacts
<1>6. worktree' = branch[b].began
  BY <1>1, <1>3, <1>5, PutBackIsRight DEF Since
<1>7. Staged' /\ revert'.boundary = b
  BY <1>5, NoneAssumption DEF RevertsTo, Staged
<1>8. (Chained /\ Snapped /\ InStep)'
  BY <1>1, <1>6, <1>7 DEF Together, Chained, Snapped, InStep, Standing
<1>9. ASSUME b = n, NEW p \in Paths
      PROVE  Returned(revert'.original, revert'.files, p) = branch[n].ended[p]
  <2>1. ~Staged /\ Original = NoTree /\ worktree = branch[n].ended
    BY <1>2, <1>3, <1>9 DEF Original
  <2>2. /\ p \in PlanPaths(n) => PlanText(n, p) = branch[n].began[p]
        /\ p \notin PlanPaths(n) => branch[n].ended[p] = branch[n].began[p]
    BY <1>1, <1>3, PlanIsRight
  <2>3. CASE PlanPaths(b) = {} /\ RevertsTo(b, {}, Original)
    <3>1. revert'.original = NoTree
      BY <2>1, <2>3 DEF RevertsTo
    <3> QED
      BY <1>9, <2>2, <2>3, <3>1 DEF Returned
  <2>4. CASE RevertsTo(b, Targets(b), IF Original = NoTree THEN Seen(worktree) ELSE Original)
    <3>1. revert'.original = worktree /\ revert'.files = Targets(n) /\ worktree # NoTree
      BY <1>4, <1>9, <2>1, <2>4, ContentsFacts DEF RevertsTo
    <3>2. p \in PlanPaths(n) /\ p \notin Targets(n) => PlanText(n, p) = worktree[p]
      BY <1>4 DEF Targets
    <3>3. Targets(n) \subseteq PlanPaths(n)
      BY DEF Targets
    <3> QED
      BY <2>1, <2>2, <3>1, <3>2, <3>3 DEF Returned
  <2> QED
    BY <1>5, <2>3, <2>4
<1>10. Redoable'
  BY <1>1, <1>7, <1>9 DEF Redoable, Returned
<1> QED
  BY <1>8, <1>10 DEF Together

(* A redo at the newest message brings the files of its run back. *)
LEMMA UnrevertTogether ==
  ASSUME Types, Types', Together, Unrevert, causes' = {}
  PROVE  Together'
<1> DEFINE n == Len(branch)
<1>1. /\ worktree' \in [Paths -> Contents] /\ Staged /\ revert' = None
      /\ revert.boundary = n /\ UNCHANGED <<branch, run>>
      /\ \A p \in Paths \ revert.files : worktree'[p] = worktree[p]
      /\ revert.original = NoTree => worktree' = worktree
      /\ revert.original # NoTree => \A p \in revert.files : worktree'[p] = revert.original[p]
  BY UnrevertFacts
<1>2. run = Idle /\ AtRest
  BY DEF Unrevert, AtRest, Together
<1>3. /\ worktree = branch[n].began /\ n \in 1..n /\ branch # <<>>
      /\ branch' \in Seq(MessageType)
  <2>1. n \in 1..n /\ branch # <<>> /\ branch' \in Seq(MessageType)
    BY <1>1, TypeFacts DEF Types, TypeOK
  <2> QED
    BY <1>1, <1>2, <2>1, StandingFacts DEF Together
<1>4. \A p \in Paths : worktree'[p] = branch[n].ended[p]
  <2>1. \A p \in Paths : Returned(revert.original, revert.files, p) = branch[n].ended[p]
    BY <1>1 DEF Together, Redoable
  <2> QED
    BY <1>1, <1>3, <2>1 DEF Returned
<1>5. worktree' = branch[n].ended
  <2>1. branch[n].ended \in [Paths -> Contents]
    BY <1>2, <1>3, RestFacts, ContentsFacts
  <2> QED
    BY <1>1, <1>4, <2>1
<1> QED
  BY <1>1, <1>2, <1>5
     DEF Together, Chained, Snapped, InStep, Standing, Redoable, Staged, Last

(* A jump back before a message restores the files of the message. *)
LEMMA JumpTogether ==
  ASSUME Types, Types', Together, NEW b, JumpBefore(b), causes' = {}
  PROVE  Together'
<1> DEFINE n == Len(branch)
<1>1. /\ b \in 1..n /\ run = Idle /\ revert' = None /\ UNCHANGED run
      /\ branch' \in Seq(MessageType)
      /\ \A i \in 1..b - 1 : branch'[i] = branch[i]
  BY JumpingFacts
<1>2. AtRest /\ n \in Nat
  BY <1>1, RestFacts DEF AtRest, Together
<1>3. PICK why \in SUBSET Causes :
        /\ JumpFiles(b, why)
        /\ \/ /\ Len(branch') = b - 1
              /\ (Staged /\ b > revert.boundary => "redo" \in why)
           \/ "jump" \in why
  BY JumpingFacts
<1>4. /\ worktree' \in [Paths -> Contents]
      /\ \A p \in Paths \ PlanPaths(b) : worktree'[p] = worktree[p]
      /\ \A p \in PlanPaths(b) : worktree'[p] = PlanText(b, p)
      /\ why \subseteq causes'
  BY <1>1, <1>3, JumpFacts
<1>5. Len(branch') = b - 1 /\ DOMAIN branch' = 1..b - 1 /\ b \in Nat
      /\ ~(Staged /\ b > revert.boundary)
  BY <1>1, <1>2, <1>3, <1>4
<1>6. Since(b)
  <2>1. branch # <<>>
    BY <1>1
  <2>2. /\ Staged => /\ worktree = branch[revert.boundary].began
                     /\ revert.boundary \in 1..n
        /\ ~Staged => worktree = branch[n].ended
    BY <1>2, <2>1, StandingFacts DEF Together
  <2>3. Staged => revert.boundary \in b..n
    BY <1>1, <1>2, <1>5, <2>2
  <2> QED
    BY <2>2, <2>3 DEF Since
<1>7. worktree' = branch[b].began
  BY <1>1, <1>2, <1>4, <1>6, PutBackIsRight
<1>8. CASE b = 1
  BY <1>1, <1>5, <1>8 DEF Together, Chained, Snapped, InStep, Redoable, Staged
<1>9. CASE b # 1
  <2>1. b - 1 \in 1..n - 1 /\ b - 1 \in 1..n
    BY <1>1, <1>2, <1>5, <1>9
  <2>2. (Chained /\ Snapped)'
    <3> DEFINE k == b - 1
    <3>1. /\ k \in 1..n /\ DOMAIN branch' = 1..k /\ Len(branch') = k
          /\ \A i \in 1..k : branch'[i] = branch[i]
      BY <1>1, <1>5, <2>1
    <3> HIDE DEF k
    <3> QED
      BY <1>1, <1>2, <3>1, WholeBranch
  <2>3. branch[b - 1].ended = branch[b].began
    <3>1. branch[b - 1].ended = branch[b - 1 + 1].began
      BY <1>2, <2>1, RestFacts
    <3> QED
      BY <1>5, <3>1
  <2>4. Last(branch)' = branch[b - 1]
    BY <1>1, <1>5, <2>1 DEF Last
  <2> QED
    BY <1>1, <1>7, <2>2, <2>3, <2>4 DEF Together, InStep, Standing, Redoable, Staged
<1> QED
  BY <1>8, <1>9

(* A step without a cause to part them keeps conversation and files        *)
(* together.                                                               *)
LEMMA TogetherStable ==
  Types /\ (causes = {} => Together) /\ [Next]_vars => (causes = {} => Together)'
<1> SUFFICES ASSUME Types, causes = {} => Together, [Next]_vars, causes' = {}
             PROVE  Together'
  OBVIOUS
<1>1. Types'
  BY TypesStable
<1>2. CASE UNCHANGED vars
  BY <1>2 DEF vars, Together, Chained, Snapped, InStep, Standing, Redoable, Returned, Staged
<1>3. CASE Next
  <2>1. Together
    BY <1>3, CausesKept
  <2> QED
    BY <1>1, <1>3, <2>1, PromptTogether, EndTogether, WritesTogether, PartingSteps,
       UndoTogether, UnrevertTogether, JumpTogether DEF Next
<1> QED
  BY <1>2, <1>3

(* NeverDesync is an invariant: files and conversation never part, by      *)
(* runs, undos, the redo of a single undo, commits and jumps, unless one   *)
(* of the causes was there: a file edited by hand or too large, a snapshot *)
(* or a file that failed, a notice in the middle of a run, a redo over     *)
(* several steps, or a jump that moves the conversation only.              *)
THEOREM FilesFollowTheConversation == Spec => []NeverDesync
<1>1. Init => Together
  <2> SUFFICES ASSUME Init PROVE Together
    OBVIOUS
  <2>1. /\ Len(branch) = 0 /\ DOMAIN branch = {} /\ run = Idle /\ revert = None
        /\ branch = <<>>
    BY DEF Init
  <2> QED
    BY <2>1 DEF Together, Chained, Snapped, InStep, Redoable, Staged
<1>2. (causes = {} => Together) => NeverDesync
  BY DEF Together, NeverDesync
<1> QED
  BY <1>1, <1>2, InitTypes, TypesStable, TogetherStable, PTL DEF Spec
=============================================================================
