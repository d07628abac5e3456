-------------------------- MODULE AgentLoop_proofs --------------------------
(***************************************************************************)
(* Theorems about the agent loop, for every engine that keeps              *)
(* TurnContract, every number of runs, turns, calls and background tasks.  *)
(***************************************************************************)
EXTENDS AgentLoop, TLAPS, FiniteSetTheorems, SequenceTheorems

----------------------------------------------------------------------------
(* What is appended to a session *)

Entries == [kind : EntryKinds, about : Seq(Calls \cup Tasks)]

(* Entries that are no part of a message and its results. *)
Plain(t) == \A n \in 1 .. Len(t) : t[n].kind \notin {"assistant", "result"}

(* A message is followed by its results, and results by nothing else.      *)
Followed(s) ==
  \A n \in 1 .. Len(s) :
    s[n].kind = "assistant" =>
      /\ n + Len(s[n].about) <= Len(s)
      /\ \A k \in 1 .. Len(s[n].about) : s[n + k] = Entry("result", <<s[n].about[k]>>)

Owned(s) ==
  \A n \in 1 .. Len(s) :
    s[n].kind = "result" =>
      \E m \in 1 .. n - 1 : s[m].kind = "assistant" /\ n <= m + Len(s[m].about)

(* The last message asks for nothing. *)
Concluded(s) ==
  \E n \in 1 .. Len(s) :
    /\ s[n].kind = "assistant" /\ s[n].about = <<>>
    /\ \A m \in 1 .. Len(s) : m > n => s[m].kind # "assistant"

Results(calls) == [n \in DOMAIN calls |-> Entry("result", <<calls[n]>>)]
Answered(s, calls) == Append(s, Entry("assistant", calls)) \o Results(calls)

(* Entries are joined in any grouping. *)
LEMMA Regrouped ==
  ASSUME NEW s \in Seq(Entries), NEW t \in Seq(Entries), NEW u \in Seq(Entries)
  PROVE  (s \o t) \o u = s \o (t \o u)
BY ConcatAssociative

(* Where the entries of a longer session come from. *)
LEMMA JoinedEntries ==
  ASSUME NEW S, NEW s \in Seq(S), NEW t \in Seq(S)
  PROVE  /\ s \o t \in Seq(S)
         /\ Len(s) \in Nat /\ Len(t) \in Nat /\ Len(s \o t) = Len(s) + Len(t)
         /\ \A n \in 1 .. Len(s) : n \in 1 .. Len(s \o t) /\ (s \o t)[n] = s[n]
         /\ \A n \in 1 .. Len(t) :
              Len(s) + n \in 1 .. Len(s \o t) /\ (s \o t)[Len(s) + n] = t[n]
         /\ \A n \in 1 .. Len(s \o t) :
              n \in 1 .. Len(s) \/ (n - Len(s) \in 1 .. Len(t) /\ (s \o t)[n] = t[n - Len(s)])
<1>1. /\ s \o t \in Seq(S)
      /\ Len(s) \in Nat /\ Len(t) \in Nat /\ Len(s \o t) = Len(s) + Len(t)
      /\ \A n \in 1 .. Len(s) + Len(t) :
           (s \o t)[n] = IF n <= Len(s) THEN s[n] ELSE t[n - Len(s)]
  BY ConcatProperties
<1>2. ASSUME NEW n \in 1 .. Len(t)
      PROVE  Len(s) + n \in 1 .. Len(s \o t) /\ (s \o t)[Len(s) + n] = t[n]
  <2>1. Len(s) + n \in 1 .. Len(s) + Len(t) /\ ~(Len(s) + n <= Len(s))
        /\ (Len(s) + n) - Len(s) = n
    BY <1>1
  <2> QED
    BY <1>1, <2>1
<1> QED
  BY <1>1, <1>2

(* Notices, prompts and summaries leave messages and results together. *)
LEMMA AddPlain ==
  ASSUME NEW s \in Seq(Entries), NEW t \in Seq(Entries), Plain(t)
  PROVE  /\ Followed(s) => Followed(s \o t)
         /\ Owned(s) => Owned(s \o t)
         /\ Concluded(s) => Concluded(s \o t)
<1> DEFINE u == s \o t
<1>1. /\ u \in Seq(Entries)
      /\ Len(s) \in Nat /\ Len(t) \in Nat /\ Len(u) = Len(s) + Len(t)
      /\ \A n \in 1 .. Len(s) : n \in 1 .. Len(u) /\ u[n] = s[n]
      /\ \A n \in 1 .. Len(u) :
           n \in 1 .. Len(s) \/ u[n].kind \notin {"assistant", "result"}
  BY JoinedEntries DEF Plain
<1> HIDE DEF u
<1>2. ASSUME NEW n \in 1 .. Len(s)
      PROVE  Len(s[n].about) \in Nat
  BY ElementOfSeq DEF Entries
<1>3. ASSUME Followed(s) PROVE Followed(u)
  <2> SUFFICES ASSUME NEW n \in 1 .. Len(u), u[n].kind = "assistant"
               PROVE  /\ n + Len(u[n].about) <= Len(u)
                      /\ \A k \in 1 .. Len(u[n].about) :
                           u[n + k] = Entry("result", <<u[n].about[k]>>)
    BY DEF Followed
  <2>1. n \in 1 .. Len(s) /\ u[n] = s[n] /\ s[n].kind = "assistant"
    BY <1>1
  <2>2. /\ n + Len(s[n].about) <= Len(s)
        /\ \A k \in 1 .. Len(s[n].about) : s[n + k] = Entry("result", <<s[n].about[k]>>)
    BY <1>3, <2>1 DEF Followed
  <2>3. ASSUME NEW k \in 1 .. Len(s[n].about)
        PROVE  u[n + k] = s[n + k]
    <3>1. n + k \in 1 .. Len(s)
      BY <1>1, <1>2, <2>1, <2>2
    <3> QED
      BY <1>1, <3>1
  <2>4. n + Len(s[n].about) <= Len(u)
    BY <1>1, <1>2, <2>1, <2>2
  <2> QED
    BY <2>1, <2>2, <2>3, <2>4
<1>4. ASSUME Owned(s) PROVE Owned(u)
  <2> SUFFICES ASSUME NEW n \in 1 .. Len(u), u[n].kind = "result"
               PROVE  \E m \in 1 .. n - 1 :
                        u[m].kind = "assistant" /\ n <= m + Len(u[m].about)
    BY DEF Owned
  <2>1. n \in 1 .. Len(s) /\ s[n].kind = "result"
    BY <1>1
  <2>2. PICK m \in 1 .. n - 1 : s[m].kind = "assistant" /\ n <= m + Len(s[m].about)
    BY <1>4, <2>1 DEF Owned
  <2>3. u[m] = s[m]
    BY <1>1, <2>1
  <2> QED
    BY <2>2, <2>3
<1>5. ASSUME Concluded(s) PROVE Concluded(u)
  <2>1. PICK n \in 1 .. Len(s) : /\ s[n].kind = "assistant" /\ s[n].about = <<>>
                                 /\ \A m \in 1 .. Len(s) : m > n => s[m].kind # "assistant"
    BY <1>5 DEF Concluded
  <2>2. n \in 1 .. Len(u) /\ u[n] = s[n]
    BY <1>1
  <2>3. \A m \in 1 .. Len(u) : m > n => u[m].kind # "assistant"
    BY <1>1, <2>1
  <2> QED
    BY <2>1, <2>2, <2>3 DEF Concluded
<1> QED
  BY <1>3, <1>4, <1>5 DEF u

(* A message that is written with a result for each of its calls. *)
LEMMA AddAnswered ==
  ASSUME NEW s \in Seq(Entries), NEW calls \in Seq(Calls)
  PROVE  /\ Answered(s, calls) \in Seq(Entries)
         /\ Followed(s) => Followed(Answered(s, calls))
         /\ Owned(s) => Owned(Answered(s, calls))
         /\ calls = <<>> => Concluded(Answered(s, calls))
<1> DEFINE message == Entry("assistant", calls)
           front == Append(s, message)
           results == Results(calls)
           u == front \o results
<1>1. /\ message \in Entries /\ message.kind = "assistant" /\ message.about = calls
      /\ Len(calls) \in Nat /\ DOMAIN calls = 1 .. Len(calls)
  <2>1. calls \in Seq(Calls \cup Tasks)
    BY SeqMonotonic
  <2> QED
    BY <2>1 DEF Entry, Entries, EntryKinds
<1>2. /\ results \in Seq(Entries) /\ Len(results) = Len(calls)
      /\ \A k \in 1 .. Len(calls) : /\ results[k] = Entry("result", <<calls[k]>>)
                                    /\ results[k].kind = "result"
  <2>1. \A k \in 1 .. Len(calls) : calls[k] \in Calls \cup Tasks
    BY ElementOfSeq
  <2>2. \A k \in 1 .. Len(calls) : <<calls[k]>> \in Seq(Calls \cup Tasks)
    BY <2>1
  <2>3. \A k \in 1 .. Len(calls) :
          Entry("result", <<calls[k]>>) \in Entries /\ Entry("result", <<calls[k]>>).kind = "result"
    BY <2>2 DEF Entry, Entries, EntryKinds
  <2>4. results = [k \in 1 .. Len(calls) |-> Entry("result", <<calls[k]>>)]
    BY <1>1 DEF Results
  <2> HIDE DEF results
  <2>5. results \in [1 .. Len(calls) -> Entries]
    BY <2>3, <2>4
  <2>6. results \in Seq(Entries) /\ Len(results) = Len(calls)
    BY <1>1, <2>5, SeqDef
  <2> QED
    BY <2>3, <2>4, <2>6
<1> HIDE DEF message, results
<1>3. /\ front \in Seq(Entries) /\ Len(s) \in Nat /\ Len(front) = Len(s) + 1
      /\ \A n \in 1 .. Len(s) : front[n] = s[n]
      /\ front[Len(s) + 1] = message
  BY <1>1, AppendProperties
<1> HIDE DEF front
<1>4. /\ u \in Seq(Entries) /\ Len(u) = Len(s) + 1 + Len(calls)
      /\ \A n \in 1 .. Len(s) : n \in 1 .. Len(u) /\ u[n] = s[n]
      /\ Len(s) + 1 \in 1 .. Len(u) /\ u[Len(s) + 1] = message
      /\ \A k \in 1 .. Len(calls) : u[Len(s) + 1 + k] = results[k]
      /\ \A n \in 1 .. Len(u) :
           \/ n \in 1 .. Len(s) \/ n = Len(s) + 1
           \/ n - (Len(s) + 1) \in 1 .. Len(calls) /\ u[n] = results[n - (Len(s) + 1)]
  <2>1. /\ u \in Seq(Entries) /\ Len(u) = Len(front) + Len(results)
        /\ \A n \in 1 .. Len(front) : n \in 1 .. Len(u) /\ u[n] = front[n]
        /\ \A n \in 1 .. Len(results) : u[Len(front) + n] = results[n]
        /\ \A n \in 1 .. Len(u) :
             \/ n \in 1 .. Len(front)
             \/ n - Len(front) \in 1 .. Len(results) /\ u[n] = results[n - Len(front)]
    <3>1. u \in Seq(Entries) /\ Len(u) = Len(front) + Len(results)
      BY <1>2, <1>3, JoinedEntries
    <3>2. \A n \in 1 .. Len(front) : n \in 1 .. Len(u) /\ u[n] = front[n]
      BY <1>2, <1>3, JoinedEntries
    <3>3. ASSUME NEW n \in 1 .. Len(u)
          PROVE  \/ n \in 1 .. Len(front)
                 \/ n - Len(front) \in 1 .. Len(results) /\ u[n] = results[n - Len(front)]
      BY <1>2, <1>3, JoinedEntries
    <3>4. ASSUME NEW n \in 1 .. Len(results)
          PROVE  u[Len(front) + n] = results[n]
      <4> DEFINE k == Len(front) + n
      <4>1. k \in 1 .. Len(u) /\ k \notin 1 .. Len(front) /\ k - Len(front) = n
        BY <1>2, <1>3, <3>1
      <4> HIDE DEF k
      <4> QED
        BY <3>3, <4>1 DEF k
    <3> QED
      BY <3>1, <3>2, <3>3, <3>4
  <2> HIDE DEF u
  <2>2. \A n \in 1 .. Len(s) : n \in 1 .. Len(u) /\ u[n] = s[n]
    BY <1>3, <2>1
  <2>3. Len(s) + 1 \in 1 .. Len(u) /\ u[Len(s) + 1] = message
    BY <1>3, <2>1
  <2>4. \A n \in 1 .. Len(front) : n \in 1 .. Len(s) \/ n = Len(s) + 1
    BY <1>3
  <2> QED
    BY <1>2, <1>3, <2>1, <2>2, <2>3, <2>4
<1> HIDE DEF u
<1>5. ASSUME NEW n \in 1 .. Len(s)
      PROVE  Len(s[n].about) \in Nat
  BY ElementOfSeq DEF Entries
<1>6. ASSUME Followed(s) PROVE Followed(u)
  <2> SUFFICES ASSUME NEW n \in 1 .. Len(u), u[n].kind = "assistant"
               PROVE  /\ n + Len(u[n].about) <= Len(u)
                      /\ \A k \in 1 .. Len(u[n].about) :
                           u[n + k] = Entry("result", <<u[n].about[k]>>)
    BY DEF Followed
  <2>1. CASE n \in 1 .. Len(s)
    <3>1. u[n] = s[n] /\ s[n].kind = "assistant"
      BY <1>4, <2>1
    <3>2. /\ n + Len(s[n].about) <= Len(s)
          /\ \A k \in 1 .. Len(s[n].about) : s[n + k] = Entry("result", <<s[n].about[k]>>)
      BY <1>6, <2>1, <3>1 DEF Followed
    <3>3. ASSUME NEW k \in 1 .. Len(s[n].about)
          PROVE  u[n + k] = s[n + k]
      <4>1. n + k \in 1 .. Len(s)
        BY <1>3, <1>5, <2>1, <3>2
      <4> QED
        BY <1>4, <4>1
    <3>4. n + Len(s[n].about) <= Len(u)
      BY <1>1, <1>3, <1>4, <1>5, <2>1, <3>2
    <3> QED
      BY <3>1, <3>2, <3>3, <3>4
  <2>2. CASE n = Len(s) + 1
    <3>1. u[n].about = calls
      BY <1>1, <1>4, <2>2
    <3>2. \A k \in 1 .. Len(calls) : u[n + k] = Entry("result", <<calls[k]>>)
      BY <1>2, <1>4, <2>2
    <3>3. n + Len(calls) <= Len(u)
      BY <1>1, <1>3, <1>4, <2>2
    <3> QED
      BY <3>1, <3>2, <3>3
  <2>3. n \in 1 .. Len(s) \/ n = Len(s) + 1
    BY <1>2, <1>4
  <2> QED
    BY <2>1, <2>2, <2>3
<1>7. ASSUME Owned(s) PROVE Owned(u)
  <2> SUFFICES ASSUME NEW n \in 1 .. Len(u), u[n].kind = "result"
               PROVE  \E m \in 1 .. n - 1 :
                        u[m].kind = "assistant" /\ n <= m + Len(u[m].about)
    BY DEF Owned
  <2>1. CASE n \in 1 .. Len(s)
    <3>1. s[n].kind = "result"
      BY <1>4, <2>1
    <3>2. PICK m \in 1 .. n - 1 : s[m].kind = "assistant" /\ n <= m + Len(s[m].about)
      BY <1>7, <2>1, <3>1 DEF Owned
    <3>3. u[m] = s[m]
      BY <1>4, <2>1
    <3> QED
      BY <3>2, <3>3
  <2>2. CASE n - (Len(s) + 1) \in 1 .. Len(calls)
    <3>1. Len(s) + 1 \in 1 .. n - 1 /\ n <= (Len(s) + 1) + Len(calls)
      BY <1>1, <1>3, <2>2
    <3>2. u[Len(s) + 1].kind = "assistant" /\ u[Len(s) + 1].about = calls
      BY <1>1, <1>4
    <3> QED
      BY <3>1, <3>2
  <2>3. n # Len(s) + 1
    BY <1>1, <1>4
  <2> QED
    BY <1>4, <2>1, <2>2, <2>3
<1>8. ASSUME calls = <<>> PROVE Concluded(u)
  <2>1. Len(calls) = 0
    BY <1>8
  <2>2. \A m \in 1 .. Len(u) : ~(m > Len(s) + 1)
    BY <1>3, <1>4, <2>1
  <2> QED
    BY <1>1, <1>4, <1>8, <2>2 DEF Concluded
<1> QED
  BY <1>4, <1>6, <1>7, <1>8 DEF u, front, message, results, Answered

(* A session that grew holds what it held. *)
LEMMA StillTold ==
  ASSUME NEW s \in Seq(Entries), NEW t \in Seq(Entries), NEW e, Contains(s, e)
  PROVE  Contains(s \o t, e)
<1>1. PICK n \in 1 .. Len(s) : s[n] = e
  BY DEF Contains
<1>2. n \in 1 .. Len(s \o t) /\ (s \o t)[n] = s[n]
  BY JoinedEntries
<1> QED
  BY <1>1, <1>2 DEF Contains

(* An answered message keeps the entries before it. *)
LEMMA AnsweredHolds ==
  ASSUME NEW s \in Seq(Entries), NEW calls \in Seq(Calls), NEW e, Contains(s, e)
  PROVE  Contains(Answered(s, calls), e)
<1> DEFINE message == <<Entry("assistant", calls)>>
           results == Results(calls)
<1>1. calls \in Seq(Calls \cup Tasks)
  BY SeqMonotonic
<1>2. Entry("assistant", calls) \in Entries
  BY <1>1 DEF Entry, Entries, EntryKinds
<1>3. message \in Seq(Entries) /\ Append(s, Entry("assistant", calls)) = s \o message
  BY <1>2, AppendIsConcat
<1>4. results \in Seq(Entries)
  <2>1. DOMAIN calls = 1 .. Len(calls) /\ Len(calls) \in Nat
    OBVIOUS
  <2>2. \A k \in 1 .. Len(calls) : calls[k] \in Calls \cup Tasks
    BY <1>1, ElementOfSeq
  <2>3. \A k \in 1 .. Len(calls) : <<calls[k]>> \in Seq(Calls \cup Tasks)
    BY <2>2
  <2>4. \A k \in 1 .. Len(calls) : Entry("result", <<calls[k]>>) \in Entries
    BY <2>3 DEF Entry, Entries, EntryKinds
  <2>5. results = [k \in 1 .. Len(calls) |-> Entry("result", <<calls[k]>>)]
    BY <2>1 DEF Results
  <2>6. results \in [1 .. Len(calls) -> Entries]
    BY <2>4, <2>5
  <2> QED
    BY <2>1, <2>6, SeqDef
<1> HIDE DEF message, results
<1>5. s \o message \in Seq(Entries) /\ Contains(s \o message, e)
  BY <1>3, JoinedEntries, StillTold
<1>6. Contains((s \o message) \o results, e)
  BY <1>4, <1>5, StillTold
<1> QED
  BY <1>3, <1>6 DEF Answered, results

(* The notices of a drain, one for each task that is drained. *)
LEMMA DrainFacts ==
  ASSUME transcript \in Seq(Entries), IsFiniteSet(settled), settled \subseteq Tasks, Drain
  PROVE  /\ notified' = settled
         /\ \E t \in Seq(Entries) :
              /\ Plain(t) /\ transcript' = transcript \o t
              /\ \A x \in settled \ notified : Contains(transcript', Entry("notice", <<x>>))
<1> DEFINE set == settled \ notified
           drained == SetToSeq(set)
           notices == [n \in DOMAIN drained |-> Entry("notice", <<drained[n]>>)]
<1>1. IsFiniteSet(set) /\ set \subseteq Tasks
  BY FS_Subset
<1> DEFINE size == Cardinality(set)
<1>2. size \in Nat /\ ExistsBijection(1 .. size, set)
  BY <1>1, FS_CardinalityType
<1>3. \E f \in [1 .. size -> set] : IsInjective(f)
  BY <1>2 DEF ExistsBijection, Bijection, Injection
<1>4. drained \in [1 .. size -> set] /\ IsInjective(drained)
  BY <1>3 DEF SetToSeq
<1> HIDE DEF drained
<1>5. \A x \in set : \E n \in 1 .. size : drained[n] = x
  <2>1. drained \in Injection(1 .. size, set)
    BY <1>4 DEF Injection
  <2>2. Cardinality(1 .. size) = size
    BY <1>2, FS_Interval
  <2>3. drained \in Surjection(1 .. size, set)
    BY <1>1, <2>1, <2>2, FS_Injection
  <2> QED
    BY <2>3 DEF Surjection
<1> HIDE DEF size
<1>6. /\ notices \in Seq(Entries) /\ Len(notices) = size /\ Plain(notices)
      /\ \A n \in 1 .. size : notices[n] = Entry("notice", <<drained[n]>>)
  <2>1. notices = [n \in 1 .. size |-> Entry("notice", <<drained[n]>>)]
    BY <1>4
  <2>2. \A n \in 1 .. size : drained[n] \in Calls \cup Tasks
    BY <1>1, <1>4
  <2>3. \A n \in 1 .. size : <<drained[n]>> \in Seq(Calls \cup Tasks)
    BY <2>2
  <2>4. \A n \in 1 .. size :
          /\ Entry("notice", <<drained[n]>>) \in Entries
          /\ Entry("notice", <<drained[n]>>).kind \notin {"assistant", "result"}
    BY <2>3 DEF Entry, Entries, EntryKinds
  <2> HIDE DEF notices
  <2>5. notices \in [1 .. size -> Entries]
    BY <2>1, <2>4
  <2>6. notices \in Seq(Entries) /\ Len(notices) = size
    BY <1>2, <2>5, SeqDef
  <2> QED
    BY <2>1, <2>4, <2>6 DEF Plain
<1>7. transcript' = transcript \o notices /\ notified' = settled
  BY DEF Drain, drained
<1> HIDE DEF notices
<1>8. ASSUME NEW x \in set PROVE Contains(transcript', Entry("notice", <<x>>))
  <2>1. PICK n \in 1 .. size : drained[n] = x
    BY <1>5
  <2>2. /\ Len(transcript) + n \in 1 .. Len(transcript \o notices)
        /\ (transcript \o notices)[Len(transcript) + n] = notices[n]
    <3>1. n \in 1 .. Len(notices)
      BY <1>6
    <3> QED
      BY <1>6, <3>1, JoinedEntries
  <2> QED
    BY <1>6, <1>7, <2>1, <2>2 DEF Contains
<1> QED
  BY <1>6, <1>7, <1>8

----------------------------------------------------------------------------
(* The inductive invariant *)

Types ==
  /\ pc \in {"idle", "starting", "top", "turn", "checking", "summarising", "ending"}
  /\ work \in 0..MaxWork /\ turn \in 0..MaxTurns
  /\ stop \in StopReasons /\ reported \in StopReasons \cup {"none"}
  /\ interrupted \in BOOLEAN /\ cancel \in BOOLEAN /\ steer \in BOOLEAN
  /\ ends \in Seq([message : BOOLEAN, calls : Seq(Calls), answers : Seq(Calls),
                   stop : Turn!StopReasons])
  /\ status \in {"running", "finished", "raised"}
  /\ transcript \in Seq(Entries)
  /\ checkpoint \in BOOLEAN /\ paused \in BOOLEAN
  /\ settled \subseteq Tasks /\ notified \subseteq settled /\ owed \subseteq settled

(* Only some tasks have settled yet. *)
Finite == IsFiniteSet(settled)

Paired == Followed(transcript) /\ Owned(transcript)

(* What is owed was drained, and what was drained is in the session. *)
Announced ==
  /\ pc \notin {"idle", "starting"} => owed \subseteq notified
  /\ \A t \in notified : Contains(transcript, Entry("notice", <<t>>))

(* What a run begins with, and what it may have come to where it ends. *)
Between ==
  /\ pc = "idle" => stop = "stop" /\ ~interrupted
  /\ pc = "starting" => turn = 0
  /\ pc = "ending" /\ stop = "tool_use" => turn >= MaxTurns \/ paused
  /\ pc # "turn" => (interrupted => stop \in {"interrupted", "error"})

(* The reasons of a cancel and of a steer are true when they are given. *)
Caused ==
  /\ interrupted => cancel
  /\ stop = "interrupted" => cancel
  /\ stop = "steer" => steer

(* A turn that said stop wrote a message without calls, which is the last  *)
(* one as long as the reason stands, and when it was reported.             *)
Fresh ==
  \/ pc \in {"idle", "starting"}
  \/ pc = "top" /\ turn = 0
  \/ pc = "turn" /\ status = "running" /\ ends = <<>>
Stopped ==
  /\ stop = "stop" /\ ~Fresh => Concluded(transcript)
  /\ pc = "idle" /\ reported = "stop" => Concluded(transcript)

(* A turn that finished has no checkpoint. *)
Checkpointed == checkpoint => status # "finished"

(* What is reported is what the run came to. *)
Reported ==
  /\ pc # "idle" => reported = "none"
  /\ pc = "idle" =>
       /\ reported = "interrupted" => cancel
       /\ reported = "steer" => steer
       /\ reported = "tool_use" => paused /\ turn < MaxTurns

IInv ==
  /\ Types /\ Finite /\ Paired /\ Announced /\ Between
  /\ Caused /\ Stopped /\ Checkpointed /\ Reported

----------------------------------------------------------------------------
(* What a step appends to the session, and what the ends of a turn say *)

Grows(t) == t \in Seq(Entries) /\ Plain(t) /\ transcript' = transcript \o t

(* An end without a message, for this reason; one with a message.          *)
Fruitless(reason) ==
  /\ reason \in {"error", "interrupted"} /\ (reason = "interrupted" => cancel)
  /\ stop' = reason /\ interrupted' = (interrupted \/ reason = "interrupted")
  /\ status' \in {"running", "finished"}
  /\ transcript' = transcript

Message(calls, reason) ==
  /\ calls \in Seq(Calls) /\ reason \in Turn!StopReasons
  /\ reason = "interrupted" => cancel
  /\ calls # <<>> => reason # "stop"
  /\ stop' = reason /\ interrupted' = (interrupted \/ reason = "interrupted")
  /\ status' = "finished"
  /\ transcript' = Answered(transcript, calls)

(* The call lists of the contract are sequences of calls. *)
LEMMA CallListsAreSeqs == \A calls \in Turn!CallLists : calls \in Seq(Calls)
<1>1. Cardinality(Calls) \in Nat
  BY CallsAssumption, FS_CardinalityType
<1> QED
  BY <1>1, SeqDef DEF Turn!CallLists

(* A turn that ends does so without a message, or with one and its results. *)
LEMMA EndFacts ==
  ASSUME Types, TurnEnds
  PROVE  /\ pc = "turn" /\ status = "running"
         /\ \/ \E reason \in StopReasons : Fruitless(reason)
            \/ \E calls, reason : Message(calls, reason)
         /\ ends' # <<>>
         /\ ends' \in Seq([message : BOOLEAN, calls : Seq(Calls), answers : Seq(Calls),
                           stop : Turn!StopReasons])
<1> DEFINE End == [message : BOOLEAN, calls : Seq(Calls), answers : Seq(Calls),
                   stop : Turn!StopReasons]
<1>1. ends \in Seq(End) /\ pc = "turn" /\ status = "running"
  BY DEF Types, TurnEnds, Turn!EndWithoutMessage, Turn!EndWithMessage
<1>2. ASSUME NEW end \in End, ends' = Append(ends, end)
      PROVE  Last(ends') = end /\ ends' # <<>> /\ ends' \in Seq(End)
  <2> HIDE DEF End
  <2> QED
    BY <1>1, <1>2, AppendProperties DEF Last
<1>3. CASE Turn!EndWithoutMessage
  <2>1. PICK reason \in {"error", "interrupted"} :
          /\ reason = "interrupted" => cancel
          /\ ends' = Append(ends, Turn!Fruitless(reason))
          /\ status' \in {"running", "finished"}
    BY <1>3 DEF Turn!EndWithoutMessage
  <2>2. Turn!Fruitless(reason) \in End
    BY <2>1 DEF Turn!Fruitless, Turn!StopReasons
  <2>3. Last(ends') = Turn!Fruitless(reason) /\ ends' # <<>> /\ ends' \in Seq(End)
    BY <1>2, <2>1, <2>2
  <2>4. Persist(Turn!Fruitless(reason))
    BY <2>3 DEF TurnEnds
  <2>5. transcript' = transcript \o [n \in DOMAIN <<>> |-> Entry("result", <<<<>>[n]>>)]
        /\ stop' = reason /\ interrupted' = (interrupted \/ reason = "interrupted")
    BY <2>4 DEF Persist, Turn!Fruitless
  <2>6. [n \in DOMAIN <<>> |-> Entry("result", <<<<>>[n]>>)] = <<>>
    OBVIOUS
  <2>7. transcript' = transcript
    BY <2>5, <2>6, ConcatEmptySeq DEF Types
  <2>8. Fruitless(reason) /\ reason \in StopReasons
    BY <2>1, <2>5, <2>7 DEF Fruitless, StopReasons
  <2> HIDE DEF End
  <2> QED
    BY <1>1, <2>3, <2>8 DEF End
<1>4. CASE Turn!EndWithMessage
  <2>1. PICK calls \in Turn!CallLists, reason \in Turn!StopReasons :
          /\ reason = "interrupted" => cancel
          /\ calls # <<>> => reason # "stop"
          /\ ends' = Append(ends, Turn!MessageEnd(calls, reason))
          /\ status' = "finished"
    BY <1>4 DEF Turn!EndWithMessage
  <2>2. calls \in Seq(Calls)
    BY CallListsAreSeqs
  <2>3. Turn!MessageEnd(calls, reason) \in End
    BY <2>2 DEF Turn!MessageEnd
  <2>4. Last(ends') = Turn!MessageEnd(calls, reason) /\ ends' # <<>> /\ ends' \in Seq(End)
    BY <1>2, <2>1, <2>3
  <2>5. Persist(Turn!MessageEnd(calls, reason))
    BY <2>4 DEF TurnEnds
  <2>6. /\ transcript' = Answered(transcript, calls)
        /\ stop' = reason /\ interrupted' = (interrupted \/ reason = "interrupted")
    BY <2>5 DEF Persist, Turn!MessageEnd, Answered, Results
  <2>7. Message(calls, reason)
    BY <2>1, <2>2, <2>6 DEF Message
  <2> HIDE DEF End
  <2> QED
    BY <1>1, <2>4, <2>7 DEF End
<1> QED
  BY <1>3, <1>4 DEF TurnEnds

(* Everything but the end of a turn appends prompts, notices or summaries. *)
LEMMA GrowsFacts ==
  ASSUME Types, Finite, Next
  PROVE  (\E t : Grows(t)) \/ TurnEnds
<1> USE DEF Types
<1>1. ASSUME UNCHANGED transcript
      PROVE  \E t : Grows(t)
  <2>1. <<>> \in Seq(Entries) /\ transcript \o <<>> = transcript /\ Plain(<<>>)
    BY EmptySeq, ConcatEmptySeq DEF Plain
  <2> QED
    BY <1>1, <2>1 DEF Grows
<1>2. ASSUME Drain
      PROVE  \E t : Grows(t)
  BY <1>2, DrainFacts DEF Finite, Grows
<1>3. ASSUME NEW kind \in EntryKinds \ {"assistant", "result"}
      PROVE  Entry(kind, <<>>) \in Entries /\ Entry(kind, <<>>).kind \notin {"assistant", "result"}
  BY <1>3 DEF Entry, Entries, EntryKinds
<1>4. ASSUME NEW kind \in EntryKinds \ {"assistant", "result"}
      PROVE  <<Entry(kind, <<>>)>> \in Seq(Entries) /\ Plain(<<Entry(kind, <<>>)>>)
  BY <1>3 DEF Plain
<1>5. CASE BeginRun
  <2> DEFINE prompt == <<Entry("user", <<>>)>>
             resume == <<Entry("resume", <<>>)>>
             first == IF checkpoint THEN prompt \o resume ELSE prompt
  <2>1. /\ prompt \in Seq(Entries) /\ Plain(prompt)
        /\ resume \in Seq(Entries) /\ Plain(resume)
    BY <1>4 DEF EntryKinds
  <2> HIDE DEF prompt, resume
  <2>2. first \in Seq(Entries) /\ Plain(first)
    BY <2>1, JoinedEntries DEF Plain
  <2>3. transcript' = transcript \o first
    <3>1. Append(transcript, Entry("user", <<>>)) = transcript \o prompt
      BY <1>3, AppendIsConcat DEF prompt, EntryKinds
    <3>2. transcript \o prompt \in Seq(Entries)
      BY <2>1, JoinedEntries
    <3>3. Append(transcript \o prompt, Entry("resume", <<>>)) = (transcript \o prompt) \o resume
      BY <1>3, <3>2, AppendIsConcat DEF resume, EntryKinds
    <3>4. (transcript \o prompt) \o resume = transcript \o (prompt \o resume)
      BY <2>1, Regrouped
    <3> QED
      BY <1>5, <3>1, <3>3, <3>4 DEF BeginRun
  <2> HIDE DEF first
  <2> QED
    BY <2>2, <2>3 DEF Grows
<1>6. CASE SummaryReady
  <2> DEFINE summary == <<Entry("summary", <<>>)>>
             both == <<Entry("summary", <<>>), Entry("continue", <<>>)>>
  <2>1. summary \in Seq(Entries) /\ Plain(summary)
    BY <1>4 DEF EntryKinds
  <2>2. both \in Seq(Entries) /\ Plain(both)
    BY <1>3 DEF EntryKinds, Plain
  <2>3. transcript' = transcript \o both \/ transcript' = transcript \o summary
    BY <1>6 DEF SummaryReady
  <2> QED
    BY <2>1, <2>2, <2>3 DEF Grows
<1>7. CASE OpenRun \/ TurnOver \/ EndRun
  BY <1>2, <1>7 DEF OpenRun, TurnOver, EndRun
<1>8. CASE \/ Cancel \/ Steer \/ (\E t \in Tasks : Settle(t)) \/ WriteCheckpoint \/ TurnRaises
           \/ SeeCancel \/ SeeSteer \/ TurnsUsedUp \/ StartTurn
           \/ NoCompaction \/ StartCompaction \/ SummaryFails \/ AbandonRun \/ AbandonReported
  BY <1>1, <1>8 DEF Cancel, Steer, Settle, WriteCheckpoint, TurnRaises, SeeCancel, SeeSteer,
     TurnsUsedUp, StartTurn, NoCompaction, StartCompaction, SummaryFails, AbandonRun,
     AbandonReported, session
<1> QED
  BY <1>5, <1>6, <1>7, <1>8 DEF Next, LoopStep

----------------------------------------------------------------------------
(* Each part of the invariant is kept by every step *)

(* What only the two steps that touch it can change. *)
Flags ==
  /\ pc \in {"idle", "starting", "top", "turn", "checking", "summarising", "ending"}
  /\ work \in 0..MaxWork /\ turn \in 0..MaxTurns
  /\ stop \in StopReasons /\ reported \in StopReasons \cup {"none"}
  /\ interrupted \in BOOLEAN /\ cancel \in BOOLEAN /\ steer \in BOOLEAN
  /\ status \in {"running", "finished", "raised"}
  /\ checkpoint \in BOOLEAN /\ paused \in BOOLEAN

(* The flags and counters keep their types. *)
LEMMA FlagsStep == ASSUME IInv, Next PROVE Flags'
<1>1. Types /\ Flags /\ Finite
  BY DEF IInv, Types, Flags
<1> USE <1>1, TurnsAssumption, BoundsAssumption DEF Flags
<1>2. CASE Cancel
  BY <1>2 DEF Cancel, turnVars, session
<1>3. CASE Steer
  BY <1>3 DEF Steer, turnVars, session
<1>4. ASSUME NEW t \in Tasks, Settle(t) PROVE Flags'
  BY <1>4 DEF Settle, turnVars, session
<1>5. CASE BeginRun
  <2>1. /\ pc' = "starting" /\ work' = work + 1 /\ turn' = 0 /\ work < MaxWork
        /\ stop' = stop /\ interrupted' = interrupted /\ cancel' = FALSE /\ steer' = FALSE
        /\ checkpoint' = FALSE /\ status' = status /\ reported' = "none" /\ paused' = FALSE
    BY <1>5 DEF BeginRun, turnVars
  <2>2. work' \in 0..MaxWork /\ turn' \in 0..MaxTurns
    BY <2>1
  <2> QED
    BY <2>1, <2>2
<1>6. CASE SeeCancel
  BY <1>6 DEF SeeCancel, MoreTurns, turnVars, session, StopReasons
<1>7. CASE SeeSteer
  BY <1>7 DEF SeeSteer, MoreTurns, turnVars, session, StopReasons
<1>8. CASE TurnsUsedUp
  BY <1>8 DEF TurnsUsedUp, turnVars, session
<1>9. CASE StartTurn
  BY <1>9 DEF StartTurn, MoreTurns, session
<1>10. CASE TurnOver
  <2>1. /\ stop' \in {stop, "interrupted", "steer"} /\ pc' \in {"ending", "checking"}
        /\ work' = work /\ turn' = turn /\ interrupted' = interrupted /\ cancel' = cancel
        /\ steer' = steer /\ status' = status /\ checkpoint' = checkpoint
        /\ reported' = reported /\ paused' = paused
    BY <1>10 DEF TurnOver
  <2> QED
    BY <2>1 DEF StopReasons
<1>11. CASE NoCompaction
  BY <1>11 DEF NoCompaction, turnVars, session
<1>12. CASE StartCompaction
  BY <1>12 DEF StartCompaction, turnVars, session
<1>13. CASE SummaryReady
  BY <1>13 DEF SummaryReady, AfterCompaction, turnVars
<1>14. CASE SummaryFails
  BY <1>14 DEF SummaryFails, AfterCompaction, turnVars, session
<1>15. CASE EndRun
  <2>1. /\ pc' = "idle" /\ reported' = EndReason /\ stop' = "stop" /\ interrupted' = FALSE
        /\ work' = work /\ turn' = turn /\ cancel' = cancel /\ steer' = steer
        /\ status' = status /\ checkpoint' = checkpoint /\ paused' = paused
    BY <1>15 DEF EndRun, Leave
  <2> QED
    BY <2>1 DEF EndReason, StopReasons
<1>16. CASE WriteCheckpoint
  BY <1>16 DEF WriteCheckpoint, turnVars
<1>17. CASE TurnEnds
  <2>1. /\ pc' = pc /\ work' = work /\ turn' = turn /\ cancel' = cancel /\ steer' = steer
        /\ reported' = reported /\ checkpoint' = FALSE /\ paused' = paused
    BY <1>17 DEF TurnEnds, Persist
  <2>2. \/ \E reason \in StopReasons : Fruitless(reason)
        \/ \E calls, reason : Message(calls, reason)
    BY <1>17, EndFacts
  <2>3. stop' \in StopReasons /\ interrupted' \in BOOLEAN /\ status' \in {"running", "finished"}
    <3>1. ASSUME NEW reason, Fruitless(reason)
          PROVE  stop' \in StopReasons /\ interrupted' \in BOOLEAN
                 /\ status' \in {"running", "finished"}
      BY <3>1 DEF Fruitless, StopReasons
    <3>2. ASSUME NEW calls, NEW reason, Message(calls, reason)
          PROVE  stop' \in StopReasons /\ interrupted' \in BOOLEAN
                 /\ status' \in {"running", "finished"}
      BY <3>2 DEF Message, StopReasons, Turn!StopReasons
    <3> QED
      BY <2>2, <3>1, <3>2
  <2> QED
    BY <2>1, <2>3
<1>18. CASE TurnRaises
  BY <1>18 DEF TurnRaises, Turn!Raise, session, StopReasons
<1>19. CASE OpenRun
  BY <1>19 DEF OpenRun, turnVars
<1>20. CASE AbandonRun
  <2>1. 0 \in 0..MaxTurns /\ "stop" \in StopReasons
    BY DEF StopReasons
  <2> QED
    BY <1>20, <2>1 DEF AbandonRun, Leave, session
<1>21. CASE AbandonReported
  <2>1. "stop" \in StopReasons /\ EndReason \in StopReasons
    BY DEF StopReasons, EndReason
  <2> QED
    BY <1>21, <2>1 DEF AbandonReported, Leave, session
<1> QED
  BY <1>2, <1>3, <1>4, <1>5, <1>6, <1>7, <1>8, <1>9, <1>10, <1>11, <1>12, <1>13, <1>14,
     <1>15, <1>16, <1>17, <1>18, <1>19, <1>20, <1>21 DEF Next, LoopStep

(* Steps that neither settle nor drain nor begin a run leave the tasks.    *)
LEMMA TasksStep ==
  ASSUME IInv, Next
  PROVE  /\ settled' \subseteq Tasks /\ notified' \subseteq settled' /\ owed' \subseteq settled'
         /\ IsFiniteSet(settled')
         /\ (pc \notin {"idle", "starting"} => owed \subseteq notified)'
<1>1. /\ settled \subseteq Tasks /\ notified \subseteq settled /\ owed \subseteq settled
      /\ IsFiniteSet(settled) /\ (pc \notin {"idle", "starting"} => owed \subseteq notified)
      /\ Types /\ Finite
  BY DEF IInv, Types, Finite, Announced
<1>2. ASSUME NEW t \in Tasks, Settle(t)
      PROVE  /\ settled' = settled \cup {t} /\ notified' = notified /\ owed' = owed /\ pc' = pc
             /\ IsFiniteSet(settled')
  BY <1>1, <1>2, FS_AddElement DEF Settle, session
<1>3. ASSUME BeginRun
      PROVE  settled' = settled /\ notified' = notified /\ owed' = settled /\ pc' = "starting"
  BY <1>3 DEF BeginRun
<1>4. ASSUME OpenRun \/ TurnOver \/ EndRun
      PROVE  settled' = settled /\ notified' = settled /\ owed' = owed
  BY <1>4 DEF OpenRun, TurnOver, EndRun, Drain
<1>5. ASSUME TurnEnds
      PROVE  settled' = settled /\ notified' = notified /\ owed' = owed /\ pc' = pc
  BY <1>5 DEF TurnEnds
<1>6. ASSUME \/ Cancel \/ Steer \/ WriteCheckpoint \/ TurnRaises
             \/ SeeCancel \/ SeeSteer \/ TurnsUsedUp \/ StartTurn
             \/ NoCompaction \/ StartCompaction \/ SummaryReady \/ SummaryFails
      PROVE  /\ settled' = settled /\ notified' = notified /\ owed' = owed
             /\ pc # "idle" /\ (pc' # pc => pc # "starting")
  BY <1>6 DEF Cancel, Steer, WriteCheckpoint, TurnRaises, SeeCancel, SeeSteer, MoreTurns,
     TurnsUsedUp, StartTurn, NoCompaction, StartCompaction, SummaryReady, SummaryFails, session
<1>7. CASE \E t \in Tasks : Settle(t)
  BY <1>1, <1>2, <1>7
<1>8. CASE BeginRun
  BY <1>1, <1>3, <1>8
<1>9. CASE OpenRun \/ TurnOver \/ EndRun
  BY <1>1, <1>4, <1>9
<1>10. CASE TurnEnds
  BY <1>1, <1>5, <1>10
<1>11. CASE \/ Cancel \/ Steer \/ WriteCheckpoint \/ TurnRaises
            \/ SeeCancel \/ SeeSteer \/ TurnsUsedUp \/ StartTurn
            \/ NoCompaction \/ StartCompaction \/ SummaryReady \/ SummaryFails
  BY <1>1, <1>6, <1>11
<1>12. CASE AbandonRun \/ AbandonReported
  BY <1>1, <1>12 DEF AbandonRun, AbandonReported, Leave, session
<1> QED
  BY <1>7, <1>8, <1>9, <1>10, <1>11, <1>12 DEF Next, LoopStep

(* The reported ends keep their type. *)
LEMMA EndsStep ==
  ASSUME IInv, Next
  PROVE  ends' \in Seq([message : BOOLEAN, calls : Seq(Calls), answers : Seq(Calls),
                        stop : Turn!StopReasons])
<1> DEFINE Ends == Seq([message : BOOLEAN, calls : Seq(Calls), answers : Seq(Calls),
                        stop : Turn!StopReasons])
<1>1. Types /\ ends \in Ends
  BY DEF IInv, Types
<1>2. CASE TurnEnds
  BY <1>1, <1>2, EndFacts
<1>3. ASSUME StartTurn \/ TurnOver \/ EndRun \/ AbandonRun \/ AbandonReported
      PROVE  ends' = <<>>
  BY <1>3 DEF StartTurn, TurnOver, EndRun, AbandonRun, AbandonReported, Leave
<1>4. <<>> \in Ends
  BY EmptySeq
<1> HIDE DEF Ends
<1>5. ASSUME \/ Cancel \/ Steer \/ (\E t \in Tasks : Settle(t)) \/ BeginRun
             \/ OpenRun \/ WriteCheckpoint \/ TurnRaises
             \/ SeeCancel \/ SeeSteer \/ TurnsUsedUp
             \/ NoCompaction \/ StartCompaction \/ SummaryReady \/ SummaryFails
      PROVE  ends' = ends
  BY <1>5 DEF Cancel, Steer, Settle, BeginRun, OpenRun, WriteCheckpoint, TurnRaises, Turn!Raise,
     SeeCancel, SeeSteer, TurnsUsedUp, NoCompaction, StartCompaction, SummaryReady,
     SummaryFails, turnVars
<1> QED
  BY <1>1, <1>2, <1>3, <1>4, <1>5 DEF Next, LoopStep, Ends

(* Messages and results stay together, and what was told stays told. *)
LEMMA TranscriptStep ==
  ASSUME IInv, Next
  PROVE  /\ transcript' \in Seq(Entries) /\ Paired'
         /\ \A e : Contains(transcript, e) => Contains(transcript', e)
<1>1. Types /\ Finite /\ transcript \in Seq(Entries) /\ Followed(transcript) /\ Owned(transcript)
  BY DEF IInv, Types, Paired
<1>2. ASSUME NEW t, Grows(t)
      PROVE  /\ transcript' \in Seq(Entries) /\ Paired'
             /\ \A e : Contains(transcript, e) => Contains(transcript', e)
  <2>1. t \in Seq(Entries) /\ Plain(t) /\ transcript' = transcript \o t
    BY <1>2 DEF Grows
  <2>2. transcript \o t \in Seq(Entries)
    BY <1>1, <2>1, JoinedEntries
  <2>3. Followed(transcript \o t) /\ Owned(transcript \o t)
    BY <1>1, <2>1, AddPlain
  <2>4. \A e : Contains(transcript, e) => Contains(transcript \o t, e)
    BY <1>1, <2>1, StillTold
  <2> QED
    BY <2>1, <2>2, <2>3, <2>4 DEF Paired
<1>3. ASSUME NEW calls \in Seq(Calls), transcript' = Answered(transcript, calls)
      PROVE  /\ transcript' \in Seq(Entries) /\ Paired'
             /\ \A e : Contains(transcript, e) => Contains(transcript', e)
  <2>1. /\ Answered(transcript, calls) \in Seq(Entries)
        /\ Followed(Answered(transcript, calls)) /\ Owned(Answered(transcript, calls))
    BY <1>1, AddAnswered
  <2>2. \A e : Contains(transcript, e) => Contains(Answered(transcript, calls), e)
    BY <1>1, AnsweredHolds
  <2> QED
    BY <1>3, <2>1, <2>2 DEF Paired
<1>4. CASE TurnEnds
  <2>1. \/ \E reason \in StopReasons : Fruitless(reason)
        \/ \E calls, reason : Message(calls, reason)
    BY <1>1, <1>4, EndFacts
  <2>2. CASE \E reason \in StopReasons : Fruitless(reason)
    BY <1>1, <2>2 DEF Fruitless, Paired
  <2>3. CASE \E calls, reason : Message(calls, reason)
    BY <1>3, <2>3 DEF Message
  <2> QED
    BY <2>1, <2>2, <2>3
<1> QED
  BY <1>1, <1>2, <1>4, GrowsFacts

(* What is drained is told at once. *)
LEMMA ToldStep ==
  ASSUME IInv, Next
  PROVE  \A t \in notified' : Contains(transcript', Entry("notice", <<t>>))
<1>1. /\ Types /\ Finite /\ transcript \in Seq(Entries)
      /\ settled \subseteq Tasks /\ notified \subseteq settled /\ IsFiniteSet(settled)
      /\ \A t \in notified : Contains(transcript, Entry("notice", <<t>>))
  BY DEF IInv, Types, Finite, Announced
<1>2. \A t \in notified : Contains(transcript', Entry("notice", <<t>>))
  BY <1>1, TranscriptStep
<1>3. CASE OpenRun \/ TurnOver \/ EndRun
  <2>1. Drain
    BY <1>3 DEF OpenRun, TurnOver, EndRun
  <2>2. /\ notified' = settled
        /\ \A t \in settled \ notified : Contains(transcript', Entry("notice", <<t>>))
    BY <1>1, <2>1, DrainFacts
  <2> QED
    BY <1>2, <2>2
<1>4. ASSUME \/ Cancel \/ Steer \/ (\E t \in Tasks : Settle(t)) \/ WriteCheckpoint
             \/ BeginRun \/ TurnEnds \/ TurnRaises \/ AbandonRun \/ AbandonReported
             \/ SeeCancel \/ SeeSteer \/ TurnsUsedUp \/ StartTurn
             \/ NoCompaction \/ StartCompaction \/ SummaryReady \/ SummaryFails
      PROVE  notified' = notified
  BY <1>4 DEF Cancel, Steer, Settle, WriteCheckpoint, BeginRun, TurnEnds, TurnRaises,
     AbandonRun, AbandonReported, SeeCancel, SeeSteer, TurnsUsedUp, StartTurn, NoCompaction,
     StartCompaction, SummaryReady, SummaryFails, session
<1> QED
  BY <1>2, <1>3, <1>4 DEF Next, LoopStep

(* What the end of a turn leaves of the loop's variables. *)
LEMMA EndLeaves ==
  ASSUME Types, TurnEnds
  PROVE  /\ pc = "turn" /\ status = "running" /\ pc' = pc /\ work' = work /\ turn' = turn
         /\ cancel' = cancel /\ steer' = steer /\ reported' = reported /\ checkpoint' = FALSE
         /\ stop' # "steer" /\ (stop' = "interrupted" => cancel)
         /\ interrupted' = (interrupted \/ stop' = "interrupted")
         /\ stop' = "stop" => Concluded(transcript')
<1>1. /\ pc' = pc /\ work' = work /\ turn' = turn
      /\ cancel' = cancel /\ steer' = steer /\ reported' = reported /\ checkpoint' = FALSE
  BY DEF TurnEnds, Persist
<1>2. /\ pc = "turn" /\ status = "running"
      /\ \/ \E reason \in StopReasons : Fruitless(reason)
         \/ \E calls, reason : Message(calls, reason)
  BY EndFacts
<1>3. ASSUME NEW reason, Fruitless(reason)
      PROVE  /\ stop' # "steer" /\ (stop' = "interrupted" => cancel)
             /\ interrupted' = (interrupted \/ stop' = "interrupted")
             /\ stop' # "stop"
  BY <1>3 DEF Fruitless
<1>4. ASSUME NEW calls, NEW reason, Message(calls, reason)
      PROVE  /\ stop' # "steer" /\ (stop' = "interrupted" => cancel)
             /\ interrupted' = (interrupted \/ stop' = "interrupted")
             /\ stop' = "stop" => Concluded(transcript')
  <2>1. calls \in Seq(Calls) /\ stop' = reason /\ transcript' = Answered(transcript, calls)
        /\ (calls # <<>> => reason # "stop")
    BY <1>4 DEF Message
  <2>2. calls = <<>> => Concluded(Answered(transcript, calls))
    BY <2>1, AddAnswered DEF Types
  <2>3. stop' # "steer" /\ (stop' = "interrupted" => cancel)
        /\ interrupted' = (interrupted \/ stop' = "interrupted")
    BY <1>4 DEF Message, Turn!StopReasons
  <2> QED
    BY <2>1, <2>2, <2>3
<1> QED
  BY <1>1, <1>2, <1>3, <1>4

(* Every step keeps the parts of the invariant that speak of the control. *)
LEMMA ControlStep ==
  ASSUME IInv, Next
  PROVE  Between' /\ Caused' /\ Checkpointed' /\ Reported'
<1> DEFINE Control == Between /\ Caused /\ Checkpointed /\ Reported
<1>1. Types /\ Control
  BY DEF IInv
<1>2. /\ turn \in 0..MaxTurns /\ interrupted \in BOOLEAN /\ paused \in BOOLEAN
      /\ cancel \in BOOLEAN /\ steer \in BOOLEAN /\ checkpoint \in BOOLEAN
  BY <1>1 DEF Types
<1> USE <1>1, <1>2, TurnsAssumption
    DEF Between, Caused, Checkpointed, Reported
<1>3. CASE Cancel
  BY <1>3 DEF Cancel, turnVars, session
<1>4. CASE Steer
  BY <1>4 DEF Steer, turnVars, session
<1>5. ASSUME NEW t \in Tasks, Settle(t) PROVE Control'
  BY <1>5 DEF Settle, turnVars, session
<1>6. CASE BeginRun
  <2>1. /\ pc = "idle" /\ pc' = "starting" /\ turn' = 0 /\ stop' = stop
        /\ interrupted' = interrupted /\ checkpoint' = FALSE /\ reported' = "none"
    BY <1>6 DEF BeginRun
  <2> QED
    BY <2>1
<1>7. CASE OpenRun
  BY <1>7 DEF OpenRun, turnVars
<1>8. CASE SeeCancel
  BY <1>8 DEF SeeCancel, MoreTurns, turnVars, session
<1>9. CASE SeeSteer
  BY <1>9 DEF SeeSteer, MoreTurns, turnVars, session
<1>10. CASE TurnsUsedUp
  BY <1>10 DEF TurnsUsedUp, turnVars, session
<1>11. CASE StartTurn
  BY <1>11 DEF StartTurn, MoreTurns, session
<1>12. CASE TurnOver
  <2>1. /\ pc = "turn" /\ interrupted' = interrupted /\ cancel' = cancel
        /\ steer' = steer /\ checkpoint' = checkpoint /\ status' = status
        /\ reported' = reported
        /\ \/ interrupted /\ pc' = "ending" /\ stop' = "interrupted"
           \/ ~interrupted /\ steer /\ pc' = "ending" /\ stop' = "steer"
           \/ ~interrupted /\ pc' = "checking" /\ stop' = stop
    BY <1>12 DEF TurnOver
  <2> QED
    BY <2>1
<1>13. CASE NoCompaction
  BY <1>13 DEF NoCompaction, turnVars, session
<1>14. CASE StartCompaction
  BY <1>14 DEF StartCompaction, turnVars, session
<1>15. CASE SummaryReady \/ SummaryFails
  <2>1. /\ pc = "summarising" /\ turn' = turn /\ stop' = stop /\ status' = status
        /\ interrupted' = interrupted /\ cancel' = cancel /\ steer' = steer
        /\ checkpoint' = checkpoint /\ reported' = reported
        /\ pc' = "top" \/ (pc' = "ending" /\ paused')
    BY <1>15 DEF SummaryReady, SummaryFails, AfterCompaction, turnVars, session
  <2> QED
    BY <2>1
<1>16. CASE EndRun \/ AbandonReported
  <2>1. /\ pc = "ending" /\ pc' = "idle" /\ reported' = EndReason
        /\ stop' = "stop" /\ interrupted' = FALSE
        /\ turn' = turn /\ cancel' = cancel /\ steer' = steer /\ status' = status
        /\ checkpoint' = checkpoint /\ paused' = paused
    BY <1>16 DEF EndRun, AbandonReported, Leave, session
  <2>2. /\ reported' = "interrupted" => stop = "interrupted"
        /\ reported' = "steer" => stop = "steer"
        /\ reported' = "tool_use" => stop = "tool_use" /\ (turn < MaxTurns \/ interrupted)
    BY <2>1 DEF EndReason
  <2> QED
    BY <2>1, <2>2
<1>17. CASE AbandonRun
  <2>1. /\ pc # "idle" /\ pc' = "idle" /\ reported' = reported /\ stop' = "stop"
        /\ interrupted' = FALSE /\ checkpoint' = checkpoint /\ status' = status
    BY <1>17 DEF AbandonRun, Leave, session
  <2> QED
    BY <2>1
<1>18. CASE WriteCheckpoint
  BY <1>18 DEF WriteCheckpoint, turnVars
<1>19. CASE TurnEnds
  BY <1>19, EndLeaves
<1>20. CASE TurnRaises
  BY <1>20 DEF TurnRaises, Turn!Raise, session
<1> QED
  BY <1>3, <1>4, <1>5, <1>6, <1>7, <1>8, <1>9, <1>10, <1>11, <1>12, <1>13, <1>14, <1>15,
     <1>16, <1>17, <1>18, <1>19, <1>20 DEF Next, LoopStep

(* A reason to stop is only ever read behind the message that gave it.     *)
LEMMA StoppedStep == ASSUME IInv, Next PROVE Stopped'
<1>1. /\ Types /\ Finite /\ Between /\ Reported /\ turn \in 0..MaxTurns
      /\ transcript \in Seq(Entries) /\ (stop = "stop" /\ ~Fresh => Concluded(transcript))
      /\ (pc = "idle" /\ reported = "stop" => Concluded(transcript))
  BY DEF IInv, Types, Stopped
<1>2. ASSUME TurnEnds PROVE Stopped'
  <2>1. pc' = "turn" /\ (stop' = "stop" => Concluded(transcript'))
    BY <1>1, <1>2, EndLeaves
  <2> QED
    BY <2>1 DEF Stopped
<1>3. ASSUME ~TurnEnds, Concluded(transcript) PROVE Concluded(transcript')
  <2>1. PICK t : Grows(t)
    BY <1>1, <1>3, GrowsFacts
  <2> QED
    BY <1>1, <1>3, <2>1, AddPlain DEF Grows
<1>4. ASSUME stop' = "stop", Fresh \/ stop # "stop", ~TurnEnds PROVE Fresh'
  <2> USE <1>1, <1>4, TurnsAssumption DEF Fresh, Between
  <2>1. CASE BeginRun
    BY <2>1 DEF BeginRun
  <2>2. CASE OpenRun
    BY <2>2 DEF OpenRun, turnVars
  <2>3. CASE StartTurn
    BY <2>3 DEF StartTurn
  <2>4. CASE Cancel \/ Steer \/ \E t \in Tasks : Settle(t)
    BY <2>4 DEF Cancel, Steer, Settle, turnVars, session
  <2>5. CASE WriteCheckpoint
    BY <2>5 DEF WriteCheckpoint, turnVars
  <2>6. CASE TurnsUsedUp
    BY <2>6 DEF TurnsUsedUp, turnVars, session
  <2>7. CASE SeeCancel \/ SeeSteer \/ TurnRaises
    BY <2>7 DEF SeeCancel, SeeSteer, TurnRaises
  <2>8. CASE NoCompaction \/ StartCompaction
    BY <2>8 DEF NoCompaction, StartCompaction, turnVars, session
  <2>9. CASE SummaryReady \/ SummaryFails
    BY <2>9 DEF SummaryReady, SummaryFails
  <2>10. CASE TurnOver
    BY <2>10 DEF TurnOver
  <2>11. CASE EndRun \/ AbandonRun \/ AbandonReported
    BY <2>11 DEF EndRun, AbandonRun, AbandonReported, Leave
  <2> QED
    BY <2>1, <2>2, <2>3, <2>4, <2>5, <2>6, <2>7, <2>8, <2>9, <2>10, <2>11 DEF Next, LoopStep
<1>5. ASSUME pc' = "idle", reported' = "stop", ~TurnEnds PROVE Concluded(transcript)
  <2>1. CASE EndRun \/ AbandonReported
    <3>1. pc = "ending" /\ reported' = EndReason
      BY <2>1 DEF EndRun, AbandonReported
    <3>2. stop = "stop" /\ ~Fresh
      BY <1>5, <3>1 DEF EndReason, Fresh
    <3> QED
      BY <1>1, <3>2
  <2>2. CASE pc = "idle" /\ reported' = reported
    BY <1>1, <1>5, <2>2
  <2>3. CASE pc # "idle" /\ reported' = reported
    BY <1>1, <1>5, <2>3 DEF Reported
  <2>4. reported' = reported \/ BeginRun \/ EndRun \/ AbandonReported
    BY <1>5 DEF Next, LoopStep, Cancel, Steer, Settle, WriteCheckpoint, TurnRaises,
       AbandonRun, OpenRun, SeeCancel, SeeSteer, TurnsUsedUp, StartTurn, TurnOver,
       NoCompaction, StartCompaction, SummaryReady, SummaryFails
  <2>5. ~BeginRun
    BY <1>5 DEF BeginRun
  <2> QED
    BY <2>1, <2>2, <2>3, <2>4, <2>5
<1> QED
  BY <1>1, <1>2, <1>3, <1>4, <1>5 DEF Stopped

(* The invariant holds initially. *)
LEMMA InitImpliesIInv == Init => IInv
<1> SUFFICES ASSUME Init PROVE IInv
  OBVIOUS
<1>1. Types
  <2>1. ends \in Seq([message : BOOLEAN, calls : Seq(Calls), answers : Seq(Calls),
                      stop : Turn!StopReasons])
    BY EmptySeq DEF Init
  <2>2. transcript \in Seq(Entries)
    BY EmptySeq DEF Init
  <2>3. work \in 0..MaxWork /\ turn \in 0..MaxTurns
    BY TurnsAssumption, BoundsAssumption DEF Init
  <2>4. stop \in StopReasons /\ reported \in StopReasons \cup {"none"}
    BY DEF Init, StopReasons
  <2> QED
    BY <2>1, <2>2, <2>3, <2>4 DEF Init, Types
<1>2. Finite
  BY FS_EmptySet DEF Init, Finite
<1>3. Paired /\ Announced
  BY DEF Init, Paired, Followed, Owned, Announced
<1>4. Between /\ Caused /\ Stopped /\ Checkpointed /\ Reported
  BY DEF Init, Between, Caused, Stopped, Fresh, Checkpointed, Reported
<1> QED
  BY <1>1, <1>2, <1>3, <1>4 DEF IInv

(* Every step preserves it. *)
LEMMA NextKeepsIInv == IInv /\ [Next]_vars => IInv'
<1>1. ASSUME IInv, Next PROVE IInv'
  <2>1. Types'
    BY <1>1, FlagsStep, EndsStep, TasksStep, TranscriptStep DEF Types, Flags
  <2>2. Finite'
    BY <1>1, TasksStep DEF Finite
  <2>3. Paired'
    BY <1>1, TranscriptStep
  <2>4. Announced'
    BY <1>1, TasksStep, ToldStep DEF Announced
  <2>5. Between' /\ Caused' /\ Checkpointed' /\ Reported'
    BY <1>1, ControlStep
  <2>6. Stopped'
    BY <1>1, StoppedStep
  <2> QED
    BY <2>1, <2>2, <2>3, <2>4, <2>5, <2>6 DEF IInv
<1>2. ASSUME IInv, UNCHANGED vars PROVE IInv'
  BY <1>2 DEF IInv, vars, turnVars, session, Types, Finite, Paired, Announced, Between,
     Caused, Stopped, Fresh, Checkpointed, Reported
<1> QED
  BY <1>1, <1>2

----------------------------------------------------------------------------
(* What the invariant says of the properties *)

(* Results that follow their message, one for each call, are its results. *)
LEMMA PairedIsTranscriptPaired == Types /\ Paired => TranscriptPaired
<1> SUFFICES ASSUME Types, Paired PROVE TranscriptPaired
  OBVIOUS
<1>1. /\ transcript \in Seq(Entries) /\ Len(transcript) \in Nat
      /\ DOMAIN transcript = 1 .. Len(transcript)
      /\ Followed(transcript) /\ Owned(transcript)
  BY LenProperties DEF Types, Paired
<1>2. ASSUME NEW n \in 1 .. Len(transcript), transcript[n].kind = "assistant"
      PROVE  IsPrefix(Answers(n), SubSeq(transcript, n + 1, Len(transcript)))
  <2> DEFINE size == Len(transcript[n].about)
             rest == SubSeq(transcript, n + 1, Len(transcript))
             answers == Answers(n)
  <2>1. size \in Nat
    BY <1>1, ElementOfSeq DEF Entries
  <2>2. /\ n + size <= Len(transcript)
        /\ \A k \in 1 .. size :
             transcript[n + k] = Entry("result", <<transcript[n].about[k]>>)
    BY <1>1, <1>2 DEF Followed
  <2>3. answers = [k \in 1 .. size |-> Entry("result", <<transcript[n].about[k]>>)]
    BY DEF Answers
  <2> HIDE DEF size, answers
  <2>4. rest \in Seq(Entries) /\ Len(rest) = Len(transcript) - n
        /\ \A k \in 1 .. Len(transcript) - n : rest[k] = transcript[n + k]
    <3>1. \A k \in 1 .. Len(transcript) : transcript[k] \in Entries
      BY <1>1, ElementOfSeq
    <3>2. rest = [k \in 1 .. Len(transcript) - n |-> transcript[n + k]]
      BY <1>1
    <3> HIDE DEF rest
    <3>3. rest \in [1 .. Len(transcript) - n -> Entries]
      BY <1>1, <3>1, <3>2
    <3>4. Len(transcript) - n \in Nat
      BY <1>1
    <3>5. rest \in Seq(Entries) /\ Len(rest) = Len(transcript) - n
      BY <3>3, <3>4, SeqDef
    <3> QED
      BY <3>2, <3>5
  <2> HIDE DEF rest
  <2>5. size <= Len(rest)
    BY <1>1, <2>1, <2>2, <2>4
  <2>6. \A k \in 1 .. size : rest[k] = answers[k]
    <3> TAKE k \in 1 .. size
    <3>1. k \in 1 .. Len(transcript) - n
      BY <1>1, <2>1, <2>2
    <3> QED
      BY <2>2, <2>3, <2>4, <3>1
  <2>7. answers = SubSeq(rest, 1, size)
    <3>1. SubSeq(rest, 1, size) = [k \in 1 .. size |-> rest[k]]
      BY <2>1, <2>4, <2>5
    <3> QED
      BY <2>3, <2>6, <3>1
  <2>8. Len(answers) = size /\ SubSeq(answers, 1, size) = answers
    BY <2>1, <2>3
  <2> QED
    BY <2>5, <2>7, <2>8 DEF IsPrefix, rest, answers
<1>3. ASSUME NEW n \in 1 .. Len(transcript), transcript[n].kind = "result"
      PROVE  \E m \in 1 .. (n - 1) :
               transcript[m].kind = "assistant" /\ n <= m + Len(transcript[m].about)
  BY <1>1, <1>3 DEF Owned
<1> QED
  BY <1>1, <1>2, <1>3 DEF TranscriptPaired

(* The last message of a concluded transcript has no calls. *)
LEMMA ConcludedHasLastAnswer ==
  ASSUME transcript \in Seq(Entries), Concluded(transcript)
  PROVE  transcript[LastAnswer].about = <<>>
<1> DEFINE messages == {n \in 1 .. Len(transcript) : transcript[n].kind = "assistant"}
<1>1. Len(transcript) \in Nat /\ DOMAIN transcript = 1 .. Len(transcript)
  BY LenProperties
<1>2. PICK n \in messages :
        transcript[n].about = <<>> /\ \A m \in messages : m <= n
  <2>1. PICK n \in 1 .. Len(transcript) :
          /\ transcript[n].kind = "assistant" /\ transcript[n].about = <<>>
          /\ \A m \in 1 .. Len(transcript) : m > n => transcript[m].kind # "assistant"
    BY DEF Concluded
  <2>2. n \in messages /\ \A m \in messages : m <= n
    BY <1>1, <2>1
  <2> QED
    BY <2>1, <2>2
<1>3. LastAnswer = n
  <2>1. LastAnswer = IF messages # {} THEN Max(messages) ELSE 0
    BY DEF LastAnswer, SelectLastInSeq
  <2>2. messages \subseteq Nat
    BY <1>1
  <2> HIDE DEF messages
  <2>3. Max(messages) = CHOOSE m \in messages : \A k \in messages : m >= k
    BY DEF Max
  <2>4. \A m \in messages : (\A k \in messages : m >= k) => m = n
    BY <1>2, <2>2
  <2>5. \A k \in messages : n >= k
    BY <1>2, <2>2
  <2>6. Max(messages) = n
    BY <2>3, <2>4, <2>5
  <2> QED
    BY <2>1, <2>6
<1> QED
  BY <1>2, <1>3

(* The reason of a run is what happened in it. *)
LEMMA IInvIsTruthful == IInv => EndIsTruthful
<1> SUFFICES ASSUME IInv, pc = "idle"
             PROVE  /\ reported = "interrupted" => cancel
                    /\ reported = "steer" => steer
                    /\ reported = "stop" => transcript[LastAnswer].about = <<>>
                    /\ reported = "tool_use" => paused /\ turn < MaxTurns
                    /\ checkpoint => status # "finished"
  BY DEF EndIsTruthful
<1>1. transcript \in Seq(Entries) /\ Stopped /\ Checkpointed /\ Reported
  BY DEF IInv, Types
<1>2. reported = "stop" => transcript[LastAnswer].about = <<>>
  BY <1>1, ConcludedHasLastAnswer DEF Stopped
<1> QED
  BY <1>1, <1>2 DEF Checkpointed, Reported

----------------------------------------------------------------------------
(* The theorems *)

(* So the invariant holds throughout. *)
LEMMA AlwaysIInv == Spec => []IInv
BY InitImpliesIInv, NextKeepsIInv, PTL DEF Spec

(* The variables of the loop keep their types, whatever the turns do. *)
THEOREM TypeCorrect == Spec => []TypeOK
<1>1. IInv => TypeOK
  BY DEF IInv, Types, TypeOK, Entries
<1> QED
  BY <1>1, AlwaysIInv, PTL

(* A session never holds a tool call without its result right behind the   *)
(* message, nor a result without its call, through runs, turns that fail   *)
(* or are cancelled, compaction and background tasks that settle at any    *)
(* time: what the loop writes for a TurnEndEvent is one piece.             *)
THEOREM MessagesKeepTheirResults == Spec => []TranscriptPaired
<1>1. IInv => TranscriptPaired
  BY PairedIsTranscriptPaired DEF IInv
<1> QED
  BY <1>1, AlwaysIInv, PTL

(* The stop reason a run reports is the true one, wherever runs before it  *)
(* were abandoned, and a checkpoint that makes the next run resume stands  *)
(* for a turn that never finished.                                         *)
THEOREM RunsEndTruthfully == Spec => []EndIsTruthful
BY AlwaysIInv, IInvIsTruthful, PTL

(* A background task that settled while nothing ran is in the session      *)
(* before the next run's first request, for any number of tasks.           *)
THEOREM SettledWhileIdleIsSeen == Spec => []IdleSettledIsSeen
<1>1. IInv => IdleSettledIsSeen
  BY DEF IInv, Announced, IdleSettledIsSeen
<1> QED
  BY <1>1, AlwaysIInv, PTL
=============================================================================
