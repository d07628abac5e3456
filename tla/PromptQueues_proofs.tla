------------------------ MODULE PromptQueues_proofs ------------------------
(***************************************************************************)
(* Theorems about the dispatch of prompts, for every number of prompts and *)
(* sessions and every size of the queues.                                  *)
(***************************************************************************)
EXTENDS PromptQueues, TLAPS, FiniteSetTheorems, SequenceTheorems

----------------------------------------------------------------------------
(* What deleting, taking, queueing and putting back do to a queue *)

(* y is queued behind x. *)
Before(s, x, y) == \E j, k \in 1 .. Len(s) : j < k /\ s[j] = x /\ s[k] = y

(* What is queued at i and behind it. *)
From(s, i) == {s[j] : j \in {k \in 1 .. Len(s) : k >= i}}

(* RemoveAt closes the gap of the element it takes out. *)
LEMMA RemoveAtPlaces ==
  ASSUME NEW S, NEW s \in Seq(S), NEW i \in 1 .. Len(s)
  PROVE  /\ RemoveAt(s, i) \in Seq(S)
         /\ Len(RemoveAt(s, i)) = Len(s) - 1
         /\ \A j \in 1 .. Len(s) - 1 :
              RemoveAt(s, i)[j] = IF j < i THEN s[j] ELSE s[j + 1]
<1> DEFINE head == SubSeq(s, 1, i - 1)
           tail == SubSeq(s, i + 1, Len(s))
<1>1. /\ head \in Seq(S) /\ Len(head) = i - 1
      /\ \A m \in 1 .. i - 1 : head[m] = s[m]
  BY SubSeqProperties
<1>2. /\ tail \in Seq(S) /\ Len(tail) = Len(s) - i
      /\ \A m \in 1 .. Len(s) - i : tail[m] = s[m + i]
  BY SubSeqProperties
<1>3. RemoveAt(s, i) = head \o tail
  BY DEF RemoveAt
<1> HIDE DEF head, tail
<1>4. /\ head \o tail \in Seq(S)
      /\ Len(head \o tail) = Len(head) + Len(tail)
      /\ \A m \in 1 .. Len(head) + Len(tail) :
           (head \o tail)[m] = IF m <= Len(head) THEN head[m] ELSE tail[m - Len(head)]
  BY <1>1, <1>2, ConcatProperties
<1>5. ASSUME NEW j \in 1 .. Len(s) - 1, j >= i
      PROVE  tail[j - (i - 1)] = s[j + 1]
  <2>1. j - (i - 1) \in 1 .. Len(s) - i /\ j - (i - 1) + i = j + 1
    BY <1>5
  <2> QED
    BY <1>2, <2>1
<1>6. Len(head) + Len(tail) = Len(s) - 1
  BY <1>1, <1>2
<1>7. ASSUME NEW j \in 1 .. Len(s) - 1
      PROVE  (head \o tail)[j] = IF j < i THEN s[j] ELSE s[j + 1]
  BY <1>1, <1>4, <1>5, <1>6
<1> QED
  BY <1>3, <1>4, <1>6, <1>7

(* InsertAt moves the element at the place, and those behind it, one on. *)
LEMMA InsertAtPlaces ==
  ASSUME NEW S, NEW s \in Seq(S), NEW i \in 1 .. Len(s), NEW e \in S
  PROVE  /\ InsertAt(s, i, e) \in Seq(S)
         /\ Len(InsertAt(s, i, e)) = Len(s) + 1
         /\ \A j \in 1 .. Len(s) + 1 :
              InsertAt(s, i, e)[j] =
                IF j < i THEN s[j] ELSE IF j = i THEN e ELSE s[j - 1]
<1> DEFINE head == SubSeq(s, 1, i - 1)
           tail == SubSeq(s, i, Len(s))
           front == Append(head, e)
<1>1. /\ head \in Seq(S) /\ Len(head) = i - 1
      /\ \A m \in 1 .. i - 1 : head[m] = s[m]
  BY SubSeqProperties
<1>2. /\ tail \in Seq(S) /\ Len(tail) = Len(s) - i + 1
      /\ \A m \in 1 .. Len(s) - i + 1 : tail[m] = s[i + m - 1]
  BY SubSeqProperties
<1> HIDE DEF head, tail
<1>3. /\ front \in Seq(S) /\ Len(front) = i
      /\ \A m \in 1 .. i - 1 : front[m] = s[m]
      /\ front[i] = e
  BY <1>1, AppendProperties
<1>4. InsertAt(s, i, e) = front \o tail
  BY <1>1, AppendIsConcat DEF InsertAt, head, tail
<1> HIDE DEF front
<1>5. /\ front \o tail \in Seq(S)
      /\ Len(front \o tail) = Len(front) + Len(tail)
      /\ \A m \in 1 .. Len(front) + Len(tail) :
           (front \o tail)[m] = IF m <= Len(front) THEN front[m] ELSE tail[m - Len(front)]
  BY <1>2, <1>3, ConcatProperties
<1>6. ASSUME NEW j \in 1 .. Len(s) + 1, j > i
      PROVE  tail[j - i] = s[j - 1]
  <2>1. j - i \in 1 .. Len(s) - i + 1 /\ i + (j - i) - 1 = j - 1
    BY <1>6
  <2> QED
    BY <1>2, <2>1
<1>7. Len(front) + Len(tail) = Len(s) + 1
  BY <1>2, <1>3
<1>8. ASSUME NEW j \in 1 .. Len(s) + 1
      PROVE  (front \o tail)[j] = IF j < i THEN s[j] ELSE IF j = i THEN e ELSE s[j - 1]
  BY <1>3, <1>5, <1>6, <1>7
<1> QED
  BY <1>4, <1>5, <1>7, <1>8

(* A prompt is deleted or taken to the editor. *)
LEMMA RemoveAtFacts ==
  ASSUME NEW S, NEW s \in Seq(S), IsInjective(s), NEW i \in 1 .. Len(s)
  PROVE  /\ RemoveAt(s, i) \in Seq(S) /\ Len(RemoveAt(s, i)) = Len(s) - 1
         /\ IsInjective(RemoveAt(s, i))
         /\ Range(RemoveAt(s, i)) = Range(s) \ {s[i]}
         /\ \A x, y : Before(RemoveAt(s, i), x, y) => Before(s, x, y)
         /\ \A k \in Nat : From(RemoveAt(s, i), k) \subseteq From(s, k)
         /\ \A y \in From(RemoveAt(s, i), i) : Before(s, s[i], y)
<1> DEFINE r == RemoveAt(s, i)
           old(j) == IF j < i THEN j ELSE j + 1
<1>1. /\ r \in Seq(S) /\ Len(r) = Len(s) - 1
      /\ DOMAIN r = 1 .. Len(r) /\ DOMAIN s = 1 .. Len(s) /\ Len(s) \in Nat
      /\ \A j \in 1 .. Len(r) : old(j) \in 1 .. Len(s) /\ old(j) # i /\ r[j] = s[old(j)]
  <2>1. r \in Seq(S) /\ Len(r) = Len(s) - 1 /\ Len(s) \in Nat
    BY RemoveAtPlaces
  <2>2. \A j \in 1 .. Len(s) - 1 : r[j] = IF j < i THEN s[j] ELSE s[j + 1]
    BY RemoveAtPlaces
  <2>3. DOMAIN r = 1 .. Len(r) /\ DOMAIN s = 1 .. Len(s)
    BY <2>1
  <2> HIDE DEF r
  <2> QED
    BY <2>1, <2>2, <2>3
<1> HIDE DEF r
<1>2. IsInjective(r)
  <2>1. ASSUME NEW j \in 1 .. Len(r), NEW k \in 1 .. Len(r), r[j] = r[k] PROVE j = k
    <3>1. /\ old(j) \in 1 .. Len(s) /\ old(k) \in 1 .. Len(s) /\ s[old(j)] = s[old(k)]
          /\ j \in Nat /\ k \in Nat
      BY <1>1, <2>1
    <3>2. DOMAIN s = 1 .. Len(s)
      BY <1>1
    <3> HIDE DEF old
    <3>3. old(j) = old(k)
      BY <3>1, <3>2 DEF IsInjective
    <3> QED
      BY <3>1, <3>3 DEF old
  <2> QED
    BY <1>1, <2>1 DEF IsInjective
<1>3. Range(r) = Range(s) \ {s[i]}
  <2>1. ASSUME NEW j \in 1 .. Len(r) PROVE r[j] \in Range(s) /\ r[j] # s[i]
    BY <1>1 DEF IsInjective, Range
  <2>2. ASSUME NEW j \in 1 .. Len(s), s[j] # s[i] PROVE s[j] \in Range(r)
    <3>1. CASE j < i
      <4>1. j \in 1 .. Len(r) /\ old(j) = j
        BY <1>1, <3>1
      <4> QED
        BY <1>1, <4>1 DEF Range
    <3>2. CASE j > i
      <4>1. j - 1 \in 1 .. Len(r) /\ old(j - 1) = j
        BY <1>1, <3>2
      <4> QED
        BY <1>1, <4>1 DEF Range
    <3> QED
      BY <2>2, <3>1, <3>2
  <2> QED
    BY <1>1, <2>1, <2>2 DEF Range
<1>4. \A x, y : Before(r, x, y) => Before(s, x, y)
  <2> SUFFICES ASSUME NEW x, NEW y, Before(r, x, y)
               PROVE  Before(s, x, y)
    OBVIOUS
  <2>1. PICK j \in 1 .. Len(r), k \in 1 .. Len(r) : j < k /\ r[j] = x /\ r[k] = y
    BY DEF Before
  <2>2. old(j) < old(k)
    BY <1>1, <2>1
  <2>3. /\ old(j) \in 1 .. Len(s) /\ s[old(j)] = x
        /\ old(k) \in 1 .. Len(s) /\ s[old(k)] = y
    BY <1>1, <2>1
  <2> HIDE DEF old
  <2> QED
    BY <2>2, <2>3 DEF Before
<1>5. \A k \in Nat : From(r, k) \subseteq From(s, k)
  <2> SUFFICES ASSUME NEW k \in Nat, NEW j \in 1 .. Len(r), j >= k
               PROVE  r[j] \in From(s, k)
    BY DEF From
  <2>1. old(j) >= k
    BY <1>1
  <2> QED
    BY <1>1, <2>1 DEF From
<1>6. \A y \in From(r, i) : Before(s, s[i], y)
  <2> SUFFICES ASSUME NEW j \in 1 .. Len(r), j >= i
               PROVE  Before(s, s[i], r[j])
    BY DEF From
  <2>1. i < old(j)
    BY <1>1
  <2> QED
    BY <1>1, <2>1 DEF Before
<1> QED
  BY <1>1, <1>2, <1>3, <1>4, <1>5, <1>6 DEF r

(* A prompt is taken up. *)
LEMMA TailFacts ==
  ASSUME NEW S, NEW s \in Seq(S), IsInjective(s), s # <<>>
  PROVE  /\ Tail(s) \in Seq(S) /\ Len(Tail(s)) = Len(s) - 1
         /\ Head(s) \in Range(s) /\ IsInjective(Tail(s))
         /\ Range(Tail(s)) = Range(s) \ {Head(s)}
         /\ \A x, y : Before(Tail(s), x, y) => Before(s, x, y)
         /\ \A k \in Nat : From(Tail(s), k) \subseteq From(s, k)
         /\ \A y \in Range(Tail(s)) : Before(s, Head(s), y)
<1>1. Len(s) \in Nat \ {0} /\ 1 \in 1 .. Len(s) /\ Head(s) = s[1]
  BY EmptySeq
<1>2. Tail(s) \in Seq(S) /\ Tail(s) = SubSeq(s, 2, Len(s))
  BY HeadTailProperties, TailIsSubSeq
<1>3. RemoveAt(s, 1) = Tail(s)
  <2>1. SubSeq(s, 1, 1 - 1) = <<>>
    BY SubSeqEmpty
  <2>2. RemoveAt(s, 1) = <<>> \o Tail(s)
    BY <1>2, <2>1 DEF RemoveAt
  <2> QED
    BY <1>2, <2>2, ConcatEmptySeq
<1>4. From(Tail(s), 1) = Range(Tail(s))
  BY <1>2 DEF From, Range
<1>5. Head(s) \in Range(s)
  BY <1>1 DEF Range
<1> HIDE DEF Before, From
<1>6. /\ Len(RemoveAt(s, 1)) = Len(s) - 1 /\ IsInjective(RemoveAt(s, 1))
      /\ Range(RemoveAt(s, 1)) = Range(s) \ {s[1]}
      /\ \A x, y : Before(RemoveAt(s, 1), x, y) => Before(s, x, y)
      /\ \A k \in Nat : From(RemoveAt(s, 1), k) \subseteq From(s, k)
      /\ \A y \in From(RemoveAt(s, 1), 1) : Before(s, s[1], y)
  BY <1>1, RemoveAtFacts
<1>7. \A y \in Range(Tail(s)) : Before(s, Head(s), y)
  BY <1>1, <1>3, <1>4, <1>6
<1>8. Range(Tail(s)) = Range(s) \ {Head(s)}
  BY <1>1, <1>3, <1>6
<1>9. /\ Len(Tail(s)) = Len(s) - 1 /\ IsInjective(Tail(s))
      /\ \A x, y : Before(Tail(s), x, y) => Before(s, x, y)
      /\ \A k \in Nat : From(Tail(s), k) \subseteq From(s, k)
  BY <1>3, <1>6
<1> QED
  BY <1>2, <1>5, <1>7, <1>8, <1>9, Zenon

(* A prompt is queued. *)
LEMMA AppendFacts ==
  ASSUME NEW S, NEW s \in Seq(S), IsInjective(s), NEW e \in S, e \notin Range(s)
  PROVE  /\ Append(s, e) \in Seq(S) /\ Len(Append(s, e)) = Len(s) + 1
         /\ IsInjective(Append(s, e))
         /\ Range(Append(s, e)) = Range(s) \cup {e}
         /\ \A x, y : Before(Append(s, e), x, y) => Before(s, x, y) \/ (y = e /\ x \in Range(s))
         /\ \A k \in Nat : From(Append(s, e), k) \subseteq From(s, k) \cup {e}
<1> DEFINE a == Append(s, e)
<1>1. /\ a \in Seq(S) /\ Len(a) = Len(s) + 1 /\ Len(s) \in Nat
      /\ DOMAIN a = 1 .. Len(s) + 1 /\ DOMAIN s = 1 .. Len(s)
      /\ a[Len(s) + 1] = e
      /\ \A j \in 1 .. Len(s) : a[j] = s[j] /\ s[j] \in Range(s)
  BY AppendProperties DEF Range
<1> HIDE DEF a
<1>2. IsInjective(a)
  <2> SUFFICES ASSUME NEW j \in 1 .. Len(s) + 1, NEW k \in 1 .. Len(s) + 1, a[j] = a[k]
               PROVE  j = k
    BY <1>1 DEF IsInjective
  <2>1. \A m \in 1 .. Len(s) + 1 : m \in 1 .. Len(s) \/ m = Len(s) + 1
    BY <1>1
  <2>2. \A m \in 1 .. Len(s) : a[m] # e
    BY <1>1
  <2>3. CASE j \in 1 .. Len(s) /\ k \in 1 .. Len(s)
    BY <1>1, <2>3 DEF IsInjective
  <2> QED
    BY <1>1, <2>1, <2>2, <2>3
<1>3. Range(a) = Range(s) \cup {e}
  <2>1. \A j \in 1 .. Len(s) + 1 : a[j] \in Range(s) \cup {e}
    BY <1>1
  <2>2. \A j \in 1 .. Len(s) : s[j] \in Range(a)
    BY <1>1 DEF Range
  <2>3. e \in Range(a)
    BY <1>1 DEF Range
  <2> QED
    BY <1>1, <2>1, <2>2, <2>3 DEF Range
<1>4. \A x, y : Before(a, x, y) => Before(s, x, y) \/ (y = e /\ x \in Range(s))
  <2> SUFFICES ASSUME NEW j \in 1 .. Len(s) + 1, NEW k \in 1 .. Len(s) + 1, j < k
               PROVE  Before(s, a[j], a[k]) \/ (a[k] = e /\ a[j] \in Range(s))
    BY <1>1 DEF Before
  <2>1. j \in 1 .. Len(s)
    BY <1>1
  <2>2. CASE k \in 1 .. Len(s)
    BY <1>1, <2>1, <2>2 DEF Before
  <2> QED
    BY <1>1, <2>1, <2>2
<1>5. \A k \in Nat : From(a, k) \subseteq From(s, k) \cup {e}
  BY <1>1 DEF From
<1> QED
  BY <1>1, <1>2, <1>3, <1>4, <1>5 DEF a

(* A prompt returns from the editor. *)
LEMMA InsertAtFacts ==
  ASSUME NEW S, NEW s \in Seq(S), IsInjective(s), NEW e \in S, e \notin Range(s),
         NEW i \in 1 .. Len(s)
  PROVE  /\ InsertAt(s, i, e) \in Seq(S) /\ Len(InsertAt(s, i, e)) = Len(s) + 1
         /\ IsInjective(InsertAt(s, i, e))
         /\ Range(InsertAt(s, i, e)) = Range(s) \cup {e}
         /\ \A x, y : Before(InsertAt(s, i, e), x, y) =>
              Before(s, x, y) \/ y = e \/ (x = e /\ y \in From(s, i))
<1> DEFINE r == InsertAt(s, i, e)
           old(j) == IF j < i THEN j ELSE j - 1
<1>1. /\ r \in Seq(S) /\ Len(r) = Len(s) + 1 /\ Len(s) \in Nat
      /\ DOMAIN r = 1 .. Len(r) /\ DOMAIN s = 1 .. Len(s)
      /\ i \in 1 .. Len(r) /\ r[i] = e
      /\ \A j \in 1 .. Len(r) :
           j # i => old(j) \in 1 .. Len(s) /\ r[j] = s[old(j)] /\ r[j] \in Range(s)
  <2>1. r \in Seq(S) /\ Len(r) = Len(s) + 1 /\ Len(s) \in Nat
    BY InsertAtPlaces
  <2>2. \A j \in 1 .. Len(s) + 1 : r[j] = IF j < i THEN s[j] ELSE IF j = i THEN e ELSE s[j - 1]
    BY InsertAtPlaces
  <2>3. DOMAIN r = 1 .. Len(r) /\ DOMAIN s = 1 .. Len(s)
    BY <2>1
  <2> HIDE DEF r
  <2>4. \A j \in 1 .. Len(r) : j # i => old(j) \in 1 .. Len(s) /\ r[j] = s[old(j)]
    BY <2>1, <2>2
  <2> HIDE DEF old
  <2>5. \A j \in 1 .. Len(r) : j # i => r[j] \in Range(s)
    BY <2>3, <2>4 DEF Range
  <2>6. i \in 1 .. Len(r) /\ r[i] = e
    BY <2>1, <2>2
  <2> QED
    BY <2>1, <2>3, <2>4, <2>5, <2>6
<1> HIDE DEF r
<1>2. IsInjective(r)
  <2> SUFFICES ASSUME NEW j \in 1 .. Len(r), NEW k \in 1 .. Len(r), r[j] = r[k]
               PROVE  j = k
    BY <1>1 DEF IsInjective
  <2>1. CASE j # i /\ k # i
    <3>1. s[old(j)] = s[old(k)] /\ old(j) \in 1 .. Len(s) /\ old(k) \in 1 .. Len(s)
      BY <1>1, <2>1
    <3>2. old(j) = old(k)
      BY <1>1, <3>1 DEF IsInjective
    <3> QED
      BY <2>1, <3>2
  <2> QED
    BY <1>1, <2>1
<1>3. Range(r) = Range(s) \cup {e}
  <2>1. ASSUME NEW j \in 1 .. Len(s) PROVE s[j] \in Range(r)
    <3>1. CASE j < i
      <4>1. j \in 1 .. Len(r) /\ j # i /\ old(j) = j
        BY <1>1, <3>1
      <4> QED
        BY <1>1, <4>1 DEF Range
    <3>2. CASE j >= i
      <4>1. j + 1 \in 1 .. Len(r) /\ j + 1 # i /\ old(j + 1) = j
        BY <1>1, <3>2
      <4> QED
        BY <1>1, <4>1 DEF Range
    <3> QED
      BY <3>1, <3>2
  <2>2. e \in Range(r)
    BY <1>1 DEF Range
  <2>3. \A j \in 1 .. Len(r) : r[j] \in Range(s) \cup {e}
    BY <1>1
  <2> QED
    BY <1>1, <2>1, <2>2, <2>3 DEF Range
<1>4. \A x, y : Before(r, x, y) =>
        Before(s, x, y) \/ y = e \/ (x = e /\ y \in From(s, i))
  <2> SUFFICES ASSUME NEW j \in 1 .. Len(r), NEW k \in 1 .. Len(r), j < k, k # i
               PROVE  Before(s, r[j], r[k]) \/ (r[j] = e /\ r[k] \in From(s, i))
    BY <1>1 DEF Before
  <2>1. old(k) \in 1 .. Len(s) /\ r[k] = s[old(k)]
    BY <1>1
  <2>2. CASE j = i
    <3>1. old(k) >= i
      BY <1>1, <2>2
    <3> QED
      BY <1>1, <2>1, <2>2, <3>1 DEF From
  <2>3. CASE j # i
    <3>1. old(j) < old(k)
      BY <1>1, <2>3
    <3>2. old(j) \in 1 .. Len(s) /\ r[j] = s[old(j)]
      BY <1>1, <2>3
    <3> HIDE DEF old
    <3> QED
      BY <2>1, <3>1, <3>2 DEF Before
  <2> QED
    BY <2>2, <2>3
<1> QED
  BY <1>1, <1>2, <1>3, <1>4 DEF r
----------------------------------------------------------------------------
(* The inductive invariant *)

Without == {"none", "shell", "dying"}

Types ==
  /\ running = (worker # "none")
  /\ worker \in {"none", "begin", "turn", "settling", "stopping", "shell", "dying"}
  /\ shell \in BOOLEAN
  /\ current \in [prompt : Prompts, from : Queues \cup {"user"}] \cup {Nothing}
  /\ interrupt \in BOOLEAN /\ event \in {"none", "clear", "set"}
  /\ session \in Sessions /\ switch \in Sessions \cup {None}
  /\ loading \in Sessions \cup {None}
  /\ queue \in [Queues -> Seq(Prompts)]
  /\ editing \in Edits \cup {None}
  /\ fate \in [Prompts -> Fates]
  /\ typed \in [Prompts -> Sessions \cup {None}]
  /\ why \in [Prompts -> SUBSET Causes]
  /\ stale \subseteq {"interrupt", "switch"}

(* Prompts are typed in the order of their numbers, and each waits in one  *)
(* place; the one about to be sent waits nowhere any more.                 *)
Numbered == \E n \in 0 .. MaxPrompts : \A p \in Prompts : fate[p] # "untyped" <=> p <= n

Edited(p) == editing # None /\ editing.prompt = p

Places ==
  /\ \A q \in Queues : IsInjective(queue[q])
  /\ Range(queue["steer"]) \cap Range(queue["pending"]) = {}
  /\ \A p \in Queued : ~Edited(p)
  /\ \A p \in Prompts : fate[p] = "waiting" <=> p \in Queued \/ Edited(p)

Sending == worker = "begin" /\ current # Nothing => fate[current.prompt] = "sending"

Sizes ==
  \A q \in Queues :
    Len(queue[q]) + (IF editing # None /\ editing.from = q THEN 1 ELSE 0) <= MaxQueue

(* Requests are for the worker that is there, or known to be stale.        *)
Requests ==
  /\ worker \in {"none", "settling", "stopping", "dying"} => event = "none"
  /\ event = "set" => interrupt
  /\ event = "none" /\ interrupt => "interrupt" \in stale
  /\ worker \in Without /\ switch # None => "switch" \in stale
  /\ loading # None => worker \in {"none", "dying"}

(* What waits without a run to take it is known as left.                   *)
LeftBehind == worker \in Without => \A p \in Queued : "left" \in why[p]

(* An interruption is for all that waits, and for what it finds sending.   *)
Blamed ==
  /\ interrupt \/ worker = "stopping" => \A p \in Queued : "stopped" \in why[p]
  /\ worker = "begin" /\ current # Nothing /\ event = "set" =>
       StoppedByLaterEsc(current.prompt) \/ "interrupt" \in stale

(* A queue is in order but for what was edited or left, and so is it where *)
(* the edited prompt goes.                                                 *)
Excused(p) == why[p] \cap {"edited", "left"} # {}

InOrder ==
  \A q \in Queues : \A x, y \in Prompts : Before(queue[q], x, y) => x < y \/ Excused(y)

EditInOrder ==
  editing # None =>
    \A y \in From(queue[editing.from], editing.at) : editing.prompt < y \/ Excused(y)

SendsInOrder == worker = "begin" /\ current # Nothing => SentInOrder(current.prompt)

Typed ==
  /\ \A p \in Queued : SentWhereTyped(p)
  /\ worker = "begin" /\ current # Nothing => SentWhereTyped(current.prompt)

IInv ==
  /\ Types /\ Numbered /\ Places /\ Sending /\ Sizes
  /\ Requests /\ LeftBehind /\ Blamed
  /\ InOrder /\ EditInOrder /\ SendsInOrder /\ Typed

----------------------------------------------------------------------------
(* Facts about single actions *)

(* The prompts typed so far are those up to Count. *)
LEMMA CountFacts ==
  ASSUME Types, Numbered
  PROVE  /\ Count \in 0 .. MaxPrompts
         /\ \A p \in Prompts : fate[p] # "untyped" <=> p <= Count
<1>1. PICK n \in 0 .. MaxPrompts : \A p \in Prompts : fate[p] # "untyped" <=> p <= n
  BY DEF Numbered
<1>2. MaxPrompts \in Nat /\ n \in Nat
  BY BoundsAssumption
<1>3. {p \in Prompts : fate[p] # "untyped"} = 1 .. n
  BY <1>1, <1>2 DEF Prompts
<1>4. Cardinality(1 .. n) = n
  BY <1>2, FS_Interval
<1> QED
  BY <1>1, <1>3, <1>4 DEF Count

(* The next prompt to be typed waits nowhere and is younger than all that do. *)
LEMMA NewPromptFacts ==
  ASSUME Types, Numbered, Places, Count < MaxPrompts
  PROVE  /\ Count + 1 \in Prompts /\ fate[Count + 1] = "untyped"
         /\ Count + 1 \notin Queued /\ ~Edited(Count + 1)
         /\ \A p \in Queued : p < Count + 1
         /\ editing # None => editing.prompt < Count + 1
<1>1. Count \in Nat /\ Count + 1 \in Prompts
  BY CountFacts, BoundsAssumption DEF Prompts
<1>2. fate[Count + 1] = "untyped"
  BY <1>1, CountFacts DEF Types, Fates
<1>3. Queued \subseteq Prompts
  BY RangeOfSeq DEF Types, Queues, Queued
<1>4. editing # None => editing.prompt \in Prompts
  BY DEF Types, Edits
<1>5. Count + 1 \notin Queued /\ ~Edited(Count + 1)
  BY <1>1, <1>2 DEF Places
<1>6. \A p \in Prompts : fate[p] = "waiting" => p < Count + 1
  BY <1>1, CountFacts DEF Prompts
<1> QED
  BY <1>1, <1>2, <1>3, <1>4, <1>5, <1>6 DEF Places, Edited

(* What waits in a queue is a prompt. *)
LEMMA QueueTypes ==
  ASSUME Types
  PROVE  /\ \A q \in Queues : queue[q] \in Seq(Prompts)
         /\ \A q \in Queues : \A i \in 1 .. Len(queue[q]) : queue[q][i] \in Prompts
         /\ \A q \in Queues : Range(queue[q]) \subseteq Queued
         /\ Queued \subseteq Prompts
<1>1. \A q \in Queues : queue[q] \in Seq(Prompts)
  BY DEF Types
<1>2. \A q \in Queues : Range(queue[q]) \subseteq Prompts
  BY <1>1, RangeOfSeq
<1> QED
  BY <1>1, <1>2, ElementOfSeq DEF Queued, Queues

(* What takes place in a queue. *)
LEMMA TakeFacts ==
  ASSUME Types, Places, TakeNext
  PROVE  /\ NextQueue \in Queues /\ queue[NextQueue] # <<>>
         /\ queue' = [queue EXCEPT ![NextQueue] = Tail(queue[NextQueue])]
         /\ current' = [prompt |-> Head(queue[NextQueue]), from |-> NextQueue]
         /\ Head(queue[NextQueue]) \in Prompts
         /\ Head(queue[NextQueue]) \in Range(queue[NextQueue])
         /\ NextQueue = "pending" => queue["steer"] = <<>>
<1>1. NextQueue \in Queues /\ (NextQueue = "pending" => queue["steer"] = <<>>)
  BY DEF NextQueue, Queues
<1>2. queue[NextQueue] # <<>>
  <2>1. Range(<<>>) = {}
    BY DEF Range
  <2>2. queue["steer"] = <<>> => queue["pending"] # <<>>
    BY <2>1 DEF TakeNext, Queued
  <2> QED
    BY <2>2 DEF NextQueue
<1>3. Head(queue[NextQueue]) \in Range(queue[NextQueue])
  BY <1>1, <1>2, QueueTypes, TailFacts DEF Places
<1>4. Head(queue[NextQueue]) \in Prompts
  BY <1>1, <1>3, QueueTypes
<1> QED
  BY <1>1, <1>2, <1>3, <1>4 DEF TakeNext, Begin

(* The three ways of Submit, of a prompt that is new. *)
SentAtOnce(p) ==
  /\ ~running
  /\ Begin([prompt |-> p, from |-> "user"])
  /\ fate' = [fate EXCEPT ![p] = "sending"]
  /\ typed' = [typed EXCEPT ![p] = session]
  /\ UNCHANGED <<queue, why>>

Enqueued(q, p) ==
  /\ running /\ Len(queue[q]) < MaxQueue
  /\ queue' = [queue EXCEPT ![q] = Append(@, p)]
  /\ fate' = [fate EXCEPT ![p] = "waiting"]
  /\ typed' = [typed EXCEPT ![p] = session]
  /\ Blame({p}, CausesNow)
  /\ UNCHANGED <<running, worker, current, interrupt, event>>

Refused(p) ==
  /\ Forget({p})
  /\ UNCHANGED <<running, worker, current, interrupt, event, queue>>

(* What becomes of a prompt that is typed: sent, queued or refused. *)
LEMMA SubmitCases ==
  ASSUME Types, Numbered, Places, NEW q \in Queues, Submit(q)
  PROVE  /\ UNCHANGED <<shell, switch, stale, session, loading, editing>>
         /\ editing = None /\ loading = None
         /\ \E p \in Prompts :
              /\ fate[p] = "untyped" /\ p \notin Queued
              /\ p = Count + 1 /\ \A r \in Queued : r < p
              /\ SentAtOnce(p) \/ Enqueued(q, p) \/ Refused(p)
<1> DEFINE p == Count + 1
<1>1. Count < MaxPrompts /\ editing = None /\ loading = None
  BY DEF Submit, CanType
<1>2. /\ p \in Prompts /\ fate[p] = "untyped" /\ p \notin Queued
      /\ \A r \in Queued : r < p
  BY <1>1, NewPromptFacts
<1>3. SentAtOnce(p) \/ Enqueued(q, p) \/ Refused(p)
  BY DEF Submit, SentAtOnce, Enqueued, Refused
<1>4. UNCHANGED <<shell, switch, stale, session, loading, editing>>
  BY DEF Submit
<1> QED
  BY <1>1, <1>2, <1>3, <1>4

(* Every step keeps the types. *)
LEMMA TypesStep ==
  ASSUME Types, Numbered, Places, Sizes, Next
  PROVE  Types'
<1> USE DEF Types
<1>1. CASE TurnStarts
  BY <1>1 DEF TurnStarts, Forget, Fates, Causes, request
<1>2. CASE TurnEnds
  <2>1. why' \in [Prompts -> SUBSET Causes]
    BY <1>2 DEF TurnEnds, Absolve, Causes
  <2>2. worker' \in {"settling", "stopping"} /\ running' = TRUE
    BY <1>2 DEF TurnEnds
  <2> QED
    BY <1>2, <2>1, <2>2 DEF TurnEnds
<1>3. CASE Stopped
  <2>1. queue' \in [Queues -> Seq(Prompts)]
    BY <1>3, EmptySeq DEF Stopped
  <2>2. /\ fate' \in [Prompts -> Fates] /\ typed' \in [Prompts -> Sessions \cup {None}]
        /\ why' \in [Prompts -> SUBSET Causes]
    BY <1>3 DEF Stopped, Forget, Fates
  <2> QED
    BY <1>3, <2>1, <2>2 DEF Stopped, EndRun
<1>4. CASE TakeNext
  <2>1. Tail(queue[NextQueue]) \in Seq(Prompts)
    BY <1>4, TakeFacts, QueueTypes, TailFacts DEF Places
  <2>2. queue' \in [Queues -> Seq(Prompts)]
    BY <1>4, <2>1, TakeFacts
  <2>3. current' \in [prompt : Prompts, from : Queues \cup {"user"}]
    BY <1>4, TakeFacts
  <2> QED
    BY <1>4, <2>2, <2>3 DEF TakeNext, Begin, Fates
<1>5. CASE NothingQueued
  BY <1>5 DEF NothingQueued, Begin, EndRun, past
<1>6. CASE ShellEnds
  BY <1>6 DEF ShellEnds, Begin, past
<1>7. CASE Load
  BY <1>7 DEF Load, run, request, past
<1>8. CASE WakeUp
  BY <1>8 DEF WakeUp, Begin, past
<1>9. CASE Dies
  BY <1>9 DEF Dies, past
<1>10. CASE Shell
  BY <1>10 DEF Shell, past
<1>11. CASE Esc
  BY <1>11 DEF Esc, Interrupt, Blame, Causes, run
<1>12. ASSUME CancelWorker, UNCHANGED <<session, queue, editing>>,
              loading' \in Sessions \cup {None}
       PROVE  Types'
  BY <1>12 DEF CancelWorker, Fates, Causes
<1>13. CASE Usage
  BY <1>12, <1>13 DEF Usage
<1>14. ASSUME NEW s \in Sessions, Resume(s)
       PROVE  Types'
  BY <1>12, <1>14 DEF Resume, run, request, past
<1>15. ASSUME NEW s \in Sessions, ClickHandoff(s)
       PROVE  Types'
  <2>1. CASE Interrupt
    <3>1. why' \in [Prompts -> SUBSET Causes]
      BY <2>1 DEF Interrupt, Blame, Causes
    <3>2. switch' \in Sessions \cup {None} /\ stale' \subseteq {"interrupt", "switch"}
          /\ loading' \in Sessions \cup {None}
      BY <1>15, <2>1 DEF ClickHandoff, request
    <3> QED
      BY <1>15, <2>1, <3>1, <3>2 DEF ClickHandoff, Interrupt, run
  <2>2. CASE UNCHANGED <<request, why>>
    BY <1>15, <2>2 DEF ClickHandoff, run, request
  <2> QED
    BY <1>15, <2>1, <2>2 DEF ClickHandoff
<1>16. ASSUME NEW s \in Sessions, NewSession(s)
       PROVE  Types'
  BY <1>16 DEF NewSession, run, request
<1>17. ASSUME NEW q \in Queues, Submit(q)
       PROVE  Types'
  <2>1. PICK p \in Prompts : SentAtOnce(p) \/ Enqueued(q, p) \/ Refused(p)
    BY <1>17, SubmitCases
  <2>2. UNCHANGED <<shell, switch, stale, session, loading, editing>>
    BY <1>17, SubmitCases
  <2>3. CASE SentAtOnce(p)
    BY <2>2, <2>3 DEF SentAtOnce, Begin, Fates
  <2>4. CASE Enqueued(q, p)
    <3>1. Append(queue[q], p) \in Seq(Prompts)
      BY QueueTypes, AppendProperties
    <3>2. CausesNow \subseteq Causes
      BY DEF CausesNow, Causes
    <3>3. why' \in [Prompts -> SUBSET Causes]
      BY <2>4, <3>2 DEF Enqueued, Blame
    <3>4. queue' \in [Queues -> Seq(Prompts)]
      BY <2>4, <3>1 DEF Enqueued
    <3>5. fate' \in [Prompts -> Fates] /\ typed' \in [Prompts -> Sessions \cup {None}]
      BY <2>4 DEF Enqueued, Fates
    <3>6. /\ running' = running /\ worker' = worker /\ current' = current
          /\ interrupt' = interrupt /\ event' = event /\ shell' = shell
          /\ switch' = switch /\ stale' = stale /\ session' = session
          /\ loading' = loading /\ editing' = editing
      BY <2>2, <2>4 DEF Enqueued
    <3> QED
      BY <3>3, <3>4, <3>5, <3>6
  <2>5. CASE Refused(p)
    BY <2>2, <2>5 DEF Refused, Forget, Fates
  <2> QED
    BY <2>1, <2>3, <2>4, <2>5
<1>18. ASSUME NEW q \in Queues, NEW i \in 1 .. MaxQueue, Delete(q, i)
       PROVE  Types'
  <2>1. RemoveAt(queue[q], i) \in Seq(Prompts)
    BY <1>18, QueueTypes, RemoveAtPlaces DEF Delete
  <2> QED
    BY <1>18, <2>1 DEF Delete, Forget, Fates, Causes, run, request
<1>19. ASSUME NEW q \in Queues, NEW i \in 1 .. MaxQueue, StartEdit(q, i)
       PROVE  Types'
  <2>1. RemoveAt(queue[q], i) \in Seq(Prompts) /\ queue[q][i] \in Prompts
    BY <1>19, QueueTypes, RemoveAtPlaces DEF StartEdit
  <2> QED
    BY <1>19, <2>1 DEF StartEdit, Edits, run, request, past
<1>20. CASE EndEdit
  <2>1. editing \in Edits /\ editing.from \in Queues /\ editing.prompt \in Prompts
        /\ editing.at \in Nat \ {0}
    BY <1>20, BoundsAssumption DEF EndEdit, Edits
  <2>2. editing.at <= Len(queue[editing.from]) =>
          InsertAt(queue[editing.from], editing.at, editing.prompt) \in Seq(Prompts)
    BY <2>1, QueueTypes, InsertAtPlaces
  <2>3. Append(queue[editing.from], editing.prompt) \in Seq(Prompts)
    BY <2>1, QueueTypes, AppendProperties
  <2>4. CausesNow \subseteq Causes
    BY DEF CausesNow, Causes
  <2>5. queue' \in [Queues -> Seq(Prompts)]
    BY <1>20, <2>1, <2>2, <2>3 DEF EndEdit
  <2>6. why' \in [Prompts -> SUBSET Causes]
    BY <1>20, <2>4 DEF EndEdit, Blame, Causes
  <2> QED
    BY <1>20, <2>5, <2>6 DEF EndEdit, run, request
<1> QED
  BY <1>1, <1>2, <1>3, <1>4, <1>5, <1>6, <1>7, <1>8, <1>9, <1>10, <1>11, <1>13, <1>14,
     <1>15, <1>16, <1>17, <1>18, <1>19, <1>20 DEF Next

----------------------------------------------------------------------------
(* The steps that leave the queues and the editor alone *)

Quiet ==
  \/ TurnStarts \/ TurnEnds \/ NothingQueued \/ ShellEnds \/ Load \/ WakeUp \/ Dies
  \/ Shell \/ Esc \/ Usage
  \/ \E s \in Sessions : ClickHandoff(s) \/ Resume(s) \/ NewSession(s)

(* The steps, by what they do to the queues. *)
LEMMA NextCases ==
  ASSUME Next
  PROVE  \/ Quiet \/ Stopped \/ TakeNext \/ EndEdit
         \/ \E q \in Queues : Submit(q)
         \/ \E q \in Queues, i \in 1 .. MaxQueue : Delete(q, i) \/ StartEdit(q, i)
BY DEF Next, Quiet

(* What such a step leaves of the notes about a prompt. *)
Kept(p) ==
  /\ fate'[p] = "waiting" <=> fate[p] = "waiting"
  /\ fate'[p] = "untyped" <=> fate[p] = "untyped"
  /\ typed'[p] \in {typed[p], None}
  /\ p \in Queued => why[p] \ {"stopped"} \subseteq why'[p]

(* A step that leaves the queues alone sends no prompt that waits. *)
LEMMA QuietFacts ==
  ASSUME Types, Places, Sending, Quiet
  PROVE  /\ UNCHANGED <<queue, editing>>
         /\ \A p \in Prompts : Kept(p)
<1> USE DEF Types, Kept
<1>0. \A p \in Prompts : fate[p] = "sending" => p \notin Queued
  BY DEF Places
<1>1. CASE TurnStarts
  <2>1. current = Nothing \/ (current.prompt \in Prompts /\ fate[current.prompt] = "sending")
    BY <1>1 DEF TurnStarts, Sending
  <2>2. 0 \notin Prompts /\ Nothing.prompt = 0
    BY BoundsAssumption DEF Prompts, Nothing
  <2>3. \A p \in Prompts : p = current.prompt => fate[p] = "sending"
    BY <2>1, <2>2
  <2> QED
    BY <1>0, <1>1, <2>3 DEF TurnStarts, Forget
<1>2. CASE TurnEnds
  <2>1. \A p \in Prompts : why[p] \ {"stopped"} \subseteq why'[p]
    BY <1>2 DEF TurnEnds, Absolve
  <2> QED
    BY <1>2, <2>1 DEF TurnEnds
<1>3. CASE UNCHANGED <<queue, editing, past>>
  BY <1>3 DEF past, Queued
<1>4. ASSUME Interrupt, UNCHANGED <<queue, editing, fate, typed>>
      PROVE  UNCHANGED <<queue, editing>> /\ \A p \in Prompts : Kept(p)
  BY <1>4 DEF Interrupt, Blame
<1>5. ASSUME CancelWorker, UNCHANGED <<queue, editing>>
      PROVE  UNCHANGED <<queue, editing>> /\ \A p \in Prompts : Kept(p)
  <2>1. \A p \in Prompts : p \in Queued => why[p] \subseteq why'[p]
    BY <1>5 DEF CancelWorker
  <2>2. \A p \in Prompts : fate'[p] = IF fate[p] = "sending" THEN "past" ELSE fate[p]
    BY <1>5 DEF CancelWorker
  <2>3. \A p \in Prompts : typed'[p] = None
    BY <1>5 DEF CancelWorker
  <2> QED
    BY <1>5, <2>1, <2>2, <2>3
<1>6. CASE \/ NothingQueued \/ ShellEnds \/ Load \/ WakeUp \/ Dies \/ Shell
  BY <1>3, <1>6 DEF NothingQueued, ShellEnds, Load, WakeUp, Dies, Shell
<1>7. CASE Esc
  BY <1>4, <1>7 DEF Esc
<1>8. CASE Usage
  BY <1>5, <1>8 DEF Usage
<1>9. ASSUME NEW s \in Sessions, ClickHandoff(s)
      PROVE  UNCHANGED <<queue, editing>> /\ \A p \in Prompts : Kept(p)
  <2>1. CASE Interrupt
    BY <1>4, <1>9, <2>1 DEF ClickHandoff
  <2>2. CASE UNCHANGED <<request, why>>
    BY <1>3, <1>9, <2>2 DEF ClickHandoff, past
  <2> QED
    BY <1>9, <2>1, <2>2 DEF ClickHandoff
<1>10. ASSUME NEW s \in Sessions, Resume(s)
       PROVE  UNCHANGED <<queue, editing>> /\ \A p \in Prompts : Kept(p)
  <2>1. CASE CancelWorker
    BY <1>5, <1>10, <2>1 DEF Resume
  <2>2. CASE UNCHANGED past
    BY <1>3, <1>10, <2>2 DEF Resume
  <2> QED
    BY <1>10, <2>1, <2>2 DEF Resume
<1>11. ASSUME NEW s \in Sessions, NewSession(s)
       PROVE  UNCHANGED <<queue, editing>> /\ \A p \in Prompts : Kept(p)
  BY <1>11 DEF NewSession
<1> QED
  BY <1>1, <1>2, <1>6, <1>7, <1>8, <1>9, <1>10, <1>11 DEF Quiet

----------------------------------------------------------------------------
(* The steps that take a prompt from a queue or add one *)

OneRemoved(q, p) ==
  /\ p \in Range(queue[q])
  /\ IsInjective(queue'[q]) /\ Len(queue'[q]) = Len(queue[q]) - 1
  /\ Range(queue'[q]) = Range(queue[q]) \ {p}
  /\ \A x, y : Before(queue'[q], x, y) => Before(queue[q], x, y)
  /\ \A k \in Nat : From(queue'[q], k) \subseteq From(queue[q], k)
  /\ \A r \in Queues \ {q} : queue'[r] = queue[r]

OneAdded(q, p) ==
  /\ p \notin Queued
  /\ IsInjective(queue'[q]) /\ Len(queue'[q]) = Len(queue[q]) + 1
  /\ Range(queue'[q]) = Range(queue[q]) \cup {p}
  /\ \A r \in Queues \ {q} : queue'[r] = queue[r]

InPlace(s) ==
  /\ \A q \in Queues : IsInjective(s[q])
  /\ Range(s["steer"]) \cap Range(s["pending"]) = {}

(* Taking one prompt out of a queue leaves the others where they were. *)
LEMMA OneRemovedFacts ==
  ASSUME Types, Places, NEW q \in Queues, NEW p, OneRemoved(q, p)
  PROVE  /\ InPlace(queue') /\ Queued' = Queued \ {p} /\ p \in Queued /\ p \in Prompts
         /\ \A r \in Queues : Len(queue'[r]) = Len(queue[r]) - (IF r = q THEN 1 ELSE 0)
<1>1. p \in Queued /\ p \in Prompts
  BY QueueTypes DEF OneRemoved
<1>2. \A r \in Queues : Len(queue[r]) \in Nat
  BY QueueTypes
<1>3. CASE q = "steer"
  BY <1>1, <1>2, <1>3 DEF OneRemoved, Places, Queued, Queues, InPlace
<1>4. CASE q = "pending"
  BY <1>1, <1>2, <1>4 DEF OneRemoved, Places, Queued, Queues, InPlace
<1> QED
  BY <1>3, <1>4 DEF Queues

(* So does putting one in that waited nowhere. *)
LEMMA OneAddedFacts ==
  ASSUME Types, Places, NEW q \in Queues, NEW p, OneAdded(q, p)
  PROVE  /\ InPlace(queue') /\ Queued' = Queued \cup {p}
         /\ \A r \in Queues : Len(queue'[r]) = Len(queue[r]) + (IF r = q THEN 1 ELSE 0)
<1>1. \A r \in Queues : Len(queue[r]) \in Nat
  BY QueueTypes
<1>2. CASE q = "steer"
  BY <1>1, <1>2 DEF OneAdded, Places, Queued, Queues, InPlace
<1>3. CASE q = "pending"
  BY <1>1, <1>3 DEF OneAdded, Places, Queued, Queues, InPlace
<1> QED
  BY <1>2, <1>3 DEF Queues

(* The worker takes the head of its queue, which all others were behind. *)
LEMMA TakeRemoves ==
  ASSUME Types, Places, TakeNext
  PROVE  /\ OneRemoved(NextQueue, Head(queue[NextQueue]))
         /\ \A y \in Range(queue'[NextQueue]) : Before(queue[NextQueue], Head(queue[NextQueue]), y)
<1> DEFINE q == NextQueue
           s == queue[q]
<1>1. /\ q \in Queues /\ s # <<>> /\ s \in Seq(Prompts) /\ IsInjective(s)
      /\ queue' = [queue EXCEPT ![q] = Tail(s)]
  BY TakeFacts, QueueTypes DEF Places
<1>2. queue'[q] = Tail(s) /\ \A r \in Queues \ {q} : queue'[r] = queue[r]
  BY <1>1 DEF Types
<1> HIDE DEF s, q
<1>3. /\ Len(Tail(s)) = Len(s) - 1
      /\ Head(s) \in Range(s) /\ IsInjective(Tail(s))
      /\ Range(Tail(s)) = Range(s) \ {Head(s)}
      /\ \A x, y : Before(Tail(s), x, y) => Before(s, x, y)
      /\ \A k \in Nat : From(Tail(s), k) \subseteq From(s, k)
      /\ \A y \in Range(Tail(s)) : Before(s, Head(s), y)
  BY <1>1, TailFacts
<1>4. s = queue[q]
  BY DEF s
<1>5. OneRemoved(q, Head(s)) /\ \A y \in Range(queue'[q]) : Before(s, Head(s), y)
  BY <1>2, <1>3, <1>4 DEF OneRemoved
<1> QED
  BY <1>5 DEF s, q

(* A prompt removed at a place was before those that are there now. *)
LEMMA RemoveAtRemoves ==
  ASSUME Types, Places, NEW q \in Queues, NEW i \in 1 .. Len(queue[q]),
         queue' = [queue EXCEPT ![q] = RemoveAt(@, i)]
  PROVE  /\ OneRemoved(q, queue[q][i])
         /\ \A y \in From(queue'[q], i) : Before(queue[q], queue[q][i], y)
<1> DEFINE s == queue[q]
<1>1. s \in Seq(Prompts) /\ IsInjective(s) /\ i \in 1 .. Len(s)
  BY QueueTypes DEF Places
<1>2. queue'[q] = RemoveAt(s, i) /\ \A r \in Queues \ {q} : queue'[r] = queue[r]
  BY DEF Types
<1>3. s[i] \in Range(s)
  BY <1>1 DEF Range
<1> HIDE DEF s
<1>4. /\ Len(RemoveAt(s, i)) = Len(s) - 1
      /\ IsInjective(RemoveAt(s, i))
      /\ Range(RemoveAt(s, i)) = Range(s) \ {s[i]}
      /\ \A x, y : Before(RemoveAt(s, i), x, y) => Before(s, x, y)
      /\ \A k \in Nat : From(RemoveAt(s, i), k) \subseteq From(s, k)
      /\ \A y \in From(RemoveAt(s, i), i) : Before(s, s[i], y)
  BY <1>1, RemoveAtFacts
<1>5. s = queue[q]
  BY DEF s
<1> QED
  BY <1>2, <1>3, <1>4, <1>5 DEF OneRemoved

(* A prompt that is queued comes behind all others. *)
LEMMA EnqueueAdds ==
  ASSUME Types, Places, NEW q \in Queues, NEW p \in Prompts, p \notin Queued, Enqueued(q, p)
  PROVE  /\ OneAdded(q, p)
         /\ \A x, y : Before(queue'[q], x, y) =>
              Before(queue[q], x, y) \/ (y = p /\ x \in Range(queue[q]))
<1> DEFINE s == queue[q]
<1>1. s \in Seq(Prompts) /\ IsInjective(s) /\ p \notin Range(s)
  BY QueueTypes DEF Places
<1>2. queue'[q] = Append(s, p) /\ \A r \in Queues \ {q} : queue'[r] = queue[r]
  BY DEF Types, Enqueued
<1> HIDE DEF s
<1>3. /\ Len(Append(s, p)) = Len(s) + 1 /\ IsInjective(Append(s, p))
      /\ Range(Append(s, p)) = Range(s) \cup {p}
      /\ \A x, y : Before(Append(s, p), x, y) => Before(s, x, y) \/ (y = p /\ x \in Range(s))
  BY <1>1, AppendFacts
<1>4. s = queue[q]
  BY DEF s
<1> QED
  BY <1>2, <1>3, <1>4 DEF OneAdded

(* An edited prompt goes back before those that were behind it. *)
LEMMA EndEditAdds ==
  ASSUME Types, Places, EndEdit
  PROVE  /\ editing \in Edits /\ editing.prompt \in Prompts /\ editing.from \in Queues
         /\ OneAdded(editing.from, editing.prompt)
         /\ \A x, y : Before(queue'[editing.from], x, y) =>
              \/ Before(queue[editing.from], x, y) \/ y = editing.prompt
              \/ x = editing.prompt /\ y \in From(queue[editing.from], editing.at)
<1> DEFINE q == editing.from
           p == editing.prompt
           i == editing.at
           s == queue[q]
<1>1. editing \in Edits
  BY DEF EndEdit, Types
<1>2. q \in Queues /\ p \in Prompts /\ i \in Nat \ {0} /\ Edited(p)
  BY <1>1, BoundsAssumption DEF Edits, EndEdit, Edited
<1>3. p \notin Queued
  BY <1>2 DEF Places
<1>4. s \in Seq(Prompts) /\ IsInjective(s) /\ p \notin Range(s) /\ Len(s) \in Nat
  BY <1>2, <1>3, QueueTypes DEF Places
<1>5. /\ queue'[q] = IF i <= Len(s) THEN InsertAt(s, i, p) ELSE Append(s, p)
      /\ \A r \in Queues \ {q} : queue'[r] = queue[r]
  BY <1>2 DEF EndEdit, Types
<1>6. s = queue[q]
  OBVIOUS
<1> HIDE DEF s, q, p, i
<1>7. /\ Len(queue'[q]) = Len(s) + 1 /\ IsInjective(queue'[q])
      /\ Range(queue'[q]) = Range(s) \cup {p}
      /\ \A x, y : Before(queue'[q], x, y) =>
           Before(s, x, y) \/ y = p \/ (x = p /\ y \in From(s, i))
  <2>1. CASE i <= Len(s)
    <3>1. i \in 1 .. Len(s)
      BY <1>2, <1>4, <2>1
    <3>2. /\ Len(InsertAt(s, i, p)) = Len(s) + 1 /\ IsInjective(InsertAt(s, i, p))
          /\ Range(InsertAt(s, i, p)) = Range(s) \cup {p}
          /\ \A x, y : Before(InsertAt(s, i, p), x, y) =>
               Before(s, x, y) \/ y = p \/ (x = p /\ y \in From(s, i))
      BY <1>2, <1>4, <3>1, InsertAtFacts
    <3> QED
      BY <1>5, <2>1, <3>2
  <2>2. CASE ~(i <= Len(s))
    <3>1. /\ Len(Append(s, p)) = Len(s) + 1 /\ IsInjective(Append(s, p))
          /\ Range(Append(s, p)) = Range(s) \cup {p}
          /\ \A x, y : Before(Append(s, p), x, y) => Before(s, x, y) \/ y = p
      BY <1>2, <1>4, AppendFacts
    <3> QED
      BY <1>5, <2>2, <3>1
  <2> QED
    BY <2>1, <2>2
<1>8. OneAdded(q, p)
  BY <1>3, <1>5, <1>6, <1>7 DEF OneAdded
<1>9. \A x, y : Before(queue'[q], x, y) =>
        Before(queue[q], x, y) \/ y = p \/ (x = p /\ y \in From(queue[q], i))
  BY <1>6, <1>7
<1> QED
  BY <1>1, <1>2, <1>8, <1>9 DEF q, p, i

----------------------------------------------------------------------------
(* Every step keeps the invariant *)

(* A prompt is deleted, or taken to the editor. *)
LEMMA DeleteFacts ==
  ASSUME Types, Places, NEW q \in Queues, NEW i \in 1 .. MaxQueue, Delete(q, i)
  PROVE  /\ OneRemoved(q, queue[q][i]) /\ editing = None
         /\ queue[q][i] \in Prompts /\ fate[queue[q][i]] = "waiting"
<1>1. i \in 1 .. Len(queue[q]) /\ editing = None
  BY QueueTypes DEF Delete, CanType
<1>2. OneRemoved(q, queue[q][i])
  BY <1>1, RemoveAtRemoves DEF Delete
<1>3. queue[q][i] \in Queued /\ queue[q][i] \in Prompts
  BY <1>2, OneRemovedFacts
<1> QED
  BY <1>1, <1>2, <1>3 DEF Places

(* An edit takes its prompt out of the queue and remembers the place. *)
LEMMA StartEditFacts ==
  ASSUME Types, Places, NEW q \in Queues, NEW i \in 1 .. MaxQueue, StartEdit(q, i)
  PROVE  /\ OneRemoved(q, queue[q][i]) /\ editing = None
         /\ queue[q][i] \in Prompts
         /\ editing' = [from |-> q, at |-> i, prompt |-> queue[q][i]]
         /\ editing' # None
         /\ \A y \in From(queue'[q], i) : Before(queue[q], queue[q][i], y)
<1>1. i \in 1 .. Len(queue[q]) /\ editing = None
  BY QueueTypes DEF StartEdit, CanType
<1>2. /\ OneRemoved(q, queue[q][i])
      /\ \A y \in From(queue'[q], i) : Before(queue[q], queue[q][i], y)
  BY <1>1, RemoveAtRemoves DEF StartEdit
<1>3. queue[q][i] \in Prompts
  BY <1>2, OneRemovedFacts
<1>4. editing' = [from |-> q, at |-> i, prompt |-> queue[q][i]]
  BY DEF StartEdit
<1>5. editing' # None
  BY <1>3, <1>4, NoneAssumption DEF Edits
<1> QED
  BY <1>1, <1>2, <1>3, <1>4, <1>5

(* A stop empties the queues, and what waited in them is past. *)
LEMMA StoppedFacts ==
  ASSUME Types, Places, Stopped
  PROVE  /\ \A q \in Queues : queue'[q] = <<>>
         /\ Queued' = {} /\ UNCHANGED editing
         /\ \A p \in Prompts : fate'[p] = IF p \in Queued THEN "past" ELSE fate[p]
<1>1. \A q \in Queues : queue'[q] = <<>>
  BY DEF Stopped
<1>2. Range(<<>>) = {}
  BY DEF Range
<1>3. Queued' = {}
  BY <1>1, <1>2 DEF Queued, Queues
<1> QED
  BY <1>1, <1>3 DEF Stopped, Forget

(* Every step keeps the prompts numbered in the order they were typed. *)
LEMMA NumberedStep ==
  ASSUME Types, Numbered, Places, Sending, Next
  PROVE  Numbered'
<1>1. ASSUME \A p \in Prompts : fate'[p] = "untyped" <=> fate[p] = "untyped"
      PROVE  Numbered'
  BY <1>1 DEF Numbered
<1>2. CASE Quiet
  BY <1>1, <1>2, QuietFacts DEF Kept
<1>3. CASE Stopped
  BY <1>1, <1>3, StoppedFacts DEF Places
<1>4. CASE TakeNext
  <2>1. Head(queue[NextQueue]) \in Queued
    BY <1>4, TakeFacts, QueueTypes
  <2>2. fate' = [fate EXCEPT ![Head(queue[NextQueue])] = "sending"]
        /\ fate[Head(queue[NextQueue])] = "waiting"
    BY <1>4, <2>1, QueueTypes DEF TakeNext, Places
  <2> QED
    BY <1>1, <2>2 DEF Types
<1>5. CASE EndEdit
  BY <1>1, <1>5 DEF EndEdit
<1>6. ASSUME NEW q \in Queues, Submit(q)
      PROVE  Numbered'
  <2>1. PICK p \in Prompts : /\ fate[p] = "untyped" /\ p = Count + 1
                             /\ SentAtOnce(p) \/ Enqueued(q, p) \/ Refused(p)
    BY <1>6, SubmitCases
  <2>2. \A r \in Prompts : fate'[r] = "untyped" <=> r # p /\ fate[r] = "untyped"
    BY <2>1 DEF Types, SentAtOnce, Enqueued, Refused, Forget
  <2>3. p \in 0 .. MaxPrompts /\ Count \in 0 .. MaxPrompts
    BY CountFacts, BoundsAssumption DEF Prompts
  <2>4. \A r \in Prompts : fate'[r] # "untyped" <=> r <= p
    BY <2>1, <2>2, <2>3, CountFacts DEF Prompts
  <2> QED
    BY <2>3, <2>4 DEF Numbered
<1>7. ASSUME NEW q \in Queues, NEW i \in 1 .. MaxQueue, Delete(q, i) \/ StartEdit(q, i)
      PROVE  Numbered'
  <2>1. CASE Delete(q, i)
    <3>1. /\ \A p \in Prompts : fate'[p] = IF p = queue[q][i] THEN "past" ELSE fate[p]
          /\ fate[queue[q][i]] = "waiting"
      BY <2>1, DeleteFacts DEF Delete, Forget
    <3> QED
      BY <1>1, <3>1
  <2>2. CASE StartEdit(q, i)
    BY <1>1, <2>2 DEF StartEdit, past
  <2> QED
    BY <1>7, <2>1, <2>2
<1> QED
  BY NextCases, <1>2, <1>3, <1>4, <1>5, <1>6, <1>7

(* Every step keeps each waiting prompt in one place. *)
LEMMA PlacesStep ==
  ASSUME Types, Numbered, Places, Sending, Next
  PROVE  Places'
<1>0. \A p \in Queued : p \in Prompts
  BY QueueTypes
<1>1. ASSUME /\ InPlace(queue')
             /\ \A p \in Queued' : ~Edited(p)'
             /\ \A p \in Prompts : fate'[p] = "waiting" <=> p \in Queued' \/ Edited(p)'
      PROVE  Places'
  BY <1>1 DEF Places, InPlace
<1>2. CASE Quiet
  BY <1>2, QuietFacts DEF Places, Kept, InPlace, Edited, Queued
<1>3. CASE Stopped
  <2>1. IsInjective(<<>>) /\ Range(<<>>) = {}
    BY DEF IsInjective, Range
  <2>2. InPlace(queue')
    BY <1>3, <2>1, StoppedFacts DEF InPlace, Queues
  <2> QED
    BY <1>1, <1>3, <2>2, StoppedFacts DEF Places, Edited
<1>4. CASE TakeNext
  <2> DEFINE p == Head(queue[NextQueue])
  <2>1. InPlace(queue') /\ Queued' = Queued \ {p} /\ p \in Queued /\ p \in Prompts
    BY <1>4, TakeFacts, TakeRemoves, OneRemovedFacts
  <2>2. \A r \in Prompts : fate'[r] = IF r = p THEN "sending" ELSE fate[r]
    BY <1>4 DEF TakeNext, Types
  <2>3. UNCHANGED editing
    BY <1>4 DEF TakeNext
  <2> HIDE DEF p
  <2> QED
    BY <1>1, <2>1, <2>2, <2>3 DEF Places, Edited
<1>5. CASE EndEdit
  <2>1. /\ InPlace(queue') /\ Queued' = Queued \cup {editing.prompt}
    BY <1>5, EndEditAdds, OneAddedFacts
  <2>2. editing # None /\ editing' = None /\ fate' = fate
    BY <1>5 DEF EndEdit
  <2> QED
    BY <1>1, <2>1, <2>2 DEF Places, Edited
<1>6. ASSUME NEW q \in Queues, Submit(q)
      PROVE  Places'
  <2>1. PICK p \in Prompts : /\ fate[p] = "untyped" /\ p \notin Queued
                             /\ SentAtOnce(p) \/ Enqueued(q, p) \/ Refused(p)
    BY <1>6, SubmitCases
  <2>2. editing = None /\ editing' = None
    BY <1>6, SubmitCases
  <2>3. CASE Enqueued(q, p)
    <3>1. InPlace(queue') /\ Queued' = Queued \cup {p}
      BY <2>1, <2>3, EnqueueAdds, OneAddedFacts
    <3>2. \A r \in Prompts : fate'[r] = IF r = p THEN "waiting" ELSE fate[r]
      BY <2>3 DEF Enqueued, Types
    <3> QED
      BY <1>1, <2>2, <3>1, <3>2 DEF Places, Edited
  <2>4. CASE SentAtOnce(p) \/ Refused(p)
    <3>1. queue' = queue /\ Queued' = Queued
      BY <2>4 DEF SentAtOnce, Refused, Queued
    <3>2. \A r \in Prompts : r # p => fate'[r] = fate[r]
      BY <2>4 DEF SentAtOnce, Refused, Forget, Types
    <3>3. fate'[p] # "waiting"
      BY <2>4 DEF SentAtOnce, Refused, Forget, Types
    <3> QED
      BY <1>1, <2>1, <2>2, <3>1, <3>2, <3>3 DEF Places, Edited, InPlace
  <2> QED
    BY <2>1, <2>3, <2>4
<1>7. ASSUME NEW q \in Queues, NEW i \in 1 .. MaxQueue, Delete(q, i)
      PROVE  Places'
  <2> DEFINE p == queue[q][i]
  <2>1. InPlace(queue') /\ Queued' = Queued \ {p} /\ p \in Queued /\ p \in Prompts
    BY <1>7, DeleteFacts, OneRemovedFacts
  <2>2. \A r \in Prompts : fate'[r] = IF r = p THEN "past" ELSE fate[r]
    BY <1>7 DEF Delete, Forget
  <2>3. UNCHANGED editing
    BY <1>7 DEF Delete
  <2> HIDE DEF p
  <2> QED
    BY <1>1, <2>1, <2>2, <2>3 DEF Places, Edited
<1>8. ASSUME NEW q \in Queues, NEW i \in 1 .. MaxQueue, StartEdit(q, i)
      PROVE  Places'
  <2> DEFINE p == queue[q][i]
  <2>1. InPlace(queue') /\ Queued' = Queued \ {p} /\ p \in Queued /\ p \in Prompts
    BY <1>8, StartEditFacts, OneRemovedFacts
  <2>2. editing = None /\ editing' # None /\ editing'.prompt = p /\ fate' = fate
    BY <1>8, StartEditFacts DEF StartEdit, past
  <2> HIDE DEF p
  <2> QED
    BY <1>1, <2>1, <2>2 DEF Places, Edited
<1> QED
  BY NextCases, <1>2, <1>3, <1>4, <1>5, <1>6, <1>7, <1>8

(* The room a queue takes: the edited prompt keeps its place. *)
Slot(q) == IF editing # None /\ editing.from = q THEN 1 ELSE 0

(* A queue and the slot kept for an edit fit the bound together. *)
LEMMA SizeFacts ==
  ASSUME Types, Sizes, NEW q \in Queues
  PROVE  /\ MaxQueue \in Nat /\ MaxQueue >= 1
         /\ Len(queue[q]) \in Nat /\ Slot(q) \in {0, 1}
         /\ Len(queue[q]) + Slot(q) <= MaxQueue
<1>1. Len(queue[q]) \in Nat
  BY QueueTypes
<1>2. Len(queue[q]) + Slot(q) <= MaxQueue
  BY DEF Sizes, Slot
<1>3. MaxQueue \in Nat /\ MaxQueue >= 1
  BY BoundsAssumption
<1> QED
  BY <1>1, <1>2, <1>3 DEF Slot

(* Every step keeps the queues within their bound. *)
LEMMA SizesStep ==
  ASSUME Types, Numbered, Places, Sending, Sizes, Next
  PROVE  Sizes'
<1>1. SUFFICES ASSUME NEW r \in Queues
               PROVE  Len(queue'[r]) + Slot(r)' <= MaxQueue
  BY DEF Sizes, Slot
<1> DEFINE len == Len(queue[r])
           new == Len(queue'[r])
<1>2. /\ MaxQueue \in Nat /\ MaxQueue >= 1 /\ len \in Nat /\ Slot(r) \in {0, 1}
      /\ len + Slot(r) <= MaxQueue
  BY SizeFacts
<1>3. ASSUME UNCHANGED editing, new \in {len, len - 1, 0}
      PROVE  new + Slot(r)' <= MaxQueue
  <2>1. Slot(r)' = Slot(r)
    BY <1>3 DEF Slot
  <2> HIDE DEF len, new
  <2> QED
    BY <1>2, <1>3, <2>1
<1>4. CASE Quiet
  BY <1>3, <1>4, QuietFacts
<1>5. CASE Stopped
  BY <1>3, <1>5, StoppedFacts, EmptySeq
<1>6. CASE TakeNext
  <2>1. new = len - (IF r = NextQueue THEN 1 ELSE 0)
    BY <1>6, TakeFacts, TakeRemoves, OneRemovedFacts
  <2>2. UNCHANGED editing
    BY <1>6 DEF TakeNext
  <2>3. new \in {len, len - 1}
    <3> HIDE DEF len, new
    <3> QED
      BY <1>2, <2>1
  <2> QED
    BY <1>3, <2>2, <2>3
<1>7. CASE EndEdit
  <2>1. new = len + (IF r = editing.from THEN 1 ELSE 0)
    BY <1>7, EndEditAdds, OneAddedFacts
  <2>2. editing # None /\ editing' = None
    BY <1>7 DEF EndEdit
  <2>3. Slot(r) = (IF r = editing.from THEN 1 ELSE 0) /\ Slot(r)' = 0
    BY <2>2 DEF Slot
  <2> HIDE DEF len, new
  <2>4. new + Slot(r)' <= MaxQueue
    BY <1>2, <2>1, <2>3
  <2> QED
    BY <2>4 DEF new
<1>8. ASSUME NEW q \in Queues, Submit(q)
      PROVE  new + Slot(r)' <= MaxQueue
  <2>1. PICK p \in Prompts : /\ p \notin Queued
                             /\ SentAtOnce(p) \/ Enqueued(q, p) \/ Refused(p)
    BY <1>8, SubmitCases
  <2>2. editing = None /\ editing' = None
    BY <1>8, SubmitCases
  <2>3. CASE Enqueued(q, p)
    <3>1. new = len + (IF r = q THEN 1 ELSE 0)
      BY <2>1, <2>3, EnqueueAdds, OneAddedFacts
    <3>2. r = q => len < MaxQueue
      BY <2>3 DEF Enqueued
    <3>3. Slot(r) = 0 /\ Slot(r)' = 0
      BY <2>2 DEF Slot
    <3> HIDE DEF len, new
    <3> QED
      BY <1>2, <3>1, <3>2, <3>3
  <2>4. CASE SentAtOnce(p) \/ Refused(p)
    BY <1>3, <2>2, <2>4 DEF SentAtOnce, Refused
  <2> QED
    BY <2>1, <2>3, <2>4
<1>9. ASSUME NEW q \in Queues, NEW i \in 1 .. MaxQueue, Delete(q, i)
      PROVE  new + Slot(r)' <= MaxQueue
  <2>1. new = len - (IF r = q THEN 1 ELSE 0)
    BY <1>9, DeleteFacts, OneRemovedFacts
  <2>2. UNCHANGED editing
    BY <1>9 DEF Delete
  <2>3. new \in {len, len - 1}
    <3> HIDE DEF len, new
    <3> QED
      BY <1>2, <2>1
  <2> QED
    BY <1>3, <2>2, <2>3
<1>10. ASSUME NEW q \in Queues, NEW i \in 1 .. MaxQueue, StartEdit(q, i)
       PROVE  new + Slot(r)' <= MaxQueue
  <2>1. new = len - (IF r = q THEN 1 ELSE 0)
    BY <1>10, StartEditFacts, OneRemovedFacts
  <2>2. editing' # None /\ editing'.from = q /\ editing = None
    BY <1>10, StartEditFacts
  <2>3. Slot(r) = 0 /\ Slot(r)' = IF r = q THEN 1 ELSE 0
    BY <2>2 DEF Slot
  <2> HIDE DEF len, new
  <2> QED
    BY <1>2, <2>1, <2>3
<1> QED
  BY NextCases, <1>4, <1>5, <1>6, <1>7, <1>8, <1>9, <1>10

(* Every step keeps the prompt in hand marked as being sent. *)
LEMMA SendingStep ==
  ASSUME Types, Numbered, Places, Sending, Next
  PROVE  Sending'
<1>1. ASSUME UNCHANGED <<worker, current>>,
             worker = "begin" /\ current # Nothing => fate'[current.prompt] = fate[current.prompt]
      PROVE  Sending'
  BY <1>1 DEF Sending
<1>2. worker = "begin" /\ current # Nothing =>
        current.prompt \in Prompts /\ fate[current.prompt] = "sending"
  BY DEF Types, Sending
<1>3. CASE Quiet
  <2>1. ASSUME worker' # "begin" \/ current' = Nothing
        PROVE  Sending'
    BY <2>1 DEF Sending
  <2>2. ASSUME CancelWorker
        PROVE  Sending'
    BY <2>1, <2>2 DEF CancelWorker
  <2>3. CASE TurnStarts \/ TurnEnds \/ NothingQueued \/ ShellEnds \/ WakeUp \/ Dies \/ Shell
             \/ Usage
    BY <2>1, <2>2, <2>3 DEF TurnStarts, TurnEnds, NothingQueued, ShellEnds, WakeUp, Dies, Shell,
       Usage, Begin, EndRun
  <2>4. CASE Load \/ Esc
    BY <1>1, <2>4 DEF Load, Esc, run, past
  <2>5. ASSUME NEW s \in Sessions, ClickHandoff(s) \/ Resume(s) \/ NewSession(s)
        PROVE  Sending'
    BY <1>1, <2>2, <2>5 DEF ClickHandoff, Resume, NewSession, run, past
  <2> QED
    BY <1>3, <2>3, <2>4, <2>5 DEF Quiet
<1>4. CASE Stopped
  BY <1>4 DEF Stopped, EndRun, Sending
<1>5. CASE TakeNext
  BY <1>5, TakeFacts DEF TakeNext, Sending, Types
<1>6. CASE EndEdit
  BY <1>1, <1>6 DEF EndEdit, run
<1>7. ASSUME NEW q \in Queues, Submit(q)
      PROVE  Sending'
  <2>1. PICK p \in Prompts : /\ fate[p] = "untyped"
                             /\ SentAtOnce(p) \/ Enqueued(q, p) \/ Refused(p)
    BY <1>7, SubmitCases
  <2>2. CASE SentAtOnce(p)
    BY <2>2 DEF SentAtOnce, Begin, Sending, Types
  <2>3. CASE Enqueued(q, p) \/ Refused(p)
    BY <1>1, <1>2, <2>1, <2>3 DEF Enqueued, Refused, Forget, Types
  <2> QED
    BY <2>1, <2>2, <2>3
<1>8. ASSUME NEW q \in Queues, NEW i \in 1 .. MaxQueue, Delete(q, i)
      PROVE  Sending'
  <2>1. queue[q][i] \in Prompts /\ fate[queue[q][i]] = "waiting"
    BY <1>8, DeleteFacts
  <2> QED
    BY <1>1, <1>2, <1>8, <2>1 DEF Delete, Forget, run
<1>9. ASSUME NEW q \in Queues, NEW i \in 1 .. MaxQueue, StartEdit(q, i)
      PROVE  Sending'
  BY <1>1, <1>9 DEF StartEdit, run, past
<1> QED
  BY NextCases, <1>3, <1>4, <1>5, <1>6, <1>7, <1>8, <1>9

(* The steps that cancel the worker, and those that end a run. *)
LEMMA CancelFacts ==
  ASSUME Types, Places, CancelWorker, UNCHANGED queue
  PROVE  /\ worker' = "dying" /\ event' = "none" /\ Queued' = Queued
         /\ interrupt' = interrupt /\ switch' = switch
         /\ interrupt => "interrupt" \in stale'
         /\ switch # None => "switch" \in stale'
         /\ \A p \in Queued : why'[p] = why[p] \cup {"left"}
<1>1. \A p \in Queued : p \in Prompts
  BY QueueTypes
<1> QED
  BY <1>1 DEF CancelWorker, Queued

(* A request to stop or switch that outlives its run is a stale one. *)
LEMMA RequestsStep ==
  ASSUME Types, Numbered, Places, Requests, Next
  PROVE  Requests'
<1> USE DEF Types, Without
<1>1. ASSUME UNCHANGED <<worker, interrupt, event, switch, loading, stale>>
      PROVE  Requests'
  BY <1>1 DEF Requests
<1>2. ASSUME EndRun, worker \in {"settling", "stopping"}
      PROVE  Requests'
  BY <1>2 DEF EndRun, Requests
<1>3. ASSUME CancelWorker, UNCHANGED queue, loading' = loading \/ loading' \in Sessions,
             worker \notin {"none", "dying"}
      PROVE  Requests'
  BY <1>3, CancelFacts DEF Requests
<1>4. ASSUME Begin(current'), UNCHANGED <<switch, stale>>, loading' = None
      PROVE  Requests'
  BY <1>4 DEF Begin, Requests
<1>5. ASSUME Interrupt, UNCHANGED <<worker, loading>>,
             stale \subseteq stale', event = "none" => "interrupt" \in stale',
             switch' = switch \/ worker \notin Without \/ "switch" \in stale'
      PROVE  Requests'
  BY <1>5 DEF Interrupt, Requests
<1>6. CASE TurnStarts
  BY <1>6 DEF TurnStarts, Requests, request
<1>7. CASE TurnEnds
  BY <1>7 DEF TurnEnds, Requests
<1>8. CASE Stopped
  BY <1>2, <1>8 DEF Stopped
<1>9. CASE TakeNext
  BY <1>4, <1>9 DEF TakeNext, Requests, Begin
<1>10. CASE NothingQueued
  BY <1>2, <1>4, <1>10 DEF NothingQueued, Requests, Begin
<1>11. CASE ShellEnds
  <2>1. CASE Begin(Nothing)
    BY <1>4, <1>11, <2>1 DEF ShellEnds, Requests, Begin
  <2>2. CASE worker' = "none"
    BY <1>11, <2>2 DEF ShellEnds, Requests, Begin
  <2> QED
    BY <1>11, <2>1, <2>2 DEF ShellEnds
<1>12. CASE Load
  BY <1>12 DEF Load, Requests, run, request
<1>13. CASE WakeUp
  BY <1>4, <1>13 DEF WakeUp, Begin
<1>14. CASE Dies
  BY <1>14 DEF Dies, Requests
<1>15. CASE Shell
  BY <1>15 DEF Shell, Requests, CanType
<1>16. CASE Esc
  BY <1>5, <1>16 DEF Esc, run
<1>17. CASE Usage
  BY <1>3, <1>17 DEF Usage, CancelWorker
<1>18. CASE EndEdit
  BY <1>1, <1>18 DEF EndEdit, run, request
<1>19. ASSUME NEW q \in Queues, Submit(q)
       PROVE  Requests'
  <2>1. PICK p \in Prompts : SentAtOnce(p) \/ Enqueued(q, p) \/ Refused(p)
    BY <1>19, SubmitCases
  <2>2. UNCHANGED <<switch, stale, loading>> /\ loading = None
    BY <1>19, SubmitCases
  <2>3. CASE SentAtOnce(p)
    BY <1>4, <2>2, <2>3 DEF SentAtOnce, Begin
  <2>4. CASE Enqueued(q, p) \/ Refused(p)
    BY <1>1, <2>2, <2>4 DEF Enqueued, Refused
  <2> QED
    BY <2>1, <2>3, <2>4
<1>20. ASSUME NEW s \in Sessions, ClickHandoff(s)
       PROVE  Requests'
  <2>1. CASE Interrupt
    <3>1. worker # "none"
      BY <2>1 DEF Interrupt
    <3> QED
      BY <1>5, <1>20, <2>1, <3>1 DEF ClickHandoff, run
  <2>2. CASE ~running /\ loading' = s /\ UNCHANGED <<request, why>>
    BY <1>20, <2>2 DEF ClickHandoff, Requests, run, request
  <2> QED
    BY <1>20, <2>1, <2>2 DEF ClickHandoff
<1>21. ASSUME NEW s \in Sessions, Resume(s)
       PROVE  Requests'
  <2>1. CASE CancelWorker
    BY <1>3, <1>21, <2>1 DEF Resume, CancelWorker
  <2>2. CASE worker \in {"none", "dying"} /\ UNCHANGED <<run, request, past>>
    BY <1>21, <2>2 DEF Resume, Requests, run, request
  <2> QED
    BY <1>21, <2>1, <2>2 DEF Resume
<1>22. ASSUME NEW s \in Sessions, NewSession(s)
       PROVE  Requests'
  BY <1>1, <1>22 DEF NewSession, run, request
<1>23. ASSUME NEW q \in Queues, NEW i \in 1 .. MaxQueue, Delete(q, i) \/ StartEdit(q, i)
       PROVE  Requests'
  BY <1>1, <1>23 DEF Delete, StartEdit, run, request
<1> QED
  BY <1>6, <1>7, <1>8, <1>9, <1>10, <1>11, <1>12, <1>13, <1>14, <1>15, <1>16, <1>17, <1>18,
     <1>19, <1>20, <1>21, <1>22, <1>23 DEF Next

(* What waits where no worker is left was left behind. *)
LEMMA LeftBehindStep ==
  ASSUME Types, Numbered, Places, Sending, LeftBehind, Next
  PROVE  LeftBehind'
<1> USE DEF Without
<1>0. \A p \in Queued : p \in Prompts
  BY QueueTypes
<1>1. ASSUME worker' \notin Without
      PROVE  LeftBehind'
  BY <1>1 DEF LeftBehind
<1>2. ASSUME Queued' \subseteq Queued, worker' \in Without => worker \in Without,
             \A p \in Queued' : why[p] \ {"stopped"} \subseteq why'[p]
      PROVE  LeftBehind'
  BY <1>2 DEF LeftBehind
<1>3. CASE Quiet
  <2>1. Queued' = Queued /\ \A p \in Queued : why[p] \ {"stopped"} \subseteq why'[p]
    BY <1>0, <1>3, QuietFacts DEF Kept, Queued
  <2>2. ASSUME worker' \in Without => worker \in Without
        PROVE  LeftBehind'
    BY <1>2, <2>1, <2>2
  <2>3. ASSUME CancelWorker, UNCHANGED queue
        PROVE  LeftBehind'
    BY <2>1, <2>3, CancelFacts DEF LeftBehind
  <2>4. CASE TurnStarts \/ TurnEnds \/ WakeUp
    <3>1. worker' \notin Without
      BY <2>4 DEF TurnStarts, TurnEnds, WakeUp, Begin
    <3> QED
      BY <1>1, <3>1
  <2>5. CASE ShellEnds \/ Load \/ Dies \/ Shell \/ Esc
    <3>1. worker' \in Without => worker \in Without
      BY <2>5 DEF ShellEnds, Load, Dies, Shell, Esc, Begin, run, Types
    <3> QED
      BY <2>2, <3>1
  <2>6. CASE NothingQueued
    BY <2>1, <2>6 DEF NothingQueued, LeftBehind
  <2>7. CASE Usage
    BY <2>3, <2>7 DEF Usage
  <2>8. ASSUME NEW s \in Sessions, ClickHandoff(s) \/ Resume(s) \/ NewSession(s)
        PROVE  LeftBehind'
    BY <2>2, <2>3, <2>8 DEF ClickHandoff, Resume, NewSession, run
  <2> QED
    BY <1>3, <2>4, <2>5, <2>6, <2>7, <2>8 DEF Quiet
<1>4. CASE Stopped
  BY <1>4, StoppedFacts DEF LeftBehind
<1>5. CASE TakeNext
  BY <1>1, <1>5 DEF TakeNext, Begin
<1>6. CASE EndEdit
  <2>1. editing.prompt \in Prompts /\ Queued' = Queued \cup {editing.prompt}
    BY <1>6, EndEditAdds, OneAddedFacts
  <2>2. worker' = worker
    BY <1>6 DEF EndEdit, run
  <2>3. \A p \in Prompts : why[p] \subseteq why'[p]
    BY <1>6 DEF EndEdit, Blame
  <2>4. worker \in Without => "left" \in why'[editing.prompt]
    BY <1>6, <2>1 DEF EndEdit, Blame, CausesNow
  <2> QED
    BY <1>0, <2>1, <2>2, <2>3, <2>4 DEF LeftBehind
<1>7. ASSUME NEW q \in Queues, Submit(q)
      PROVE  LeftBehind'
  <2>1. PICK p \in Prompts : /\ fate[p] = "untyped" /\ p \notin Queued
                             /\ SentAtOnce(p) \/ Enqueued(q, p) \/ Refused(p)
    BY <1>7, SubmitCases
  <2>2. CASE SentAtOnce(p)
    BY <1>1, <2>2 DEF SentAtOnce, Begin
  <2>3. CASE Enqueued(q, p)
    <3>1. Queued' = Queued \cup {p} /\ worker' = worker
      BY <2>1, <2>3, EnqueueAdds, OneAddedFacts DEF Enqueued
    <3>2. \A r \in Prompts : why[r] \subseteq why'[r]
      BY <2>3 DEF Enqueued, Blame
    <3>3. worker \in Without => "left" \in why'[p]
      BY <2>3 DEF Enqueued, Blame, CausesNow
    <3> QED
      BY <1>0, <3>1, <3>2, <3>3 DEF LeftBehind
  <2>4. CASE Refused(p)
    <3>1. Queued' = Queued /\ worker' = worker
      BY <2>4 DEF Refused, Queued
    <3>2. \A r \in Prompts : r # p => why'[r] = why[r]
      BY <2>4 DEF Refused, Forget
    <3> QED
      BY <1>0, <1>2, <2>1, <3>1, <3>2
  <2> QED
    BY <2>1, <2>2, <2>3, <2>4
<1>8. ASSUME NEW q \in Queues, NEW i \in 1 .. MaxQueue, Delete(q, i)
      PROVE  LeftBehind'
  <2> DEFINE p == queue[q][i]
  <2>1. Queued' = Queued \ {p}
    BY <1>8, DeleteFacts, OneRemovedFacts
  <2>2. worker' = worker /\ \A r \in Prompts : r # p => why'[r] = why[r]
    BY <1>8 DEF Delete, Forget, run
  <2> HIDE DEF p
  <2> QED
    BY <1>0, <1>2, <2>1, <2>2
<1>9. ASSUME NEW q \in Queues, NEW i \in 1 .. MaxQueue, StartEdit(q, i)
      PROVE  LeftBehind'
  <2>1. Queued' \subseteq Queued
    BY <1>9, StartEditFacts, OneRemovedFacts
  <2>2. worker' = worker /\ why' = why
    BY <1>9 DEF StartEdit, run, past
  <2> QED
    BY <1>2, <2>1, <2>2
<1> QED
  BY NextCases, <1>3, <1>4, <1>5, <1>6, <1>7, <1>8, <1>9

(* A prompt is about to be sent after a quiet step only if it was before. *)
LEMMA QuietSending ==
  ASSUME Types, Places, Quiet
  PROVE  worker' = "begin" /\ current' # Nothing => worker = "begin" /\ current' = current
<1>1. CASE TurnStarts \/ TurnEnds
  <2>1. worker' # "begin"
    BY <1>1 DEF TurnStarts, TurnEnds
  <2> QED
    BY <2>1
<1>2. CASE NothingQueued \/ ShellEnds \/ WakeUp
  BY <1>2 DEF NothingQueued, ShellEnds, WakeUp, Begin, EndRun
<1>3. CASE Dies \/ Shell \/ Usage
  BY <1>3 DEF Dies, Shell, Usage, CancelWorker
<1>4. CASE Load \/ Esc
  BY <1>4 DEF Load, Esc, run
<1>5. ASSUME NEW s \in Sessions, ClickHandoff(s) \/ Resume(s) \/ NewSession(s)
      PROVE  worker' = "begin" => worker = "begin" /\ current' = current
  BY <1>5 DEF ClickHandoff, Resume, NewSession, CancelWorker, run
<1> QED
  BY <1>1, <1>2, <1>3, <1>4, <1>5 DEF Quiet

(* The other steps leave a prompt that is about to be sent as it is, but   *)
(* for those that send one.                                                *)
LEMMA SendingFacts ==
  ASSUME Types, Numbered, Places, Sending, worker = "begin", current # Nothing
  PROVE  /\ current.prompt \in Prompts /\ fate[current.prompt] = "sending"
         /\ current.prompt \notin Queued /\ ~Edited(current.prompt)
         /\ current.prompt < Count + 1
<1>1. current.prompt \in Prompts /\ fate[current.prompt] = "sending"
  BY DEF Types, Sending
<1>2. current.prompt \notin Queued /\ ~Edited(current.prompt)
  BY <1>1 DEF Places
<1>3. current.prompt < Count + 1
  BY <1>1, CountFacts DEF Prompts
<1> QED
  BY <1>1, <1>2, <1>3

(* What waits or is in hand belongs where it was typed. *)
LEMMA TypedStep ==
  ASSUME IInv, Next
  PROVE  Typed'
<1> USE DEF IInv, SentWhereTyped
<1>0. \A p \in Queued : p \in Prompts
  BY QueueTypes
<1>1. ASSUME Queued' \subseteq Queued, session' = session,
             \A p \in Queued' : typed'[p] = typed[p] /\ why'[p] = why[p],
             worker' = worker, current' = current,
             worker = "begin" /\ current # Nothing =>
               typed'[current.prompt] = typed[current.prompt]
               /\ why'[current.prompt] = why[current.prompt]
      PROVE  Typed'
  BY <1>1 DEF Typed
<1>2. CASE Quiet
  <2>1. /\ Queued' = Queued
        /\ \A p \in Queued : typed'[p] \in {typed[p], None}
                             /\ ("left" \in why[p] => "left" \in why'[p])
    BY <1>0, <1>2, QuietFacts DEF Kept, Queued
  <2>2. ASSUME session' = session
        PROVE  \A p \in Queued' : SentWhereTyped(p)'
    BY <2>1, <2>2 DEF Typed
  <2>3. CASE Load
    <3>1. worker \in {"none", "dying"} /\ worker' = worker /\ why' = why
      BY <2>3 DEF Load, Requests, run, past
    <3>2. \A p \in Queued : "left" \in why[p]
      BY <3>1 DEF LeftBehind, Without
    <3> QED
      BY <2>1, <3>1, <3>2 DEF Typed
  <2>4. ASSUME NEW s \in Sessions, NewSession(s)
        PROVE  Typed'
    <3>1. \A p \in Prompts : typed'[p] = None
      BY <2>4 DEF NewSession
    <3>2. worker' = "begin" /\ current' # Nothing => current'.prompt \in Prompts
      BY <2>4 DEF NewSession, run, Types
    <3> QED
      BY <1>0, <2>1, <3>1, <3>2 DEF Typed
  <2>5. ASSUME session' = session
        PROVE  Typed'
    <3>1. SUFFICES ASSUME worker' = "begin", current' # Nothing
                   PROVE  SentWhereTyped(current.prompt)'
      BY <2>2, <2>5 DEF Typed
    <3>2. worker = "begin" /\ current' = current
      BY <1>2, <3>1, QuietSending
    <3>3. current.prompt \in Prompts
      BY <3>1, <3>2, SendingFacts
    <3>4. typed'[current.prompt] \in {typed[current.prompt], None}
      BY <1>2, <3>3, QuietFacts DEF Kept
    <3>5. why[current.prompt] \ {"stopped"} \subseteq why'[current.prompt]
      <4>1. CASE Esc \/ \E s \in Sessions : ClickHandoff(s)
        BY <3>3, <4>1 DEF Esc, ClickHandoff, Interrupt, Blame
      <4>2. CASE \E s \in Sessions : Resume(s) \/ NewSession(s)
        BY <3>1, <4>2 DEF Resume, CancelWorker, NewSession, past
      <4>3. CASE TurnStarts \/ TurnEnds \/ Dies \/ Usage
        <5>1. worker' # "begin"
          BY <4>3 DEF TurnStarts, TurnEnds, Dies, Usage, CancelWorker
        <5> QED
          BY <3>1, <5>1
      <4>4. CASE NothingQueued \/ ShellEnds \/ WakeUp \/ Load \/ Shell
        BY <4>4 DEF NothingQueued, ShellEnds, WakeUp, Load, Shell, past
      <4> QED
        BY <1>2, <4>1, <4>2, <4>3, <4>4 DEF Quiet
    <3>6. SentWhereTyped(current.prompt)
      BY <3>1, <3>2 DEF Typed
    <3> QED
      BY <2>5, <3>2, <3>4, <3>5, <3>6
  <2>6. CASE \/ TurnStarts \/ TurnEnds \/ NothingQueued \/ ShellEnds \/ WakeUp \/ Dies
             \/ Shell \/ Esc \/ Usage \/ \E s \in Sessions : ClickHandoff(s) \/ Resume(s)
    <3>1. session' = session
      BY <2>6 DEF TurnStarts, TurnEnds, NothingQueued, ShellEnds, WakeUp, Dies, Shell, Esc,
         Usage, ClickHandoff, Resume
    <3> QED
      BY <2>5, <3>1
  <2> QED
    BY <1>2, <2>3, <2>4, <2>6 DEF Quiet
<1>3. CASE Stopped
  BY <1>3, StoppedFacts DEF Stopped, EndRun, Typed
<1>4. CASE TakeNext
  <2> DEFINE p == Head(queue[NextQueue])
  <2>1. Queued' = Queued \ {p} /\ p \in Queued
    BY <1>4, TakeFacts, TakeRemoves, OneRemovedFacts
  <2>2. UNCHANGED <<session, typed, why>> /\ current'.prompt = p
    BY <1>4, TakeFacts DEF TakeNext
  <2> HIDE DEF p
  <2> QED
    BY <2>1, <2>2 DEF Typed
<1>5. CASE EndEdit
  <2>1. editing.prompt \in Prompts /\ Queued' = Queued \cup {editing.prompt}
    BY <1>5, EndEditAdds, OneAddedFacts
  <2>2. \A p \in Prompts : /\ typed'[p] = (IF p = editing.prompt THEN None ELSE typed[p])
                           /\ why[p] \subseteq why'[p]
    BY <1>5, <2>1 DEF EndEdit, Blame, Types
  <2>3. UNCHANGED <<session, worker, current>>
    BY <1>5 DEF EndEdit, run
  <2>4. worker = "begin" /\ current # Nothing => current.prompt \in Prompts
    BY SendingFacts
  <2> QED
    BY <1>0, <2>1, <2>2, <2>3, <2>4 DEF Typed
<1>6. ASSUME NEW q \in Queues, Submit(q)
      PROVE  Typed'
  <2>1. PICK p \in Prompts : /\ fate[p] = "untyped" /\ p \notin Queued
                             /\ SentAtOnce(p) \/ Enqueued(q, p) \/ Refused(p)
    BY <1>6, SubmitCases
  <2>2. session' = session
    BY <1>6, SubmitCases
  <2>3. worker = "begin" /\ current # Nothing => current.prompt \in Prompts /\ current.prompt # p
    BY <2>1, SendingFacts
  <2>4. CASE SentAtOnce(p)
    <3>1. Queued' = Queued /\ why' = why /\ current'.prompt = p
      BY <2>4 DEF SentAtOnce, Begin, Queued
    <3>2. \A r \in Prompts : typed'[r] = IF r = p THEN session ELSE typed[r]
      BY <2>4 DEF SentAtOnce, Types
    <3> QED
      BY <1>0, <2>1, <2>2, <3>1, <3>2 DEF Typed
  <2>5. CASE Enqueued(q, p)
    <3>1. Queued' = Queued \cup {p} /\ worker' = worker /\ current' = current
      BY <2>1, <2>5, EnqueueAdds, OneAddedFacts DEF Enqueued
    <3>2. \A r \in Prompts : /\ typed'[r] = (IF r = p THEN session ELSE typed[r])
                             /\ why[r] \subseteq why'[r]
      BY <2>5 DEF Enqueued, Blame, Types
    <3> QED
      BY <1>0, <2>2, <2>3, <3>1, <3>2 DEF Typed
  <2>6. CASE Refused(p)
    <3>1. Queued' = Queued /\ worker' = worker /\ current' = current
      BY <2>6 DEF Refused, Queued
    <3>2. \A r \in Prompts : r # p => typed'[r] = typed[r] /\ why'[r] = why[r]
      BY <2>6 DEF Refused, Forget
    <3> QED
      BY <1>0, <1>1, <2>1, <2>2, <2>3, <3>1, <3>2
  <2> QED
    BY <2>1, <2>4, <2>5, <2>6
<1>7. ASSUME NEW q \in Queues, NEW i \in 1 .. MaxQueue, Delete(q, i)
      PROVE  Typed'
  <2> DEFINE p == queue[q][i]
  <2>1. Queued' = Queued \ {p} /\ p \in Queued
    BY <1>7, DeleteFacts, OneRemovedFacts
  <2>2. /\ UNCHANGED <<worker, current, session>>
        /\ \A r \in Prompts : r # p => typed'[r] = typed[r] /\ why'[r] = why[r]
    BY <1>7 DEF Delete, Forget, run
  <2> HIDE DEF p
  <2>3. worker = "begin" /\ current # Nothing => current.prompt \in Prompts /\ current.prompt # p
    BY <2>1, SendingFacts
  <2> QED
    BY <1>0, <1>1, <2>1, <2>2, <2>3
<1>8. ASSUME NEW q \in Queues, NEW i \in 1 .. MaxQueue, StartEdit(q, i)
      PROVE  Typed'
  <2>1. Queued' \subseteq Queued
    BY <1>8, StartEditFacts, OneRemovedFacts
  <2>2. UNCHANGED <<worker, current, session, typed, why>>
    BY <1>8 DEF StartEdit, run, past
  <2> QED
    BY <1>1, <2>1, <2>2
<1> QED
  BY NextCases, <1>2, <1>3, <1>4, <1>5, <1>6, <1>7, <1>8

(* What waits through a stop, or is in hand through one, has its excuse. *)
LEMMA BlamedStep ==
  ASSUME IInv, Next
  PROVE  Blamed'
<1> USE DEF IInv, StoppedByLaterEsc
<1>0. \A p \in Queued : p \in Prompts
  BY QueueTypes
<1>1. ASSUME Queued' \subseteq Queued, interrupt' => interrupt, worker' # "stopping",
             \A p \in Queued' : "stopped" \in why[p] => "stopped" \in why'[p],
             worker' # "begin" \/ current' = Nothing
      PROVE  Blamed'
  BY <1>1 DEF Blamed
<1>2. ASSUME \A p \in Queued' : IF p \in Queued
                                THEN "stopped" \in why[p] => "stopped" \in why'[p]
                                ELSE interrupt \/ worker = "stopping" => "stopped" \in why'[p],
             UNCHANGED <<worker, current, interrupt, event, stale>>,
             worker = "begin" /\ current # Nothing /\ "stopped" \in why[current.prompt]
               => "stopped" \in why'[current.prompt]
      PROVE  Blamed'
  BY <1>2 DEF Blamed
<1>3. ASSUME Interrupt, UNCHANGED <<worker, current, queue>>
      PROVE  Blamed'
  <2>1. \A p \in Waiting : p \in Prompts /\ "stopped" \in why'[p]
    BY <1>3 DEF Interrupt, Blame, Waiting, Types
  <2>2. Queued' = Queued /\ Queued \subseteq Waiting
    BY <1>0, <1>3 DEF Queued, Waiting, Places
  <2>3. worker = "begin" /\ current # Nothing => current.prompt \in Waiting
    BY SendingFacts DEF Waiting
  <2> QED
    BY <1>3, <2>1, <2>2, <2>3 DEF Blamed
<1>4. ASSUME CancelWorker, UNCHANGED queue
      PROVE  Blamed'
  BY <1>1, <1>4, CancelFacts
<1>5. CASE TurnStarts
  <2>1. \A p \in Queued : p # current.prompt
    BY <1>5, SendingFacts, BoundsAssumption, <1>0 DEF TurnStarts, Nothing, Prompts
  <2>2. Queued' = Queued /\ \A p \in Queued : why'[p] = why[p]
    BY <1>0, <1>5, <2>1 DEF TurnStarts, Forget, Queued
  <2>3. worker' = "turn" /\ interrupt' = interrupt
    BY <1>5 DEF TurnStarts, request
  <2> QED
    BY <1>1, <2>2, <2>3
<1>6. CASE TurnEnds
  <2>1. CASE worker' = "settling"
    BY <1>6, <2>1 DEF TurnEnds, Blamed
  <2>2. CASE worker' = "stopping"
    <3>1. event = "set" /\ Queued' = Queued /\ why' = why
      BY <1>6, <2>2 DEF TurnEnds, Queued
    <3>2. interrupt
      BY <3>1 DEF Requests
    <3> QED
      BY <2>2, <3>1, <3>2 DEF Blamed
  <2> QED
    BY <1>6, <2>1, <2>2 DEF TurnEnds
<1>7. CASE Stopped
  BY <1>7, StoppedFacts DEF Stopped, EndRun, Blamed
<1>8. CASE TakeNext
  <2> DEFINE p == Head(queue[NextQueue])
  <2>1. Queued' = Queued \ {p} /\ p \in Queued
    BY <1>8, TakeFacts, TakeRemoves, OneRemovedFacts
  <2>2. /\ UNCHANGED <<interrupt, stale, why>> /\ worker' = "begin"
        /\ event' = IF interrupt THEN "set" ELSE "clear"
    BY <1>8 DEF TakeNext, Begin
  <2>3. interrupt => "interrupt" \in stale
    BY <1>8 DEF TakeNext, Requests
  <2> HIDE DEF p
  <2> QED
    BY <2>1, <2>2, <2>3 DEF Blamed
<1>9. CASE NothingQueued \/ ShellEnds \/ WakeUp \/ Dies \/ Shell
  <2>1. Queued' = Queued /\ why' = why
    BY <1>9 DEF NothingQueued, ShellEnds, WakeUp, Dies, Shell, Queued, past
  <2>2. interrupt' => interrupt
    BY <1>9 DEF NothingQueued, ShellEnds, WakeUp, Dies, Shell, Begin, EndRun
  <2>3. worker' # "stopping"
    BY <1>9 DEF NothingQueued, ShellEnds, WakeUp, Dies, Shell, Begin, EndRun
  <2>4. worker' # "begin" \/ current' = Nothing
    BY <1>9 DEF NothingQueued, ShellEnds, WakeUp, Dies, Shell, Begin, EndRun
  <2> QED
    BY <1>1, <2>1, <2>2, <2>3, <2>4
<1>10. CASE Load
  <2>1. Queued' = Queued /\ UNCHANGED <<worker, current, interrupt, event, stale, why>>
    BY <1>10 DEF Load, run, request, past, Queued
  <2> QED
    BY <1>2, <2>1
<1>11. CASE Esc
  BY <1>3, <1>11 DEF Esc, run
<1>12. CASE Usage
  BY <1>4, <1>12 DEF Usage
<1>13. ASSUME NEW s \in Sessions, ClickHandoff(s) \/ Resume(s) \/ NewSession(s)
       PROVE  Blamed'
  <2>1. CASE Interrupt /\ ClickHandoff(s)
    BY <1>3, <2>1 DEF ClickHandoff, run
  <2>2. CASE CancelWorker /\ Resume(s)
    BY <1>4, <2>2 DEF Resume
  <2>3. CASE UNCHANGED <<run, request, why>> /\ queue' = queue
    <3>1. Queued' = Queued /\ UNCHANGED <<worker, current, interrupt, event, stale, why>>
      BY <2>3 DEF run, request, Queued
    <3> QED
      BY <1>2, <3>1
  <2> QED
    BY <1>13, <2>1, <2>2, <2>3 DEF ClickHandoff, Resume, NewSession, past
<1>14. CASE EndEdit
  <2>1. editing.prompt \in Prompts /\ Queued' = Queued \cup {editing.prompt}
    BY <1>14, EndEditAdds, OneAddedFacts
  <2>2. \A p \in Prompts : why[p] \subseteq why'[p]
    BY <1>14 DEF EndEdit, Blame
  <2>3. interrupt \/ worker = "stopping" => "stopped" \in why'[editing.prompt]
    BY <1>14, <2>1 DEF EndEdit, Blame, CausesNow
  <2>4. UNCHANGED <<worker, current, interrupt, event, stale>>
    BY <1>14 DEF EndEdit, run, request
  <2>5. worker = "begin" /\ current # Nothing => current.prompt \in Prompts
    BY SendingFacts
  <2> QED
    BY <1>0, <1>2, <2>1, <2>2, <2>3, <2>4, <2>5
<1>15. ASSUME NEW q \in Queues, Submit(q)
       PROVE  Blamed'
  <2>1. PICK p \in Prompts : /\ fate[p] = "untyped" /\ p \notin Queued
                             /\ SentAtOnce(p) \/ Enqueued(q, p) \/ Refused(p)
    BY <1>15, SubmitCases
  <2>2. stale' = stale
    BY <1>15, SubmitCases
  <2>3. worker = "begin" /\ current # Nothing => current.prompt \in Prompts /\ current.prompt # p
    BY <2>1, SendingFacts
  <2>4. CASE SentAtOnce(p)
    <3>1. /\ Queued' = Queued /\ why' = why /\ worker' = "begin" /\ interrupt' = interrupt
          /\ event' = (IF interrupt THEN "set" ELSE "clear") /\ worker = "none"
      BY <2>4 DEF SentAtOnce, Begin, Queued, Types
    <3>2. interrupt => "interrupt" \in stale
      BY <3>1 DEF Requests
    <3> QED
      BY <2>2, <3>1, <3>2 DEF Blamed
  <2>5. CASE Enqueued(q, p)
    <3>1. Queued' = Queued \cup {p} /\ UNCHANGED <<worker, current, interrupt, event>>
      BY <2>1, <2>5, EnqueueAdds, OneAddedFacts DEF Enqueued
    <3>2. \A r \in Prompts : why[r] \subseteq why'[r]
      BY <2>5 DEF Enqueued, Blame
    <3>3. interrupt \/ worker = "stopping" => "stopped" \in why'[p]
      BY <2>5 DEF Enqueued, Blame, CausesNow
    <3> QED
      BY <1>0, <1>2, <2>2, <2>3, <3>1, <3>2, <3>3
  <2>6. CASE Refused(p)
    <3>1. Queued' = Queued /\ UNCHANGED <<worker, current, interrupt, event>>
      BY <2>6 DEF Refused, Queued
    <3>2. \A r \in Prompts : r # p => why'[r] = why[r]
      BY <2>6 DEF Refused, Forget
    <3> QED
      BY <1>0, <1>2, <2>1, <2>2, <2>3, <3>1, <3>2
  <2> QED
    BY <2>1, <2>4, <2>5, <2>6
<1>16. ASSUME NEW q \in Queues, NEW i \in 1 .. MaxQueue, Delete(q, i)
       PROVE  Blamed'
  <2> DEFINE p == queue[q][i]
  <2>1. Queued' = Queued \ {p} /\ p \in Queued
    BY <1>16, DeleteFacts, OneRemovedFacts
  <2>2. /\ UNCHANGED <<worker, current, interrupt, event, stale>>
        /\ \A r \in Prompts : r # p => why'[r] = why[r]
    BY <1>16 DEF Delete, Forget, run, request
  <2> HIDE DEF p
  <2>3. worker = "begin" /\ current # Nothing => current.prompt \in Prompts /\ current.prompt # p
    BY <2>1, SendingFacts
  <2> QED
    BY <1>0, <1>2, <2>1, <2>2, <2>3
<1>17. ASSUME NEW q \in Queues, NEW i \in 1 .. MaxQueue, StartEdit(q, i)
       PROVE  Blamed'
  <2>1. Queued' \subseteq Queued
    BY <1>17, StartEditFacts, OneRemovedFacts
  <2>2. UNCHANGED <<worker, current, interrupt, event, stale, why>>
    BY <1>17 DEF StartEdit, run, request, past
  <2> QED
    BY <1>2, <2>1, <2>2
<1> QED
  BY <1>5, <1>6, <1>7, <1>8, <1>9, <1>10, <1>11, <1>12, <1>13, <1>14, <1>15, <1>16, <1>17
     DEF Next

(* What was excused stays so while it waits. *)
LEMMA ExcusedStep ==
  ASSUME IInv, Next
  PROVE  \A p \in Queued : p \in Queued' /\ Excused(p) => Excused(p)'
<1> USE DEF IInv
<1>1. Queued \subseteq Prompts
  BY QueueTypes
<1>2. ASSUME \A p \in Queued : p \in Queued' => why[p] \ {"stopped"} \subseteq why'[p]
      PROVE  \A p \in Queued : p \in Queued' /\ Excused(p) => Excused(p)'
  BY <1>2 DEF Excused
<1>3. CASE Quiet
  BY <1>1, <1>2, <1>3, QuietFacts DEF Kept
<1>4. CASE Stopped
  BY <1>4, StoppedFacts
<1>5. CASE TakeNext
  BY <1>2, <1>5 DEF TakeNext
<1>6. CASE EndEdit
  BY <1>1, <1>2, <1>6 DEF EndEdit, Blame
<1>7. ASSUME NEW q \in Queues, Submit(q)
      PROVE  \A p \in Queued : p \in Queued' => why[p] \ {"stopped"} \subseteq why'[p]
  <2>1. PICK p \in Prompts : p \notin Queued /\ (SentAtOnce(p) \/ Enqueued(q, p) \/ Refused(p))
    BY <1>7, SubmitCases
  <2> QED
    BY <1>1, <2>1 DEF SentAtOnce, Enqueued, Refused, Blame, Forget
<1>8. ASSUME NEW q \in Queues, NEW i \in 1 .. MaxQueue, Delete(q, i)
      PROVE  \A p \in Queued : p \in Queued' => why[p] \ {"stopped"} \subseteq why'[p]
  <2>1. Queued' = Queued \ {queue[q][i]}
    BY <1>8, DeleteFacts, OneRemovedFacts
  <2>2. \A r \in Prompts : r # queue[q][i] => why'[r] = why[r]
    BY <1>8 DEF Delete, Forget
  <2> QED
    BY <1>1, <2>1, <2>2
<1>9. ASSUME NEW q \in Queues, NEW i \in 1 .. MaxQueue, StartEdit(q, i)
      PROVE  \A p \in Queued : p \in Queued' => why[p] \ {"stopped"} \subseteq why'[p]
  BY <1>9 DEF StartEdit, past
<1> QED
  BY NextCases, <1>2, <1>3, <1>4, <1>5, <1>6, <1>7, <1>8, <1>9

(* What is before or behind a place is in the sequence. *)
LEMMA PlaceFacts ==
  ASSUME NEW S, NEW s \in Seq(S)
  PROVE  /\ \A x, y : Before(s, x, y) => x \in Range(s) /\ y \in Range(s)
         /\ \A k \in Nat : From(s, k) \subseteq Range(s)
BY DEF Before, From, Range

(* An empty sequence has no places. *)
LEMMA EmptyPlaces ==
  /\ \A x, y : ~Before(<<>>, x, y)
  /\ \A k : From(<<>>, k) = {}
BY DEF Before, From

(* Where a prompt waits behind another one before and after a step. *)
LEMMA OrderFacts ==
  ASSUME Types, Types', NEW q \in Queues
  PROVE  /\ \A x, y : Before(queue[q], x, y) => y \in Queued
         /\ \A x, y : Before(queue'[q], x, y) => y \in Queued'
         /\ \A k \in Nat : From(queue[q], k) \subseteq Queued
         /\ \A k \in Nat : From(queue'[q], k) \subseteq Queued'
<1>1. queue[q] \in Seq(Prompts) /\ queue'[q] \in Seq(Prompts)
  BY DEF Types
<1>2. Range(queue[q]) \subseteq Queued /\ Range(queue'[q]) \subseteq Queued'
  BY DEF Queued, Queues
<1> HIDE DEF Before, From
<1> QED
  BY <1>1, <1>2, PlaceFacts

(* Every step keeps each queue in the order of typing, but for the excused. *)
LEMMA InOrderStep ==
  ASSUME IInv, Types', Next
  PROVE  InOrder'
<1> USE DEF IInv
<1>1. SUFFICES ASSUME NEW r \in Queues, NEW x \in Prompts, NEW y \in Prompts,
                      Before(queue'[r], x, y)
               PROVE  x < y \/ Excused(y)'
  BY DEF InOrder
<1>2. y \in Queued'
  BY <1>1, OrderFacts
<1>3. ASSUME Before(queue[r], x, y)
      PROVE  x < y \/ Excused(y)'
  BY <1>2, <1>3, OrderFacts, ExcusedStep DEF InOrder
<1>4. CASE Quiet
  BY <1>1, <1>3, <1>4, QuietFacts
<1>5. CASE Stopped
  BY <1>1, <1>5, StoppedFacts, EmptyPlaces
<1>6. ASSUME NEW q \in Queues, NEW p, OneRemoved(q, p)
      PROVE  x < y \/ Excused(y)'
  BY <1>1, <1>3, <1>6 DEF OneRemoved
<1>7. CASE TakeNext
  BY <1>6, <1>7, TakeFacts, TakeRemoves
<1>8. CASE EndEdit
  <2> DEFINE p == editing.prompt
             q == editing.from
  <2>1. /\ q \in Queues /\ p \in Prompts
        /\ \A s \in Queues \ {q} : queue'[s] = queue[s]
        /\ Before(queue'[q], x, y) =>
             Before(queue[q], x, y) \/ y = p \/ (x = p /\ y \in From(queue[q], editing.at))
    BY <1>8, EndEditAdds DEF OneAdded
  <2>2. CASE y = p
    BY <1>8, <2>1, <2>2 DEF EndEdit, Blame, Excused
  <2>3. CASE r = q /\ x = p /\ y \in From(queue[q], editing.at)
    <3>1. editing.at \in Nat /\ editing # None
      BY <1>8, EndEditAdds, BoundsAssumption DEF Edits, EndEdit
    <3>2. y \in Queued /\ (x < y \/ Excused(y))
      BY <2>1, <2>3, <3>1, OrderFacts DEF EditInOrder
    <3> QED
      BY <1>2, <3>2, ExcusedStep
  <2> QED
    BY <1>1, <1>3, <2>1, <2>2, <2>3
<1>9. ASSUME NEW q \in Queues, Submit(q)
      PROVE  x < y \/ Excused(y)'
  <2>1. PICK p \in Prompts : /\ p \notin Queued /\ \A s \in Queued : s < p
                             /\ SentAtOnce(p) \/ Enqueued(q, p) \/ Refused(p)
    BY <1>9, SubmitCases
  <2>2. CASE Enqueued(q, p)
    <3>1. /\ Before(queue'[q], x, y) => Before(queue[q], x, y) \/ (y = p /\ x \in Range(queue[q]))
          /\ \A s \in Queues \ {q} : queue'[s] = queue[s]
      BY <2>1, <2>2, EnqueueAdds DEF OneAdded
    <3>2. Range(queue[q]) \subseteq Queued
      BY QueueTypes
    <3> QED
      BY <1>1, <1>3, <2>1, <3>1, <3>2
  <2>3. CASE SentAtOnce(p) \/ Refused(p)
    BY <1>1, <1>3, <2>3 DEF SentAtOnce, Refused
  <2> QED
    BY <2>1, <2>2, <2>3
<1>10. ASSUME NEW q \in Queues, NEW i \in 1 .. MaxQueue, Delete(q, i) \/ StartEdit(q, i)
       PROVE  x < y \/ Excused(y)'
  BY <1>6, <1>10, DeleteFacts, StartEditFacts
<1> QED
  BY NextCases, <1>4, <1>5, <1>7, <1>8, <1>9, <1>10

(* Every step keeps the edited prompt older than those behind its place. *)
LEMMA EditInOrderStep ==
  ASSUME IInv, Types', Next
  PROVE  EditInOrder'
<1> USE DEF IInv
<1>1. CASE editing' = None
  BY <1>1 DEF EditInOrder
<1>2. ASSUME editing' = editing, editing # None,
             From(queue'[editing.from], editing.at) \subseteq From(queue[editing.from], editing.at)
      PROVE  EditInOrder'
  <2>1. editing.from \in Queues /\ editing.at \in Nat
    BY <1>2, BoundsAssumption DEF Types, Edits
  <2>2. ASSUME NEW y \in From(queue'[editing.from], editing.at)
        PROVE  editing.prompt < y \/ Excused(y)'
    <3>1. y \in Queued' /\ y \in Queued
      BY <1>2, <2>1, <2>2, OrderFacts
    <3>2. editing.prompt < y \/ Excused(y)
      BY <1>2, <2>2 DEF EditInOrder
    <3> QED
      BY <3>1, <3>2, ExcusedStep
  <2> QED
    BY <1>2, <2>2 DEF EditInOrder
<1>3. CASE Quiet
  BY <1>1, <1>2, <1>3, QuietFacts
<1>4. CASE Stopped
  <2>1. editing' = editing /\ \A q \in Queues : queue'[q] = <<>>
    BY <1>4, StoppedFacts
  <2>2. editing # None => editing.from \in Queues
    BY DEF Types, Edits
  <2> QED
    BY <1>1, <1>2, <2>1, <2>2, EmptyPlaces
<1>5. CASE TakeNext
  <2>1. editing' = editing
    BY <1>5 DEF TakeNext
  <2>2. editing # None => editing.from \in Queues /\ editing.at \in Nat
    BY BoundsAssumption DEF Types, Edits
  <2>3. \A q \in Queues : \A k \in Nat : From(queue'[q], k) \subseteq From(queue[q], k)
    BY <1>5, TakeFacts, TakeRemoves DEF OneRemoved
  <2> QED
    BY <1>1, <1>2, <2>1, <2>2, <2>3
<1>6. CASE EndEdit
  BY <1>1, <1>6 DEF EndEdit
<1>7. ASSUME NEW q \in Queues, Submit(q)
      PROVE  EditInOrder'
  BY <1>1, <1>7, SubmitCases
<1>8. ASSUME NEW q \in Queues, NEW i \in 1 .. MaxQueue, Delete(q, i)
      PROVE  EditInOrder'
  BY <1>1, <1>8, DeleteFacts DEF Delete
<1>9. ASSUME NEW q \in Queues, NEW i \in 1 .. MaxQueue, StartEdit(q, i)
      PROVE  EditInOrder'
  <2> DEFINE p == queue[q][i]
  <2>1. /\ editing' = [from |-> q, at |-> i, prompt |-> p] /\ p \in Prompts
        /\ \A y \in From(queue'[q], i) : Before(queue[q], p, y)
    BY <1>9, StartEditFacts
  <2> HIDE DEF p
  <2>2. ASSUME NEW y \in From(queue'[q], i)
        PROVE  p < y \/ Excused(y)'
    <3>1. i \in Nat
      BY BoundsAssumption
    <3>2. y \in Queued' /\ y \in Queued
      BY <2>1, <2>2, <3>1, OrderFacts
    <3>3. p < y \/ Excused(y)
      BY <2>1, <2>2, <3>2, QueueTypes DEF InOrder
    <3> QED
      BY <3>2, <3>3, ExcusedStep
  <2> QED
    BY <2>1, <2>2 DEF EditInOrder
<1> QED
  BY NextCases, <1>3, <1>4, <1>5, <1>6, <1>7, <1>8, <1>9

(* Every step keeps the prompt in hand older than what waits. *)
LEMMA SendsInOrderStep ==
  ASSUME IInv, Next
  PROVE  SendsInOrder'
<1> USE DEF IInv
<1>0. \A p \in Queued' : p \in Queued /\ why[p] \cap {"edited", "left"} # {}
                           => why'[p] \cap {"edited", "left"} # {}
  BY ExcusedStep DEF Excused
<1>1. ASSUME worker' # "begin" \/ current' = Nothing
      PROVE  SendsInOrder'
  BY <1>1 DEF SendsInOrder
<1>2. ASSUME worker' = worker, current' = current,
             Range(queue["pending"]) \cap Queued' \subseteq Range(queue'["pending"]),
             \A p \in Queued' : \/ p \in Queued
                                \/ why'[p] \cap {"edited", "left"} # {}
                                \/ worker = "begin" /\ current # Nothing => ~(p < current.prompt)
      PROVE  SendsInOrder'
  <2>1. SUFFICES ASSUME worker = "begin", current # Nothing,
                        NEW p \in Queued', p < current.prompt
                 PROVE  \/ current.from = "steer" /\ p \in Range(queue'["pending"])
                        \/ why'[p] \cap {"edited", "left"} # {}
    BY <1>2 DEF SendsInOrder, SentInOrder
  <2>2. CASE p \in Queued
    BY <1>0, <1>2, <2>1, <2>2 DEF SendsInOrder, SentInOrder
  <2> QED
    BY <1>2, <2>1, <2>2
<1>3. CASE Quiet
  <2>1. queue' = queue /\ Queued' = Queued
    BY <1>3, QuietFacts DEF Queued
  <2>2. worker' = "begin" /\ current' # Nothing => worker' = worker /\ current' = current
    BY <1>3, QuietSending
  <2> QED
    BY <1>1, <1>2, <2>1, <2>2
<1>4. CASE Stopped
  BY <1>1, <1>4 DEF Stopped, EndRun
<1>5. CASE TakeNext
  <2> DEFINE q == NextQueue
             p == Head(queue[q])
  <2>1. /\ q \in Queues /\ (q = "pending" => queue["steer"] = <<>>)
        /\ current'.prompt = p /\ current'.from = q /\ p \in Prompts
        /\ queue' = [queue EXCEPT ![q] = Tail(queue[q])]
    BY <1>5, TakeFacts
  <2>2. /\ Queued' = Queued \ {p}
        /\ \A y \in Range(queue'[q]) : Before(queue[q], p, y)
    BY <1>5, <2>1, TakeRemoves, OneRemovedFacts
  <2>3. why' = why /\ Queued \subseteq Prompts /\ \A y \in Prompts : y \in Int
    BY <1>5, QueueTypes DEF TakeNext, Prompts
  <2> HIDE DEF q, p
  <2>4. ASSUME NEW y \in Queued', y < p
        PROVE  \/ q = "steer" /\ y \in Range(queue'["pending"])
               \/ why'[y] \cap {"edited", "left"} # {}
    <3>1. CASE y \in Range(queue'[q])
      <4>1. p < y \/ Excused(y)
        BY <2>1, <2>2, <2>3, <3>1 DEF InOrder
      <4> QED
        BY <2>1, <2>2, <2>3, <2>4, <4>1 DEF Excused
    <3>2. CASE y \notin Range(queue'[q])
      <4>1. Range(<<>>) = {}
        BY DEF Range
      <4>2. q = "pending" => queue'["steer"] = <<>>
        BY <2>1 DEF Types, Queues
      <4> QED
        BY <2>1, <2>4, <3>2, <4>1, <4>2 DEF Queued, Queues
    <3> QED
      BY <3>1, <3>2
  <2> QED
    BY <2>1, <2>4 DEF SendsInOrder, SentInOrder
<1>6. CASE EndEdit
  <2>1. /\ editing.prompt \in Prompts /\ Queued' = Queued \cup {editing.prompt}
        /\ editing.from \in Queues /\ OneAdded(editing.from, editing.prompt)
    BY <1>6, EndEditAdds, OneAddedFacts
  <2>2. Range(queue["pending"]) \subseteq Range(queue'["pending"])
    BY <2>1 DEF OneAdded, Queues
  <2>3. why'[editing.prompt] \cap {"edited", "left"} # {}
    BY <1>6, <2>1 DEF EndEdit, Blame
  <2>4. worker' = worker /\ current' = current
    BY <1>6 DEF EndEdit, run
  <2> QED
    BY <1>2, <2>1, <2>2, <2>3, <2>4
<1>7. ASSUME NEW q \in Queues, Submit(q)
      PROVE  SendsInOrder'
  <2>1. PICK p \in Prompts : /\ p \notin Queued /\ p = Count + 1
                             /\ SentAtOnce(p) \/ Enqueued(q, p) \/ Refused(p)
    BY <1>7, SubmitCases
  <2>2. CASE SentAtOnce(p)
    <3>1. Queued' = Queued /\ why' = why /\ worker \in Without
      BY <2>2 DEF SentAtOnce, Queued, Types, Without
    <3>2. \A r \in Queued' : why'[r] \cap {"edited", "left"} # {}
      BY <3>1 DEF LeftBehind
    <3> QED
      BY <3>2 DEF SendsInOrder, SentInOrder
  <2>3. CASE Enqueued(q, p)
    <3>1. Queued' = Queued \cup {p} /\ OneAdded(q, p)
      BY <2>1, <2>3, EnqueueAdds, OneAddedFacts
    <3>2. Range(queue["pending"]) \subseteq Range(queue'["pending"])
      BY <3>1 DEF OneAdded, Queues
    <3>3. worker = "begin" /\ current # Nothing => ~(p < current.prompt)
      <4>1. SUFFICES ASSUME worker = "begin", current # Nothing
                     PROVE  ~(p < current.prompt)
        OBVIOUS
      <4>2. current.prompt \in Prompts /\ current.prompt < p
        BY <2>1, <4>1, SendingFacts
      <4> QED
        BY <4>2 DEF Prompts
    <3>4. worker' = worker /\ current' = current
      BY <2>3 DEF Enqueued
    <3> QED
      BY <1>2, <3>1, <3>2, <3>3, <3>4
  <2>4. CASE Refused(p)
    <3>1. Queued' = Queued /\ worker' = worker /\ current' = current /\ queue' = queue
      BY <2>4 DEF Refused, Queued
    <3> QED
      BY <1>2, <3>1
  <2> QED
    BY <2>1, <2>2, <2>3, <2>4
<1>8. ASSUME NEW q \in Queues, NEW p, OneRemoved(q, p), worker' = worker, current' = current
      PROVE  SendsInOrder'
  <2>1. Queued' = Queued \ {p}
    BY <1>8, OneRemovedFacts
  <2>2. Range(queue["pending"]) \ {p} \subseteq Range(queue'["pending"])
    BY <1>8 DEF OneRemoved, Queues
  <2> QED
    BY <1>2, <1>8, <2>1, <2>2
<1>9. ASSUME NEW q \in Queues, NEW i \in 1 .. MaxQueue, Delete(q, i) \/ StartEdit(q, i)
      PROVE  SendsInOrder'
  BY <1>8, <1>9, DeleteFacts, StartEditFacts DEF Delete, StartEdit, run
<1> QED
  BY NextCases, <1>3, <1>4, <1>5, <1>6, <1>7, <1>9

----------------------------------------------------------------------------
(* The invariant and what follows from it *)

(* The invariant holds initially. *)
LEMMA Begins == Init => IInv
<1> SUFFICES ASSUME Init PROVE IInv
  OBVIOUS
<1>1. \A q \in Queues : queue[q] = <<>> /\ Range(queue[q]) = {} /\ IsInjective(queue[q])
                          /\ Len(queue[q]) = 0 /\ queue[q] \in Seq(Prompts)
  BY DEF Init, Range, IsInjective
<1>2. Queued = {} /\ editing = None /\ worker = "none" /\ running = FALSE
        /\ current = Nothing /\ interrupt = FALSE /\ event = "none" /\ switch = None
        /\ stale = {} /\ session \in Sessions /\ loading = None /\ shell = FALSE
  BY <1>1 DEF Init, Queued, Queues
<1>3. Types
  <2>1. /\ queue \in [Queues -> Seq(Prompts)]
        /\ fate \in [Prompts -> Fates]
        /\ typed \in [Prompts -> Sessions \cup {None}]
        /\ why \in [Prompts -> SUBSET Causes]
    BY <1>1 DEF Init, Fates
  <2> QED
    BY <1>2, <2>1 DEF Types
<1>4. Numbered
  <2>1. 0 \in 0 .. MaxPrompts /\ \A p \in Prompts : ~(p <= 0)
    BY BoundsAssumption DEF Prompts
  <2>2. \A p \in Prompts : fate[p] = "untyped"
    BY DEF Init
  <2> QED
    BY <2>1, <2>2 DEF Numbered
<1>5. Places
  <2>1. \A p \in Prompts : fate[p] # "waiting"
    BY DEF Init
  <2> QED
    BY <1>1, <1>2, <2>1 DEF Places, Edited, Queues
<1>6. Sizes
  BY <1>1, <1>2, BoundsAssumption DEF Sizes
<1>7. Sending /\ Requests /\ LeftBehind /\ Blamed /\ SendsInOrder /\ Typed
  BY <1>2 DEF Sending, Requests, LeftBehind, Blamed, SendsInOrder, Typed
<1>8. InOrder /\ EditInOrder
  BY <1>1, <1>2, EmptyPlaces DEF InOrder, EditInOrder
<1> QED
  BY <1>3, <1>4, <1>5, <1>6, <1>7, <1>8 DEF IInv

(* Every step preserves it. *)
LEMMA Goes == IInv /\ [Next]_vars => IInv'
<1> SUFFICES ASSUME IInv, [Next]_vars PROVE IInv'
  OBVIOUS
<1>1. CASE Next
  <2>1. Types' /\ Numbered' /\ Places' /\ Sending' /\ Sizes'
    BY <1>1, TypesStep, NumberedStep, PlacesStep, SendingStep, SizesStep DEF IInv
  <2>2. Requests' /\ LeftBehind' /\ Blamed' /\ Typed'
    BY <1>1, RequestsStep, LeftBehindStep, BlamedStep, TypedStep DEF IInv
  <2>3. InOrder' /\ EditInOrder' /\ SendsInOrder'
    BY <1>1, <2>1, InOrderStep, EditInOrderStep, SendsInOrderStep
  <2> QED
    BY <2>1, <2>2, <2>3 DEF IInv
<1>2. CASE UNCHANGED vars
  <2>1. /\ running' = running /\ worker' = worker /\ shell' = shell /\ current' = current
        /\ interrupt' = interrupt /\ event' = event /\ switch' = switch /\ stale' = stale
        /\ session' = session /\ loading' = loading /\ queue' = queue
        /\ editing' = editing /\ fate' = fate /\ typed' = typed /\ why' = why
    BY <1>2 DEF vars, run, request, past
  <2>2. Types' /\ Numbered' /\ Sending' /\ Sizes' /\ Requests'
    BY <2>1 DEF IInv, Types, Numbered, Sending, Sizes, Requests
  <2>3. Places' /\ LeftBehind' /\ Blamed' /\ Typed'
    BY <2>1 DEF IInv, Places, Edited, LeftBehind, Blamed, Typed, Queued,
                SentWhereTyped, StoppedByLaterEsc
  <2>4. InOrder' /\ EditInOrder' /\ SendsInOrder'
    BY <2>1 DEF IInv, InOrder, EditInOrder, SendsInOrder, Excused, SentInOrder, Queued
  <2> QED
    BY <2>2, <2>3, <2>4 DEF IInv
<1> QED
  BY <1>1, <1>2

(* An idle application has nothing left to send. *)
LEMMA Done == IInv => IdleIsDone
BY DEF IInv, IdleIsDone, Types, Requests, LeftBehind, Without

(* Prompts are sent in their order, where they were typed, unless excused. *)
LEMMA AsTyped == IInv => SentAsTyped
<1> SUFFICES ASSUME IInv PROVE SentAsTyped
  OBVIOUS
<1>1. ASSUME worker = "begin", current # Nothing
      PROVE  /\ SentInOrder(current.prompt)
             /\ SentWhereTyped(current.prompt)
             /\ event = "set" => StoppedByLaterEsc(current.prompt) \/ "interrupt" \in stale
  BY <1>1 DEF IInv, Blamed, SendsInOrder, Typed
<1>2. worker = "stopping" => \A p \in Queued : StoppedByLaterEsc(p)
  BY DEF IInv, Blamed, StoppedByLaterEsc
<1> QED
  BY <1>1, <1>2 DEF SentAsTyped

(* Sequences that have nothing twice, and nothing in common.               *)
LEMMA JoinFacts ==
  ASSUME NEW S, NEW s \in Seq(S), NEW t \in Seq(S), IsInjective(s), IsInjective(t),
         Range(s) \cap Range(t) = {}
  PROVE  IsInjective(s \o t) /\ Range(s \o t) = Range(s) \cup Range(t)
<1>1. /\ s \o t \in Seq(S) /\ Len(s) \in Nat /\ Len(t) \in Nat
      /\ Len(s \o t) = Len(s) + Len(t)
      /\ \A m \in 1 .. Len(s) + Len(t) :
           (s \o t)[m] = IF m <= Len(s) THEN s[m] ELSE t[m - Len(s)]
  BY ConcatProperties
<1>2. DOMAIN (s \o t) = 1 .. Len(s) + Len(t) /\ DOMAIN s = 1 .. Len(s) /\ DOMAIN t = 1 .. Len(t)
  BY <1>1
<1>3. \A m \in 1 .. Len(s) + Len(t) : m \in 1 .. Len(s) \/ m - Len(s) \in 1 .. Len(t)
  BY <1>1
<1>4. ASSUME NEW j \in 1 .. Len(s) + Len(t), NEW k \in 1 .. Len(s) + Len(t),
             (s \o t)[j] = (s \o t)[k]
      PROVE  j = k
  <2>0. /\ \A m \in 1 .. Len(s) : s[m] \in Range(s)
        /\ \A m \in 1 .. Len(t) : t[m] \in Range(t)
    BY <1>2 DEF Range
  <2>1. \A m \in 1 .. Len(s) + Len(t) : m <= Len(s) => (s \o t)[m] = s[m] /\ s[m] \in Range(s)
    BY <1>1, <2>0
  <2>2. \A m \in 1 .. Len(s) + Len(t) :
          ~(m <= Len(s)) => (s \o t)[m] = t[m - Len(s)] /\ t[m - Len(s)] \in Range(t)
    BY <1>1, <1>3, <2>0
  <2>3. j <= Len(s) <=> k <= Len(s)
    BY <1>4, <2>1, <2>2
  <2>4. CASE j <= Len(s)
    BY <1>1, <1>2, <1>4, <2>1, <2>3, <2>4 DEF IsInjective
  <2>5. CASE ~(j <= Len(s))
    <3>1. t[j - Len(s)] = t[k - Len(s)] /\ j - Len(s) \in 1 .. Len(t) /\ k - Len(s) \in 1 .. Len(t)
      BY <1>1, <1>3, <1>4, <2>2, <2>3, <2>5
    <3>2. j - Len(s) = k - Len(s)
      BY <1>2, <3>1 DEF IsInjective
    <3> QED
      BY <1>1, <3>2
  <2> QED
    BY <2>4, <2>5
<1>5. IsInjective(s \o t)
  BY <1>2, <1>4 DEF IsInjective
<1>6. Range(s \o t) = Range(s) \cup Range(t)
  BY RangeConcatenation
<1> QED
  BY <1>5, <1>6

(* The queues and the edit together hold each waiting prompt once. *)
LEMMA WaitsOnce ==
  ASSUME IInv
  PROVE  LET edited == IF editing = None THEN <<>> ELSE <<editing.prompt>>
             waiting == queue["steer"] \o queue["pending"] \o edited
         IN  IsInjective(waiting) /\ Range(waiting) = {p \in Prompts : fate[p] = "waiting"}
<1> DEFINE edited == IF editing = None THEN <<>> ELSE <<editing.prompt>>
           queues == queue["steer"] \o queue["pending"]
<1>1. /\ queue["steer"] \in Seq(Prompts) /\ queue["pending"] \in Seq(Prompts)
      /\ IsInjective(queue["steer"]) /\ IsInjective(queue["pending"])
      /\ Range(queue["steer"]) \cap Range(queue["pending"]) = {}
  BY DEF IInv, Types, Places, Queues
<1>2. queues \in Seq(Prompts) /\ IsInjective(queues) /\ Range(queues) = Queued
  <2>1. queues \in Seq(Prompts)
    BY <1>1, ConcatProperties
  <2> QED
    BY <1>1, <2>1, JoinFacts DEF Queued
<1>3. /\ edited \in Seq(Prompts) /\ IsInjective(edited)
      /\ \A p \in Prompts : p \in Range(edited) <=> Edited(p)
      /\ Range(edited) \subseteq Prompts
  <2>1. CASE editing = None
    BY <2>1 DEF IsInjective, Range, Edited
  <2>2. CASE editing # None
    <3>1. editing.prompt \in Prompts
      BY <2>2 DEF IInv, Types, Edits
    <3>2. edited = <<editing.prompt>> /\ DOMAIN edited = {1} /\ edited[1] = editing.prompt
      BY <2>2
    <3>3. edited \in Seq(Prompts)
      BY <3>1, <3>2
    <3> HIDE DEF edited
    <3> QED
      BY <2>2, <3>1, <3>2, <3>3 DEF IsInjective, Range, Edited
  <2> QED
    BY <2>1, <2>2
<1> HIDE DEF edited, queues
<1>4. Queued \subseteq Prompts /\ \A p \in Queued : ~Edited(p)
  BY QueueTypes DEF IInv, Places
<1>5. Range(queues) \cap Range(edited) = {}
  BY <1>2, <1>3, <1>4
<1>6. IsInjective(queues \o edited) /\ Range(queues \o edited) = Queued \cup Range(edited)
  BY <1>2, <1>3, <1>5, JoinFacts
<1>7. Queued \cup Range(edited) = {p \in Prompts : fate[p] = "waiting"}
  BY <1>3, <1>4 DEF IInv, Places
<1> QED
  BY <1>6, <1>7 DEF edited, queues

(* The invariant has the types, with the order of the queues. *)
LEMMA OfType == IInv => TypeOK
<1> SUFFICES ASSUME IInv PROVE TypeOK
  OBVIOUS
<1>1. current \in [prompt : Prompts \cup {0}, from : Queues \cup {"user", "program"}]
  BY DEF IInv, Types, Nothing
<1>2. running \in BOOLEAN
  BY DEF IInv, Types
<1> QED
  BY <1>1, <1>2, WaitsOnce DEF IInv, Types, Sizes, TypeOK

(* So the invariant holds throughout. *)
LEMMA Always == Spec => []IInv
BY Begins, Goes, PTL DEF Spec

(* Every prompt that waits is in one place, once, and the queues, which    *)
(* are edited while the worker takes prompts from them, never grow longer  *)
(* than the display.                                                       *)
THEOREM TypeCorrect == Spec => []TypeOK
BY Always, OfType, PTL

(* When no worker runs, nothing waits for one: a prompt that is queued was *)
(* left by a run that was cancelled or had ended, and a switch or an       *)
(* interruption that is still asked for came too late.                     *)
THEOREM IdleTerminalIsDone == Spec => []IdleIsDone
BY Always, Done, PTL

(* However input, edits and interruptions interleave with the worker,      *)
(* prompts are sent in their order, to the session they were typed in, and *)
(* only a later interruption stops or drops them.                          *)
THEOREM PromptsAreSentAsTyped == Spec => []SentAsTyped
BY Always, AsTyped, PTL
=============================================================================
