------------------------- MODULE Subagents_proofs -------------------------
(***************************************************************************)
(* Theorems about sub-agents.  First the scheduler that admits them, for   *)
(* every set of dispatches, every set of limits and every bound; then the  *)
(* background ones and the delivery of their results, for every set of     *)
(* processes, tasks and sessions, and every limit.                         *)
(***************************************************************************)
EXTENDS SubagentScheduler, BackgroundTasks, TLAPS, FiniteSetTheorems,
        FunctionTheorems, SequenceTheorems

----------------------------------------------------------------------------
(* The admission queue *)

(* deque.remove(): the entry at i is taken out, the rest keep their order. *)
LEMMA RemoveAtFacts ==
  ASSUME NEW S, NEW s \in Seq(S), NEW i \in 1..Len(s)
  PROVE  /\ RemoveAt(s, i) \in Seq(S)
         /\ Len(RemoveAt(s, i)) = Len(s) - 1
         /\ \A j \in 1..Len(s) - 1 :
              RemoveAt(s, i)[j] = IF j < i THEN s[j] ELSE s[j + 1]
<1> DEFINE before == SubSeq(s, 1, i - 1)
           after == SubSeq(s, i + 1, Len(s))
<1>1. /\ before \in Seq(S) /\ Len(before) = i - 1
      /\ \A m \in 1..i - 1 : before[m] = s[m]
  BY SubSeqProperties
<1>2. /\ after \in Seq(S) /\ Len(after) = Len(s) - i
      /\ \A m \in 1..Len(s) - i : after[m] = s[m + i]
  BY SubSeqProperties
<1>3. RemoveAt(s, i) = before \o after
  BY DEF RemoveAt
<1> HIDE DEF before, after
<1>4. /\ before \o after \in Seq(S)
      /\ Len(before \o after) = Len(before) + Len(after)
      /\ \A m \in 1..Len(before) + Len(after) :
           (before \o after)[m] = IF m <= Len(before) THEN before[m]
                                  ELSE after[m - Len(before)]
  BY <1>1, <1>2, ConcatProperties
<1>5. ASSUME NEW j \in 1..Len(s) - 1
      PROVE  (before \o after)[j] = IF j < i THEN s[j] ELSE s[j + 1]
  <2>1. CASE j < i
    BY <1>1, <1>2, <1>4, <2>1
  <2>2. CASE ~(j < i)
    <3>1. /\ j - (i - 1) \in 1..Len(s) - i
          /\ j - (i - 1) + i = j + 1
      BY <2>2
    <3>2. (before \o after)[j] = after[j - (i - 1)]
      BY <1>1, <1>2, <1>4, <2>2
    <3> QED
      BY <1>2, <2>2, <3>1, <3>2
  <2> QED
    BY <2>1, <2>2
<1> QED
  BY <1>1, <1>2, <1>3, <1>4, <1>5

(* What the popping loop of _release_next and drain leaves behind: the     *)
(* fields keep their types, only pending futures are completed, no more    *)
(* than n of them, and if a pending one is left then exactly n were.       *)
LEMMA HandOverFacts ==
  ASSUME SchedTypeOK, NEW n \in Nat \ {0}, NEW count \in Nat, HandOver(n, count)
  PROVE  /\ waiters' \in Seq(Agents)
         /\ running' \in Nat /\ running' >= count /\ running' <= count + n
         /\ running' <= count + Len(waiters)
         /\ future' \in [Agents -> {"none", "pending", "granted", "cancelled"}]
         /\ (\E i \in 1..Len(waiters') : Parked(i)')
              => /\ \E i \in 1..Len(waiters) : Parked(i)
                 /\ running' = count + n
<1>1. PICK k \in 0..Len(waiters) :
        LET woken == {i \in 1..k : Parked(i)} IN
          /\ \/ Cardinality(woken) = n /\ k \in woken
             \/ Cardinality(woken) < n /\ k = Len(waiters)
          /\ waiters' = SubSeq(waiters, k + 1, Len(waiters))
          /\ running' = count + Cardinality(woken)
          /\ future' = [a \in Agents |-> IF \E i \in woken : waiters[i] = a
                                         THEN "granted" ELSE future[a]]
  BY DEF HandOver
<1> DEFINE woken == {i \in 1..k : Parked(i)}
<1>2. waiters \in Seq(Agents) /\ Len(waiters) \in Nat
  BY DEF SchedTypeOK
<1>3. /\ IsFiniteSet(woken) /\ Cardinality(woken) \in Nat
      /\ Cardinality(woken) <= Len(waiters)
  <2>1. IsFiniteSet(1..k) /\ Cardinality(1..k) <= Len(waiters)
    <3>1. /\ 1 \in Int /\ k \in Int /\ k <= Len(waiters) /\ 0 <= Len(waiters)
      BY <1>2
    <3>2. IsFiniteSet(1..k) /\ Cardinality(1..k) = IF 1 > k THEN 0 ELSE k
      BY <3>1, FS_Interval
    <3> QED
      BY <3>1, <3>2
  <2>2. /\ IsFiniteSet(woken) /\ Cardinality(woken) \in Nat
        /\ Cardinality(woken) <= Cardinality(1..k)
    BY <2>1, FS_Subset, FS_CardinalityType, woken \in SUBSET (1..k)
  <2>3. Cardinality(1..k) \in Nat
    BY <2>1, FS_CardinalityType
  <2> QED
    BY <1>2, <2>1, <2>2, <2>3
<1>4. waiters' \in Seq(Agents)
  BY <1>1, <1>2
<1>5. /\ running' \in Nat /\ running' >= count /\ running' <= count + n
      /\ running' <= count + Len(waiters)
  BY <1>1, <1>2, <1>3
<1>6. future' \in [Agents -> {"none", "pending", "granted", "cancelled"}]
  BY <1>1 DEF SchedTypeOK
<1>7. ASSUME NEW i \in 1..Len(waiters'), Parked(i)'
      PROVE  /\ \E j \in 1..Len(waiters) : Parked(j)
             /\ running' = count + n
  <2>1. i + k \in 1..Len(waiters) /\ waiters'[i] = waiters[i + k]
    BY <1>1, <1>2, <1>7, SMTT(30)
  <2>2. waiters[i + k] \in Agents
    BY <2>1, <1>2
  <2>3. future[waiters[i + k]] = "pending"
    BY <1>1, <1>7, <2>1, <2>2 DEF Parked
  <2>4. k # Len(waiters)
    BY <2>1, <1>2
  <2> QED
    BY <1>1, <2>1, <2>3, <2>4 DEF Parked
<1> QED
  BY <1>4, <1>5, <1>6, <1>7

(* The fields of the scheduler and the tasks around it keep their types.   *)
LEMMA SchedTypeStep == SchedTypeOK /\ [SchedNext]_schedVars => SchedTypeOK'
<1> SUFFICES ASSUME SchedTypeOK, [SchedNext]_schedVars PROVE SchedTypeOK'
  OBVIOUS
<1> USE CapsAssumption, BoundsAssumption
<1>1. ASSUME NEW a \in Agents, AcquireNow(a) PROVE SchedTypeOK'
  BY <1>1 DEF AcquireNow, SchedTypeOK
<1>2. ASSUME NEW a \in Agents, AcquireQueued(a) PROVE SchedTypeOK'
  BY <1>2 DEF AcquireQueued, SchedTypeOK
<1>3. ASSUME NEW a \in Agents, Resume(a) PROVE SchedTypeOK'
  BY <1>3 DEF Resume, SchedTypeOK
<1>4. ASSUME NEW a \in Agents, Cancel(a) PROVE SchedTypeOK'
  BY <1>4 DEF Cancel, SchedTypeOK
<1>5. ASSUME NEW a \in Agents, UnwindCancelled(a) PROVE SchedTypeOK'
  <2>1. ASSUME NEW i \in 1..Len(waiters)
        PROVE  RemoveAt(waiters, i) \in Seq(Agents)
    BY RemoveAtFacts DEF SchedTypeOK
  <2>2. waiters' \in Seq(Agents)
    BY <1>5, <2>1 DEF UnwindCancelled, SchedTypeOK
  <2> QED
    BY <1>5, <2>2 DEF UnwindCancelled, SchedTypeOK
<1>6. ASSUME NEW n \in Nat \ {0}, NEW count \in Nat, HandOver(n, count)
      PROVE  /\ waiters' \in Seq(Agents) /\ running' \in Nat
             /\ future' \in [Agents -> {"none", "pending", "granted", "cancelled"}]
  BY <1>6, HandOverFacts
<1>7. ASSUME NEW a \in Agents, UnwindGranted(a) \/ Release(a) PROVE SchedTypeOK'
  <2> DEFINE left == IF running > 0 THEN running - 1 ELSE running
  <2>1. running \in Nat /\ left \in Nat /\ 1 \in Nat \ {0}
    BY DEF SchedTypeOK
  <2>2. HandOver(1, running) \/ HandOver(1, left)
    BY <1>7 DEF UnwindGranted, Release, ReleaseNext
  <2> HIDE DEF left
  <2>3. /\ waiters' \in Seq(Agents) /\ running' \in Nat
        /\ future' \in [Agents -> {"none", "pending", "granted", "cancelled"}]
    BY <1>6, <2>1, <2>2
  <2>4. /\ limit' = limit /\ spent' = spent
        /\ \E end \in {"gone", "leaked"} : pc' = [pc EXCEPT ![a] = end]
    BY <1>7 DEF UnwindGranted, Release
  <2>5. /\ limit' \in Limits /\ spent' \in [cancels : Nat, resizes : Nat, resets : Nat]
        /\ pc' \in [Agents -> {"idle", "queued", "unwinding", "running", "leaked",
                               "gone"}]
    BY <2>4 DEF SchedTypeOK
  <2> QED
    BY <2>3, <2>5 DEF SchedTypeOK
<1>8. ASSUME NEW l \in Limits, SetLimit(l) PROVE SchedTypeOK'
  <2>1. CASE l # Unlimited /\ running >= l
    <3>1. /\ limit' = l /\ spent' = [spent EXCEPT !.resizes = @ + 1] /\ running' = running
          /\ waiters' = waiters /\ future' = future /\ pc' = pc
      BY <1>8, <2>1 DEF SetLimit
    <3> QED
      BY <3>1 DEF SchedTypeOK
  <2>2. CASE ~(l # Unlimited /\ running >= l)
    <3> DEFINE n == IF l = Unlimited THEN Len(waiters) + 1 ELSE l - running
    <3>1. n \in Nat \ {0} /\ running \in Nat
      BY <2>2 DEF SchedTypeOK, Unlimited
    <3>2. HandOver(n, running)
      BY <1>8, <2>2 DEF SetLimit
    <3> HIDE DEF n
    <3>3. /\ waiters' \in Seq(Agents) /\ running' \in Nat
          /\ future' \in [Agents -> {"none", "pending", "granted", "cancelled"}]
      BY <1>6, <3>1, <3>2
    <3>4. /\ limit' \in Limits /\ pc' = pc
          /\ spent' \in [cancels : Nat, resizes : Nat, resets : Nat]
      <4>1. limit' \in Limits /\ pc' = pc /\ spent' = [spent EXCEPT !.resizes = @ + 1]
        BY <1>8 DEF SetLimit
      <4>2. spent \in [cancels : Nat, resizes : Nat, resets : Nat]
        BY DEF SchedTypeOK
      <4> QED
        BY <4>1, <4>2
    <3> QED
      BY <3>3, <3>4 DEF SchedTypeOK
  <2> QED
    BY <2>1, <2>2
<1>9. CASE Reset
  BY <1>9 DEF Reset, SchedTypeOK
<1>10. CASE UNCHANGED schedVars
  BY <1>10 DEF schedVars, SchedTypeOK
<1> QED
  BY <1>1, <1>2, <1>3, <1>4, <1>5, <1>6, <1>7, <1>8, <1>9, <1>10
     DEF SchedNext, Acquire, Unwind

(* Type correctness, for every number of dispatches and every limit.      *)
THEOREM SchedTypeCorrect == SchedSpec => []SchedTypeOK
<1>1. SchedInit => SchedTypeOK
  BY CapsAssumption DEF SchedInit, SchedTypeOK
<1> QED
  BY <1>1, SchedTypeStep, PTL DEF SchedSpec

----------------------------------------------------------------------------
(* No lost wake-up: somebody pending means the count is at the limit.      *)
LEMMA SaturationStep ==
  SchedTypeOK /\ WaitersImplySaturation /\ [SchedNext]_schedVars => WaitersImplySaturation'
<1> SUFFICES ASSUME SchedTypeOK, WaitersImplySaturation, [SchedNext]_schedVars,
                    \E i \in 1..Len(waiters') : Parked(i)'
             PROVE  limit' # Unlimited /\ running' >= limit'
  BY DEF WaitersImplySaturation
<1> DEFINE Waiting == \E i \in 1..Len(waiters) : Parked(i)
<1>0. Waiting => limit \in Nat \ {0} /\ running >= limit
  BY CapsAssumption DEF WaitersImplySaturation, SchedTypeOK, Unlimited
<1>1. ASSUME NEW a \in Agents, AcquireNow(a) PROVE FALSE
  BY <1>0, <1>1 DEF AcquireNow, AdmitsNow, Unlimited, Parked, SchedTypeOK
<1>2. ASSUME NEW a \in Agents, AcquireQueued(a)
      PROVE  limit' # Unlimited /\ running' >= limit'
  BY <1>2, CapsAssumption DEF AcquireQueued, AdmitsNow, Parked, SchedTypeOK
<1>3. ASSUME NEW a \in Agents, Resume(a)
      PROVE  limit' # Unlimited /\ running' >= limit'
  BY <1>0, <1>3 DEF Resume, Unlimited, Parked, SchedTypeOK
<1>4. ASSUME NEW a \in Agents, Cancel(a)
      PROVE  limit' # Unlimited /\ running' >= limit'
  <2>1. Waiting
    BY <1>4 DEF Cancel, Parked, SchedTypeOK
  <2> QED
    BY <1>0, <1>4, <2>1 DEF Cancel, Unlimited, SchedTypeOK
<1>5. ASSUME NEW a \in Agents, UnwindCancelled(a)
      PROVE  limit' # Unlimited /\ running' >= limit'
  <2>1. ASSUME NEW i \in 1..Len(waiters), waiters' = RemoveAt(waiters, i)
        PROVE  Waiting
    <3>1. PICK j \in 1..Len(waiters') : future[waiters'[j]] = "pending"
      BY <1>5 DEF UnwindCancelled, Parked
    <3>2. /\ Len(RemoveAt(waiters, i)) = Len(waiters) - 1
          /\ \A m \in 1..Len(waiters) - 1 :
               RemoveAt(waiters, i)[m] = IF m < i THEN waiters[m]
                                                  ELSE waiters[m + 1]
      <4>1. waiters \in Seq(Agents)
        BY DEF SchedTypeOK
      <4> QED
        BY ONLY <4>1, i \in 1..Len(waiters), RemoveAtFacts
    <3>3. /\ j \in 1..Len(waiters) - 1
          /\ waiters'[j] = IF j < i THEN waiters[j] ELSE waiters[j + 1]
      BY <2>1, <3>1, <3>2
    <3>4. waiters'[j] \in {waiters[m] : m \in 1..Len(waiters)}
      BY <2>1, <3>3 DEF SchedTypeOK
    <3> QED
      BY <3>1, <3>4 DEF Parked
  <2>2. Waiting
    BY <1>5, <2>1 DEF UnwindCancelled, Parked
  <2> QED
    BY <1>0, <1>5, <2>2 DEF UnwindCancelled, Unlimited, SchedTypeOK
<1>6. ASSUME NEW a \in Agents, UnwindGranted(a)
      PROVE  limit' # Unlimited /\ running' >= limit'
  <2>1. HandOver(1, running) /\ running \in Nat
    BY <1>6 DEF UnwindGranted, ReleaseNext, SchedTypeOK
  <2>2. Waiting /\ running' = running + 1
    BY <2>1, HandOverFacts
  <2> QED
    BY <1>0, <1>6, <2>2 DEF UnwindGranted, Unlimited, SchedTypeOK
<1>7. ASSUME NEW a \in Agents, Release(a)
      PROVE  limit' # Unlimited /\ running' >= limit'
  <2> DEFINE left == IF running > 0 THEN running - 1 ELSE running
  <2>1. left \in Nat /\ HandOver(1, left)
    BY <1>7 DEF Release, ReleaseNext, SchedTypeOK
  <2>2. Waiting /\ running' = left + 1
    <3> HIDE DEF left
    <3> QED
      BY <2>1, HandOverFacts
  <2> QED
    BY <1>0, <1>7, <2>2 DEF Release, Unlimited, SchedTypeOK
<1>8. ASSUME NEW l \in Limits, SetLimit(l)
      PROVE  limit' # Unlimited /\ running' >= limit'
  <2>1. CASE l # Unlimited /\ running >= l
    BY <1>8, <2>1 DEF SetLimit, SchedTypeOK
  <2>2. CASE ~(l # Unlimited /\ running >= l)
    <3> DEFINE n == IF l = Unlimited THEN Len(waiters) + 1 ELSE l - running
    <3>1. n \in Nat \ {0} /\ running \in Nat /\ l \in Nat
      BY <2>2, CapsAssumption DEF Unlimited, SchedTypeOK
    <3>2. HandOver(n, running)
      BY <1>8, <2>2 DEF SetLimit
    <3>3. /\ Waiting /\ running' = running + n
          /\ running' <= running + Len(waiters)
      <4> HIDE DEF n
      <4> QED
        BY <3>1, <3>2, HandOverFacts
    <3> QED
      BY <1>0, <1>8, <2>2, <3>1, <3>3, SMTT(30) DEF SetLimit, Unlimited, SchedTypeOK
  <2> QED
    BY <2>1, <2>2
<1>9. CASE Reset
  BY <1>9 DEF Reset, Parked
<1>10. CASE UNCHANGED schedVars
  BY <1>0, <1>10 DEF schedVars, Unlimited, Parked, SchedTypeOK
<1> QED
  BY <1>1, <1>2, <1>3, <1>4, <1>5, <1>6, <1>7, <1>8, <1>9, <1>10
     DEF SchedNext, Acquire, Unwind

(* While a queued dispatch waits on a pending future, no slot is counted   *)
(* as free.                                                                *)
THEOREM NoLostWakeUp == SchedSpec => []WaitersImplySaturation
<1>1. SchedInit => WaitersImplySaturation
  BY DEF SchedInit, WaitersImplySaturation
<1> QED
  BY <1>1, SaturationStep, SchedTypeCorrect, PTL DEF SchedSpec

----------------------------------------------------------------------------
(* The cap on sub-agents in flight.                                        *)

(* A hand-over completes the futures of a set of dispatches no larger than *)
(* what it adds to _running, and touches no other future.                  *)
LEMMA HandOverGains ==
  ASSUME SchedTypeOK, NEW n \in Nat \ {0}, NEW count \in Nat, HandOver(n, count)
  PROVE  \E G \in SUBSET Agents :
           /\ IsFiniteSet(G) /\ Cardinality(G) \in Nat
           /\ Cardinality(G) <= running' - count
           /\ \A x \in Agents \ G : future'[x] = future[x]
<1>1. PICK k \in 0..Len(waiters) :
        LET woken == {i \in 1..k : Parked(i)} IN
          /\ running' = count + Cardinality(woken)
          /\ future' = [a \in Agents |-> IF \E i \in woken : waiters[i] = a
                                         THEN "granted" ELSE future[a]]
  BY DEF HandOver
<1> DEFINE woken == {i \in 1..k : Parked(i)}
           G == {waiters[i] : i \in woken}
           at == [i \in woken |-> waiters[i]]
<1>2. waiters \in Seq(Agents) /\ k \in Int
  BY DEF SchedTypeOK
<1>3. IsFiniteSet(woken) /\ Cardinality(woken) \in Nat
  <2>1. IsFiniteSet(1..k)
    BY <1>2, FS_Interval
  <2> QED
    BY <2>1, FS_Subset, FS_CardinalityType, woken \in SUBSET (1..k)
<1>4. G \in SUBSET Agents
  BY <1>2
<1>5. at \in Surjection(woken, G)
  BY DEF Surjection
<1>6. IsFiniteSet(G) /\ Cardinality(G) <= Cardinality(woken)
  <2> HIDE DEF at, G, woken
  <2> QED
    BY <1>3, <1>5, FS_Surjection
<1>7. Cardinality(G) \in Nat
  BY <1>6, FS_CardinalityType
<1>8. \A x \in Agents \ G : future'[x] = future[x]
  BY <1>1
<1>9. running' - count = Cardinality(woken)
  BY <1>1, <1>3
<1> QED
  BY <1>4, <1>6, <1>7, <1>8, <1>9

(* Some allowed limit is at least c.                                       *)
WithinALimit(c) == Unlimited \notin Limits => \E m \in Limits : c <= m

(* The inductive invariant: the count covers the slots, and the slots stay *)
(* within a limit.  The second part alone is not inductive, because a new  *)
(* arrival is admitted on the count.                                       *)
SlotsBounded == CountCoversSlots /\ InFlightBound

(* Slots is a finite set, being made of dispatches.                        *)
LEMMA SlotsFinite == IsFiniteSet(Slots) /\ Cardinality(Slots) \in Nat
BY AgentsAssumption, FS_Subset, FS_CardinalityType, Slots \in SUBSET Agents
   DEF Slots

(* Every step keeps the slots bounded by the count and by a limit, and one *)
(* that makes them more leaves them within the cap of the moment.          *)
LEMMA SlotsStep ==
  SchedTypeOK /\ SchedTypeOK' /\ SlotsBounded /\ [SchedNext]_schedVars
    => SlotsBounded' /\ CapKept
<1> DEFINE Kept == \/ Cardinality(Slots') <= Cardinality(Slots)
                   \/ limit' = Unlimited
                   \/ running' <= limit'
           Goal == /\ Cardinality(Slots') <= running'
                   /\ WithinALimit(Cardinality(Slots'))
                   /\ Kept
<1> SUFFICES ASSUME SchedTypeOK, SchedTypeOK', SlotsBounded, [SchedNext]_schedVars
             PROVE  SlotsBounded' /\ CapKept
  OBVIOUS
<1> SUFFICES ASSUME spent'.resets = 0 PROVE Goal
  <2>1. SlotsBounded'
    BY DEF SlotsBounded, CountCoversSlots, InFlightBound, WithinALimit
  <2>2. Cardinality(Slots) \in Nat /\ running' \in Nat /\ limit' \in Nat
    BY SlotsFinite, CapsAssumption DEF SchedTypeOK
  <2>3. Cardinality(Slots') \in Nat
    BY AgentsAssumption, FS_Subset, FS_CardinalityType, Slots' \in SUBSET Agents
       DEF Slots
  <2>4. CapKept
    BY <2>2, <2>3 DEF CapKept
  <2> QED
    BY <2>1, <2>4
<1>a. /\ IsFiniteSet(Slots) /\ Cardinality(Slots) \in Nat
      /\ running \in Nat /\ running' \in Nat /\ Limits \subseteq Nat
  BY SlotsFinite, CapsAssumption DEF SchedTypeOK
<1>b. spent.resets = 0 => /\ Cardinality(Slots) <= running
                          /\ WithinALimit(Cardinality(Slots))
  BY DEF SlotsBounded, CountCoversSlots, InFlightBound, WithinALimit
<1>c. ASSUME Slots' \subseteq Slots
      PROVE  Cardinality(Slots') \in Nat /\ Cardinality(Slots') <= Cardinality(Slots)
  BY <1>a, <1>c, FS_Subset, FS_CardinalityType
<1>d. ASSUME NEW a, NEW G, IsFiniteSet(G), Cardinality(G) \in Nat, a \in Slots,
             Slots' \subseteq (Slots \ {a}) \cup G
      PROVE  /\ Cardinality(Slots) >= 1 /\ Cardinality(Slots') \in Nat
             /\ Cardinality(Slots') <= Cardinality(Slots) - 1 + Cardinality(G)
  <2>1. /\ IsFiniteSet(Slots \ {a})
        /\ Cardinality(Slots \ {a}) = Cardinality(Slots) - 1
        /\ Cardinality(Slots \ {a}) \in Nat
    BY <1>a, <1>d, FS_RemoveElement, FS_CardinalityType
  <2>2. /\ IsFiniteSet((Slots \ {a}) \cup G)
        /\ Cardinality((Slots \ {a}) \cup G) \in Nat
        /\ Cardinality((Slots \ {a}) \cup G)
             = Cardinality(Slots \ {a}) + Cardinality(G)
                 - Cardinality((Slots \ {a}) \cap G)
    BY <1>d, <2>1, FS_Union, FS_CardinalityType
  <2>3. Cardinality((Slots \ {a}) \cap G) \in Nat
    BY <2>1, FS_Subset, FS_CardinalityType,
       (Slots \ {a}) \cap G \in SUBSET (Slots \ {a})
  <2>4. /\ Cardinality(Slots') \in Nat
        /\ Cardinality(Slots') <= Cardinality((Slots \ {a}) \cup G)
    BY <1>d, <2>2, FS_Subset, FS_CardinalityType
  <2> QED
    BY <1>a, <1>d, <2>1, <2>2, <2>3, <2>4
<1>e. ASSUME NEW G, IsFiniteSet(G), Cardinality(G) \in Nat,
             Slots' \subseteq Slots \cup G
      PROVE  /\ Cardinality(Slots') \in Nat
             /\ Cardinality(Slots') <= Cardinality(Slots) + Cardinality(G)
  <2>1. /\ IsFiniteSet(Slots \cup G) /\ Cardinality(Slots \cup G) \in Nat
        /\ Cardinality(Slots \cup G)
             = Cardinality(Slots) + Cardinality(G) - Cardinality(Slots \cap G)
    BY <1>a, <1>e, FS_Union, FS_CardinalityType
  <2>2. Cardinality(Slots \cap G) \in Nat
    BY <1>a, FS_Subset, FS_CardinalityType, Slots \cap G \in SUBSET Slots
  <2>3. /\ Cardinality(Slots') \in Nat
        /\ Cardinality(Slots') <= Cardinality(Slots \cup G)
    BY <1>e, <2>1, FS_Subset, FS_CardinalityType
  <2> QED
    BY <1>a, <1>e, <2>1, <2>2, <2>3
<1>f. ASSUME NEW a \in Agents, a \in Slots, NEW count \in Nat,
             HandOver(1, count), NEW end \in {"gone", "leaked"},
             pc' = [pc EXCEPT ![a] = end],
             spent.resets = 0, count >= running - 1
      PROVE  Goal
  <2>1. PICK G \in SUBSET Agents :
          /\ IsFiniteSet(G) /\ Cardinality(G) \in Nat
          /\ Cardinality(G) <= running' - count
          /\ \A x \in Agents \ G : future'[x] = future[x]
    BY <1>f, HandOverGains
  <2>2. Slots' \subseteq (Slots \ {a}) \cup G
    BY <1>f, <2>1 DEF Slots, SchedTypeOK
  <2>3. running' <= count + 1
    BY <1>f, HandOverFacts
  <2>4. /\ Cardinality(Slots') \in Nat
        /\ Cardinality(Slots') <= Cardinality(Slots) - 1 + Cardinality(G)
    BY <1>d, <1>f, <2>1, <2>2
  <2>5. Cardinality(Slots') <= Cardinality(Slots) /\ Cardinality(Slots') <= running'
    BY <1>a, <1>b, <1>f, <2>1, <2>3, <2>4
  <2> QED
    BY <1>a, <1>b, <1>f, <2>4, <2>5 DEF WithinALimit
<1>g. ASSUME spent.resets = 0, Slots' \subseteq Slots, running' = running
      PROVE  Goal
  BY <1>a, <1>b, <1>c, <1>g DEF WithinALimit
<1> HIDE DEF Goal
<1>1. ASSUME NEW a \in Agents, AcquireNow(a) PROVE Goal
  <2>1. Slots' \subseteq Slots \cup {a} /\ running' = running + 1
        /\ spent.resets = 0 /\ limit \in Limits
    BY <1>1 DEF AcquireNow, Slots, SchedTypeOK
  <2>2. IsFiniteSet({a}) /\ Cardinality({a}) = 1
    BY FS_Singleton
  <2>3. /\ Cardinality(Slots') \in Nat
        /\ Cardinality(Slots') <= Cardinality(Slots) + 1
    BY <1>e, <2>1, <2>2
  <2>4. limit' = limit /\ (limit # Unlimited => running < limit)
    BY <1>1 DEF AcquireNow, AdmitsNow
  <2> QED
    BY <1>a, <1>b, <2>1, <2>3, <2>4 DEF Goal, WithinALimit
<1>2. ASSUME NEW a \in Agents, AcquireQueued(a) PROVE Goal
  <2>1. Slots' \subseteq Slots /\ running' = running /\ spent.resets = 0
    BY <1>2 DEF AcquireQueued, Slots, SchedTypeOK
  <2> QED
    BY <1>g, <2>1
<1>3. ASSUME NEW a \in Agents, Resume(a) PROVE Goal
  <2>1. Slots' \subseteq Slots /\ running' = running /\ spent.resets = 0
    BY <1>3 DEF Resume, Slots, SchedTypeOK
  <2> QED
    BY <1>g, <2>1
<1>4. ASSUME NEW a \in Agents, Cancel(a) PROVE Goal
  <2>1. Slots' \subseteq Slots /\ running' = running /\ spent.resets = 0
    BY <1>4 DEF Cancel, Slots, SchedTypeOK
  <2> QED
    BY <1>g, <2>1
<1>5. ASSUME NEW a \in Agents, UnwindCancelled(a) PROVE Goal
  <2>1. Slots' \subseteq Slots /\ running' = running /\ spent.resets = 0
    BY <1>5 DEF UnwindCancelled, Slots, SchedTypeOK
  <2> QED
    BY <1>g, <2>1
<1>6. ASSUME NEW a \in Agents, UnwindGranted(a) PROVE Goal
  <2>1. /\ a \in Slots /\ HandOver(1, running) /\ spent.resets = 0
        /\ pc' = [pc EXCEPT ![a] = "leaked"]
    BY <1>6 DEF UnwindGranted, ReleaseNext, Slots
  <2>2. running \in Nat /\ running >= running - 1
    BY <1>a
  <2> QED
    BY <1>f, <2>1, <2>2
<1>7. ASSUME NEW a \in Agents, Release(a) PROVE Goal
  <2> DEFINE left == IF running > 0 THEN running - 1 ELSE running
  <2>1. /\ a \in Slots /\ HandOver(1, left) /\ spent.resets = 0
        /\ pc' = [pc EXCEPT ![a] = "gone"]
    BY <1>7 DEF Release, ReleaseNext, Slots
  <2>2. left \in Nat /\ left >= running - 1
    BY <1>a
  <2> HIDE DEF left
  <2> QED
    BY <1>f, <2>1, <2>2
<1>8. ASSUME NEW l \in Limits, SetLimit(l) PROVE Goal
  <2>1. pc' = pc /\ spent.resets = 0
    BY <1>8 DEF SetLimit, SchedTypeOK
  <2>2. CASE l # Unlimited /\ running >= l
    <3>1. Slots' \subseteq Slots /\ running' = running
      BY <1>8, <2>1, <2>2 DEF SetLimit, Slots
    <3> QED
      BY <1>g, <2>1, <3>1
  <2>3. CASE ~(l # Unlimited /\ running >= l)
    <3> DEFINE n == IF l = Unlimited THEN Len(waiters) + 1 ELSE l - running
    <3>1. n \in Nat \ {0} /\ (l # Unlimited => running + n = l)
      BY <1>a, <2>3 DEF Unlimited, SchedTypeOK
    <3>2. HandOver(n, running) /\ limit' = l
      BY <1>8, <2>3 DEF SetLimit
    <3> HIDE DEF n
    <3>3. PICK G \in SUBSET Agents :
            /\ IsFiniteSet(G) /\ Cardinality(G) \in Nat
            /\ Cardinality(G) <= running' - running
            /\ \A x \in Agents \ G : future'[x] = future[x]
      BY <1>a, <3>1, <3>2, HandOverGains
    <3>4. running' <= running + n
      BY <1>a, <3>1, <3>2, HandOverFacts
    <3>5. Slots' \subseteq Slots \cup G
      BY <2>1, <3>3 DEF Slots
    <3>6. /\ Cardinality(Slots') \in Nat
          /\ Cardinality(Slots') <= Cardinality(Slots) + Cardinality(G)
      BY <1>e, <3>3, <3>5
    <3>7. Cardinality(Slots') <= running' /\ Cardinality(Slots') <= running + n
      BY <1>a, <1>b, <2>1, <3>1, <3>3, <3>4, <3>6
    <3> QED
      BY <1>a, <3>1, <3>2, <3>4, <3>7 DEF Goal, WithinALimit
  <2> QED
    BY <2>2, <2>3
<1>9. ASSUME Reset PROVE Goal
  BY <1>9 DEF Reset, SchedTypeOK
<1>10. ASSUME UNCHANGED schedVars PROVE Goal
  <2>1. Slots' \subseteq Slots /\ running' = running /\ spent.resets = 0
    BY <1>10 DEF schedVars, Slots
  <2> QED
    BY <1>g, <2>1
<1> QED
  BY <1>1, <1>2, <1>3, <1>4, <1>5, <1>6, <1>7, <1>8, <1>9, <1>10
     DEF SchedNext, Acquire, Unwind, Goal

(* The inductive invariant holds in every reachable state.                 *)
THEOREM SlotsStayBounded == SchedSpec => []SlotsBounded
<1>1. SchedInit => SlotsBounded
  <2> SUFFICES ASSUME SchedInit PROVE SlotsBounded
    OBVIOUS
  <2>1. Slots = {}
    BY DEF SchedInit, Slots
  <2>2. Cardinality(Slots) = 0
    BY <2>1, FS_EmptySet
  <2> QED
    BY <2>2, CapsAssumption DEF SchedInit, SlotsBounded, CountCoversSlots, InFlightBound
<1> QED
  BY <1>1, SlotsStep, SchedTypeCorrect, PTL DEF SchedSpec

(* Sub-agents in flight never exceed the largest limit configured.         *)
THEOREM InFlightWithinLimits == SchedSpec => []InFlightBound
<1>1. SlotsBounded => InFlightBound
  BY DEF SlotsBounded
<1> QED
  BY <1>1, SlotsStayBounded, PTL

(* _running is never below the number of slots in use.                     *)
THEOREM CountNeverTooLow == SchedSpec => []CountCoversSlots
<1>1. SlotsBounded => CountCoversSlots
  BY DEF SlotsBounded
<1> QED
  BY <1>1, SlotsStayBounded, PTL

(* No step that makes the slots in use more takes them over the cap.       *)
THEOREM CapNotExceeded == SchedSpec => [][CapKept]_schedVars
<1>1. SchedTypeOK /\ SchedTypeOK' /\ SlotsBounded /\ [SchedNext]_schedVars => CapKept
  BY SlotsStep
<1> QED
  BY <1>1, SchedTypeCorrect, SlotsStayBounded, PTL DEF SchedSpec

----------------------------------------------------------------------------
(* What the count stands for.                                              *)

(* Slots that are counted: in use, or lost with a cancelled dispatch.      *)
Held == Slots \cup Lost

(* A dispatch is in the queue at most once, those in it have arrived, and  *)
(* whoever waits on a pending future is parked.  So a hand-over completes  *)
(* as many futures as it adds to _running, of dispatches that held none.   *)
QueueWellFormed ==
  /\ \A i, j \in 1..Len(waiters) : waiters[i] = waiters[j] => i = j
  /\ \A i \in 1..Len(waiters) : pc[waiters[i]] # "idle"
  /\ \A a \in Agents : future[a] = "pending" => pc[a] = "queued"

(* Every slot that _running counts is in use or lost.  After a reset() it  *)
(* may count fewer than there are.                                         *)
CountExplained == running <= Cardinality(Held)

(* A hand-over adds one to _running for every dispatch whose future it     *)
(* completes; what is left of the queue is its end.                        *)
LEMMA HandOverGives ==
  ASSUME SchedTypeOK, QueueWellFormed,
         NEW n \in Nat \ {0}, NEW count \in Nat, HandOver(n, count)
  PROVE  /\ \E G \in SUBSET Agents :
              /\ IsFiniteSet(G) /\ running' = count + Cardinality(G)
              /\ \A x \in G : future[x] = "pending" /\ future'[x] = "granted"
              /\ \A x \in Agents \ G : future'[x] = future[x]
         /\ \E k \in Nat : \A i \in 1..Len(waiters') :
              i + k \in 1..Len(waiters) /\ waiters'[i] = waiters[i + k]
<1>1. PICK k \in 0..Len(waiters) :
        LET woken == {i \in 1..k : Parked(i)} IN
          /\ waiters' = SubSeq(waiters, k + 1, Len(waiters))
          /\ running' = count + Cardinality(woken)
          /\ future' = [a \in Agents |-> IF \E i \in woken : waiters[i] = a
                                         THEN "granted" ELSE future[a]]
  BY DEF HandOver
<1> DEFINE woken == {i \in 1..k : Parked(i)}
           G == {waiters[i] : i \in woken}
           at == [i \in woken |-> waiters[i]]
<1>2. waiters \in Seq(Agents) /\ k \in Int
  BY DEF SchedTypeOK
<1>3. IsFiniteSet(woken)
  <2>1. IsFiniteSet(1..k)
    BY <1>2, FS_Interval
  <2> QED
    BY <2>1, FS_Subset, woken \in SUBSET (1..k)
<1>4. G \in SUBSET Agents
  BY <1>2
<1>5. at \in Surjection(woken, G) /\ at \in Injection(woken, G)
  BY <1>2 DEF Surjection, Injection, IsInjective, QueueWellFormed
<1>6. IsFiniteSet(G) /\ Cardinality(G) = Cardinality(woken)
  <2> HIDE DEF at, G, woken
  <2> QED
    BY <1>3, <1>5, FS_Surjection
<1>7. \A x \in G : future[x] = "pending" /\ future'[x] = "granted"
  BY <1>1, <1>4 DEF Parked
<1>8. \A x \in Agents \ G : future'[x] = future[x]
  BY <1>1
<1>9. \E G0 \in SUBSET Agents :
        /\ IsFiniteSet(G0) /\ running' = count + Cardinality(G0)
        /\ \A x \in G0 : future[x] = "pending" /\ future'[x] = "granted"
        /\ \A x \in Agents \ G0 : future'[x] = future[x]
  <2>1. running' = count + Cardinality(woken)
    BY <1>1
  <2> HIDE DEF G, woken
  <2> QED
    BY <1>4, <1>6, <1>7, <1>8, <2>1
<1>10. \A i \in 1..Len(waiters') :
         i + k \in 1..Len(waiters) /\ waiters'[i] = waiters[i + k]
  BY <1>1, <1>2
<1>11. k \in Nat
  BY <1>2
<1> HIDE DEF woken, G, at
<1> QED
  BY <1>9, <1>10, <1>11

(* The counted slots stay finite in number, at both ends of a step.        *)
LEMMA HeldFinite ==
  /\ IsFiniteSet(Held) /\ Cardinality(Held) \in Nat
  /\ IsFiniteSet(Held') /\ Cardinality(Held') \in Nat
BY AgentsAssumption, FS_Subset, FS_CardinalityType, Held \in SUBSET Agents,
   Held' \in SUBSET Agents
   DEF Held, Slots, Lost

(* Every step keeps the queue well formed.                                 *)
LEMMA QueueStep ==
  SchedTypeOK /\ QueueWellFormed /\ [SchedNext]_schedVars => QueueWellFormed'
<1> SUFFICES ASSUME SchedTypeOK, QueueWellFormed, [SchedNext]_schedVars
             PROVE  QueueWellFormed'
  OBVIOUS
<1>0. waiters \in Seq(Agents)
  BY DEF SchedTypeOK
<1>1. ASSUME NEW a \in Agents, AcquireNow(a) PROVE QueueWellFormed'
  BY <1>0, <1>1 DEF AcquireNow, QueueWellFormed, SchedTypeOK
<1>2. ASSUME NEW a \in Agents, AcquireQueued(a) PROVE QueueWellFormed'
  <2>1. /\ waiters' = Append(waiters, a) /\ pc[a] = "idle"
        /\ pc' = [pc EXCEPT ![a] = "queued"]
        /\ future' = [future EXCEPT ![a] = "pending"]
    BY <1>2 DEF AcquireQueued
  <2>2. \A i \in 1..Len(waiters) : waiters[i] # a
    BY <2>1 DEF QueueWellFormed
  <2>3. /\ Len(waiters') = Len(waiters) + 1
        /\ \A i \in 1..Len(waiters') :
             waiters'[i] = IF i <= Len(waiters) THEN waiters[i] ELSE a
    BY <1>0, <2>1
  <2> QED
    BY <1>0, <2>1, <2>2, <2>3 DEF QueueWellFormed, SchedTypeOK
<1>3. ASSUME NEW a \in Agents, Resume(a) \/ Cancel(a) PROVE QueueWellFormed'
  BY <1>0, <1>3 DEF Resume, Cancel, QueueWellFormed, SchedTypeOK
<1>4. ASSUME NEW a \in Agents, UnwindCancelled(a) PROVE QueueWellFormed'
  <2>1. /\ pc' = [pc EXCEPT ![a] = "gone"] /\ pc[a] = "unwinding"
        /\ future' = future /\ future[a] = "cancelled"
    BY <1>4 DEF UnwindCancelled
  <2>2. CASE waiters' = waiters
    BY <1>0, <2>1, <2>2 DEF QueueWellFormed, SchedTypeOK
  <2>3. ASSUME NEW m \in 1..Len(waiters), waiters' = RemoveAt(waiters, m)
        PROVE  QueueWellFormed'
    <3>1. /\ Len(waiters') = Len(waiters) - 1
          /\ \A j \in 1..Len(waiters) - 1 :
               waiters'[j] = IF j < m THEN waiters[j] ELSE waiters[j + 1]
      BY <1>0, <2>3, RemoveAtFacts
    <3>2. \A i, j \in 1..Len(waiters') : waiters'[i] = waiters'[j] => i = j
      BY <1>0, <3>1 DEF QueueWellFormed
    <3>3. \A i \in 1..Len(waiters') : pc'[waiters'[i]] # "idle"
      <4> SUFFICES ASSUME NEW i \in 1..Len(waiters') PROVE pc'[waiters'[i]] # "idle"
        OBVIOUS
      <4>1. PICK j \in 1..Len(waiters) : waiters'[i] = waiters[j]
        BY <1>0, <3>1
      <4> QED
        BY <1>0, <2>1, <4>1 DEF QueueWellFormed, SchedTypeOK
    <3>4. \A x \in Agents : future'[x] = "pending" => pc'[x] = "queued"
      BY <2>1 DEF QueueWellFormed, SchedTypeOK
    <3> QED
      BY <3>2, <3>3, <3>4 DEF QueueWellFormed
  <2> QED
    BY <1>4, <2>2, <2>3 DEF UnwindCancelled
<1>5. ASSUME NEW n \in Nat \ {0}, NEW count \in Nat, HandOver(n, count),
             \/ pc' = pc
             \/ \E a \in Agents, end \in {"gone", "leaked"} :
                  /\ pc[a] # "queued"
                  /\ pc' = [pc EXCEPT ![a] = end]
      PROVE  QueueWellFormed'
  <2>1. PICK G \in SUBSET Agents :
          /\ \A x \in G : future'[x] = "granted"
          /\ \A x \in Agents \ G : future'[x] = future[x]
    BY <1>5, HandOverGives
  <2>2. PICK k \in Nat : \A i \in 1..Len(waiters') :
          i + k \in 1..Len(waiters) /\ waiters'[i] = waiters[i + k]
    BY <1>5, HandOverGives
  <2>3. Len(waiters') \in Nat
    BY <1>5, HandOverFacts
  <2>4. \A i, j \in 1..Len(waiters') : waiters'[i] = waiters'[j] => i = j
    <3> SUFFICES ASSUME NEW i \in 1..Len(waiters'), NEW j \in 1..Len(waiters'),
                        waiters'[i] = waiters'[j]
                 PROVE  i = j
      OBVIOUS
    <3>1. /\ i + k \in 1..Len(waiters) /\ j + k \in 1..Len(waiters)
          /\ waiters[i + k] = waiters[j + k]
      BY <2>2
    <3>2. \A m, o \in 1..Len(waiters) : waiters[m] = waiters[o] => m = o
      BY DEF QueueWellFormed
    <3>3. i + k = j + k
      BY <3>1, <3>2, Zenon
    <3> QED
      BY <2>3, <3>3
  <2>5. \A i \in 1..Len(waiters') : pc'[waiters'[i]] # "idle"
    <3> SUFFICES ASSUME NEW i \in 1..Len(waiters') PROVE pc'[waiters'[i]] # "idle"
      OBVIOUS
    <3>1. waiters'[i] \in Agents /\ pc[waiters'[i]] # "idle"
      BY <1>0, <2>2 DEF QueueWellFormed
    <3> QED
      BY <1>5, <3>1 DEF SchedTypeOK
  <2>6. \A x \in Agents : future'[x] = "pending" => pc'[x] = "queued"
    BY <1>5, <2>1 DEF QueueWellFormed, SchedTypeOK
  <2> QED
    BY <2>4, <2>5, <2>6 DEF QueueWellFormed
<1>6. ASSUME NEW a \in Agents, UnwindGranted(a) \/ Release(a) PROVE QueueWellFormed'
  <2> DEFINE left == IF running > 0 THEN running - 1 ELSE running
  <2>1. running \in Nat /\ left \in Nat /\ 1 \in Nat \ {0}
    BY DEF SchedTypeOK
  <2>2. /\ HandOver(1, running) \/ HandOver(1, left)
        /\ \E end \in {"gone", "leaked"} :
             pc[a] # "queued" /\ pc' = [pc EXCEPT ![a] = end]
    BY <1>6 DEF UnwindGranted, Release, ReleaseNext
  <2> HIDE DEF left
  <2> QED
    BY <1>5, <2>1, <2>2
<1>7. ASSUME NEW l \in Limits, SetLimit(l) PROVE QueueWellFormed'
  <2>1. CASE l # Unlimited /\ running >= l
    BY <1>7, <2>1 DEF SetLimit, QueueWellFormed
  <2>2. CASE ~(l # Unlimited /\ running >= l)
    <3> DEFINE n == IF l = Unlimited THEN Len(waiters) + 1 ELSE l - running
    <3>1. n \in Nat \ {0} /\ running \in Nat
      BY <2>2, CapsAssumption DEF Unlimited, SchedTypeOK
    <3>2. HandOver(n, running) /\ pc' = pc
      BY <1>7, <2>2 DEF SetLimit
    <3> HIDE DEF n
    <3> QED
      BY <1>5, <3>1, <3>2
  <2> QED
    BY <2>1, <2>2
<1>8. CASE Reset
  <2> DEFINE parked == {a \in Agents : \E i \in 1..Len(waiters) :
                                         waiters[i] = a /\ Parked(i)}
  <2>1. /\ waiters' = <<>>
        /\ future' = [a \in Agents |-> IF a \in parked THEN "cancelled" ELSE future[a]]
        /\ pc' = [a \in Agents |-> IF a \in parked THEN "unwinding"
                                   ELSE IF a \in Lost THEN "gone" ELSE pc[a]]
    BY <1>8 DEF Reset
  <2> HIDE DEF parked
  <2> QED
    BY <2>1 DEF QueueWellFormed, SchedTypeOK, Lost
<1>9. CASE UNCHANGED schedVars
  BY <1>9 DEF schedVars, QueueWellFormed
<1> QED
  BY <1>1, <1>2, <1>3, <1>4, <1>6, <1>7, <1>8, <1>9 DEF SchedNext, Acquire, Unwind

(* Every step keeps the count explained.                                   *)
LEMMA ExplainedStep ==
  SchedTypeOK /\ QueueWellFormed /\ CountExplained /\ [SchedNext]_schedVars
    => CountExplained'
<1> SUFFICES ASSUME SchedTypeOK, QueueWellFormed, CountExplained, [SchedNext]_schedVars
             PROVE  running' <= Cardinality(Held')
  BY DEF CountExplained
<1> DEFINE Goal == running' <= Cardinality(Held')
<1>a. /\ IsFiniteSet(Held) /\ Cardinality(Held) \in Nat /\ IsFiniteSet(Held')
      /\ Cardinality(Held') \in Nat /\ running \in Nat
      /\ running <= Cardinality(Held)
  BY HeldFinite DEF SchedTypeOK, CountExplained
<1>b. ASSUME Held \subseteq Held', running' = running PROVE Goal
  BY <1>a, <1>b, FS_Subset
<1>c. ASSUME NEW H \in SUBSET Held, NEW G, IsFiniteSet(G), H \cap G = {},
             H \cup G \subseteq Held', NEW count \in Nat, count <= Cardinality(H),
             running' = count + Cardinality(G)
      PROVE  Goal
  <2>1. IsFiniteSet(H) /\ Cardinality(H) \in Nat /\ Cardinality(G) \in Nat
    BY <1>a, <1>c, FS_Subset, FS_CardinalityType
  <2>2. Cardinality(H \cup G) = Cardinality(H) + Cardinality(G)
    <3>1. Cardinality(H \cap G) = 0
      BY <1>c, FS_EmptySet
    <3>2. Cardinality(H \cup G)
            = Cardinality(H) + Cardinality(G) - Cardinality(H \cap G)
      BY <1>c, <2>1, FS_Union
    <3> QED
      BY <2>1, <3>1, <3>2
  <2>3. Cardinality(H \cup G) <= Cardinality(Held')
    BY <1>a, <1>c, FS_Subset
  <2> QED
    BY <1>a, <1>c, <2>1, <2>2, <2>3
<1>d. ASSUME NEW n \in Nat \ {0}, NEW count \in Nat, HandOver(n, count)
      PROVE  \E G \in SUBSET Agents :
               /\ IsFiniteSet(G) /\ running' = count + Cardinality(G)
               /\ Held \cap G = {}
               /\ \A x \in G : future'[x] = "granted" /\ pc[x] = "queued"
               /\ \A x \in Agents \ G : future'[x] = future[x]
  <2>1. PICK G \in SUBSET Agents :
          /\ IsFiniteSet(G) /\ running' = count + Cardinality(G)
          /\ \A x \in G : future[x] = "pending" /\ future'[x] = "granted"
          /\ \A x \in Agents \ G : future'[x] = future[x]
    BY <1>d, HandOverGives
  <2>2. \A x \in G : pc[x] = "queued" /\ x \notin Held
    BY <2>1 DEF QueueWellFormed, Held, Slots, Lost
  <2> QED
    BY <2>1, <2>2
<1> HIDE DEF Goal
<1>1. ASSUME NEW a \in Agents, AcquireNow(a) PROVE Goal
  <2>1. /\ running' = running + 1 /\ a \notin Held
        /\ Held \cup {a} \subseteq Held'
    BY <1>1 DEF AcquireNow, Held, Slots, Lost, SchedTypeOK
  <2>2. IsFiniteSet({a}) /\ Cardinality({a}) = 1 /\ Held \cap {a} = {}
    BY <2>1, FS_Singleton
  <2> QED
    BY <1>a, <1>c, <2>1, <2>2
<1>2. ASSUME NEW a \in Agents, AcquireQueued(a) PROVE Goal
  <2>1. Held \subseteq Held' /\ running' = running
    BY <1>2 DEF AcquireQueued, Held, Slots, Lost, SchedTypeOK
  <2> QED
    BY <1>b, <2>1
<1>3. ASSUME NEW a \in Agents, Resume(a) \/ Cancel(a) \/ UnwindCancelled(a) PROVE Goal
  <2>1. Held \subseteq Held' /\ running' = running
    BY <1>3 DEF Resume, Cancel, UnwindCancelled, Held, Slots, Lost, SchedTypeOK
  <2> QED
    BY <1>b, <2>1
<1>4. ASSUME NEW a \in Agents, UnwindGranted(a) PROVE Goal
  <2>1. /\ HandOver(1, running) /\ pc[a] = "unwinding"
        /\ pc' = [pc EXCEPT ![a] = "leaked"]
    BY <1>4 DEF UnwindGranted, ReleaseNext
  <2>2. PICK G \in SUBSET Agents :
          /\ IsFiniteSet(G) /\ running' = running + Cardinality(G)
          /\ Held \cap G = {}
          /\ \A x \in G : future'[x] = "granted" /\ pc[x] = "queued"
          /\ \A x \in Agents \ G : future'[x] = future[x]
    BY <1>a, <1>d, <2>1, 1 \in Nat \ {0}
  <2>3. Held \cup G \subseteq Held'
    BY <2>1, <2>2 DEF Held, Slots, Lost, SchedTypeOK
  <2> QED
    BY <1>a, <1>c, <2>2, <2>3
<1>5. ASSUME NEW a \in Agents, Release(a) PROVE Goal
  <2> DEFINE left == IF running > 0 THEN running - 1 ELSE running
  <2>1. /\ HandOver(1, left) /\ pc[a] = "running"
        /\ pc' = [pc EXCEPT ![a] = "gone"] /\ left \in Nat
    BY <1>a, <1>5 DEF Release, ReleaseNext
  <2>2. a \in Held
    BY <2>1 DEF Held, Slots
  <2>3. /\ Cardinality(Held \ {a}) = Cardinality(Held) - 1
        /\ Cardinality(Held \ {a}) \in Nat
    BY <1>a, <2>2, FS_RemoveElement, FS_CardinalityType
  <2>4. left <= Cardinality(Held \ {a})
    BY <1>a, <2>3
  <2> HIDE DEF left
  <2>5. PICK G \in SUBSET Agents :
          /\ IsFiniteSet(G) /\ running' = left + Cardinality(G)
          /\ Held \cap G = {}
          /\ \A x \in G : future'[x] = "granted" /\ pc[x] = "queued"
          /\ \A x \in Agents \ G : future'[x] = future[x]
    BY <1>a, <1>d, <2>1, 1 \in Nat \ {0}
  <2>6. (Held \ {a}) \cup G \subseteq Held'
    BY <2>1, <2>5 DEF Held, Slots, Lost, SchedTypeOK
  <2>7. Held \ {a} \in SUBSET Held /\ (Held \ {a}) \cap G = {}
    BY <2>5
  <2> QED
    BY <1>c, <2>1, <2>4, <2>5, <2>6, <2>7
<1>6. ASSUME NEW l \in Limits, SetLimit(l) PROVE Goal
  <2>1. CASE l # Unlimited /\ running >= l
    <3>1. Held \subseteq Held' /\ running' = running
      BY <1>6, <2>1 DEF SetLimit, Held, Slots, Lost
    <3> QED
      BY <1>b, <3>1
  <2>2. CASE ~(l # Unlimited /\ running >= l)
    <3> DEFINE n == IF l = Unlimited THEN Len(waiters) + 1 ELSE l - running
    <3>1. n \in Nat \ {0}
      BY <2>2, CapsAssumption DEF Unlimited, SchedTypeOK
    <3>2. HandOver(n, running) /\ pc' = pc
      BY <1>6, <2>2 DEF SetLimit
    <3> HIDE DEF n
    <3>3. PICK G \in SUBSET Agents :
            /\ IsFiniteSet(G) /\ running' = running + Cardinality(G)
            /\ Held \cap G = {}
            /\ \A x \in G : future'[x] = "granted" /\ pc[x] = "queued"
            /\ \A x \in Agents \ G : future'[x] = future[x]
      BY <1>a, <1>d, <3>1, <3>2
    <3>4. Held \cup G \subseteq Held'
      BY <3>2, <3>3 DEF Held, Slots, Lost
    <3> QED
      BY <1>a, <1>c, <3>3, <3>4
  <2> QED
    BY <2>1, <2>2
<1>7. CASE Reset
  BY <1>a, <1>7 DEF Reset, Goal
<1>8. CASE UNCHANGED schedVars
  <2>1. Held \subseteq Held' /\ running' = running
    BY <1>8 DEF schedVars, Held, Slots, Lost
  <2> QED
    BY <1>b, <2>1 DEF Goal
<1> QED
  BY <1>1, <1>2, <1>3, <1>4, <1>5, <1>6, <1>7, <1>8
     DEF SchedNext, Acquire, Unwind, Goal

(* A dispatch waits only while every slot of the cap is in use or lost.    *)
THEOREM WaitsForUsedSlots == SchedSpec => []SlotsUsed
<1>1. SchedInit => QueueWellFormed /\ CountExplained
  <2>1. ASSUME SchedInit PROVE QueueWellFormed
    BY <2>1 DEF SchedInit, QueueWellFormed
  <2>2. ASSUME SchedInit PROVE CountExplained
    <3>1. Held = {}
      BY <2>2 DEF SchedInit, Held, Slots, Lost
    <3>2. Cardinality(Held) = 0
      BY <3>1, FS_EmptySet
    <3> QED
      BY <2>2, <3>2 DEF SchedInit, CountExplained
  <2> QED
    BY <2>1, <2>2
<1>2. SchedTypeOK /\ WaitersImplySaturation /\ CountExplained => SlotsUsed
  <2> SUFFICES ASSUME SchedTypeOK, WaitersImplySaturation, CountExplained,
                      \E i \in 1..Len(waiters) : Parked(i)
               PROVE  limit # Unlimited /\ Cardinality(Held) >= limit
    BY DEF SlotsUsed, Held
  <2> QED
    BY HeldFinite, CapsAssumption
       DEF WaitersImplySaturation, CountExplained, SchedTypeOK
<1> QED
  BY <1>1, <1>2, QueueStep, ExplainedStep, SchedTypeCorrect, NoLostWakeUp, PTL
     DEF SchedSpec

(* The cap is used and kept: whoever waits, waits for slots that are in    *)
(* use or lost, and no step takes the number in flight over the cap.       *)
THEOREM CapIsUsedAndKept == SchedSpec => CapUsedAndKept
BY WaitsForUsedSlots, CapNotExceeded, PTL DEF CapUsedAndKept

----------------------------------------------------------------------------
(* The order of the queue. *)

(* Whoever a hand-over gives a slot, it leaves nobody pending ahead.       *)
LEMMA HandOverInOrder ==
  ASSUME SchedTypeOK, NEW n, NEW count, HandOver(n, count),
         NEW a \in Agents, future'[a] # future[a], NEW i \in Ahead(a)
  PROVE  future'[waiters[i]] # "pending"
<1>1. PICK k \in 0..Len(waiters) :
        LET woken == {j \in 1..k : Parked(j)} IN
          future' = [x \in Agents |-> IF \E j \in woken : waiters[j] = x
                                      THEN "granted" ELSE future[x]]
  BY DEF HandOver
<1>2. /\ i \in 1..Len(waiters) /\ Parked(i) /\ waiters[i] \in Agents
      /\ \A j \in 1..i : waiters[j] # a
  BY DEF Ahead, SchedTypeOK
<1>3. PICK j \in 1..k : waiters[j] = a
  BY <1>1
<1>4. i \in 1..k
  <2>1. i \in Nat /\ j \in Nat /\ k \in Nat
    BY <1>2 DEF SchedTypeOK
  <2>2. ~(j <= i)
    BY <1>2, <1>3, <2>1
  <2> QED
    BY <1>2, <1>3, <2>1, <2>2
<1> QED
  BY <1>1, <1>2, <1>4

(* A hand-over that ends a dispatch gives slots by completing futures.     *)
LEMMA GainedByHandOver ==
  ASSUME SchedTypeOK, NEW a \in Slots' \ Slots,
         \A b \in Agents : pc'[b] \in {pc[b], "gone", "leaked"}
  PROVE  a \in Agents /\ future'[a] # future[a]
BY DEF Slots

(* GrantsInOrder, first come, first served: whoever gets a slot, by        *)
(* arriving, by a release or a hand-over, or by a higher limit, leaves     *)
(* nobody pending who was ahead.  An arrival gets one only when nobody is  *)
(* pending, because no wake-up is lost.                                    *)
THEOREM SlotsAreGrantedInOrder == SchedSpec => GrantsInOrder
<1>1. SchedTypeOK /\ WaitersImplySaturation /\ [SchedNext]_schedVars
        => [\A a \in Slots' \ Slots :
              \A i \in Ahead(a) : future'[waiters[i]] # "pending"]_schedVars
  <2> SUFFICES ASSUME SchedTypeOK, WaitersImplySaturation, SchedNext,
                      NEW a \in Slots' \ Slots, NEW i \in Ahead(a)
               PROVE  future'[waiters[i]] # "pending"
    OBVIOUS
  <2>1. i \in 1..Len(waiters) /\ Parked(i)
    BY DEF Ahead
  <2>2. ASSUME NEW b \in Agents, AcquireNow(b) PROVE FALSE
    <3>1. limit # Unlimited /\ running >= limit /\ running \in Nat /\ limit \in Nat
      BY <2>1, CapsAssumption DEF WaitersImplySaturation, SchedTypeOK
    <3> QED
      BY <2>2, <3>1 DEF AcquireNow, AdmitsNow
  <2>3. ASSUME NEW b \in Agents,
               AcquireQueued(b) \/ Resume(b) \/ Cancel(b) \/ UnwindCancelled(b)
        PROVE  FALSE
    BY <2>3 DEF AcquireQueued, Resume, Cancel, UnwindCancelled, Slots, SchedTypeOK
  <2>4. ASSUME NEW b \in Agents, UnwindGranted(b) \/ Release(b)
        PROVE  future'[waiters[i]] # "pending"
    <3>1. /\ \E end \in {"gone", "leaked"} : pc' = [pc EXCEPT ![b] = end]
          /\ \E count \in Nat : HandOver(1, count)
      BY <2>4 DEF UnwindGranted, Release, ReleaseNext, SchedTypeOK
    <3>2. \A c \in Agents : pc'[c] \in {pc[c], "gone", "leaked"}
      BY <3>1 DEF SchedTypeOK
    <3> QED
      BY <3>1, <3>2, GainedByHandOver, HandOverInOrder
  <2>5. ASSUME NEW l \in Limits, SetLimit(l)
        PROVE  future'[waiters[i]] # "pending"
    <3>1. pc' = pc /\ (future' = future \/ \E n, count : HandOver(n, count))
      BY <2>5 DEF SetLimit
    <3>2. a \in Agents /\ future'[a] # future[a]
      BY <3>1, GainedByHandOver
    <3> QED
      BY <3>1, <3>2, HandOverInOrder
  <2>6. CASE Reset
    BY <2>6 DEF Reset, Slots
  <2> QED
    BY <2>2, <2>3, <2>4, <2>5, <2>6 DEF SchedNext, Acquire, Unwind
<1> QED
  BY <1>1, SchedTypeCorrect, NoLostWakeUp, PTL DEF SchedSpec, GrantsInOrder

----------------------------------------------------------------------------
(* Records *)

(* Marking a record as notified leaves its status alone. *)
LEMMA MarkFacts ==
  ASSUME NEW r \in Record
  PROVE  /\ [r EXCEPT !.notified = TRUE] \in Record
         /\ [r EXCEPT !.notified = TRUE].status = r.status
         /\ [r EXCEPT !.notified = TRUE].notified
BY DEF Record

(* The records a task is given. *)
LEMMA GivenRecords ==
  /\ Absent \in Record /\ Absent.status = "none" /\ ~Absent.notified
  /\ Running \in Record /\ Running.status = "running" /\ ~Running.notified
  /\ \A status \in Settling :
       /\ Finished(status) \in Record /\ Finished(status).status = status
       /\ ~Finished(status).notified
BY DEF Absent, Running, Finished, Record, Settling

(* A set of records that a process marks and writes from its memory.       *)
LEMMA WriteFacts ==
  ASSUME TypeOK, NEW p \in Procs, NEW set \in SUBSET Tasks
  PROVE  LET marked == Marked(mem[p], set) IN
         /\ marked \in [Tasks -> Record] /\ Write(marked, set) \in [Tasks -> Record]
         /\ \A t \in set : /\ marked[t].status = mem[p][t].status /\ marked[t].notified
                           /\ Write(marked, set)[t] = marked[t]
         /\ \A t \in Tasks \ set : /\ marked[t] = mem[p][t]
                                   /\ Write(marked, set)[t] = disk[t]
<1> DEFINE marked == Marked(mem[p], set)
<1>1. mem[p] \in [Tasks -> Record] /\ disk \in [Tasks -> Record]
  BY DEF TypeOK
<1>2. \A t \in Tasks : marked[t] = IF t \in set THEN [mem[p][t] EXCEPT !.notified = TRUE]
                                   ELSE mem[p][t]
  BY DEF Marked
<1>3. \A t \in Tasks : /\ [mem[p][t] EXCEPT !.notified = TRUE] \in Record
                       /\ [mem[p][t] EXCEPT !.notified = TRUE].status = mem[p][t].status
                       /\ [mem[p][t] EXCEPT !.notified = TRUE].notified
  BY <1>1, MarkFacts
<1>4. marked = [t \in Tasks |-> marked[t]]
  BY DEF Marked
<1> HIDE DEF marked
<1>5. marked \in [Tasks -> Record]
  BY <1>1, <1>2, <1>3, <1>4
<1>6. /\ \A t \in Tasks : Write(marked, set)[t] = IF t \in set THEN marked[t] ELSE disk[t]
      /\ Write(marked, set) \in [Tasks -> Record]
  BY <1>1, <1>5 DEF Write
<1> QED
  BY <1>2, <1>3, <1>5, <1>6 DEF marked

(* A drain marks what was due in memory and in the directory, appends its  *)
(* notice, and touches nothing else.                                       *)
LEMMA DrainFacts ==
  ASSUME TypeOK, NEW p \in Procs, Drain(p)
  PROVE  /\ mem' \in [Procs -> [Tasks -> Record]] /\ disk' \in [Tasks -> Record]
         /\ rehydrated' = rehydrated
         /\ \A q \in Procs \ {p} : mem'[q] = mem[q]
         /\ told' = Announced(p, Due(p))
         /\ \A t \in Due(p) :
              /\ mem'[p][t].status = mem[p][t].status /\ mem'[p][t].notified
              /\ disk'[t] = mem'[p][t]
         /\ \A t \in Tasks \ Due(p) : mem'[p][t] = mem[p][t] /\ disk'[t] = disk[t]
<1> DEFINE set == Due(p)
           marked == Marked(mem[p], set)
<1>1. mem \in [Procs -> [Tasks -> Record]] /\ set \in SUBSET Tasks
  BY DEF TypeOK, Due
<1>2. /\ mem' = [mem EXCEPT ![p] = marked] /\ disk' = Write(marked, set)
      /\ rehydrated' = rehydrated /\ told' = Announced(p, set)
  BY DEF Drain
<1>3. /\ marked \in [Tasks -> Record] /\ Write(marked, set) \in [Tasks -> Record]
      /\ \A t \in set : /\ marked[t].status = mem[p][t].status /\ marked[t].notified
                        /\ Write(marked, set)[t] = marked[t]
      /\ \A t \in Tasks \ set : /\ marked[t] = mem[p][t]
                                /\ Write(marked, set)[t] = disk[t]
  BY <1>1, WriteFacts
<1> HIDE DEF marked, set
<1>4. /\ mem'[p] = marked /\ \A q \in Procs \ {p} : mem'[q] = mem[q]
      /\ mem' \in [Procs -> [Tasks -> Record]]
  BY <1>1, <1>2, <1>3
<1> QED
  BY <1>2, <1>3, <1>4 DEF set

(* Reading the directory adds copies of what a process has none of.        *)
LEMMA ReadFacts ==
  ASSUME TypeOK, NEW p \in Procs, ReadDirectory(p)
  PROVE  /\ mem' \in [Procs -> [Tasks -> Record]]
         /\ rehydrated' = rehydrated \cup {p}
         /\ phase[p] = "starting" /\ phase' = [phase EXCEPT ![p] = "reading"]
         /\ UNCHANGED <<disk, coro, owner, told, missed, raised>>
         /\ \A q \in Procs \ {p} : mem'[q] = mem[q]
         /\ \A t \in Tasks : \/ mem'[p][t] = mem[p][t]
                             \/ mem[p][t] = Absent /\ mem'[p][t] = disk[t]
<1>1. /\ Known(p) \in [Tasks -> Record]
      /\ \A t \in Tasks : \/ Known(p)[t] = mem[p][t]
                          \/ mem[p][t] = Absent /\ Known(p)[t] = disk[t]
  BY DEF Known, TypeOK
<1> QED
  BY <1>1 DEF ReadDirectory, TypeOK, tasks

(* Storing a record changes that record and no other. *)
LEMMA StoreFacts ==
  ASSUME TypeOK, NEW p \in Procs, NEW t \in Tasks, NEW r \in Record, Store(p, t, r)
  PROVE  /\ mem' \in [Procs -> [Tasks -> Record]]
         /\ disk' \in [Tasks -> Record]
         /\ rehydrated' = rehydrated
         /\ mem'[p][t] = r /\ disk'[t] = r
         /\ \A u \in Tasks \ {t} : /\ disk'[u] = disk[u]
                                  /\ \A q \in Procs : mem'[q][u] = mem[q][u]
         /\ \A q \in Procs \ {p} : mem'[q] = mem[q]
BY DEF Store, TypeOK

(* The notices of a task after some were appended. *)
LEMMA AnnouncedFacts ==
  ASSUME TypeOK, NEW p \in Procs, NEW set \in SUBSET Tasks
  PROVE  /\ Announced(p, set) \in [Tasks -> Seq(Procs)]
         /\ \A t \in Tasks \ set : Announced(p, set)[t] = told[t]
         /\ \A t \in set : Announced(p, set)[t] = Append(told[t], p)
<1>1. told \in [Tasks -> Seq(Procs)]
  BY DEF TypeOK
<1>2. \A t \in Tasks : Append(told[t], p) \in Seq(Procs)
  BY <1>1
<1> QED
  BY <1>1, <1>2 DEF Announced

(* The same for one of them. *)
LEMMA AnnouncedTask ==
  ASSUME TypeOK, NEW p \in Procs, NEW set \in SUBSET Tasks, NEW t \in set
  PROVE  /\ Len(told[t]) \in Nat /\ DOMAIN told[t] = 1..Len(told[t])
         /\ DOMAIN Announced(p, set)[t] = 1..Len(told[t]) + 1
         /\ Announced(p, set)[t][Len(told[t]) + 1] = p
         /\ \A n \in DOMAIN told[t] : Announced(p, set)[t][n] = told[t][n]
<1>1. told[t] \in Seq(Procs) /\ Announced(p, set)[t] = Append(told[t], p)
  BY AnnouncedFacts DEF TypeOK
<1> QED
  BY <1>1, AppendProperties

----------------------------------------------------------------------------
(* The parts of the inductive invariant *)

Ended == {"exited", "crashed"}

(* A task that was dispatched has an owner, which is a started process.    *)
Dispatched ==
  \A t \in Tasks :
    /\ coro[t] = "none" <=> owner[t] = NoProc
    /\ owner[t] \in Procs => phase[owner[t]] # "off"

(* Before its runner has ended nobody holds a settled record of a task and *)
(* nobody announced it.                                                    *)
Unsettled ==
  \A t \in Tasks :
    /\ coro[t] = "none" => disk[t] = Absent /\ \A p \in Procs : mem[p][t] = Absent
    /\ coro[t] \in {"scheduled", "working"} =>
         /\ disk[t].status = "running"
         /\ \A p \in Procs : mem[p][t].status \notin Settling
    /\ coro[t] # "over" => told[t] = <<>>

(* Whoever holds a settled record of a task agrees with the directory on   *)
(* how it ended.                                                           *)
Agreed ==
  \A t \in Tasks : \A p \in Procs :
    mem[p][t].status \in Settling => disk[t].status = mem[p][t].status

(* A stranger has a result to announce only between reading the directory  *)
(* and announcing what is settled in it.                                   *)
ForeignCopies ==
  \A t \in Tasks : \A p \in Procs \ {owner[t]} :
    mem[p][t].status \in Settling => mem[p][t].notified \/ phase[p] = "reading"

(* What was announced is marked in the directory and in the memory of all  *)
(* that announced it, unless they have ended.                              *)
Heard ==
  \A t \in Tasks :
    /\ told[t] # <<>> => disk[t].status \in Settling /\ disk[t].notified
    /\ \A n \in DOMAIN told[t] :
         phase[told[t][n]] \in Ended \/ mem[told[t][n]][t].notified

(* A result of its own that a terminal has not announced has a run ahead   *)
(* of it, unless settling it woke nobody or a run was abandoned.           *)
Pending ==
  \A p \in Procs : \A t \in Owned(p) :
    /\ phase[p] \in {"idle", "ending", "shell"}
    /\ mem[p][t].status \in Settling /\ ~mem[p][t].notified
    => missed[t] # "no" \/ p \in raised

----------------------------------------------------------------------------
(* Types *)

(* The steps of the terminal that leave records, tasks and notices alone. *)
Quiet(p) ==
  \/ Start(p) \/ Submit(p) \/ ShellCommand(p) \/ AbandonRun(p) \/ CancelRun(p)
  \/ ClickHandoff(p) \/ RefreshContext(p) \/ Continue(p) \/ GoIdle(p) \/ BeginClose(p)
  \/ \E s \in Sessions : SwitchSession(p, s) \/ NewSession(p, s)
  \/ \E follow \in BOOLEAN : ShellDone(p, follow)

Draining(p) == OpenRun(p) \/ FinishTurn(p) \/ EndRun(p)

Leaving(p) == Exit(p) \/ Crash(p) \/ CrashDraining(p)

Ending(t) ==
  \/ StopBegun(t) \/ StopScheduled(t)
  \/ \E status \in {"completed", "error"} : Settle(t, status)

(* Every step is one of a quiet one, the reading of the directory, a       *)
(* drain, the end of a process, a dispatch, or a step of a runner.         *)
LEMMA NextCases ==
  Next <=> \/ \E p \in Procs : Quiet(p) \/ ReadDirectory(p) \/ Draining(p) \/ Leaving(p)
           \/ \E p \in Procs, t \in Tasks : Register(p, t)
           \/ \E t \in Tasks : Begin(t) \/ Ending(t)
BY DEF Next, Quiet, Draining, Leaving, Ending

(* A quiet step changes the phase of one process, which neither reads nor  *)
(* has ended; it comes to rest from rest, or from being off, or abandons.  *)
LEMMA QuietFacts ==
  ASSUME TypeOK, NEW p \in Procs, Quiet(p)
  PROVE  /\ UNCHANGED <<records, tasks, told>>
         /\ raised \subseteq raised' /\ raised' \subseteq Procs /\ switch' \subseteq Procs
         /\ \/ phase' = phase
            \/ /\ phase[p] \notin Ended \cup {"reading"}
               /\ \E now \in Phases \ ({"off"} \cup Ended) :
                    /\ phase' = [phase EXCEPT ![p] = now]
                    /\ now \in {"idle", "ending", "shell"} =>
                         phase[p] \in {"idle", "ending", "shell", "off"} \/ p \in raised'
         /\ session' \in [Procs -> Sessions] /\ context' \in [Procs -> Sessions]
         /\ chain' \in [Procs -> 0..MaxWakeups] /\ inputs' \in 0..MaxInputs
<1>1. /\ Phases = {"starting", "turns", "ending", "shell", "idle", "reading", "closing",
                   "off", "exited", "crashed"}
      /\ Awake = {"starting", "turns", "ending", "shell", "idle"}
      /\ Busy = {"starting", "turns", "ending", "shell"} /\ Ended = {"exited", "crashed"}
  BY DEF Phases, Up, Awake, Busy, Ended
<1>2. /\ phase \in [Procs -> Phases] /\ session \in [Procs -> Sessions]
      /\ context \in [Procs -> Sessions] /\ switch \subseteq Procs
      /\ chain \in [Procs -> 0..MaxWakeups] /\ 0 \in 0..MaxWakeups
      /\ inputs \in 0..MaxInputs /\ raised \subseteq Procs
      /\ inputs < MaxInputs => inputs + 1 \in 0..MaxInputs
  BY WakeupsAssumption DEF TypeOK
<1>3. CASE Start(p) \/ AbandonRun(p) \/ GoIdle(p) \/ BeginClose(p) \/ CancelRun(p)
  BY <1>1, <1>2, <1>3 DEF Start, AbandonRun, GoIdle, BeginClose, CancelRun
<1>4. CASE Submit(p) \/ ShellCommand(p) \/ Continue(p)
  BY <1>1, <1>2, <1>4 DEF Submit, ShellCommand, Continue
<1>5. CASE \/ ClickHandoff(p) \/ RefreshContext(p)
           \/ \E s \in Sessions : SwitchSession(p, s) \/ NewSession(p, s)
  BY <1>2, <1>5 DEF SwitchSession, NewSession, ClickHandoff, RefreshContext
<1>6. CASE \E follow \in BOOLEAN : ShellDone(p, follow)
  <2>1. /\ phase[p] = "shell"
        /\ \E now \in {"starting", "idle"} : phase' = [phase EXCEPT ![p] = now]
        /\ UNCHANGED <<session, context, switch, records, tasks, chain, inputs, raised, told>>
    BY <1>6 DEF ShellDone
  <2> QED
    BY <1>1, <1>2, <2>1
<1> QED
  BY <1>3, <1>4, <1>5, <1>6 DEF Quiet

(* A run drains in the phases in which it may; nothing of the tasks moves. *)
LEMMA DrainingFacts ==
  ASSUME NEW p \in Procs, Draining(p)
  PROVE  /\ Drain(p) /\ phase[p] \in {"starting", "reading", "turns"}
         /\ \/ phase' = phase
            \/ \E now \in {"turns", "ending"} : phase' = [phase EXCEPT ![p] = now]
         /\ raised' \in {raised, raised \ {p}}
         /\ UNCHANGED <<session, context, switch, tasks, chain, inputs>>
BY DEF Draining, OpenRun, FinishTurn, EndRun

(* How the runner of a task ends: its record is stored as settled, and     *)
(* either the terminal is woken or the reason why not is noted.            *)
LEMMA EndingFacts ==
  ASSUME TypeOK, Dispatched, NEW t \in Tasks, Ending(t)
  PROVE  /\ owner[t] \in Procs /\ phase[owner[t]] \notin Ended
         /\ coro[t] \in {"scheduled", "working"} /\ coro' = [coro EXCEPT ![t] = "over"]
         /\ \E status \in Settling : Store(owner[t], t, Finished(status))
         /\ UNCHANGED <<session, context, switch, owner, parent, inputs, raised, told>>
         /\ \/ /\ phase' = phase /\ chain' = chain
               /\ \E reason \in Reasons \ {"no"} : missed' = [missed EXCEPT ![t] = reason]
            \/ /\ phase' = phase /\ chain' = [chain EXCEPT ![owner[t]] = 0]
               /\ missed' = [missed EXCEPT ![t] = "capped"]
            \/ /\ phase[owner[t]] = "idle"
               /\ phase' = [phase EXCEPT ![owner[t]] = "starting"]
               /\ chain[owner[t]] < MaxWakeups
               /\ chain' = [chain EXCEPT ![owner[t]] = @ + 1]
               /\ missed' = missed
<1>1. coro[t] \in {"scheduled", "working"} => owner[t] \in Procs
  BY DEF Dispatched, TypeOK
<1>2. ASSUME NEW status \in {"completed", "error"}, Settle(t, status)
      PROVE  /\ status \in Settling /\ coro[t] \in {"scheduled", "working"}
             /\ \/ phase' = phase
                   /\ \/ /\ chain' = chain
                         /\ \E reason \in Reasons \ {"no"} :
                              missed' = [missed EXCEPT ![t] = reason]
                      \/ /\ chain' = [chain EXCEPT ![owner[t]] = 0]
                         /\ missed' = [missed EXCEPT ![t] = "capped"]
                \/ /\ phase[owner[t]] = "idle"
                   /\ phase' = [phase EXCEPT ![owner[t]] = "starting"]
                   /\ chain[owner[t]] < MaxWakeups
                   /\ chain' = [chain EXCEPT ![owner[t]] = @ + 1]
                   /\ missed' = missed
  BY <1>2 DEF Settle, Wake, Settling, Reasons
<1>3. CASE \E status \in {"completed", "error"} : Settle(t, status)
  BY <1>1, <1>2, <1>3 DEF Settle, Ended, Awake, Busy
<1>4. CASE StopBegun(t)
  BY <1>1, <1>4 DEF StopBegun, Reasons, Ended
<1>5. CASE StopScheduled(t)
  BY <1>1, <1>5 DEF StopScheduled, Reasons, Settling, Ended
<1> QED
  BY <1>3, <1>4, <1>5 DEF Ending

(* A process that ends forgets what it knew, and leaves coroutines only    *)
(* when it was killed; of what was due some is written by then and, when   *)
(* all of it was, some announced.                                          *)
LEMMA LeavingFacts ==
  ASSUME TypeOK, NEW p \in Procs, Leaving(p)
  PROVE  /\ Forget(p) /\ phase[p] \in Up
         /\ UNCHANGED <<session, context, owner, parent, missed, inputs>>
         /\ \/ /\ phase' = [phase EXCEPT ![p] = "exited"] /\ coro' = coro
               /\ \A t \in Owned(p) : coro[t] = "over"
               /\ disk' = disk /\ told' = told
            \/ /\ phase' = [phase EXCEPT ![p] = "crashed"]
               /\ coro' = [t \in Tasks |-> IF owner[t] = p THEN "over" ELSE coro[t]]
               /\ \E written \in SUBSET Due(p), appended \in SUBSET Due(p) :
                    /\ written # Due(p) => appended = {}
                    /\ told' = Announced(p, appended)
                    /\ disk' = Write(Marked(mem[p], written), written)
<1>1. CASE Exit(p)
  BY <1>1 DEF Exit, Up, tasks
<1>2. CASE Crash(p)
  <2>1. {} \in SUBSET Due(p) /\ disk' = disk /\ told' = told /\ Die(p) /\ phase[p] \in Up
    BY <1>2 DEF Crash
  <2>2. told = Announced(p, {})
    BY DEF TypeOK, Announced
  <2>3. disk = Write(Marked(mem[p], {}), {})
    BY DEF TypeOK, Write
  <2> QED
    BY <2>1, <2>2, <2>3 DEF Die
<1>3. CASE CrashDraining(p)
  <2>1. /\ phase[p] \in Up /\ Die(p)
        /\ \E written \in SUBSET Due(p), appended \in SUBSET Due(p) :
             /\ written # Due(p) => appended = {}
             /\ told' = Announced(p, appended)
             /\ disk' = Write(Marked(mem[p], written), written)
    BY <1>3 DEF CrashDraining, Up, Awake, Busy
  <2> QED
    BY <2>1 DEF Die
<1> QED
  BY <1>1, <1>2, <1>3 DEF Leaving

(* Every step keeps the types. *)
LEMMA TypeStep ==
  ASSUME TypeOK, Dispatched, [Next]_vars
  PROVE  TypeOK'
<1>0. /\ \A p \in Procs : Due(p) \in SUBSET Tasks
      /\ {"starting", "reading", "turns", "ending", "exited", "crashed"} \subseteq Phases
  BY DEF Due, Phases, Up, Awake, Busy
<1>1. CASE UNCHANGED vars
  BY <1>1 DEF TypeOK, vars, records, tasks
<1>2. ASSUME NEW p \in Procs, Quiet(p)
      PROVE  TypeOK'
  <2>1. phase' \in [Procs -> Phases]
    BY <1>2, QuietFacts DEF TypeOK
  <2> QED
    BY <1>2, <2>1, QuietFacts DEF TypeOK, records, tasks
<1>3. ASSUME NEW p \in Procs, ReadDirectory(p)
      PROVE  TypeOK'
  <2>1. mem' \in [Procs -> [Tasks -> Record]] /\ rehydrated' = rehydrated \cup {p}
    BY <1>3, ReadFacts
  <2> QED
    BY <1>0, <1>3, <2>1 DEF ReadDirectory, TypeOK, tasks
<1>4. ASSUME NEW p \in Procs, Draining(p)
      PROVE  TypeOK'
  <2>1. /\ mem' \in [Procs -> [Tasks -> Record]] /\ disk' \in [Tasks -> Record]
        /\ rehydrated' = rehydrated /\ told' \in [Tasks -> Seq(Procs)]
    BY <1>0, <1>4, DrainingFacts, DrainFacts, AnnouncedFacts
  <2>2. /\ phase' \in [Procs -> Phases] /\ raised' \subseteq Procs
        /\ UNCHANGED <<session, context, switch, tasks, chain, inputs>>
    <3>1. phase \in [Procs -> Phases] /\ raised \subseteq Procs
      BY DEF TypeOK
    <3> QED
      BY <1>0, <1>4, <3>1, DrainingFacts
  <2> QED
    BY <2>1, <2>2 DEF TypeOK, tasks
<1>5. ASSUME NEW p \in Procs, NEW t \in Tasks, Register(p, t)
      PROVE  TypeOK'
  <2>1. /\ mem' \in [Procs -> [Tasks -> Record]] /\ disk' \in [Tasks -> Record]
        /\ rehydrated' = rehydrated
    BY <1>5, StoreFacts, GivenRecords DEF Register
  <2> QED
    BY <1>5, <2>1 DEF Register, TypeOK
<1>6. ASSUME NEW t \in Tasks, Begin(t)
      PROVE  TypeOK'
  BY <1>6 DEF Begin, TypeOK, records
<1>7. ASSUME NEW t \in Tasks, Ending(t)
      PROVE  TypeOK'
  <2>1. PICK status \in Settling : Store(owner[t], t, Finished(status))
    BY <1>7, EndingFacts
  <2>2. owner[t] \in Procs /\ Finished(status) \in Record
    BY <1>7, EndingFacts, GivenRecords
  <2>3. /\ mem' \in [Procs -> [Tasks -> Record]] /\ disk' \in [Tasks -> Record]
        /\ rehydrated' = rehydrated
    BY <2>1, <2>2, StoreFacts
  <2>4. /\ phase' \in [Procs -> Phases] /\ chain' \in [Procs -> 0..MaxWakeups]
        /\ missed' \in [Tasks -> Reasons]
    <3>1. /\ phase \in [Procs -> Phases] /\ chain \in [Procs -> 0..MaxWakeups]
          /\ missed \in [Tasks -> Reasons] /\ "capped" \in Reasons
      BY DEF TypeOK, Reasons
    <3>2. \/ phase' = phase
          \/ phase' = [phase EXCEPT ![owner[t]] = "starting"]
      BY <1>7, EndingFacts
    <3>3. \/ missed' = missed
          \/ \E reason \in Reasons : missed' = [missed EXCEPT ![t] = reason]
      BY <1>7, <3>1, EndingFacts
    <3>4. \/ chain' = chain
          \/ chain' = [chain EXCEPT ![owner[t]] = 0]
          \/ /\ chain[owner[t]] < MaxWakeups
             /\ chain' = [chain EXCEPT ![owner[t]] = @ + 1]
      BY <1>7, EndingFacts
    <3>5. chain' \in [Procs -> 0..MaxWakeups]
      BY <2>2, <3>1, <3>4, WakeupsAssumption
    <3> QED
      BY <1>0, <2>2, <3>1, <3>2, <3>3, <3>5
  <2>5. coro' \in [Tasks -> {"none", "scheduled", "working", "over"}]
    BY <1>7, EndingFacts DEF TypeOK
  <2>6. UNCHANGED <<session, context, switch, owner, parent, inputs, raised, told>>
    BY <1>7, EndingFacts
  <2> QED
    BY <2>3, <2>4, <2>5, <2>6 DEF TypeOK
<1>8. ASSUME NEW p \in Procs, Leaving(p)
      PROVE  TypeOK'
  <2>1. /\ phase' \in [Procs -> Phases]
        /\ coro' \in [Tasks -> {"none", "scheduled", "working", "over"}]
        /\ UNCHANGED <<session, context, owner, parent, missed, inputs>>
    <3>1. /\ phase \in [Procs -> Phases]
          /\ coro \in [Tasks -> {"none", "scheduled", "working", "over"}]
      BY DEF TypeOK
    <3>2. /\ \/ phase' = [phase EXCEPT ![p] = "exited"]
             \/ phase' = [phase EXCEPT ![p] = "crashed"]
          /\ \/ coro' = coro
             \/ coro' = [t \in Tasks |-> IF owner[t] = p THEN "over" ELSE coro[t]]
          /\ UNCHANGED <<session, context, owner, parent, missed, inputs>>
      BY <1>8, LeavingFacts
    <3> QED
      BY <1>0, <3>1, <3>2
  <2>2. disk' \in [Tasks -> Record] /\ told' \in [Tasks -> Seq(Procs)]
    <3>1. CASE disk' = disk /\ told' = told
      BY <3>1 DEF TypeOK
    <3>2. CASE \E written \in SUBSET Due(p), appended \in SUBSET Due(p) :
                 /\ told' = Announced(p, appended)
                 /\ disk' = Write(Marked(mem[p], written), written)
      <4>1. PICK written \in SUBSET Tasks, appended \in SUBSET Tasks :
              /\ told' = Announced(p, appended)
              /\ disk' = Write(Marked(mem[p], written), written)
        BY <1>0, <3>2
      <4> QED
        BY <4>1, WriteFacts, AnnouncedFacts
    <3> QED
      BY <1>8, <3>1, <3>2, LeavingFacts
  <2>3. /\ mem' \in [Procs -> [Tasks -> Record]] /\ rehydrated' \subseteq Procs
        /\ switch' \subseteq Procs /\ raised' \subseteq Procs
        /\ chain' \in [Procs -> 0..MaxWakeups]
    <3>1. Forget(p) /\ [t \in Tasks |-> Absent] \in [Tasks -> Record] /\ 0 \in 0..MaxWakeups
      BY <1>8, LeavingFacts, GivenRecords, WakeupsAssumption
    <3> QED
      BY <3>1 DEF Forget, TypeOK
  <2> QED
    BY <2>1, <2>2, <2>3 DEF TypeOK
<1> QED
  BY <1>1, <1>2, <1>3, <1>4, <1>5, <1>6, <1>7, <1>8, NextCases

----------------------------------------------------------------------------
(* The inductive invariant *)

IInv ==
  /\ TypeOK /\ Dispatched /\ Unsettled /\ Agreed /\ ForeignCopies /\ Heard
  /\ OnceTold /\ Pending /\ RunningIsAlive /\ NotifiedIsTold

(* The invariant holds at the start. *)
LEMMA InitIInv == Init => IInv
<1> SUFFICES ASSUME Init PROVE IInv
  OBVIOUS
<1>1. TypeOK
  <2>1. \A t \in Tasks : <<>> \in Seq(Procs)
    OBVIOUS
  <2>2. "off" \in Phases /\ "no" \in Reasons /\ 0 \in 0..MaxWakeups /\ 0 \in 0..MaxInputs
    BY WakeupsAssumption DEF Phases, Reasons
  <2> QED
    BY <2>1, <2>2, GivenRecords DEF Init, TypeOK
<1>2. \A t \in Tasks : /\ coro[t] = "none" /\ owner[t] = NoProc /\ disk[t] = Absent
                       /\ told[t] = <<>> /\ \A p \in Procs : mem[p][t] = Absent
  BY DEF Init
<1>3. NoProc \notin Procs /\ "none" \notin Settling /\ Absent.status = "none"
  BY NoProcAssumption, GivenRecords DEF Settling
<1>4. Dispatched /\ Unsettled /\ Agreed /\ ForeignCopies
  BY <1>2, <1>3 DEF Dispatched, Unsettled, Agreed, ForeignCopies
<1>5. Heard /\ OnceTold
  BY <1>2, <1>3 DEF Heard, OnceTold, Due
<1>6. Pending
  BY <1>2, <1>3 DEF Pending, Owned
<1>7. RunningIsAlive /\ NotifiedIsTold
  BY <1>2, GivenRecords DEF RunningIsAlive, NotifiedIsTold
<1> QED
  BY <1>1, <1>4, <1>5, <1>6, <1>7 DEF IInv

(* What is due to a process has ended, its record in the directory says    *)
(* so too, and the process has not announced it.                           *)
LEMMA DueFacts ==
  ASSUME IInv, NEW p \in Procs, phase[p] \notin Ended, NEW t \in Due(p)
  PROVE  /\ t \in Tasks /\ coro[t] = "over"
         /\ mem[p][t].status = disk[t].status /\ disk[t].status \in Settling
         /\ \A n \in DOMAIN told[t] : told[t][n] # p
<1>1. /\ t \in Tasks /\ mem[p][t].status \in Settling /\ ~mem[p][t].notified
      /\ "none" \notin Settling
  BY DEF Due, Settling
<1>2. coro[t] = "over"
  <2>1. coro[t] \in {"none", "scheduled", "working", "over"}
    BY <1>1 DEF IInv, TypeOK
  <2> QED
    BY <1>1, <2>1, GivenRecords DEF IInv, Unsettled
<1>3. mem[p][t].status = disk[t].status
  BY <1>1 DEF IInv, Agreed
<1>4. \A n \in DOMAIN told[t] : told[t][n] # p
  BY <1>1 DEF IInv, Heard
<1> QED
  BY <1>1, <1>2, <1>3, <1>4

(* A drain as the tasks see it: those that are due are marked and          *)
(* announced, the others are left alone.                                   *)
LEMMA DrainedTask ==
  ASSUME IInv, NEW p \in Procs, Draining(p), NEW t \in Tasks
  PROVE  /\ \A q \in Procs \ {p} : mem'[q][t] = mem[q][t]
         /\ t \notin Due(p)' /\ told' = Announced(p, Due(p))
         /\ phase[p] \notin Ended /\ UNCHANGED <<coro, owner, missed>>
         /\ \/ /\ t \in Due(p) /\ coro[t] = "over"
               /\ disk[t].status \in Settling
               /\ mem'[p][t].status = disk[t].status /\ mem'[p][t].notified
               /\ disk'[t] = mem'[p][t]
            \/ /\ t \notin Due(p)
               /\ mem'[p][t] = mem[p][t] /\ disk'[t] = disk[t] /\ told'[t] = told[t]
<1>1. TypeOK /\ Drain(p) /\ phase[p] \notin Ended /\ UNCHANGED <<coro, owner, missed>>
  BY DrainingFacts DEF IInv, tasks, Ended
<1>2. told' = Announced(p, Due(p)) /\ Due(p) \in SUBSET Tasks
  BY <1>1, DrainFacts DEF Due
<1>3. \A q \in Procs \ {p} : mem'[q][t] = mem[q][t]
  BY <1>1, DrainFacts
<1>4. CASE t \in Due(p)
  <2>1. /\ mem'[p][t].status = mem[p][t].status /\ mem'[p][t].notified
        /\ disk'[t] = mem'[p][t]
    BY <1>1, <1>4, DrainFacts
  <2>2. /\ coro[t] = "over"
        /\ mem[p][t].status = disk[t].status /\ disk[t].status \in Settling
    BY <1>1, <1>4, DueFacts
  <2>3. t \notin Due(p)'
    BY <2>1 DEF Due
  <2> QED
    BY <1>1, <1>2, <1>3, <1>4, <2>1, <2>2, <2>3
<1>5. CASE t \notin Due(p)
  <2>1. mem'[p][t] = mem[p][t] /\ disk'[t] = disk[t]
    BY <1>1, <1>5, DrainFacts
  <2>2. told'[t] = told[t]
    BY <1>1, <1>2, <1>5, AnnouncedFacts
  <2>3. t \notin Due(p)'
    BY <1>5, <2>1 DEF Due
  <2> QED
    BY <1>1, <1>2, <1>3, <1>5, <2>1, <2>2, <2>3
<1> QED
  BY <1>4, <1>5

(* The end of a process as the tasks see it. *)
LEMMA LeftTask ==
  ASSUME IInv, NEW p \in Procs, Leaving(p), NEW t \in Tasks
  PROVE  /\ mem'[p][t] = Absent /\ \A q \in Procs \ {p} : mem'[q][t] = mem[q][t]
         /\ UNCHANGED <<owner, missed>> /\ raised' = raised \ {p}
         /\ phase[p] \notin Ended
         /\ \/ /\ phase' = [phase EXCEPT ![p] = "exited"] /\ coro' = coro
               /\ owner[t] = p => coro[t] = "over"
               /\ disk'[t] = disk[t] /\ told' = told
            \/ /\ phase' = [phase EXCEPT ![p] = "crashed"]
               /\ coro'[t] = IF owner[t] = p THEN "over" ELSE coro[t]
               /\ \E set \in SUBSET Due(p) :
                    /\ told' = Announced(p, set)
                    /\ \/ disk'[t] = disk[t] /\ t \notin set
                       \/ /\ t \in Due(p) /\ coro[t] = "over"
                          /\ disk[t].status \in Settling
                          /\ disk'[t].status = disk[t].status /\ disk'[t].notified
<1>1. TypeOK /\ phase[p] \notin Ended /\ Forget(p) /\ UNCHANGED <<owner, missed>>
  BY LeavingFacts DEF IInv, Up, Awake, Busy, Ended
<1>2. /\ mem'[p][t] = Absent /\ \A q \in Procs \ {p} : mem'[q][t] = mem[q][t]
      /\ raised' = raised \ {p}
  BY <1>1 DEF Forget, TypeOK
<1>3. CASE /\ phase' = [phase EXCEPT ![p] = "exited"] /\ coro' = coro
           /\ \A u \in Owned(p) : coro[u] = "over"
           /\ disk' = disk /\ told' = told
  BY <1>1, <1>2, <1>3 DEF Owned
<1>4. CASE /\ phase' = [phase EXCEPT ![p] = "crashed"]
           /\ coro' = [u \in Tasks |-> IF owner[u] = p THEN "over" ELSE coro[u]]
           /\ \E written \in SUBSET Due(p), appended \in SUBSET Due(p) :
                /\ written # Due(p) => appended = {}
                /\ told' = Announced(p, appended)
                /\ disk' = Write(Marked(mem[p], written), written)
  <2>1. PICK written \in SUBSET Due(p), appended \in SUBSET Due(p) :
          /\ written # Due(p) => appended = {}
          /\ told' = Announced(p, appended)
          /\ disk' = Write(Marked(mem[p], written), written)
    BY <1>4
  <2>2. written \in SUBSET Tasks
    BY DEF Due
  <2>3. CASE t \in written
    <3>1. disk'[t].status = mem[p][t].status /\ disk'[t].notified
      BY <1>1, <2>1, <2>2, <2>3, WriteFacts
    <3>2. /\ t \in Due(p) /\ coro[t] = "over"
          /\ mem[p][t].status = disk[t].status /\ disk[t].status \in Settling
      BY <1>1, <2>3, DueFacts
    <3> QED
      BY <1>1, <1>2, <1>4, <2>1, <3>1, <3>2
  <2>4. CASE t \notin written
    <3>1. disk'[t] = disk[t]
      BY <1>1, <2>1, <2>2, <2>4, WriteFacts
    <3>2. t \notin appended
      BY <2>1, <2>4
    <3> QED
      BY <1>1, <1>2, <1>4, <2>1, <3>1, <3>2
  <2> QED
    BY <2>3, <2>4
<1> QED
  BY <1>1, <1>3, <1>4, LeavingFacts

(* A dispatch as the tasks see it. *)
LEMMA RegisteredTask ==
  ASSUME IInv, NEW p \in Procs, NEW t \in Tasks, Register(p, t)
  PROVE  /\ phase[p] = "turns" /\ coro[t] = "none"
         /\ coro' = [coro EXCEPT ![t] = "scheduled"] /\ owner' = [owner EXCEPT ![t] = p]
         /\ UNCHANGED <<phase, missed, raised, told>>
         /\ mem'[p][t].status = "running" /\ ~mem'[p][t].notified
         /\ disk'[t].status = "running" /\ ~disk'[t].notified
         /\ \A u \in Tasks \ {t} : /\ disk'[u] = disk[u]
                                  /\ \A q \in Procs : mem'[q][u] = mem[q][u]
         /\ \A q \in Procs \ {p} : mem'[q] = mem[q]
<1>1. TypeOK /\ Running \in Record /\ Store(p, t, Running)
  BY GivenRecords DEF IInv, Register
<1>2. /\ mem'[p][t] = Running /\ disk'[t] = Running
      /\ \A u \in Tasks \ {t} : /\ disk'[u] = disk[u]
                               /\ \A q \in Procs : mem'[q][u] = mem[q][u]
      /\ \A q \in Procs \ {p} : mem'[q] = mem[q]
  BY <1>1, StoreFacts
<1> QED
  BY <1>2, GivenRecords DEF Register

(* The end of a runner as the tasks see it. *)
LEMMA EndedTask ==
  ASSUME IInv, NEW t \in Tasks, Ending(t)
  PROVE  /\ owner[t] \in Procs
         /\ coro[t] \in {"scheduled", "working"} /\ coro' = [coro EXCEPT ![t] = "over"]
         /\ UNCHANGED <<owner, raised, told>>
         /\ disk'[t].status \in Settling /\ ~disk'[t].notified
         /\ mem'[owner[t]][t] = disk'[t]
         /\ \A u \in Tasks \ {t} : /\ disk'[u] = disk[u]
                                  /\ \A q \in Procs : mem'[q][u] = mem[q][u]
         /\ \A q \in Procs \ {owner[t]} : mem'[q] = mem[q]
<1>1. TypeOK /\ Dispatched
  BY DEF IInv
<1>2. PICK status \in Settling : Store(owner[t], t, Finished(status))
  BY <1>1, EndingFacts
<1>3. owner[t] \in Procs /\ Finished(status) \in Record
  BY <1>1, EndingFacts, GivenRecords
<1>4. /\ mem'[owner[t]][t] = Finished(status) /\ disk'[t] = Finished(status)
      /\ \A u \in Tasks \ {t} : /\ disk'[u] = disk[u]
                               /\ \A q \in Procs : mem'[q][u] = mem[q][u]
      /\ \A q \in Procs \ {owner[t]} : mem'[q] = mem[q]
  BY <1>1, <1>2, <1>3, StoreFacts
<1>5. /\ coro[t] \in {"scheduled", "working"} /\ coro' = [coro EXCEPT ![t] = "over"]
      /\ UNCHANGED <<owner, raised, told>>
  BY <1>1, EndingFacts
<1> QED
  BY <1>3, <1>4, <1>5, GivenRecords

(* Nobody comes back from the end, nobody is switched off, and only a      *)
(* drain or the end takes a process out of reading.                        *)
LEMMA PhaseStep ==
  ASSUME IInv, Next, NEW q \in Procs
  PROVE  /\ phase'[q] = "off" => phase[q] = "off"
         /\ phase[q] \in Ended => phase'[q] = phase[q]
         /\ phase[q] = "reading" => phase'[q] = "reading" \/ Draining(q) \/ Leaving(q)
<1> DEFINE Goal == /\ phase'[q] = "off" => phase[q] = "off"
                   /\ phase[q] \in Ended => phase'[q] = phase[q]
                   /\ phase[q] = "reading" =>
                        phase'[q] = "reading" \/ Draining(q) \/ Leaving(q)
<1>1. phase \in [Procs -> Phases] /\ TypeOK /\ Dispatched /\ Ended = {"exited", "crashed"}
  BY DEF IInv, TypeOK, Ended
<1>2. ASSUME NEW p \in Procs, Quiet(p)
      PROVE  Goal
  BY <1>1, <1>2, QuietFacts
<1>3. ASSUME NEW p \in Procs, ReadDirectory(p)
      PROVE  Goal
  BY <1>1, <1>3, ReadFacts
<1>4. ASSUME NEW p \in Procs, Draining(p)
      PROVE  Goal
  BY <1>1, <1>4, DrainingFacts
<1>5. ASSUME NEW p \in Procs, Leaving(p)
      PROVE  Goal
  <2>1. phase[p] \in Up /\ Up \cap Ended = {}
    BY <1>1, <1>5, LeavingFacts DEF Up, Awake, Busy
  <2>2. \E now \in Ended : phase' = [phase EXCEPT ![p] = now]
    BY <1>1, <1>5, LeavingFacts
  <2> QED
    BY <1>1, <1>5, <2>1, <2>2
<1>6. ASSUME NEW t \in Tasks, Ending(t)
      PROVE  Goal
  <2>1. \/ phase' = phase
        \/ phase[owner[t]] = "idle" /\ phase' = [phase EXCEPT ![owner[t]] = "starting"]
    BY <1>1, <1>6, EndingFacts
  <2> QED
    BY <1>1, <2>1
<1>7. ASSUME NEW t \in Tasks, Begin(t)
      PROVE  phase' = phase
  BY <1>7 DEF Begin
<1>8. ASSUME NEW p \in Procs, NEW t \in Tasks, Register(p, t)
      PROVE  phase' = phase
  BY <1>8 DEF Register
<1> QED
  BY <1>1, <1>2, <1>3, <1>4, <1>5, <1>6, <1>7, <1>8, NextCases

(* The kinds of steps; a quiet one leaves everything that is told apart    *)
(* here to itself.                                                         *)
LEMMA StepCases ==
  ASSUME IInv, Next
  PROVE  \/ UNCHANGED <<mem, disk, coro, owner, told, missed>>
         \/ \E p \in Procs : ReadDirectory(p)
         \/ \E p \in Procs : Draining(p)
         \/ \E p \in Procs : Leaving(p)
         \/ \E p \in Procs, t \in Tasks : Register(p, t)
         \/ \E t \in Tasks : Begin(t)
         \/ \E t \in Tasks : Ending(t)
<1>1. TypeOK
  BY DEF IInv
<1>2. ASSUME NEW p \in Procs, Quiet(p)
      PROVE  UNCHANGED <<mem, disk, coro, owner, told, missed>>
  BY <1>1, <1>2, QuietFacts DEF records, tasks
<1> QED
  BY <1>2, NextCases

(* Every step keeps owners and coroutines together. *)
LEMMA DispatchedStep ==
  ASSUME IInv, Next
  PROVE  Dispatched'
<1> DEFINE Goal(t) == /\ coro'[t] = "none" <=> owner'[t] = NoProc
                      /\ owner'[t] \in Procs => phase'[owner'[t]] # "off"
<1> SUFFICES ASSUME NEW t \in Tasks PROVE Goal(t)
  BY DEF Dispatched
<1>1. /\ coro[t] = "none" <=> owner[t] = NoProc
      /\ owner[t] \in Procs => phase[owner[t]] # "off"
      /\ coro \in [Tasks -> {"none", "scheduled", "working", "over"}]
      /\ owner \in [Tasks -> Procs \cup {NoProc}]
      /\ NoProc \notin Procs
  BY NoProcAssumption DEF IInv, Dispatched, TypeOK
<1>2. owner[t] \in Procs => phase'[owner[t]] # "off"
  BY <1>1, PhaseStep
<1>3. CASE coro' = coro /\ owner' = owner
  BY <1>1, <1>2, <1>3
<1>4. ASSUME NEW p \in Procs, Leaving(p)
      PROVE  Goal(t)
  BY <1>1, <1>2, <1>4, LeftTask
<1>5. ASSUME NEW p \in Procs, NEW u \in Tasks, Register(p, u)
      PROVE  Goal(t)
  <2>1. /\ phase[p] = "turns" /\ phase' = phase
        /\ coro' = [coro EXCEPT ![u] = "scheduled"] /\ owner' = [owner EXCEPT ![u] = p]
    BY <1>5, RegisteredTask
  <2> QED
    BY <1>1, <1>2, <2>1
<1>6. ASSUME NEW u \in Tasks, Begin(u)
      PROVE  Goal(t)
  BY <1>1, <1>2, <1>6 DEF Begin
<1>7. ASSUME NEW u \in Tasks, Ending(u)
      PROVE  Goal(t)
  <2>1. /\ coro[u] \in {"scheduled", "working"} /\ coro' = [coro EXCEPT ![u] = "over"]
        /\ owner' = owner
    BY <1>7, EndedTask
  <2> QED
    BY <1>1, <1>2, <2>1
<1>8. ASSUME NEW p \in Procs, Draining(p) \/ ReadDirectory(p)
      PROVE  coro' = coro /\ owner' = owner
  BY <1>8, ReadFacts, DrainedTask DEF IInv
<1> QED
  BY <1>3, <1>4, <1>5, <1>6, <1>7, <1>8, StepCases

(* Every step keeps what has not ended unsettled and unannounced. *)
LEMMA UnsettledStep ==
  ASSUME IInv, Next
  PROVE  Unsettled'
<1> DEFINE Goal(t) ==
      /\ coro'[t] = "none" => /\ disk'[t] = Absent
                              /\ \A p \in Procs : mem'[p][t] = Absent
      /\ coro'[t] \in {"scheduled", "working"} =>
           /\ disk'[t].status = "running"
           /\ \A p \in Procs : mem'[p][t].status \notin Settling
      /\ coro'[t] # "over" => told'[t] = <<>>
<1> SUFFICES ASSUME NEW t \in Tasks PROVE Goal(t)
  BY DEF Unsettled
<1>1. /\ coro[t] = "none" => disk[t] = Absent /\ \A p \in Procs : mem[p][t] = Absent
      /\ coro[t] \in {"scheduled", "working"} =>
           /\ disk[t].status = "running"
           /\ \A p \in Procs : mem[p][t].status \notin Settling
      /\ coro[t] # "over" => told[t] = <<>>
      /\ coro \in [Tasks -> {"none", "scheduled", "working", "over"}]
      /\ "none" \notin Settling /\ "running" \notin Settling /\ Absent.status = "none"
  BY GivenRecords DEF IInv, Unsettled, TypeOK, Settling
<1>2. CASE UNCHANGED <<mem, disk, coro, owner, told, missed>>
  BY <1>1, <1>2
<1>3. ASSUME NEW p \in Procs, ReadDirectory(p)
      PROVE  Goal(t)
  <2>1. /\ coro' = coro /\ disk' = disk /\ told' = told
        /\ \A q \in Procs : mem'[q][t] = mem[q][t] \/ mem'[q][t] = disk[t]
    BY <1>3, ReadFacts DEF IInv
  <2> QED
    BY <1>1, <2>1
<1>4. ASSUME NEW p \in Procs, Draining(p)
      PROVE  Goal(t)
  <2>1. coro' = coro
    BY <1>4, DrainedTask
  <2>2. CASE coro[t] = "over"
    BY <2>1, <2>2
  <2>3. CASE coro[t] # "over"
    <3>1. /\ \A q \in Procs : mem'[q][t] = mem[q][t]
          /\ disk'[t] = disk[t] /\ told'[t] = told[t]
      BY <1>4, <2>3, DrainedTask
    <3> QED
      BY <1>1, <2>1, <3>1
  <2> QED
    BY <2>2, <2>3
<1>5. ASSUME NEW p \in Procs, Leaving(p)
      PROVE  Goal(t)
  <2>1. CASE coro'[t] = "over"
    BY <2>1
  <2>2. CASE coro'[t] # "over"
    <3>1. /\ coro'[t] = coro[t] /\ disk'[t] = disk[t]
          /\ \A q \in Procs : mem'[q][t] = mem[q][t] \/ mem'[q][t] = Absent
      BY <1>5, <2>2, LeftTask
    <3>2. told'[t] = told[t]
      <4>1. \/ told' = told
            \/ \E set \in SUBSET Due(p) : told' = Announced(p, set) /\ t \notin set
        BY <1>5, <2>2, <3>1, LeftTask
      <4> QED
        BY <4>1 DEF Announced
    <3> QED
      BY <1>1, <3>1, <3>2
  <2> QED
    BY <2>1, <2>2
<1>6. ASSUME NEW p \in Procs, NEW u \in Tasks, Register(p, u)
      PROVE  Goal(t)
  <2>1. /\ coro[u] = "none" /\ coro' = [coro EXCEPT ![u] = "scheduled"]
        /\ told' = told
        /\ mem'[p][u].status = "running" /\ disk'[u].status = "running"
        /\ \A v \in Tasks \ {u} : /\ disk'[v] = disk[v]
                                 /\ \A q \in Procs : mem'[q][v] = mem[q][v]
        /\ \A q \in Procs \ {p} : mem'[q] = mem[q]
    BY <1>6, RegisteredTask
  <2>2. CASE t = u
    <3>1. coro'[t] = "scheduled" /\ told'[t] = <<>> /\ disk'[t].status = "running"
      BY <1>1, <2>1, <2>2
    <3>2. \A q \in Procs : mem'[q][t].status \notin Settling
      BY <1>1, <2>1, <2>2
    <3> QED
      BY <3>1, <3>2
  <2>3. CASE t # u
    BY <1>1, <2>1, <2>3
  <2> QED
    BY <2>2, <2>3
<1>7. ASSUME NEW u \in Tasks, Begin(u)
      PROVE  Goal(t)
  BY <1>1, <1>7 DEF Begin, records
<1>8. ASSUME NEW u \in Tasks, Ending(u)
      PROVE  Goal(t)
  <2>1. /\ coro' = [coro EXCEPT ![u] = "over"] /\ told' = told
        /\ \A v \in Tasks \ {u} : /\ disk'[v] = disk[v]
                                 /\ \A q \in Procs : mem'[q][v] = mem[q][v]
    BY <1>8, EndedTask
  <2> QED
    BY <1>1, <2>1
<1> QED
  BY <1>2, <1>3, <1>4, <1>5, <1>6, <1>7, <1>8, StepCases

(* Every step keeps settled copies in line with the directory. *)
LEMMA AgreedStep ==
  ASSUME IInv, Next
  PROVE  Agreed'
<1> DEFINE Goal(t, q) == mem'[q][t].status \in Settling =>
                           disk'[t].status = mem'[q][t].status
<1> SUFFICES ASSUME NEW t \in Tasks, NEW q \in Procs PROVE Goal(t, q)
  BY DEF Agreed
<1>1. /\ mem[q][t].status \in Settling => disk[t].status = mem[q][t].status
      /\ coro[t] = "none" => mem[q][t] = Absent
      /\ coro[t] \in {"scheduled", "working"} => mem[q][t].status \notin Settling
      /\ Absent.status \notin Settling /\ "running" \notin Settling
  BY GivenRecords DEF IInv, Agreed, Unsettled, Settling
<1>2. CASE UNCHANGED <<mem, disk, coro, owner, told, missed>>
  BY <1>1, <1>2
<1>3. ASSUME NEW p \in Procs, ReadDirectory(p)
      PROVE  Goal(t, q)
  <2>1. disk' = disk /\ (mem'[q][t] = mem[q][t] \/ mem'[q][t] = disk[t])
    BY <1>3, ReadFacts DEF IInv
  <2> QED
    BY <1>1, <2>1
<1>4. ASSUME NEW p \in Procs, Draining(p)
      PROVE  Goal(t, q)
  <2>1. /\ disk'[t].status = disk[t].status
        /\ mem'[q][t] = mem[q][t] \/ mem'[q][t].status = disk[t].status
    BY <1>4, DrainedTask
  <2> QED
    BY <1>1, <2>1
<1>5. ASSUME NEW p \in Procs, Leaving(p)
      PROVE  Goal(t, q)
  <2>1. /\ disk'[t].status = disk[t].status
        /\ mem'[q][t] = mem[q][t] \/ mem'[q][t] = Absent
    BY <1>5, LeftTask
  <2> QED
    BY <1>1, <2>1
<1>6. ASSUME NEW p \in Procs, NEW u \in Tasks, Register(p, u)
      PROVE  Goal(t, q)
  <2>1. /\ coro[u] = "none" /\ mem'[p][u].status = "running"
        /\ \A v \in Tasks \ {u} : /\ disk'[v] = disk[v]
                                 /\ \A r \in Procs : mem'[r][v] = mem[r][v]
        /\ \A r \in Procs \ {p} : mem'[r] = mem[r]
    BY <1>6, RegisteredTask
  <2>2. CASE t = u
    <3>1. mem'[q][t] = Absent \/ mem'[q][t].status = "running"
      BY <1>1, <2>1, <2>2
    <3> QED
      BY <1>1, <3>1
  <2>3. CASE t # u
    BY <1>1, <2>1, <2>3
  <2> QED
    BY <2>2, <2>3
<1>7. ASSUME NEW u \in Tasks, Begin(u)
      PROVE  Goal(t, q)
  BY <1>1, <1>7 DEF Begin, records
<1>8. ASSUME NEW u \in Tasks, Ending(u)
      PROVE  Goal(t, q)
  <2>1. /\ coro[u] \in {"scheduled", "working"} /\ mem'[owner[u]][u] = disk'[u]
        /\ \A v \in Tasks \ {u} : /\ disk'[v] = disk[v]
                                 /\ \A r \in Procs : mem'[r][v] = mem[r][v]
        /\ \A r \in Procs \ {owner[u]} : mem'[r] = mem[r]
    BY <1>8, EndedTask
  <2> QED
    BY <1>1, <2>1
<1> QED
  BY <1>2, <1>3, <1>4, <1>5, <1>6, <1>7, <1>8, StepCases

(* Every step keeps strangers from results they have not announced. *)
LEMMA ForeignCopiesStep ==
  ASSUME IInv, Next
  PROVE  ForeignCopies'
<1> DEFINE Goal(t, q) == mem'[q][t].status \in Settling =>
                           mem'[q][t].notified \/ phase'[q] = "reading"
<1> SUFFICES ASSUME NEW t \in Tasks, NEW q \in Procs, q # owner'[t]
             PROVE  Goal(t, q)
  BY DEF ForeignCopies
<1>1. /\ q # owner[t] /\ mem[q][t].status \in Settling =>
           mem[q][t].notified \/ phase[q] = "reading"
      /\ phase \in [Procs -> Phases] /\ owner \in [Tasks -> Procs \cup {NoProc}]
      /\ coro[t] = "none" => mem[q][t] = Absent
      /\ Absent.status \notin Settling
  BY GivenRecords DEF IInv, ForeignCopies, TypeOK, Settling, Unsettled
<1>2. CASE Draining(q)
  <2>1. t \notin Due(q)'
    BY <1>2, DrainedTask
  <2> QED
    BY <2>1 DEF Due
<1>3. CASE Leaving(q)
  BY <1>1, <1>3, LeftTask
<1>4. CASE ReadDirectory(q)
  <2>1. phase' = [phase EXCEPT ![q] = "reading"]
    BY <1>4, ReadFacts DEF IInv
  <2> QED
    BY <1>1, <2>1
<1>5. CASE ~(Draining(q) \/ Leaving(q) \/ ReadDirectory(q))
  <2>1. phase[q] = "reading" => phase'[q] = "reading"
    BY <1>5, PhaseStep
  <2>2. CASE mem'[q][t] = mem[q][t] /\ owner'[t] = owner[t]
    BY <1>1, <2>1, <2>2
  <2>3. ASSUME NEW p \in Procs, NEW u \in Tasks, Register(p, u)
        PROVE  Goal(t, q)
    <3>1. /\ coro[u] = "none" /\ owner' = [owner EXCEPT ![u] = p]
          /\ \A v \in Tasks \ {u} : \A r \in Procs : mem'[r][v] = mem[r][v]
          /\ \A r \in Procs \ {p} : mem'[r] = mem[r]
      BY <2>3, RegisteredTask
    <3>2. CASE t = u
      <4>1. q # p /\ mem'[q][t] = Absent
        BY <1>1, <3>1, <3>2
      <4> QED
        BY <1>1, <4>1
    <3>3. CASE t # u
      BY <1>1, <2>1, <3>1, <3>3
    <3> QED
      BY <3>2, <3>3
  <2>4. ASSUME NEW u \in Tasks, Ending(u)
        PROVE  Goal(t, q)
    <3>1. /\ owner' = owner
          /\ \A v \in Tasks \ {u} : \A r \in Procs : mem'[r][v] = mem[r][v]
          /\ \A r \in Procs \ {owner[u]} : mem'[r] = mem[r]
      BY <2>4, EndedTask
    <3> QED
      BY <1>1, <2>1, <3>1
  <2>5. ASSUME NEW p \in Procs, Draining(p) \/ Leaving(p) \/ ReadDirectory(p)
        PROVE  mem'[q][t] = mem[q][t] /\ owner'[t] = owner[t]
    BY <1>5, <2>5, DrainedTask, LeftTask, ReadFacts DEF IInv
  <2>6. ASSUME NEW u \in Tasks, Begin(u)
        PROVE  mem'[q][t] = mem[q][t] /\ owner'[t] = owner[t]
    BY <2>6 DEF Begin, records
  <2> QED
    BY <2>2, <2>3, <2>4, <2>5, <2>6, StepCases
<1> QED
  BY <1>2, <1>3, <1>4, <1>5

(* Notices that are appended are marked, and new to who appends them.      *)
LEMMA AnnouncedHeard ==
  ASSUME IInv, NEW p \in Procs, phase[p] \notin Ended, NEW set \in SUBSET Due(p),
         NEW t \in Tasks
  PROVE  LET after == Announced(p, set)[t] IN
         /\ \A n \in DOMAIN after : \/ after[n] = p /\ t \in set
                                    \/ n \in DOMAIN told[t] /\ after[n] = told[t][n]
         /\ \A m, n \in DOMAIN after : after[m] = after[n] => m = n
<1>1. /\ told[t] \in Seq(Procs) /\ TypeOK /\ set \in SUBSET Tasks
      /\ \A m, n \in DOMAIN told[t] : told[t][m] = told[t][n] => m = n
  BY DEF IInv, TypeOK, OnceTold, Due
<1>2. CASE t \notin set
  BY <1>1, <1>2, AnnouncedFacts
<1>3. CASE t \in set
  <2> DEFINE after == Announced(p, set)[t]
             last == Len(told[t]) + 1
  <2>1. /\ DOMAIN told[t] = 1..Len(told[t]) /\ Len(told[t]) \in Nat
        /\ DOMAIN after = 1..last /\ after[last] = p
        /\ \A n \in DOMAIN told[t] : after[n] = told[t][n]
    BY <1>1, <1>3, AnnouncedTask
  <2>2. \A n \in DOMAIN told[t] : told[t][n] # p
    BY <1>3, DueFacts
  <2> HIDE DEF after
  <2>3. \A n \in DOMAIN after : n = last \/ n \in DOMAIN told[t]
    BY <2>1
  <2>4. \A n \in DOMAIN after : \/ after[n] = p /\ t \in set
                                \/ n \in DOMAIN told[t] /\ after[n] = told[t][n]
    BY <1>3, <2>1, <2>3
  <2>5. \A m, n \in DOMAIN after : after[m] = after[n] => m = n
    BY <1>1, <2>1, <2>2, <2>3
  <2> QED
    BY <2>4, <2>5 DEF after
<1> QED
  BY <1>2, <1>3

(* Every step keeps what was announced marked. *)
LEMMA HeardStep ==
  ASSUME IInv, Next
  PROVE  Heard'
<1> DEFINE Goal(t) ==
      /\ told'[t] # <<>> => disk'[t].status \in Settling /\ disk'[t].notified
      /\ \A n \in DOMAIN told'[t] :
           phase'[told'[t][n]] \in Ended \/ mem'[told'[t][n]][t].notified
<1> SUFFICES ASSUME NEW t \in Tasks PROVE Goal(t)
  BY DEF Heard
<1>1. /\ told[t] # <<>> => disk[t].status \in Settling /\ disk[t].notified
      /\ \A n \in DOMAIN told[t] :
           /\ told[t][n] \in Procs
           /\ phase[told[t][n]] \in Ended \/ mem[told[t][n]][t].notified
      /\ coro[t] # "over" => told[t] = <<>>
      /\ ~Absent.notified
  BY GivenRecords DEF IInv, Heard, TypeOK, Unsettled
<1>2. \A p \in Procs : phase[p] \in Ended => phase'[p] \in Ended
  BY PhaseStep
<1>3. CASE UNCHANGED <<mem, disk, coro, owner, told, missed>>
  BY <1>1, <1>2, <1>3
<1>4. ASSUME NEW p \in Procs, ReadDirectory(p)
      PROVE  Goal(t)
  <2>1. /\ disk' = disk /\ told' = told
        /\ \A q \in Procs : mem'[q][t] = mem[q][t] \/ mem[q][t] = Absent
    BY <1>4, ReadFacts DEF IInv
  <2> QED
    BY <1>1, <1>2, <2>1
<1>5. ASSUME NEW p \in Procs, Draining(p)
      PROVE  Goal(t)
  <2>1. /\ phase[p] \notin Ended /\ told' = Announced(p, Due(p))
        /\ \A q \in Procs \ {p} : mem'[q][t] = mem[q][t]
        /\ \/ t \in Due(p) /\ mem'[p][t].notified /\ disk'[t].notified
              /\ disk'[t].status \in Settling
           \/ /\ t \notin Due(p) /\ told'[t] = told[t]
              /\ mem'[p][t] = mem[p][t] /\ disk'[t] = disk[t]
    BY <1>5, DrainedTask
  <2>2. \A n \in DOMAIN told'[t] : \/ told'[t][n] = p /\ t \in Due(p)
                                   \/ n \in DOMAIN told[t] /\ told'[t][n] = told[t][n]
    BY <2>1, AnnouncedHeard
  <2>3. \A q \in Procs : mem[q][t].notified => mem'[q][t].notified
    BY <2>1
  <2> QED
    BY <1>1, <1>2, <2>1, <2>2, <2>3
<1>6. ASSUME NEW p \in Procs, Leaving(p)
      PROVE  Goal(t)
  <2>1. /\ phase[p] \notin Ended /\ phase'[p] \in Ended
        /\ \A q \in Procs \ {p} : mem'[q][t] = mem[q][t]
    <3>1. phase \in [Procs -> Phases]
      BY DEF IInv, TypeOK
    <3>2. \E now \in Ended : phase' = [phase EXCEPT ![p] = now]
      BY <1>6, LeftTask DEF Ended
    <3>3. phase'[p] \in Ended
      BY <3>1, <3>2
    <3> QED
      BY <1>6, <3>3, LeftTask
  <2>2. /\ \A n \in DOMAIN told'[t] : \/ told'[t][n] = p
                                      \/ n \in DOMAIN told[t] /\ told'[t][n] = told[t][n]
        /\ told'[t] # <<>> => disk'[t].status \in Settling /\ disk'[t].notified
    <3>1. CASE told' = told /\ disk'[t] = disk[t]
      BY <1>1, <3>1
    <3>2. CASE \E set \in SUBSET Due(p) :
                 /\ told' = Announced(p, set)
                 /\ \/ disk'[t] = disk[t] /\ t \notin set
                    \/ /\ disk[t].status \in Settling
                       /\ disk'[t].status = disk[t].status /\ disk'[t].notified
      <4>1. PICK set \in SUBSET Due(p) :
              /\ told' = Announced(p, set)
              /\ \/ disk'[t] = disk[t] /\ t \notin set
                 \/ /\ disk[t].status \in Settling
                    /\ disk'[t].status = disk[t].status /\ disk'[t].notified
        BY <3>2
      <4>2. t \notin set => told'[t] = told[t]
        BY <4>1 DEF Announced
      <4> QED
        BY <1>1, <2>1, <4>1, <4>2, AnnouncedHeard
    <3> QED
      BY <1>6, <3>1, <3>2, LeftTask
  <2> QED
    BY <1>1, <1>2, <2>1, <2>2
<1>7. ASSUME NEW p \in Procs, NEW u \in Tasks, Register(p, u)
      PROVE  Goal(t)
  <2>1. /\ coro[u] = "none" /\ told' = told
        /\ \A v \in Tasks \ {u} : /\ disk'[v] = disk[v]
                                 /\ \A q \in Procs : mem'[q][v] = mem[q][v]
    BY <1>7, RegisteredTask
  <2>2. CASE t = u
    BY <1>1, <2>1, <2>2
  <2>3. CASE t # u
    BY <1>1, <1>2, <2>1, <2>3
  <2> QED
    BY <2>2, <2>3
<1>8. ASSUME NEW u \in Tasks, Begin(u)
      PROVE  Goal(t)
  BY <1>1, <1>2, <1>8 DEF Begin, records
<1>9. ASSUME NEW u \in Tasks, Ending(u)
      PROVE  Goal(t)
  <2>1. /\ coro[u] \in {"scheduled", "working"} /\ told' = told
        /\ \A v \in Tasks \ {u} : /\ disk'[v] = disk[v]
                                 /\ \A q \in Procs : mem'[q][v] = mem[q][v]
    BY <1>9, EndedTask
  <2>2. CASE t = u
    BY <1>1, <2>1, <2>2
  <2>3. CASE t # u
    BY <1>1, <1>2, <2>1, <2>3
  <2> QED
    BY <2>2, <2>3
<1> QED
  BY <1>3, <1>4, <1>5, <1>6, <1>7, <1>8, <1>9, StepCases

(* Every step keeps the notices single, marked, and strangers done. *)
LEMMA OnceToldStep ==
  ASSUME IInv, Next, Heard', ForeignCopies'
  PROVE  OnceTold'
<1> DEFINE Single(list) == \A m, n \in DOMAIN list : list[m] = list[n] => m = n
<1>1. ASSUME NEW t \in Tasks PROVE Single(told'[t])
  <2>1. Single(told[t])
    BY DEF IInv, OnceTold
  <2>2. CASE told' = told
    BY <2>1, <2>2
  <2>3. ASSUME NEW p \in Procs, phase[p] \notin Ended, NEW set \in SUBSET Due(p),
               told' = Announced(p, set)
        PROVE  Single(told'[t])
    BY <2>3, AnnouncedHeard
  <2>4. ASSUME NEW p \in Procs, Draining(p)
        PROVE  Single(told'[t])
    BY <2>3, <2>4, DrainedTask
  <2>5. ASSUME NEW p \in Procs, Leaving(p)
        PROVE  Single(told'[t])
    <3>1. /\ phase[p] \notin Ended
          /\ told' = told \/ \E set \in SUBSET Due(p) : told' = Announced(p, set)
      BY <2>5, LeftTask
    <3> QED
      BY <2>2, <2>3, <3>1
  <2>6. ASSUME NEW p \in Procs, NEW u \in Tasks, Register(p, u)
        PROVE  told' = told
    BY <2>6, RegisteredTask
  <2>7. ASSUME NEW u \in Tasks, Begin(u) \/ Ending(u)
        PROVE  told' = told
    BY <2>7, EndedTask DEF Begin
  <2>8. ASSUME NEW p \in Procs, ReadDirectory(p)
        PROVE  told' = told
    BY <2>8 DEF ReadDirectory
  <2> QED
    BY <2>2, <2>4, <2>5, <2>6, <2>7, <2>8, StepCases
<1>2. ASSUME NEW t \in Tasks, NEW p \in Procs, p # owner'[t], phase'[p] \in Awake
      PROVE  t \notin Due(p)'
  <2>1. phase'[p] # "reading"
    BY <1>2 DEF Awake, Busy
  <2> QED
    BY <1>2, <2>1 DEF ForeignCopies, Due
<1>3. \A t \in Tasks : told'[t] # <<>> => disk'[t].notified
  BY DEF Heard
<1> QED
  BY <1>1, <1>2, <1>3 DEF OnceTold

(* Every step keeps a run ahead of what a terminal has not announced. *)
LEMMA PendingStep ==
  ASSUME IInv, Next
  PROVE  Pending'
<1> DEFINE Rest == {"idle", "ending", "shell"}
<1> SUFFICES ASSUME NEW q \in Procs, NEW t \in Tasks, owner'[t] = q, phase'[q] \in Rest,
                    mem'[q][t].status \in Settling, ~mem'[q][t].notified
             PROVE  missed'[t] # "no" \/ q \in raised'
  BY DEF Pending, Owned
<1>1. /\ owner[t] = q /\ phase[q] \in Rest
         /\ mem[q][t].status \in Settling /\ ~mem[q][t].notified
           => missed[t] # "no" \/ q \in raised
      /\ owner[t] = q => phase[q] # "off"
      /\ TypeOK /\ Dispatched
      /\ phase \in [Procs -> Phases] /\ missed \in [Tasks -> Reasons]
      /\ owner \in [Tasks -> Procs \cup {NoProc}]
      /\ "running" \notin Settling /\ Absent.status \notin Settling
  BY GivenRecords DEF IInv, Pending, Owned, Dispatched, TypeOK, Settling
<1>2. ASSUME NEW p \in Procs, Quiet(p)
      PROVE  missed'[t] # "no" \/ q \in raised'
  <2>1. /\ mem' = mem /\ owner' = owner /\ missed' = missed /\ raised \subseteq raised'
    BY <1>1, <1>2, QuietFacts DEF records, tasks
  <2>2. phase[q] \in Rest \cup {"off"} \/ q \in raised'
    BY <1>1, <1>2, QuietFacts
  <2> QED
    BY <1>1, <2>1, <2>2
<1>3. ASSUME NEW p \in Procs, ReadDirectory(p)
      PROVE  missed'[t] # "no" \/ q \in raised'
  <2>1. /\ phase' = [phase EXCEPT ![p] = "reading"]
        /\ UNCHANGED <<owner, missed, raised>> /\ \A r \in Procs \ {p} : mem'[r] = mem[r]
    BY <1>1, <1>3, ReadFacts
  <2>2. q # p
    BY <1>1, <2>1
  <2> QED
    BY <1>1, <2>1, <2>2
<1>4. ASSUME NEW p \in Procs, Draining(p)
      PROVE  missed'[t] # "no" \/ q \in raised'
  <2>1. /\ owner' = owner /\ missed' = missed /\ t \notin Due(p)'
        /\ \A r \in Procs \ {p} : mem'[r][t] = mem[r][t]
    BY <1>4, DrainedTask
  <2>2. q # p
    BY <2>1 DEF Due
  <2>3. phase'[q] = phase[q] /\ (q \in raised <=> q \in raised')
    BY <1>1, <1>4, <2>2, DrainingFacts
  <2> QED
    BY <1>1, <2>1, <2>2, <2>3
<1>5. ASSUME NEW p \in Procs, Leaving(p)
      PROVE  missed'[t] # "no" \/ q \in raised'
  <2>1. /\ owner' = owner /\ missed' = missed /\ raised' = raised \ {p}
        /\ mem'[p][t] = Absent /\ \A r \in Procs \ {p} : mem'[r][t] = mem[r][t]
        /\ \/ phase' = [phase EXCEPT ![p] = "exited"]
           \/ phase' = [phase EXCEPT ![p] = "crashed"]
    BY <1>5, LeftTask
  <2>2. q # p
    BY <1>1, <2>1
  <2> QED
    BY <1>1, <2>1, <2>2
<1>6. ASSUME NEW p \in Procs, NEW u \in Tasks, Register(p, u)
      PROVE  missed'[t] # "no" \/ q \in raised'
  <2>1. /\ phase' = phase /\ missed' = missed /\ raised' = raised
        /\ owner' = [owner EXCEPT ![u] = p] /\ mem'[p][u].status = "running"
        /\ \A v \in Tasks \ {u} : \A r \in Procs : mem'[r][v] = mem[r][v]
    BY <1>6, RegisteredTask
  <2> QED
    BY <1>1, <2>1
<1>7. ASSUME NEW u \in Tasks, Begin(u)
      PROVE  missed'[t] # "no" \/ q \in raised'
  BY <1>1, <1>7 DEF Begin, records
<1>8. ASSUME NEW u \in Tasks, Ending(u)
      PROVE  missed'[t] # "no" \/ q \in raised'
  <2>1. /\ owner' = owner /\ raised' = raised /\ owner[u] \in Procs
        /\ \A v \in Tasks \ {u} : \A r \in Procs : mem'[r][v] = mem[r][v]
    BY <1>8, EndedTask
  <2>2. \/ phase' = phase
        \/ phase' = [phase EXCEPT ![owner[u]] = "starting"]
    BY <1>1, <1>8, EndingFacts
  <2>3. CASE t = u
    <3>1. \/ \E reason \in Reasons \ {"no"} : missed' = [missed EXCEPT ![u] = reason]
          \/ phase' = [phase EXCEPT ![owner[u]] = "starting"]
      BY <1>1, <1>8, EndingFacts DEF Reasons
    <3>2. phase'[owner[u]] # "starting"
      BY <2>1, <2>3
    <3> QED
      BY <1>1, <2>1, <2>3, <3>1, <3>2
  <2>4. CASE t # u
    <3>1. missed'[t] = missed[t]
      BY <1>1, <1>8, <2>4, EndingFacts
    <3>2. phase[q] \in Rest
      BY <1>1, <2>1, <2>2
    <3> QED
      BY <1>1, <2>1, <2>4, <3>1, <3>2
  <2> QED
    BY <2>3, <2>4
<1> QED
  BY <1>2, <1>3, <1>4, <1>5, <1>6, <1>7, <1>8, NextCases

(* Every step keeps a runner, or a kill, behind a running record. *)
LEMMA RunningIsAliveStep ==
  ASSUME IInv, Next
  PROVE  RunningIsAlive'
<1> DEFINE Goal(t) ==
      disk'[t].status = "running" =>
        coro'[t] \in {"scheduled", "working"} \/ phase'[owner'[t]] = "crashed"
<1> SUFFICES ASSUME NEW t \in Tasks PROVE Goal(t)
  BY DEF RunningIsAlive
<1>1. /\ disk[t].status = "running" =>
           coro[t] \in {"scheduled", "working"} \/ phase[owner[t]] = "crashed"
      /\ coro[t] = "none" => disk[t].status = "none"
      /\ coro[t] # "none" => owner[t] \in Procs
      /\ \A p \in Procs : phase[p] = "crashed" => phase'[p] = "crashed"
      /\ coro \in [Tasks -> {"none", "scheduled", "working", "over"}]
      /\ owner \in [Tasks -> Procs \cup {NoProc}] /\ phase \in [Procs -> Phases]
      /\ "running" \notin Settling
  <2>1. disk[t].status = "running" =>
          coro[t] \in {"scheduled", "working"} \/ phase[owner[t]] = "crashed"
    BY DEF IInv, RunningIsAlive
  <2>2. coro[t] = "none" => disk[t].status = "none"
    BY GivenRecords DEF IInv, Unsettled
  <2>3. coro[t] # "none" => owner[t] \in Procs
    BY DEF IInv, Dispatched, TypeOK
  <2>4. \A p \in Procs : phase[p] = "crashed" => phase'[p] = "crashed"
    BY PhaseStep DEF Ended
  <2>5. /\ coro \in [Tasks -> {"none", "scheduled", "working", "over"}]
        /\ owner \in [Tasks -> Procs \cup {NoProc}] /\ phase \in [Procs -> Phases]
    BY DEF IInv, TypeOK
  <2>6. "running" \notin Settling
    BY DEF Settling
  <2> QED
    BY <2>1, <2>2, <2>3, <2>4, <2>5, <2>6
<1>2. CASE UNCHANGED <<mem, disk, coro, owner, told, missed>>
  BY <1>1, <1>2
<1>3. ASSUME NEW p \in Procs, Draining(p) \/ ReadDirectory(p)
      PROVE  Goal(t)
  <2>1. coro' = coro /\ owner' = owner /\ disk'[t].status = disk[t].status
    BY <1>3, DrainedTask, ReadFacts DEF IInv
  <2> QED
    BY <1>1, <2>1
<1>4. ASSUME NEW p \in Procs, Leaving(p)
      PROVE  Goal(t)
  <2>1. owner' = owner /\ disk'[t].status = disk[t].status
    BY <1>4, LeftTask
  <2>2. CASE coro'[t] = coro[t]
    BY <1>1, <2>1, <2>2
  <2>3. CASE coro'[t] # coro[t]
    <3>1. owner[t] = p /\ phase' = [phase EXCEPT ![p] = "crashed"]
      BY <1>4, <2>3, LeftTask
    <3> QED
      BY <1>1, <2>1, <3>1
  <2> QED
    BY <2>2, <2>3
<1>5. ASSUME NEW p \in Procs, NEW u \in Tasks, Register(p, u)
      PROVE  Goal(t)
  <2>1. /\ coro' = [coro EXCEPT ![u] = "scheduled"] /\ owner' = [owner EXCEPT ![u] = p]
        /\ \A v \in Tasks \ {u} : disk'[v] = disk[v]
    BY <1>5, RegisteredTask
  <2> QED
    BY <1>1, <2>1
<1>6. ASSUME NEW u \in Tasks, Begin(u)
      PROVE  Goal(t)
  BY <1>1, <1>6 DEF Begin, records
<1>7. ASSUME NEW u \in Tasks, Ending(u)
      PROVE  Goal(t)
  <2>1. /\ coro' = [coro EXCEPT ![u] = "over"] /\ owner' = owner
        /\ disk'[u].status \in Settling
        /\ \A v \in Tasks \ {u} : disk'[v] = disk[v]
    BY <1>7, EndedTask
  <2> QED
    BY <1>1, <2>1
<1> QED
  BY <1>2, <1>3, <1>4, <1>5, <1>6, <1>7, StepCases

(* Every step keeps a notice, or a kill, behind a marked record. *)
LEMMA NotifiedIsToldStep ==
  ASSUME IInv, Next
  PROVE  NotifiedIsTold'
<1> DEFINE Goal(t) ==
      disk'[t].notified => told'[t] # <<>> \/ \E p \in Procs : phase'[p] = "crashed"
<1> SUFFICES ASSUME NEW t \in Tasks PROVE Goal(t)
  BY DEF NotifiedIsTold
<1>1. /\ disk[t].notified => told[t] # <<>> \/ \E p \in Procs : phase[p] = "crashed"
      /\ \A p \in Procs : phase[p] = "crashed" => phase'[p] = "crashed"
      /\ TypeOK
  BY PhaseStep DEF IInv, NotifiedIsTold, Ended
<1>2. CASE disk'[t] = disk[t] /\ told'[t] = told[t]
  BY <1>1, <1>2
<1>3. ASSUME NEW p \in Procs, Draining(p)
      PROVE  Goal(t)
  <2>1. CASE t \notin Due(p)
    BY <1>2, <1>3, <2>1, DrainedTask
  <2>2. CASE t \in Due(p)
    <3>1. told' = Announced(p, Due(p)) /\ Due(p) \in SUBSET Tasks
      BY <1>3, DrainedTask DEF Due
    <3>2. Len(told[t]) \in Nat /\ DOMAIN told'[t] = 1..Len(told[t]) + 1
      BY <1>1, <2>2, <3>1, AnnouncedTask
    <3>3. 1 \in DOMAIN told'[t]
      BY <3>2
    <3>4. 1 \notin DOMAIN <<>>
      OBVIOUS
    <3> QED
      BY <3>3, <3>4
  <2> QED
    BY <2>1, <2>2
<1>4. ASSUME NEW p \in Procs, Leaving(p)
      PROVE  Goal(t)
  <2>1. phase \in [Procs -> Phases]
    BY <1>1 DEF TypeOK
  <2>2. CASE phase' = [phase EXCEPT ![p] = "crashed"]
    BY <2>1, <2>2
  <2>3. CASE phase' # [phase EXCEPT ![p] = "crashed"]
    BY <1>2, <1>4, <2>3, LeftTask
  <2> QED
    BY <2>2, <2>3
<1>5. ASSUME NEW p \in Procs, NEW u \in Tasks, Register(p, u)
      PROVE  Goal(t)
  BY <1>2, <1>5, RegisteredTask
<1>6. ASSUME NEW u \in Tasks, Begin(u)
      PROVE  Goal(t)
  BY <1>2, <1>6 DEF Begin, records
<1>7. ASSUME NEW u \in Tasks, Ending(u)
      PROVE  Goal(t)
  BY <1>2, <1>7, EndedTask
<1>8. ASSUME NEW p \in Procs, ReadDirectory(p)
      PROVE  Goal(t)
  BY <1>2, <1>8 DEF ReadDirectory
<1> QED
  BY <1>2, <1>3, <1>4, <1>5, <1>6, <1>7, <1>8, StepCases

(* Every step keeps the invariant. *)
LEMMA IInvStep == IInv /\ [Next]_vars => IInv'
<1> SUFFICES ASSUME IInv, [Next]_vars
             PROVE  IInv'
  OBVIOUS
<1>1. TypeOK'
  BY TypeStep DEF IInv
<1>2. CASE Next
  <2>1. Heard' /\ ForeignCopies'
    BY <1>2, HeardStep, ForeignCopiesStep
  <2> QED
    BY <1>1, <1>2, <2>1, DispatchedStep, UnsettledStep, AgreedStep, OnceToldStep,
       PendingStep, RunningIsAliveStep, NotifiedIsToldStep DEF IInv
<1>3. CASE UNCHANGED vars
  <2>1. UNCHANGED <<phase, mem, disk, coro, owner, missed, raised, told>>
    BY <1>3 DEF vars, records, tasks
  <2> QED
    BY <1>1, <2>1 DEF IInv, Dispatched, Unsettled, Agreed, ForeignCopies, Heard,
       OnceTold, Due, Pending, Owned, RunningIsAlive, NotifiedIsTold
<1> QED
  BY <1>2, <1>3

----------------------------------------------------------------------------
(* Theorems *)

(* The invariant holds of every reachable state. *)
THEOREM Inductive == Spec => []IInv
<1>1. Init => IInv
  BY InitIInv
<1>2. IInv /\ [Next]_vars => IInv'
  BY IInvStep
<1> QED
  BY <1>1, <1>2, PTL DEF Spec

(* Every variable keeps its type. *)
THEOREM Typing == Spec => []TypeOK
<1>1. IInv => TypeOK
  BY DEF IInv
<1> QED
  BY <1>1, Inductive, PTL

(* However many processes share the directory of records, and wherever one *)
(* of them is killed in a drain (drain_completed), no process announces a  *)
(* task twice, the mark is on disk once anybody announced it, and past its *)
(* first drain no stranger has a result left to announce.                  *)
THEOREM ToldOnce == Spec => []OnceTold
<1>1. IInv => OnceTold
  BY DEF IInv
<1> QED
  BY <1>1, Inductive, PTL

(* A record left as running belongs to a killed process or to a runner     *)
(* that will still write how it ended: close leaves none behind.           *)
THEOREM NoneLeftRunning == Spec => []RunningIsAlive
<1>1. IInv => RunningIsAlive
  BY DEF IInv
<1> QED
  BY <1>1, Inductive, PTL

(* Without a kill, a record marked as notified was announced.              *)
THEOREM MarkedIsTold == Spec => []NotifiedIsTold
<1>1. IInv => NotifiedIsTold
  BY DEF IInv
<1> QED
  BY <1>1, Inductive, PTL

(* A record on disk says the truth of its runner and of its notice.        *)
THEOREM RecordsTellTheTruth == Spec => []RecordsAreTrue
<1>1. RunningIsAlive /\ NotifiedIsTold => RecordsAreTrue
  BY DEF RecordsAreTrue
<1> QED
  BY <1>1, NoneLeftRunning, MarkedIsTold, PTL

(* An idle terminal sits only on results whose settling could not wake it  *)
(* (_on_background_task_settled, with every reason it has not to) or whose *)
(* run was abandoned before it drained.                                    *)
THEOREM SatOnIsMissed == Spec => []UntoldIsMissed
<1>1. IInv => UntoldIsMissed
  BY DEF IInv, Pending, UntoldIsMissed
<1> QED
  BY <1>1, Inductive, PTL

(* Whichever process writes the record of a settled task, how it ended and *)
(* that it was notified stay, although processes write whole records from  *)
(* copies of their own.                                                    *)
THEOREM SettledForGood == Spec => SettledStays
<1> DEFINE Kept == \A t \in Tasks :
                     disk[t].status \in Settling =>
                       /\ disk'[t].status = disk[t].status
                       /\ disk[t].notified => disk'[t].notified
<1>1. ASSUME IInv, Next
      PROVE  Kept
  <2> SUFFICES ASSUME NEW t \in Tasks, disk[t].status \in Settling
               PROVE  \/ disk'[t] = disk[t]
                      \/ disk'[t].status = disk[t].status /\ disk'[t].notified
    OBVIOUS
  <2> DEFINE Goal == \/ disk'[t] = disk[t]
                     \/ disk'[t].status = disk[t].status /\ disk'[t].notified
  <2>1. coro[t] = "over"
    <3>1. coro[t] \in {"none", "scheduled", "working", "over"}
      BY <1>1 DEF IInv, TypeOK
    <3>2. "none" \notin Settling /\ "running" \notin Settling
      BY DEF Settling
    <3> QED
      BY <1>1, <3>1, <3>2, GivenRecords DEF IInv, Unsettled
  <2>2. ASSUME NEW p \in Procs, Draining(p)
        PROVE  Goal
    BY <1>1, <2>2, DrainedTask
  <2>3. ASSUME NEW p \in Procs, Leaving(p)
        PROVE  Goal
    BY <1>1, <2>3, LeftTask
  <2>4. ASSUME NEW p \in Procs, NEW u \in Tasks, Register(p, u)
        PROVE  Goal
    BY <1>1, <2>1, <2>4, RegisteredTask
  <2>5. ASSUME NEW u \in Tasks, Begin(u)
        PROVE  Goal
    BY <2>5 DEF Begin, records
  <2>6. ASSUME NEW u \in Tasks, Ending(u)
        PROVE  Goal
    BY <1>1, <2>1, <2>6, EndedTask
  <2>7. ASSUME NEW p \in Procs, ReadDirectory(p)
        PROVE  Goal
    BY <2>7 DEF ReadDirectory
  <2> QED
    BY <1>1, <2>2, <2>3, <2>4, <2>5, <2>6, <2>7, StepCases
<1>2. IInv /\ [Next]_vars => [Kept]_disk
  BY <1>1 DEF vars, records
<1> QED
  BY <1>2, Inductive, PTL DEF Spec, SettledStays
=============================================================================
