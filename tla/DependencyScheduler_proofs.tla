-------------------- MODULE DependencyScheduler_proofs --------------------
(***************************************************************************)
(* The graph scheduler is correct for every number of items, every graph   *)
(* and every concurrency: its safety properties and the refinement of      *)
(* RunOrder, from one inductive invariant that ties the counters and the   *)
(* queue to the states of the worker calls.                                *)
(***************************************************************************)
EXTENDS DependencyScheduler, FunctionTheorems, FiniteSetTheorems, SequenceTheorems, TLAPS

Statuses == {"waiting", "running", "settled", "rejected"}

Busy(st) == {i \in Items : st[i] \in {"running", "rejected"}}
Over(st) == {i \in Items : st[i] = "settled"}

Injective(q)   == \A x, y \in 1 .. Len(q) : q[x] = q[y] => x = y
Queued(q, i)   == \E x \in 1 .. Len(q) : q[x] = i
Startable(st, i) == st[i] = "waiting" /\ deps[i] \subseteq Over(st)

(* The queue q holds exactly the items that may start, once each. *)
QueueOK(q, st) ==
  /\ q \in Seq(Items)
  /\ Injective(q)
  /\ \A i \in Items : Queued(q, i) <=> Startable(st, i)

(* An item that has left "waiting" had all its dependencies settled. *)
OrderOK(st) == \A i \in Items : st[i] # "waiting" => deps[i] \subseteq Over(st)

CountersOK ==
  /\ \A j \in Items : remaining[j] = Cardinality(deps[j] \ Over(status))
  /\ settled = Cardinality(Over(status))
  /\ active = Cardinality(Busy(status))
  /\ active <= limit

OutcomeOK ==
  /\ done <=> outcome \in {"rejected", "stalled"}
  /\ (\E i \in Items : status[i] = "rejected") => done
  /\ outcome = "new" => \A i \in Items : status[i] = "waiting"
  /\ outcome = "pending" =>
       /\ active = limit \/ ready = <<>>
       /\ active > 0
       /\ Over(status) # Items
  /\ outcome = "resolved" => Over(status) = Items
  /\ outcome = "stalled" => ready = <<>> /\ active = 0 /\ Over(status) # Items

(* A cycle never starts: no item of it has left "waiting". *)
CyclesWait ==
  \A S \in SUBSET Items :
    (\A i \in S : deps[i] \cap S # {}) => \A i \in S : status[i] = "waiting"

IInv ==
  /\ TypeOK
  /\ CountersOK
  /\ QueueOK(ready, status)
  /\ OrderOK(status)
  /\ OutcomeOK
  /\ CyclesWait

----------------------------------------------------------------------------
(* Sets of items are finite. *)
LEMMA ItemsFinite ==
  /\ IsFiniteSet(Items)
  /\ Cardinality(Items) = N
  /\ \A S \in SUBSET Items :
       /\ IsFiniteSet(S)
       /\ Cardinality(S) \in 0 .. N
       /\ Cardinality(S) = N => S = Items
<1>1. IsFiniteSet(Items) /\ Cardinality(Items) = N
  BY SchedulerAssumption, FS_Interval DEF Items
<1>2. ASSUME NEW S \in SUBSET Items
      PROVE  /\ IsFiniteSet(S)
             /\ Cardinality(S) \in 0 .. N
             /\ Cardinality(S) = N => S = Items
  <2>1. IsFiniteSet(S) /\ Cardinality(S) <= N /\ (Cardinality(S) = N => S = Items)
    BY <1>1, FS_Subset
  <2>2. Cardinality(S) \in Nat
    BY <2>1, FS_CardinalityType
  <2> QED
    BY <2>1, <2>2, SchedulerAssumption
<1> QED
  BY <1>1, <1>2

(* The enumeration of a set of items lists each of them once. *)
LEMMA AscendingAllFacts ==
  ASSUME NEW S \in SUBSET Items, NEW q \in AscendingAll(S)
  PROVE  /\ q \in Seq(Items)
         /\ Len(q) = Cardinality(S)
         /\ Injective(q)
         /\ \A i \in Items : Queued(q, i) <=> i \in S
<1>1. Cardinality(S) \in Nat
  BY ItemsFinite
<1>2. q \in [1 .. Cardinality(S) -> S] /\ DOMAIN q = 1 .. Cardinality(S)
  BY DEF AscendingAll
<1>3. q \in Seq(Items) /\ Len(q) = Cardinality(S)
  BY <1>1, <1>2
<1>4. Injective(q)
  <2> SUFFICES ASSUME NEW x \in 1 .. Len(q), NEW y \in 1 .. Len(q), q[x] = q[y]
               PROVE  x = y
    BY DEF Injective
  <2>1. q[x] \in Int /\ q[y] \in Int
    <3>1. q[x] \in Items /\ q[y] \in Items
      BY <1>3, ElementOfSeq
    <3> QED
      BY <3>1, SchedulerAssumption DEF Items
  <2>2. /\ x < y => q[x] < q[y]
        /\ y < x => q[y] < q[x]
    BY <1>2, <1>3 DEF AscendingAll
  <2> QED
    BY <2>1, <2>2, <1>1, <1>3
<1>5. \A i \in Items : Queued(q, i) <=> i \in S
  BY <1>2, <1>3 DEF AscendingAll, Queued
<1> QED
  BY <1>3, <1>4, <1>5

(* The first k items of a queue without repetition are k items. *)
LEMMA PrefixCardinality ==
  ASSUME NEW q \in Seq(Items), Injective(q), NEW k \in 0 .. Len(q)
  PROVE  Cardinality({i \in Items : \E x \in 1 .. k : q[x] = i}) = k
<1> DEFINE Launched == {i \in Items : \E x \in 1 .. k : q[x] = i}
           f == [x \in 1 .. k |-> q[x]]
<1>1. Len(q) \in Nat /\ \A x \in 1 .. k : x \in 1 .. Len(q) /\ q[x] \in Items
  BY ElementOfSeq, LenProperties
<1>2. f \in [1 .. k -> Launched]
  BY <1>1
<1>3. \A a, b \in 1 .. k : f[a] = f[b] => a = b
  BY <1>1 DEF Injective
<1>4. \A t \in Launched : \E s \in 1 .. k : f[s] = t
  OBVIOUS
<1>5. f \in Bijection(1 .. k, Launched)
  BY <1>2, <1>3, <1>4, Fun_IsBij
<1>6. ExistsBijection(1 .. k, Launched)
  BY <1>5 DEF ExistsBijection
<1>7. k \in Nat
  BY <1>1
<1> HIDE DEF Launched
<1>8. Cardinality(Launched) = k
  BY <1>6, <1>7, FS_CountingElements
<1> QED
  BY <1>8 DEF Launched

----------------------------------------------------------------------------
(* launchNext: what it leaves of the queue, which calls it starts, and how *)
(* many are in flight after it.                                            *)
LEMMA LaunchFacts ==
  ASSUME limit \in Nat \ {0},
         NEW STATE queue, NEW STATE running, NEW STATE calls, calls \in [Items -> Statuses],
         QueueOK(queue, calls), OrderOK(calls),
         running = Cardinality(Busy(calls)), running <= limit,
         UNCHANGED deps,
         LaunchNext(queue, running, calls)
  PROVE  /\ status' \in [Items -> Statuses]
         /\ \A i \in Items : status'[i] # calls[i] =>
              calls[i] = "waiting" /\ status'[i] = "running"
         /\ Over(status') = Over(calls)
         /\ QueueOK(ready, status)'
         /\ OrderOK(status)'
         /\ active' \in Nat
         /\ active' = Cardinality(Busy(status'))
         /\ active' <= limit
         /\ active' = limit \/ ready' = <<>>
         /\ running > 0 \/ queue # <<>> => active' > 0
<1> DEFINE k == LaunchCount(queue, running)
           Launched == {i \in Items : \E x \in 1 .. k : queue[x] = i}
<1>1. /\ queue \in Seq(Items)
      /\ Injective(queue)
      /\ \A i \in Items : Queued(queue, i) <=> Startable(calls, i)
  BY DEF QueueOK
<1>2. Len(queue) \in Nat /\ \A x \in 1 .. Len(queue) : queue[x] \in Items
  BY <1>1, LenProperties, ElementOfSeq
<1>3. IsFiniteSet(Busy(calls)) /\ running \in Nat
  BY ItemsFinite DEF Busy
<1>4. /\ k \in 0 .. Len(queue)
      /\ running + k <= limit
      /\ running + k = limit \/ k = Len(queue)
  BY <1>2, <1>3 DEF LaunchCount
<1>5. /\ ready' = SubSeq(queue, k + 1, Len(queue))
      /\ active' = running + k
      /\ status' = [i \in Items |-> IF i \in Launched THEN "running" ELSE calls[i]]
  BY DEF LaunchNext
<1> HIDE DEF k
<1>6. \A i \in Launched : Queued(queue, i) /\ calls[i] = "waiting"
  BY <1>1, <1>2, <1>4 DEF Queued, Startable
<1>7. /\ status' \in [Items -> Statuses]
      /\ \A i \in Items : status'[i] # calls[i] =>
           calls[i] = "waiting" /\ status'[i] = "running"
  BY <1>5, <1>6 DEF Statuses
<1>8. Over(status') = Over(calls)
  BY <1>7 DEF Over
<1>9. Cardinality(Launched) = k
  BY <1>1, <1>4, PrefixCardinality
<1>10. Busy(status') = Busy(calls) \cup Launched /\ Busy(calls) \cap Launched = {}
  BY <1>5, <1>6 DEF Busy
<1>11. active' = Cardinality(Busy(status'))
  <2>1. IsFiniteSet(Launched)
    BY ItemsFinite
  <2> HIDE DEF Launched
  <2>2. Cardinality(Busy(calls) \cap Launched) = 0
    BY <1>10, FS_EmptySet
  <2>3. Cardinality(Busy(status')) =
          Cardinality(Busy(calls)) + Cardinality(Launched) - Cardinality(Busy(calls) \cap Launched)
    BY <1>3, <1>10, <2>1, FS_Union
  <2> QED
    BY <1>3, <1>4, <1>5, <1>9, <2>2, <2>3
<1>12. /\ ready' \in Seq(Items)
       /\ Len(ready') = Len(queue) - k
       /\ \A x \in 1 .. Len(queue) - k : ready'[x] = queue[k + x]
  <2>1. /\ k + 1 \in Int
        /\ Len(queue) \in Int
        /\ \A x \in k + 1 .. Len(queue) : queue[x] \in Items
    BY <1>2, <1>4
  <2>2. /\ ready' \in Seq(Items)
        /\ Len(ready') = IF k + 1 <= Len(queue) THEN Len(queue) - (k + 1) + 1 ELSE 0
        /\ \A x \in 1 .. Len(queue) - (k + 1) + 1 : ready'[x] = queue[k + 1 + x - 1]
    BY <1>5, <2>1, SubSeqProperties
  <2>3. \A x \in 1 .. Len(queue) - k : k + 1 + x - 1 = k + x
    BY <1>2, <1>4
  <2> QED
    BY <1>2, <1>4, <2>2, <2>3
<1>13. Injective(ready')
  <2> SUFFICES ASSUME NEW x \in 1 .. Len(ready'), NEW y \in 1 .. Len(ready'),
                      ready'[x] = ready'[y]
               PROVE  x = y
    BY DEF Injective
  <2>1. /\ k + x \in 1 .. Len(queue) /\ queue[k + x] = ready'[x]
        /\ k + y \in 1 .. Len(queue) /\ queue[k + y] = ready'[y]
    BY <1>2, <1>4, <1>12, SMTT(20)
  <2>2. k + x = k + y
    BY <1>1, <2>1 DEF Injective
  <2> QED
    BY <1>2, <1>4, <1>12, <2>2
<1>14. \A i \in Items : Queued(ready', i) <=> Queued(queue, i) /\ i \notin Launched
  <2> SUFFICES ASSUME NEW i \in Items
               PROVE  Queued(ready', i) <=> Queued(queue, i) /\ i \notin Launched
    OBVIOUS
  <2>1. ASSUME NEW x \in 1 .. Len(queue) - k, ready'[x] = i
        PROVE  Queued(queue, i) /\ i \notin Launched
    <3>1. k + x \in 1 .. Len(queue) /\ queue[k + x] = i
      BY <1>2, <1>4, <1>12, <2>1
    <3>2. \A y \in 1 .. k : queue[y] # i
      BY <1>1, <1>2, <1>4, <3>1 DEF Injective
    <3> QED
      BY <3>1, <3>2 DEF Queued
  <2>2. ASSUME NEW x \in 1 .. Len(queue), queue[x] = i, i \notin Launched
        PROVE  Queued(ready', i)
    <3>1. x \notin 1 .. k
      BY <2>2
    <3>2. x - k \in 1 .. Len(queue) - k /\ k + (x - k) = x
      BY <1>2, <1>4, <3>1
    <3> QED
      BY <1>12, <2>2, <3>2 DEF Queued
  <2> QED
    BY <1>12, <2>1, <2>2 DEF Queued
<1>15. \A i \in Items : Queued(ready', i) <=> status'[i] = "waiting" /\ deps'[i] \subseteq Over(status')
  BY <1>1, <1>5, <1>6, <1>8, <1>14 DEF Startable
<1>16. OrderOK(status)'
  BY <1>1, <1>5, <1>6, <1>8 DEF OrderOK, Startable
<1>17. active' = limit \/ ready' = <<>>
  <2>1. ASSUME k = Len(queue)
        PROVE  ready' = <<>>
    BY <2>1, <1>2, <1>12, EmptySeq
  <2> QED
    BY <2>1, <1>4, <1>5
<1>18. running > 0 \/ queue # <<>> => active' > 0
  BY <1>1, <1>2, <1>3, <1>4, <1>5, EmptySeq
<1>19. QueueOK(ready, status)'
  BY <1>12, <1>13, <1>15 DEF QueueOK, Startable, Injective, Queued, Over
<1>20. active' \in Nat /\ active' <= limit
  BY <1>3, <1>4, <1>5
<1> QED
  BY <1>7, <1>8, <1>11, <1>16, <1>17, <1>18, <1>19, <1>20

----------------------------------------------------------------------------
(* What the .then of item i records, before anything else is launched.     *)
LEMMA RecordedFacts ==
  ASSUME IInv, NEW i \in Items, Recorded(i)
  PROVE  /\ Store(i) \in [Items -> Statuses]
         /\ Over(Store(i)) = Over(status) \cup {i}
         /\ Busy(Store(i)) = Busy(status) \ {i}
         /\ OrderOK(Store(i))
         /\ active - 1 \in Nat
         /\ active - 1 = Cardinality(Busy(Store(i)))
         /\ settled' \in 0 .. N
         /\ settled' = Cardinality(Over(Store(i)))
         /\ remaining' \in [Items -> Nat]
         /\ \A j \in Items : remaining'[j] = Cardinality(deps[j] \ Over(Store(i)))
         /\ Unblocked(i) = {j \in Items : i \in deps[j] /\ deps[j] \subseteq Over(Store(i))}
<1>1. /\ status \in [Items -> Statuses]
      /\ status[i] = "running"
      /\ deps \in [Items -> SUBSET Items]
      /\ remaining \in [Items -> Nat]
  BY DEF IInv, TypeOK, Recorded, Statuses
<1>2. Store(i) \in [Items -> Statuses]
  BY <1>1 DEF Store, Statuses
<1>3. /\ Over(Store(i)) = Over(status) \cup {i}
      /\ i \notin Over(status)
  BY <1>1 DEF Over, Store
<1>4. /\ Busy(Store(i)) = Busy(status) \ {i}
      /\ i \in Busy(status)
  BY <1>1 DEF Busy, Store
<1>5. OrderOK(Store(i))
  BY <1>1, <1>3 DEF IInv, OrderOK, Store
<1>6. /\ active - 1 \in Nat
      /\ active - 1 = Cardinality(Busy(Store(i)))
  <2>1. IsFiniteSet(Busy(status)) /\ Cardinality(Busy(Store(i))) \in Nat
    BY ItemsFinite DEF Busy
  <2>2. Cardinality(Busy(Store(i))) = Cardinality(Busy(status)) - 1
    BY <2>1, <1>4, FS_RemoveElement
  <2>3. active = Cardinality(Busy(status)) /\ active \in Nat
    BY DEF IInv, CountersOK, TypeOK
  <2> QED
    BY <2>1, <2>2, <2>3
<1>7. /\ settled' \in 0 .. N
      /\ settled' = Cardinality(Over(Store(i)))
  <2>1. IsFiniteSet(Over(status)) /\ Cardinality(Over(Store(i))) \in 0 .. N
    BY ItemsFinite DEF Over
  <2>2. Cardinality(Over(Store(i))) = Cardinality(Over(status)) + 1
    BY <2>1, <1>3, FS_AddElement
  <2>3. settled = Cardinality(Over(status)) /\ settled' = settled + 1
    BY DEF IInv, CountersOK, Recorded
  <2> QED
    BY <2>1, <2>2, <2>3
<1>8. ASSUME NEW j \in Items
      PROVE  CountDown(i)[j] = Cardinality(deps[j] \ Over(Store(i)))
  <2> DEFINE D == deps[j] \ Over(status)
  <2>1. IsFiniteSet(D) /\ remaining[j] = Cardinality(D)
    BY <1>1, ItemsFinite DEF IInv, CountersOK
  <2>2. deps[j] \ Over(Store(i)) = D \ {i}
    BY <1>3
  <2>3. i \in D <=> i \in deps[j]
    BY <1>3
  <2>4. Cardinality(D \ {i}) = IF i \in D THEN Cardinality(D) - 1 ELSE Cardinality(D)
    BY <2>1, FS_RemoveElement
  <2> QED
    BY <2>1, <2>2, <2>3, <2>4 DEF CountDown
<1>9. /\ remaining' = CountDown(i)
      /\ remaining' \in [Items -> Nat]
  <2>1. \A j \in Items : Cardinality(deps[j] \ Over(Store(i))) \in Nat
    BY <1>1, ItemsFinite
  <2>2. CountDown(i) = [j \in Items |-> CountDown(i)[j]]
    BY DEF CountDown
  <2> QED
    BY <1>8, <2>1, <2>2 DEF Recorded
<1>10. \A j \in Items : remaining'[j] = Cardinality(deps[j] \ Over(Store(i)))
  BY <1>8, <1>9
<1>11. Unblocked(i) = {j \in Items : i \in deps[j] /\ deps[j] \subseteq Over(Store(i))}
  <2>1. ASSUME NEW j \in Items
        PROVE  CountDown(i)[j] = 0 <=> deps[j] \subseteq Over(Store(i))
    <3>1. IsFiniteSet(deps[j] \ Over(Store(i)))
      BY <1>1, ItemsFinite
    <3>2. Cardinality(deps[j] \ Over(Store(i))) = 0 <=> deps[j] \ Over(Store(i)) = {}
      BY <3>1, FS_EmptySet
    <3> QED
      BY <1>8, <3>2
  <2> QED
    BY <2>1 DEF Unblocked
<1> QED
  BY <1>2, <1>3, <1>4, <1>5, <1>6, <1>7, <1>9, <1>10, <1>11

(* The queue after the dependents that reached zero have joined it.        *)
LEMMA UnblockedFacts ==
  ASSUME IInv, NEW i \in Items, Recorded(i), NEW u \in AscendingAll(Unblocked(i))
  PROVE  /\ QueueOK(ready \o u, Store(i))
         /\ ready \o u = <<>> <=> ready = <<>> /\ Unblocked(i) = {}
<1>1. /\ ready \in Seq(Items)
      /\ Injective(ready)
      /\ \A j \in Items : Queued(ready, j) <=> Startable(status, j)
  BY DEF IInv, QueueOK
<1>2. Unblocked(i) \in SUBSET Items
  BY DEF Unblocked
<1>3. /\ u \in Seq(Items)
      /\ Len(u) = Cardinality(Unblocked(i))
      /\ Injective(u)
      /\ \A j \in Items : Queued(u, j) <=> j \in Unblocked(i)
  BY <1>2, AscendingAllFacts
<1>4. /\ ready \o u \in Seq(Items)
      /\ Len(ready \o u) = Len(ready) + Len(u)
      /\ \A x \in 1 .. Len(ready) + Len(u) :
           (ready \o u)[x] = IF x <= Len(ready) THEN ready[x] ELSE u[x - Len(ready)]
      /\ Len(ready) \in Nat /\ Len(u) \in Nat
  BY <1>1, <1>3, ConcatProperties, LenProperties
<1>5. /\ Over(Store(i)) = Over(status) \cup {i}
      /\ Unblocked(i) = {j \in Items : i \in deps[j] /\ deps[j] \subseteq Over(Store(i))}
      /\ i \notin Over(status)
      /\ \A j \in Items : Store(i)[j] = "waiting" <=> status[j] = "waiting"
      /\ OrderOK(status)
  BY RecordedFacts DEF IInv, TypeOK, Over, Store, Recorded
<1>6. \A j \in Unblocked(i) : status[j] = "waiting" /\ ~ Startable(status, j)
  BY <1>5 DEF OrderOK, Startable
<1>7. \A j \in Items : Startable(Store(i), j) <=> Startable(status, j) \/ j \in Unblocked(i)
  BY <1>5, <1>6 DEF Startable
<1>8. \A x \in 1 .. Len(ready), y \in 1 .. Len(u) : ready[x] # u[y]
  <2> SUFFICES ASSUME NEW x \in 1 .. Len(ready), NEW y \in 1 .. Len(u), ready[x] = u[y]
               PROVE  FALSE
    OBVIOUS
  <2>1. ready[x] \in Items
    BY <1>1, ElementOfSeq
  <2>2. Queued(ready, ready[x]) /\ Queued(u, ready[x])
    BY DEF Queued
  <2> QED
    BY <1>1, <1>3, <1>6, <2>1, <2>2
<1>9. Injective(ready \o u)
  <2> SUFFICES ASSUME NEW x \in 1 .. Len(ready) + Len(u), NEW y \in 1 .. Len(ready) + Len(u),
                      (ready \o u)[x] = (ready \o u)[y]
               PROVE  x = y
    BY <1>4 DEF Injective
  <2>1. CASE x <= Len(ready) /\ y <= Len(ready)
    BY <1>1, <1>4, <2>1 DEF Injective
  <2>2. CASE x > Len(ready) /\ y > Len(ready)
    <3>1. x - Len(ready) \in 1 .. Len(u) /\ y - Len(ready) \in 1 .. Len(u)
      BY <1>4, <2>2
    <3>2. u[x - Len(ready)] = u[y - Len(ready)]
      BY <1>4, <2>2
    <3>3. x - Len(ready) = y - Len(ready)
      BY <1>3, <3>1, <3>2 DEF Injective
    <3> QED
      BY <1>4, <3>3
  <2>3. CASE x <= Len(ready) /\ y > Len(ready)
    BY <1>4, <1>8, <2>3
  <2>4. CASE x > Len(ready) /\ y <= Len(ready)
    BY <1>4, <1>8, <2>4
  <2> QED
    BY <1>4, <2>1, <2>2, <2>3, <2>4
<1>10. \A j \in Items : Queued(ready \o u, j) <=> Queued(ready, j) \/ Queued(u, j)
  <2> SUFFICES ASSUME NEW j \in Items
               PROVE  Queued(ready \o u, j) <=> Queued(ready, j) \/ Queued(u, j)
    OBVIOUS
  <2>1. ASSUME NEW x \in 1 .. Len(ready) + Len(u), (ready \o u)[x] = j
        PROVE  Queued(ready, j) \/ Queued(u, j)
    <3>1. CASE x <= Len(ready)
      BY <1>4, <2>1, <3>1 DEF Queued
    <3>2. CASE x > Len(ready)
      <4>1. x - Len(ready) \in 1 .. Len(u) /\ u[x - Len(ready)] = j
        BY <1>4, <2>1, <3>2
      <4> QED
        BY <4>1 DEF Queued
    <3> QED
      BY <1>4, <3>1, <3>2
  <2>2. ASSUME NEW x \in 1 .. Len(ready), ready[x] = j
        PROVE  Queued(ready \o u, j)
    BY <1>4, <2>2 DEF Queued
  <2>3. ASSUME NEW x \in 1 .. Len(u), u[x] = j
        PROVE  Queued(ready \o u, j)
    <3>1. x + Len(ready) \in 1 .. Len(ready) + Len(u) /\ (ready \o u)[x + Len(ready)] = j
      BY <1>4, <2>3
    <3> QED
      BY <1>4, <3>1 DEF Queued
  <2> QED
    BY <1>4, <2>1, <2>2, <2>3 DEF Queued
<1>11. QueueOK(ready \o u, Store(i))
  BY <1>1, <1>3, <1>4, <1>7, <1>9, <1>10 DEF QueueOK
<1>12. ready \o u = <<>> <=> ready = <<>> /\ Unblocked(i) = {}
  <2>1. u = <<>> <=> Unblocked(i) = {}
    <3>1. IsFiniteSet(Unblocked(i))
      BY <1>2, ItemsFinite
    <3> QED
      BY <1>3, <3>1, FS_EmptySet, EmptySeq
  <2> QED
    BY <1>1, <1>3, <2>1, ConcatEqualIffEmpty
<1> QED
  BY <1>11, <1>12

----------------------------------------------------------------------------
(* Init: the queue holds the roots, every counter starts at its meaning.   *)
LEMMA InitIInv == Init => IInv
<1> SUFFICES ASSUME NEW graph \in Graphs, NEW concurrency \in Concurrencies,
                    InitWith(graph, concurrency)
             PROVE  IInv
  BY DEF Init
<1>1. deps \in [Items -> SUBSET Items]
  BY DEF InitWith, Snapshot
<1>2. limit \in Nat \ {0}
  <2>1. limit = EffectiveConcurrency(concurrency)
    BY DEF InitWith
  <2>2. concurrency \in Int \/ concurrency = NotFinite
    BY SchedulerAssumption
  <2> QED
    BY <2>1, <2>2 DEF EffectiveConcurrency
<1>3. /\ status = [i \in Items |-> "waiting"]
      /\ remaining = [i \in Items |-> Cardinality(deps[i])]
      /\ active = 0
      /\ settled = 0
      /\ done = FALSE
      /\ outcome = "new"
  BY DEF InitWith
<1>4. Over(status) = {} /\ Busy(status) = {} /\ Cardinality({}) = 0
  BY <1>3, FS_EmptySet DEF Over, Busy
<1>5. remaining \in [Items -> Nat]
  BY <1>1, <1>3, ItemsFinite
<1>6. QueueOK(ready, status)
  <2>1. ready \in AscendingAll(Roots(deps)) /\ Roots(deps) \in SUBSET Items
    BY DEF InitWith, Roots
  <2>2. /\ ready \in Seq(Items)
        /\ Injective(ready)
        /\ \A i \in Items : Queued(ready, i) <=> i \in Roots(deps)
    BY <2>1, AscendingAllFacts
  <2>3. \A i \in Items : Startable(status, i) <=> i \in Roots(deps)
    BY <1>1, <1>3, <1>4 DEF Startable, Roots
  <2> QED
    BY <2>2, <2>3 DEF QueueOK
<1>7. TypeOK
  <2>1. status \in [Items -> {"waiting", "running", "settled", "rejected"}]
    BY <1>3
  <2>2. active \in Nat /\ settled \in 0 .. N
    BY <1>3, SchedulerAssumption
  <2>3. done \in BOOLEAN /\ outcome \in {"new", "pending", "resolved", "rejected", "stalled"}
    BY <1>3
  <2>4. ready \in Seq(Items)
    BY <1>6 DEF QueueOK
  <2> QED
    BY <1>1, <1>2, <1>5, <2>1, <2>2, <2>3, <2>4 DEF TypeOK
<1>8. CountersOK
  BY <1>1, <1>2, <1>3, <1>4 DEF CountersOK
<1>9. OrderOK(status) /\ OutcomeOK /\ CyclesWait
  BY <1>3 DEF OrderOK, OutcomeOK, CyclesWait
<1> QED
  BY <1>6, <1>7, <1>8, <1>9 DEF IInv

(* A cycle stays waiting through a step in which only what had started     *)
(* settles and only what has its dependencies settled starts.              *)
LEMMA CyclesStay ==
  ASSUME CyclesWait, UNCHANGED deps, OrderOK(status)',
         \A i \in Items : status'[i] = "settled" => status[i] # "waiting"
  PROVE  CyclesWait'
<1> SUFFICES ASSUME NEW S \in SUBSET Items,
                    \A i \in S : deps[i] \cap S # {},
                    NEW i \in S, status'[i] # "waiting"
             PROVE  FALSE
  BY DEF CyclesWait
<1>1. PICK d \in S : d \in deps[i]
  OBVIOUS
<1>2. d \in Over(status)'
  BY <1>1 DEF OrderOK
<1>3. status[d] # "waiting"
  BY <1>2 DEF Over
<1> QED
  BY <1>3 DEF CyclesWait

(* The call launches the first `limit` roots and keeps the invariant.       *)
LEMMA BeginStep ==
  ASSUME IInv, Begin
  PROVE  IInv'
<1>1. /\ outcome = "new"
      /\ N = 0 \/ ready # <<>>
      /\ outcome' = IF N = 0 THEN "resolved" ELSE "pending"
      /\ LaunchNext(ready, active, status)
      /\ UNCHANGED <<deps, limit, remaining, settled, done>>
  BY DEF Begin
<1>2. /\ TypeOK
      /\ CountersOK
      /\ QueueOK(ready, status)
      /\ OrderOK(status)
      /\ OutcomeOK
      /\ CyclesWait
  BY DEF IInv
<1>3. /\ status' \in [Items -> Statuses]
      /\ \A i \in Items : status'[i] # status[i] =>
           status[i] = "waiting" /\ status'[i] = "running"
      /\ Over(status') = Over(status)
      /\ QueueOK(ready, status)'
      /\ OrderOK(status)'
      /\ active' \in Nat
      /\ active' = Cardinality(Busy(status'))
      /\ active' <= limit
      /\ active' = limit \/ ready' = <<>>
      /\ ready # <<>> => active' > 0
  BY <1>1, <1>2, LaunchFacts DEF TypeOK, CountersOK, Statuses
<1>4. TypeOK'
  BY <1>1, <1>2, <1>3 DEF TypeOK, QueueOK, Statuses
<1>5. CountersOK'
  BY <1>1, <1>2, <1>3 DEF CountersOK, Over, Busy
<1>6. OutcomeOK'
  <2>1. \A i \in Items : status[i] = "waiting" /\ status'[i] \in {"waiting", "running"}
    BY <1>1, <1>2, <1>3 DEF OutcomeOK
  <2>2. ~ done'
    BY <1>1, <1>2 DEF OutcomeOK
  <2>3. Over(status') = {}
    BY <2>1 DEF Over
  <2>4. N = 0 <=> Items = {}
    BY SchedulerAssumption DEF Items
  <2> QED
    BY <1>1, <1>3, <2>1, <2>2, <2>3, <2>4 DEF OutcomeOK, Over
<1>7. CyclesWait'
  BY <1>1, <1>2, <1>3, CyclesStay
<1> QED
  BY <1>3, <1>4, <1>5, <1>6, <1>7 DEF IInv

(* The call on a graph without a root answers, with nothing started.       *)
LEMMA BeginStalledStep ==
  ASSUME IInv, BeginStalled
  PROVE  IInv'
<1>1. /\ outcome = "new"
      /\ N > 0
      /\ ready = <<>>
      /\ done' = TRUE
      /\ outcome' = "stalled"
      /\ UNCHANGED <<deps, limit, remaining, ready, status, active, settled>>
  BY DEF BeginStalled
<1>2. /\ TypeOK
      /\ CountersOK
      /\ QueueOK(ready, status)
      /\ OrderOK(status)
      /\ OutcomeOK
      /\ CyclesWait
  BY DEF IInv
<1>3. TypeOK' /\ CountersOK' /\ QueueOK(ready, status)' /\ OrderOK(status)' /\ CyclesWait'
  <2>1. TypeOK'
    BY <1>1, <1>2 DEF TypeOK
  <2>2. CountersOK'
    BY <1>1, <1>2 DEF CountersOK, Over, Busy
  <2>3. QueueOK(ready, status)'
    BY <1>1, <1>2 DEF QueueOK, Injective, Queued, Startable, Over
  <2>4. OrderOK(status)' /\ CyclesWait'
    BY <1>1, <1>2 DEF OrderOK, CyclesWait, Over
  <2> QED
    BY <2>1, <2>2, <2>3, <2>4
<1>4. OutcomeOK'
  <2>1. \A i \in Items : status[i] = "waiting"
    BY <1>1, <1>2 DEF OutcomeOK
  <2>2. Over(status) = {} /\ Busy(status) = {}
    BY <2>1 DEF Over, Busy
  <2>3. active = 0
    BY <1>2, <2>2, FS_EmptySet DEF CountersOK
  <2>4. Items # {}
    BY <1>1, SchedulerAssumption DEF Items
  <2>5. Over(status)' = {}
    BY <1>1, <2>2 DEF Over
  <2> QED
    BY <1>1, <2>1, <2>3, <2>4, <2>5 DEF OutcomeOK
<1> QED
  BY <1>3, <1>4 DEF IInv

(* What the three ways of settling that launch nothing have in common.     *)
LEMMA StoreStep ==
  ASSUME IInv, NEW i \in Items, Recorded(i),
         status' = Store(i), active' = active - 1,
         done' \in BOOLEAN, outcome' \in {"new", "pending", "resolved", "rejected", "stalled"},
         \/ \E u \in AscendingAll(Unblocked(i)) : ready' = ready \o u
         \/ ready = <<>> /\ Unblocked(i) = {} /\ ready' = ready
  PROVE  TypeOK' /\ CountersOK' /\ QueueOK(ready, status)' /\ OrderOK(status)' /\ CyclesWait'
<1>1. UNCHANGED <<deps, limit>> /\ TypeOK /\ CountersOK /\ CyclesWait
  BY DEF Recorded, IInv
<1>2. QueueOK(ready', Store(i))
  <2>1. CASE \E u \in AscendingAll(Unblocked(i)) : ready' = ready \o u
    BY <2>1, UnblockedFacts
  <2>2. CASE ready = <<>> /\ Unblocked(i) = {} /\ ready' = ready
    <3>1. <<>> \in AscendingAll(Unblocked(i))
      BY <2>2, FS_EmptySet DEF AscendingAll
    <3>2. QueueOK(ready \o <<>>, Store(i))
      BY <3>1, UnblockedFacts
    <3>3. ready \o <<>> = ready'
      BY <1>1, <2>2, ConcatEmptySeq DEF TypeOK
    <3> QED
      BY <3>2, <3>3
  <2> QED
    BY <2>1, <2>2
<1>3. QueueOK(ready, status)'
  BY <1>1, <1>2 DEF QueueOK, Injective, Queued, Startable, Over
<1>4. OrderOK(status)'
  <2>1. OrderOK(Store(i))
    BY RecordedFacts
  <2> QED
    BY <1>1, <2>1 DEF OrderOK, Over
<1>5. TypeOK'
  <2>1. /\ status' \in [Items -> Statuses]
        /\ active' \in Nat
        /\ settled' \in 0 .. N
        /\ remaining' \in [Items -> Nat]
    BY RecordedFacts
  <2> QED
    BY <1>1, <1>2, <2>1 DEF TypeOK, QueueOK, Statuses
<1>6. CountersOK'
  <2>1. /\ \A j \in Items : remaining'[j] = Cardinality(deps'[j] \ Over(status'))
        /\ settled' = Cardinality(Over(status'))
        /\ active' = Cardinality(Busy(status'))
    BY <1>1, RecordedFacts
  <2>2. active' <= limit'
    BY <1>1 DEF TypeOK, CountersOK
  <2> QED
    BY <2>1, <2>2 DEF CountersOK, Over, Busy
<1>7. CyclesWait'
  <2>1. \A j \in Items : status'[j] = "settled" => status[j] # "waiting"
    BY <1>1 DEF Store, Recorded, TypeOK
  <2> QED
    BY <1>1, <1>4, <2>1, CyclesStay
<1> QED
  BY <1>3, <1>4, <1>5, <1>6, <1>7

(* Bookkeeping goes on after a failure, and keeps the queue exact.         *)
LEMMA SettleAfterFailureStep ==
  ASSUME IInv, NEW i \in Items, SettleAfterFailure(i)
  PROVE  IInv'
<1>1. /\ Recorded(i)
      /\ done
      /\ \E u \in AscendingAll(Unblocked(i)) : ready' = ready \o u
      /\ active' = active - 1
      /\ status' = Store(i)
      /\ UNCHANGED <<done, outcome>>
  BY DEF SettleAfterFailure
<1>2. TypeOK /\ OutcomeOK /\ CountersOK /\ status[i] = "running"
  BY <1>1 DEF IInv, Recorded
<1>3. done' \in BOOLEAN /\ outcome' \in {"new", "pending", "resolved", "rejected", "stalled"}
  BY <1>1, <1>2 DEF TypeOK
<1>4. TypeOK' /\ CountersOK' /\ QueueOK(ready, status)' /\ OrderOK(status)' /\ CyclesWait'
  BY <1>1, <1>3, StoreStep
<1>5. outcome = "rejected"
  <2>1. active # 0
    <3>1. i \in Busy(status) /\ IsFiniteSet(Busy(status))
      BY <1>2, ItemsFinite DEF Busy
    <3> QED
      BY <1>2, <3>1, FS_EmptySet DEF CountersOK
  <2> QED
    BY <1>1, <1>2, <2>1 DEF OutcomeOK
<1>6. OutcomeOK'
  BY <1>1, <1>2, <1>5 DEF OutcomeOK
<1> QED
  BY <1>4, <1>6 DEF IInv

(* The .then that counts the last item resolves with everything settled.   *)
LEMMA SettleLastStep ==
  ASSUME IInv, NEW i \in Items, SettleLast(i)
  PROVE  IInv'
<1>1. /\ Recorded(i)
      /\ ~ done
      /\ settled' = N
      /\ \E u \in AscendingAll(Unblocked(i)) : ready' = ready \o u
      /\ active' = active - 1
      /\ status' = Store(i)
      /\ outcome' = "resolved"
      /\ UNCHANGED done
  BY DEF SettleLast
<1>2. TypeOK /\ OutcomeOK /\ CountersOK /\ status[i] = "running"
  BY <1>1 DEF IInv, Recorded
<1>3. done' \in BOOLEAN /\ outcome' \in {"new", "pending", "resolved", "rejected", "stalled"}
  BY <1>1, <1>2 DEF TypeOK
<1>4. TypeOK' /\ CountersOK' /\ QueueOK(ready, status)' /\ OrderOK(status)' /\ CyclesWait'
  BY <1>1, <1>3, StoreStep
<1>5. Over(status)' = Items
  <2>1. Over(status)' \in SUBSET Items /\ Cardinality(Over(status)') = N
    BY <1>1, <1>4 DEF CountersOK, Over
  <2> QED
    BY <2>1, ItemsFinite
<1>6. OutcomeOK'
  BY <1>1, <1>5 DEF OutcomeOK, Over
<1> QED
  BY <1>4, <1>6 DEF IInv

(* The .then that finds nothing running and nothing ready reports a stall.  *)
LEMMA SettleStalledStep ==
  ASSUME IInv, NEW i \in Items, SettleStalled(i)
  PROVE  IInv'
<1>1. /\ Recorded(i)
      /\ ~ done
      /\ settled' # N
      /\ active = 1
      /\ ready = <<>>
      /\ Unblocked(i) = {}
      /\ active' = active - 1
      /\ status' = Store(i)
      /\ done' = TRUE
      /\ outcome' = "stalled"
      /\ UNCHANGED ready
  BY DEF SettleStalled
<1>2. TypeOK' /\ CountersOK' /\ QueueOK(ready, status)' /\ OrderOK(status)' /\ CyclesWait'
  BY <1>1, StoreStep
<1>3. Over(status)' # Items
  BY <1>1, <1>2, ItemsFinite DEF CountersOK
<1>4. OutcomeOK'
  BY <1>1, <1>3 DEF OutcomeOK
<1> QED
  BY <1>2, <1>4 DEF IInv

(* The .then that launches refills the slots the bound allows.             *)
LEMMA SettleAndLaunchStep ==
  ASSUME IInv, NEW i \in Items, SettleAndLaunch(i)
  PROVE  IInv'
<1>1. PICK u \in AscendingAll(Unblocked(i)) : LaunchNext(ready \o u, active - 1, Store(i))
  BY DEF SettleAndLaunch
<1>2. /\ Recorded(i)
      /\ ~ done
      /\ settled' # N
      /\ active # 1 \/ ready # <<>> \/ Unblocked(i) # {}
      /\ UNCHANGED <<deps, limit, done, outcome>>
  BY DEF SettleAndLaunch, Recorded
<1>3. /\ TypeOK
      /\ CountersOK
      /\ OutcomeOK
      /\ CyclesWait
      /\ status[i] = "running"
      /\ outcome # "new"
  BY <1>2 DEF IInv, Recorded
<1>4. /\ Store(i) \in [Items -> Statuses]
      /\ OrderOK(Store(i))
      /\ active - 1 \in Nat
      /\ active - 1 = Cardinality(Busy(Store(i)))
      /\ settled' \in 0 .. N
      /\ settled' = Cardinality(Over(Store(i)))
      /\ remaining' \in [Items -> Nat]
      /\ \A j \in Items : remaining'[j] = Cardinality(deps[j] \ Over(Store(i)))
  BY <1>2, RecordedFacts
<1>5. /\ QueueOK(ready \o u, Store(i))
      /\ ready \o u = <<>> <=> ready = <<>> /\ Unblocked(i) = {}
  BY <1>2, UnblockedFacts
<1>6. limit \in Nat \ {0} /\ active - 1 <= limit
  BY <1>3 DEF TypeOK, CountersOK
<1>7. /\ status' \in [Items -> Statuses]
      /\ \A j \in Items : status'[j] # Store(i)[j] =>
           Store(i)[j] = "waiting" /\ status'[j] = "running"
      /\ Over(status') = Over(Store(i))
      /\ QueueOK(ready, status)'
      /\ OrderOK(status)'
      /\ active' \in Nat
      /\ active' = Cardinality(Busy(status'))
      /\ active' <= limit
      /\ active' = limit \/ ready' = <<>>
      /\ active - 1 > 0 \/ ready \o u # <<>> => active' > 0
  BY <1>1, <1>2, <1>4, <1>5, <1>6, LaunchFacts
<1>8. TypeOK'
  BY <1>2, <1>3, <1>4, <1>7 DEF TypeOK, QueueOK, Statuses
<1>9. CountersOK'
  <2>1. /\ \A j \in Items : remaining'[j] = Cardinality(deps'[j] \ Over(status'))
        /\ settled' = Cardinality(Over(status'))
        /\ active' <= limit'
    BY <1>2, <1>4, <1>7
  <2> QED
    BY <1>7, <2>1 DEF CountersOK, Over, Busy
<1>10. \A j \in Items : /\ status'[j] = "settled" => status[j] # "waiting"
                        /\ status'[j] = "rejected" => status[j] = "rejected"
  BY <1>3, <1>7 DEF Store, TypeOK
<1>11. CyclesWait'
  BY <1>2, <1>3, <1>7, <1>10, CyclesStay
<1>12. OutcomeOK'
  <2>1. outcome = "pending"
    <3>1. Over(status) # Items
      BY <1>3 DEF Over
    <3> QED
      BY <1>2, <1>3, <3>1 DEF OutcomeOK, TypeOK
  <2>2. Over(status)' # Items
    BY <1>2, <1>4, <1>7, ItemsFinite DEF Over
  <2>3. active' > 0
    <3>1. active \in Nat /\ (active - 1 > 0 \/ ready \o u # <<>>)
      BY <1>2, <1>3, <1>4, <1>5 DEF TypeOK
    <3> QED
      BY <1>7, <3>1
  <2> QED
    BY <1>2, <1>3, <1>7, <1>10, <2>1, <2>2, <2>3 DEF OutcomeOK
<1> QED
  BY <1>7, <1>8, <1>9, <1>11, <1>12 DEF IInv

(* A rejection ends the run and leaves counters and queue untouched.       *)
LEMMA RejectStep ==
  ASSUME IInv, NEW i \in Items, Reject(i)
  PROVE  IInv'
<1>1. /\ outcome # "new"
      /\ status[i] = "running"
      /\ status' = [status EXCEPT ![i] = "rejected"]
      /\ done' = TRUE
      /\ outcome' = IF done THEN outcome ELSE "rejected"
      /\ UNCHANGED <<deps, limit, remaining, ready, active, settled>>
  BY DEF Reject
<1>2. TypeOK /\ CountersOK /\ QueueOK(ready, status) /\ OrderOK(status) /\ OutcomeOK /\ CyclesWait
  BY DEF IInv
<1>3. /\ Over(status') = Over(status)
      /\ Busy(status') = Busy(status)
      /\ \A j \in Items : status'[j] = "waiting" <=> status[j] = "waiting"
  BY <1>1, <1>2 DEF TypeOK, Over, Busy
<1>4. TypeOK'
  BY <1>1, <1>2 DEF TypeOK
<1>5. CountersOK'
  <2>1. Over(status)' = Over(status) /\ Busy(status)' = Busy(status)
    BY <1>3 DEF Over, Busy
  <2> QED
    BY <1>1, <1>2, <2>1 DEF CountersOK
<1>6. QueueOK(ready, status)'
  BY <1>1, <1>2, <1>3 DEF QueueOK, Injective, Queued, Startable, Over
<1>7. OrderOK(status)'
  BY <1>1, <1>2, <1>3 DEF OrderOK, Over
<1>8. CyclesWait'
  BY <1>1, <1>2, <1>3 DEF CyclesWait
<1>9. OutcomeOK'
  <2>1. Over(status) # Items
    BY <1>1 DEF Over
  <2>2. active # 0
    <3>1. i \in Busy(status) /\ IsFiniteSet(Busy(status))
      BY <1>1, ItemsFinite DEF Busy
    <3> QED
      BY <1>2, <3>1, FS_EmptySet DEF CountersOK
  <2>3. outcome' = "rejected"
    BY <1>1, <1>2, <2>2 DEF OutcomeOK
  <2> QED
    BY <1>1, <2>3 DEF OutcomeOK
<1> QED
  BY <1>4, <1>5, <1>6, <1>7, <1>8, <1>9 DEF IInv

(* What a call of the scheduler does to the worker calls: some that waited *)
(* are started, and no other changes.                                      *)
LEMMA CallMoves ==
  ASSUME IInv, Call
  PROVE  \A j \in Items : status'[j] # status[j] => status[j] = "waiting" /\ status'[j] = "running"
<1>1. CASE BeginStalled
  BY <1>1 DEF BeginStalled
<1>2. CASE Begin
  <2>1. LaunchNext(ready, active, status) /\ UNCHANGED deps
    BY <1>2 DEF Begin
  <2> QED
    BY <2>1, LaunchFacts DEF IInv, TypeOK, CountersOK, Statuses
<1> QED
  BY <1>1, <1>2 DEF Call

(* The .then of a worker settles its item, starts some that waited, and    *)
(* leaves every other call alone.                                          *)
LEMMA SettleMoves ==
  ASSUME IInv, NEW i \in Items, Settle(i)
  PROVE  /\ status[i] = "running" /\ status'[i] = "settled"
         /\ \A j \in Items \ {i} :
              status'[j] # status[j] => status[j] = "waiting" /\ status'[j] = "running"
         /\ UNCHANGED <<deps, limit>>
<1>1. status \in [Items -> Statuses] /\ TypeOK
  BY DEF IInv, TypeOK, Statuses
<1>2. status[i] = "running" /\ Recorded(i) /\ UNCHANGED <<deps, limit>>
  BY DEF Settle, SettleAfterFailure, SettleLast, SettleStalled, SettleAndLaunch, Recorded
<1>3. CASE SettleAfterFailure(i) \/ SettleLast(i) \/ SettleStalled(i)
  <2>1. status' = Store(i)
    BY <1>3 DEF SettleAfterFailure, SettleLast, SettleStalled
  <2> QED
    BY <1>1, <1>2, <2>1 DEF Store
<1>4. CASE SettleAndLaunch(i)
  <2>1. PICK u \in AscendingAll(Unblocked(i)) : LaunchNext(ready \o u, active - 1, Store(i))
    BY <1>4 DEF SettleAndLaunch
  <2>2. /\ QueueOK(ready \o u, Store(i))
        /\ Store(i) \in [Items -> Statuses]
        /\ OrderOK(Store(i))
        /\ active - 1 = Cardinality(Busy(Store(i)))
        /\ limit \in Nat \ {0}
        /\ active - 1 <= limit
    BY <1>1, <1>2, UnblockedFacts, RecordedFacts DEF IInv, TypeOK, CountersOK
  <2>3. \A j \in Items : status'[j] # Store(i)[j] =>
          Store(i)[j] = "waiting" /\ status'[j] = "running"
    BY <1>2, <2>1, <2>2, LaunchFacts
  <2> QED
    BY <1>1, <1>2, <2>3 DEF Store
<1> QED
  BY <1>2, <1>3, <1>4 DEF Settle

(* Every step keeps the invariant, one case per action.                    *)
LEMMA NextIInv == IInv /\ [Next]_vars => IInv'
<1> SUFFICES ASSUME IInv, [Next]_vars
             PROVE  IInv'
  OBVIOUS
<1>1. CASE BeginStalled
  BY <1>1, BeginStalledStep
<1>2. CASE Begin
  BY <1>2, BeginStep
<1>3. ASSUME NEW i \in Items, Settle(i)
      PROVE  IInv'
  BY <1>3, SettleAfterFailureStep, SettleLastStep, SettleStalledStep, SettleAndLaunchStep DEF Settle
<1>4. ASSUME NEW i \in Items, Reject(i)
      PROVE  IInv'
  BY <1>4, RejectStep
<1>5. CASE UNCHANGED vars
  <2>1. UNCHANGED <<deps, limit, remaining, ready, status, active, settled, done, outcome>>
    BY <1>5 DEF vars
  <2>2. TypeOK'
    BY <2>1 DEF IInv, TypeOK
  <2>3. CountersOK'
    BY <2>1 DEF IInv, CountersOK, Over, Busy
  <2>4. QueueOK(ready, status)'
    BY <2>1 DEF IInv, QueueOK, Injective, Queued, Startable, Over
  <2>5. OrderOK(status)' /\ CyclesWait'
    BY <2>1 DEF IInv, OrderOK, CyclesWait, Over
  <2>6. OutcomeOK'
    BY <2>1 DEF IInv, OutcomeOK, Over
  <2> QED
    BY <2>2, <2>3, <2>4, <2>5, <2>6 DEF IInv
<1> QED
  BY <1>1, <1>2, <1>3, <1>4, <1>5 DEF Next, Call

(* The counters and the queue never drift from the worker calls, whatever  *)
(* the order in which workers settle or reject (lines 148 to 204).         *)
THEOREM Inductive == Spec => []IInv
<1>1. Init => IInv
  BY InitIInv
<1>2. IInv /\ [Next]_vars => IInv'
  BY NextIInv
<1> QED
  BY <1>1, <1>2, PTL DEF Spec

----------------------------------------------------------------------------
(* The counters and the queue hold what their names say, for every graph.  *)
THEOREM TypeCorrect == Spec => []TypeOK
<1>1. IInv => TypeOK
  BY DEF IInv
<1> QED
  BY <1>1, Inductive, PTL

(* launchNext never leaves a slot idle that a waiting item could use: the  *)
(* count-downs, the queue and `active` never drift from the worker calls.  *)
THEOREM WorkConserving == Spec => []NoIdleSlot
<1>1. IInv => NoIdleSlot
  <2> SUFFICES ASSUME IInv, outcome = "pending"
               PROVE  \/ Cardinality(InFlight) = limit
                      \/ \A i \in Items : status[i] = "waiting" => ~ (deps[i] \subseteq Settled)
    BY DEF NoIdleSlot
  <2>1. \A i \in Items : status[i] # "rejected"
    BY DEF IInv, OutcomeOK
  <2>2. InFlight = Busy(status) /\ Settled = Over(status)
    BY <2>1 DEF InFlight, Settled, Busy, Over
  <2>3. CASE active = limit
    BY <2>2, <2>3 DEF IInv, CountersOK
  <2>4. CASE ready = <<>>
    <3>1. \A i \in Items : ~ Queued(ready, i)
      BY <2>4 DEF Queued
    <3> QED
      BY <2>2, <3>1 DEF IInv, QueueOK, Startable
  <2> QED
    BY <2>3, <2>4 DEF IInv, OutcomeOK
<1> QED
  BY <1>1, Inductive, PTL

PendingHasWorker == outcome = "pending" => InFlight # {}

(* As long as the caller has no answer some worker is in flight whose end  *)
(* will bring one nearer: the promise can never be left pending by itself, *)
(* on a cyclic graph neither (the stall guards of lines 114 and 193).      *)
THEOREM NeverStuck == Spec => []PendingHasWorker
<1>1. IInv => PendingHasWorker
  <2> SUFFICES ASSUME IInv, outcome = "pending", InFlight = {}
               PROVE  FALSE
    BY DEF PendingHasWorker
  <2>1. \A i \in Items : status[i] # "rejected"
    BY DEF IInv, OutcomeOK
  <2>2. Busy(status) = {}
    BY <2>1 DEF InFlight, Busy
  <2>3. active = 0
    BY <2>2, FS_EmptySet DEF IInv, CountersOK
  <2> QED
    BY <2>3 DEF IInv, OutcomeOK
<1> QED
  BY <1>1, Inductive, PTL

(* A stall leaves items that all wait for another of them, and an item of  *)
(* a cycle never settles.                                                  *)
LEMMA StallIsCycle == IInv => StallMeansCycle
<1> SUFFICES ASSUME IInv
             PROVE  StallMeansCycle
  OBVIOUS
<1>1. ASSUME outcome = "stalled"
      PROVE  Cyclic(deps)
  <2> DEFINE S == Items \ Over(status)
  <2>1. S # {}
    BY <1>1 DEF IInv, OutcomeOK, Over
  <2>2. Busy(status) = {}
    <3>1. IsFiniteSet(Busy(status)) /\ Cardinality(Busy(status)) = 0
      BY <1>1, ItemsFinite DEF IInv, OutcomeOK, CountersOK, Busy
    <3> QED
      BY <3>1, FS_EmptySet
  <2>3. \A i \in S : status[i] = "waiting"
    BY <2>2 DEF IInv, TypeOK, Busy, Over
  <2>4. \A i \in Items : ~ Queued(ready, i)
    BY <1>1 DEF IInv, OutcomeOK, Queued
  <2>5. \A i \in S : deps[i] \cap S # {}
    BY <2>3, <2>4 DEF IInv, TypeOK, QueueOK, Startable
  <2> QED
    BY <2>1, <2>5 DEF Cyclic
<1>2. ASSUME outcome = "resolved", Cyclic(deps)
      PROVE  FALSE
  <2>1. PICK S \in SUBSET Items : S # {} /\ \A i \in S : deps[i] \cap S # {}
    BY <1>2 DEF Cyclic
  <2>2. PICK i \in S : status[i] = "waiting"
    BY <2>1 DEF IInv, CyclesWait
  <2>3. i \in Over(status)
    BY <1>2, <2>1, <2>2 DEF IInv, OutcomeOK
  <2> QED
    BY <2>2, <2>3 DEF Over
<1> QED
  BY <1>1, <1>2 DEF StallMeansCycle

(* The stall error is raised for cyclic graphs alone, and a cyclic graph   *)
(* never resolves: whichever items ran before the stall, those left form   *)
(* a cycle among themselves.                                               *)
THEOREM StallsAreCycles == Spec => []StallMeansCycle
<1> QED
  BY StallIsCycle, Inductive, PTL

(* The order of the natural numbers as a relation. *)
Less == {ss \in Nat \X Nat : ss[1] < ss[2]}

(* It has no infinite descent. *)
LEMMA LessWellFounded == IsWellFoundedOn(Less, Nat)
<1>1. IsWellFoundedOn({ss \in Nat \X Nat : ss[1] < ss[2]}, Nat)
  BY NatLessThanWellFounded DEF OpToRel
<1> QED
  BY <1>1 DEF Less

(* What config validation admits: dependencies on earlier items alone.     *)
Backward == \A i \in Items : deps[i] \subseteq 1 .. i - 1

(* Such a graph has no cycle, for the least item of one would depend on a  *)
(* lesser.                                                                 *)
LEMMA BackwardAcyclic == Backward => ~ Cyclic(deps)
<1> SUFFICES ASSUME Backward,
                    NEW S \in SUBSET Items, S # {}, \A i \in S : deps[i] \cap S # {}
             PROVE  FALSE
  BY DEF Cyclic
<1>1. S \subseteq Nat
  BY SchedulerAssumption DEF Items
<1>2. PICK i \in S : \A d \in S : ~ (<<d, i>> \in Less)
  BY <1>1, LessWellFounded, WFMin
<1>3. PICK d \in S : d \in deps[i]
  OBVIOUS
<1>4. d < i
  BY <1>1, <1>3, SchedulerAssumption DEF Backward, Items
<1> QED
  BY <1>1, <1>2, <1>4 DEF Less

(* The stall error of lines 114 and 193 is out of a validated              *)
(* configuration's reach.                                                  *)
THEOREM BackwardNeverStalls == Spec => [](Backward => outcome # "stalled")
<1>1. StallMeansCycle => (Backward => outcome # "stalled")
  BY BackwardAcyclic DEF StallMeansCycle
<1> QED
  BY <1>1, StallsAreCycles, PTL

----------------------------------------------------------------------------
(* An item that could overtake an earlier one has it ahead in the queue.   *)
Covers(i, j) == i < j /\ deps[i] \subseteq deps[j]

QueueInOrder(q, st) ==
  \A i, j \in Items : Covers(i, j) /\ st[i] = "waiting" =>
    \A x \in 1 .. Len(q) : q[x] = j => \E y \in 1 .. x - 1 : q[y] = i

StartedInOrder(st) ==
  \A i, j \in Items : Covers(i, j) /\ st[j] # "waiting" => st[i] # "waiting"

(* launchNext takes a prefix of the queue, and so what is ahead of it.     *)
LEMMA LaunchInOrder ==
  ASSUME limit \in Nat \ {0},
         NEW STATE queue, NEW STATE running, NEW STATE calls, calls \in [Items -> Statuses],
         queue \in Seq(Items), running \in Nat, running <= limit,
         QueueInOrder(queue, calls), StartedInOrder(calls),
         UNCHANGED deps,
         LaunchNext(queue, running, calls)
  PROVE  StartedInOrder(status)' /\ QueueInOrder(ready, status)'
<1> DEFINE k == LaunchCount(queue, running)
<1>1. Len(queue) \in Nat
  BY LenProperties
<1>2. k \in 0 .. Len(queue)
  BY <1>1 DEF LaunchCount
<1>3. /\ ready' = SubSeq(queue, k + 1, Len(queue))
      /\ status' = [i \in Items |-> IF \E x \in 1 .. k : queue[x] = i THEN "running" ELSE calls[i]]
  BY DEF LaunchNext
<1> HIDE DEF k
<1>4. StartedInOrder(status)'
  <2> SUFFICES ASSUME NEW i \in Items, NEW j \in Items, Covers(i, j), status'[j] # "waiting",
                      calls[i] = "waiting"
               PROVE  \E y \in 1 .. k : queue[y] = i
    BY <1>3 DEF StartedInOrder, Covers
  <2>1. calls[j] = "waiting"
    BY DEF StartedInOrder
  <2>2. PICK x \in 1 .. k : queue[x] = j
    BY <1>3, <2>1
  <2>3. PICK y \in 1 .. x - 1 : queue[y] = i
    BY <1>1, <1>2, <2>2 DEF QueueInOrder
  <2> QED
    BY <1>1, <1>2, <2>3
<1>5. QueueInOrder(ready, status)'
  <2>1. /\ Len(ready') = Len(queue) - k
        /\ \A x \in 1 .. Len(queue) - k : ready'[x] = queue[k + x]
    <3>1. /\ k + 1 \in Int
          /\ Len(queue) \in Int
          /\ \A x \in k + 1 .. Len(queue) : queue[x] \in Items
      BY <1>1, <1>2, ElementOfSeq
    <3>2. /\ Len(ready') = IF k + 1 <= Len(queue) THEN Len(queue) - (k + 1) + 1 ELSE 0
          /\ \A x \in 1 .. Len(queue) - (k + 1) + 1 : ready'[x] = queue[k + 1 + x - 1]
      BY <1>3, <3>1, SubSeqProperties
    <3> QED
      BY <1>1, <1>2, <3>2
  <2> SUFFICES ASSUME NEW i \in Items, NEW j \in Items, Covers(i, j), status'[i] = "waiting",
                      NEW x \in 1 .. Len(queue) - k, ready'[x] = j
               PROVE  \E y \in 1 .. x - 1 : ready'[y] = i
    BY <2>1 DEF QueueInOrder, Covers
  <2>2. calls[i] = "waiting" /\ ~ \E y \in 1 .. k : queue[y] = i
    BY <1>3
  <2>3. k + x \in 1 .. Len(queue) /\ queue[k + x] = j
    BY <1>1, <1>2, <2>1
  <2>4. PICK y \in 1 .. (k + x) - 1 : queue[y] = i
    <3>1. \A z \in 1 .. Len(queue) : queue[z] = j => \E y \in 1 .. z - 1 : queue[y] = i
      BY <2>2 DEF QueueInOrder
    <3> QED
      BY <2>3, <3>1
  <2>5. y \notin 1 .. k
    BY <2>2, <2>4
  <2>6. y - k \in 1 .. x - 1 /\ k + (y - k) = y
    BY <1>1, <1>2, <2>5
  <2>7. ready'[y - k] = i
    BY <1>1, <1>2, <2>1, <2>4, <2>6
  <2> QED
    BY <2>6, <2>7
<1> QED
  BY <1>4, <1>5

(* The dependents that reach zero join behind what they could overtake:    *)
(* an earlier item with fewer dependencies is ready by then.               *)
LEMMA JoinInOrder ==
  ASSUME IInv, NEW i \in Items, Recorded(i), NEW u \in AscendingAll(Unblocked(i)),
         QueueInOrder(ready, status), StartedInOrder(status)
  PROVE  QueueInOrder(ready \o u, Store(i)) /\ StartedInOrder(Store(i))
<1>1. /\ status \in [Items -> Statuses]
      /\ status[i] = "running"
      /\ ready \in Seq(Items)
      /\ QueueOK(ready \o u, Store(i))
      /\ deps \in [Items -> SUBSET Items]
  BY UnblockedFacts DEF IInv, TypeOK, Statuses, Recorded, QueueOK
<1>2. \A j \in Items : Store(i)[j] = "waiting" <=> status[j] = "waiting"
  BY <1>1 DEF Store
<1>3. /\ u \in Seq(Items)
      /\ \A j \in Items : Queued(u, j) <=> j \in Unblocked(i)
      /\ Len(u) \in Nat /\ Len(ready) \in Nat
      /\ Len(ready \o u) = Len(ready) + Len(u)
      /\ \A x \in 1 .. Len(ready) + Len(u) :
           (ready \o u)[x] = IF x <= Len(ready) THEN ready[x] ELSE u[x - Len(ready)]
  <2>1. u \in Seq(Items) /\ \A j \in Items : Queued(u, j) <=> j \in Unblocked(i)
    BY AscendingAllFacts DEF Unblocked
  <2> QED
    BY <1>1, <2>1, ConcatProperties, LenProperties
<1>4. ASSUME NEW h \in Items, NEW j \in Items, Covers(h, j), Store(i)[h] = "waiting",
             NEW x \in 1 .. Len(ready) + Len(u), (ready \o u)[x] = j
      PROVE  \E y \in 1 .. x - 1 : (ready \o u)[y] = h
  <2>1. CASE x <= Len(ready)
    <3>1. PICK y \in 1 .. x - 1 : ready[y] = h
      BY <1>2, <1>3, <1>4, <2>1 DEF QueueInOrder
    <3> QED
      BY <1>3, <2>1, <3>1
  <2>2. CASE x > Len(ready)
    <3>1. x - Len(ready) \in 1 .. Len(u) /\ u[x - Len(ready)] = j
      BY <1>3, <1>4, <2>2
    <3>2. Startable(Store(i), h)
      <4>1. Queued(ready \o u, j)
        BY <1>3, <1>4 DEF Queued
      <4>2. deps[j] \subseteq Over(Store(i))
        BY <1>1, <4>1 DEF QueueOK, Startable
      <4> QED
        BY <1>4, <4>2 DEF Covers, Startable
    <3>3. PICK y \in 1 .. Len(ready) + Len(u) : (ready \o u)[y] = h
      BY <1>1, <1>3, <3>2 DEF QueueOK, Queued
    <3>4. CASE y <= Len(ready)
      BY <1>3, <2>2, <3>3, <3>4
    <3>5. CASE y > Len(ready)
      <4>1. y - Len(ready) \in 1 .. Len(u) /\ u[y - Len(ready)] = h
        BY <1>3, <3>3, <3>5
      <4>2. h < j /\ h \in Int /\ j \in Int
        BY <1>4, SchedulerAssumption DEF Covers, Items
      <4>3. DOMAIN u = 1 .. Len(u) /\ \A a, b \in DOMAIN u : a < b => u[a] < u[b]
        BY <1>3, LenProperties DEF AscendingAll
      <4>4. ~ (x - Len(ready) < y - Len(ready)) /\ x - Len(ready) # y - Len(ready)
        BY <3>1, <4>1, <4>2, <4>3
      <4>5. y \in 1 .. x - 1
        BY <1>3, <3>3, <4>4
      <4> QED
        BY <3>3, <4>5
    <3> QED
      BY <1>3, <3>3, <3>4, <3>5
  <2> QED
    BY <1>3, <2>1, <2>2
<1>5. QueueInOrder(ready \o u, Store(i))
  BY <1>3, <1>4 DEF QueueInOrder
<1>6. StartedInOrder(Store(i))
  BY <1>2 DEF StartedInOrder
<1> QED
  BY <1>5, <1>6

InOrder == QueueInOrder(ready, status) /\ StartedInOrder(status)

(* The roots are queued in ascending order. *)
LEMMA InitInOrder == Init => InOrder
<1> SUFFICES ASSUME NEW graph \in Graphs, NEW concurrency \in Concurrencies,
                    InitWith(graph, concurrency)
             PROVE  InOrder
  BY DEF Init
<1>1. /\ deps \in [Items -> SUBSET Items]
      /\ status = [i \in Items |-> "waiting"]
      /\ ready \in AscendingAll(Roots(deps))
  BY DEF InitWith, Snapshot
<1>2. /\ ready \in Seq(Items)
      /\ \A i \in Items : Queued(ready, i) <=> i \in Roots(deps)
  BY <1>1, AscendingAllFacts DEF Roots
<1>3. /\ Len(ready) \in Nat
      /\ DOMAIN ready = 1 .. Len(ready)
      /\ \A a, b \in DOMAIN ready : a < b => ready[a] < ready[b]
  BY <1>1, <1>2, LenProperties DEF AscendingAll
<1>4. QueueInOrder(ready, status)
  <2> SUFFICES ASSUME NEW i \in Items, NEW j \in Items, Covers(i, j),
                      NEW x \in 1 .. Len(ready), ready[x] = j
               PROVE  \E y \in 1 .. x - 1 : ready[y] = i
    BY DEF QueueInOrder
  <2>1. j \in Roots(deps)
    BY <1>2 DEF Queued
  <2>2. i \in Roots(deps)
    BY <2>1 DEF Roots, Covers
  <2>3. PICK y \in 1 .. Len(ready) : ready[y] = i
    BY <1>2, <2>2 DEF Queued
  <2>4. i < j /\ i \in Int /\ j \in Int
    BY SchedulerAssumption DEF Covers, Items
  <2>5. y < x
    BY <1>3, <2>3, <2>4
  <2> QED
    BY <1>3, <2>3, <2>5
<1>5. StartedInOrder(status)
  BY <1>1 DEF StartedInOrder
<1> QED
  BY <1>4, <1>5 DEF InOrder

(* Every step keeps the order, given the invariant of the queue.           *)
LEMMA NextInOrder == IInv /\ InOrder /\ [Next]_vars => InOrder'
<1> SUFFICES ASSUME IInv, InOrder, [Next]_vars
             PROVE  InOrder'
  OBVIOUS
<1>1. /\ TypeOK /\ CountersOK
      /\ status \in [Items -> Statuses]
      /\ QueueInOrder(ready, status)
      /\ StartedInOrder(status)
  BY DEF IInv, TypeOK, Statuses, InOrder
<1>2. ASSUME UNCHANGED <<deps, ready>>,
             \A j \in Items : status'[j] = "waiting" <=> status[j] = "waiting"
      PROVE  InOrder'
  BY <1>1, <1>2 DEF InOrder, QueueInOrder, StartedInOrder, Covers
<1>3. CASE BeginStalled \/ UNCHANGED vars
  BY <1>2, <1>3 DEF BeginStalled, vars
<1>4. CASE Begin
  <2>1. LaunchNext(ready, active, status) /\ UNCHANGED deps
    BY <1>4 DEF Begin
  <2> QED
    BY <1>1, <2>1, LaunchInOrder DEF TypeOK, CountersOK, InOrder
<1>5. ASSUME NEW i \in Items, SettleAfterFailure(i) \/ SettleLast(i)
      PROVE  InOrder'
  <2>1. /\ Recorded(i)
        /\ UNCHANGED deps
        /\ status' = Store(i)
    BY <1>5 DEF SettleAfterFailure, SettleLast, Recorded
  <2>2. PICK u \in AscendingAll(Unblocked(i)) : ready' = ready \o u
    BY <1>5 DEF SettleAfterFailure, SettleLast
  <2>3. QueueInOrder(ready', status') /\ StartedInOrder(status')
    BY <1>1, <2>1, <2>2, JoinInOrder
  <2> QED
    BY <2>1, <2>3 DEF InOrder, QueueInOrder, StartedInOrder, Covers
<1>6. ASSUME NEW i \in Items, SettleStalled(i) \/ Reject(i)
      PROVE  InOrder'
  BY <1>1, <1>2, <1>6 DEF SettleStalled, Reject, Recorded, Store
<1>7. ASSUME NEW i \in Items, SettleAndLaunch(i)
      PROVE  InOrder'
  <2>1. PICK u \in AscendingAll(Unblocked(i)) : LaunchNext(ready \o u, active - 1, Store(i))
    BY <1>7 DEF SettleAndLaunch
  <2>2. Recorded(i) /\ UNCHANGED deps
    BY <1>7 DEF SettleAndLaunch, Recorded
  <2>3. QueueInOrder(ready \o u, Store(i)) /\ StartedInOrder(Store(i))
    BY <1>1, <2>2, JoinInOrder
  <2>4. /\ ready \o u \in Seq(Items)
        /\ Store(i) \in [Items -> Statuses]
        /\ active - 1 \in Nat /\ active - 1 <= limit
        /\ limit \in Nat \ {0}
    BY <1>1, <2>2, UnblockedFacts, RecordedFacts DEF QueueOK, TypeOK, CountersOK
  <2> QED
    BY <2>1, <2>2, <2>3, <2>4, LaunchInOrder DEF InOrder
<1> QED
  BY <1>3, <1>4, <1>5, <1>6, <1>7 DEF Next, Call, Settle

(* Items start "in declaration order" (the file's header): none before an  *)
(* earlier one that waits for no more than it does, although the queue is  *)
(* refilled by workers that finish in any order.                           *)
THEOREM DeclarationOrder == Spec => []NoOvertaking
<1>1. Init => InOrder
  BY InitInOrder
<1>2. IInv /\ InOrder /\ [Next]_vars => InOrder'
  BY NextInOrder
<1>3. InOrder => NoOvertaking
  BY DEF InOrder, StartedInOrder, Covers, NoOvertaking
<1> QED
  BY <1>1, <1>2, <1>3, Inductive, PTL DEF Spec

----------------------------------------------------------------------------
(* Cardinality as RunOrder's instance names it. *)
LEMMA OrderCardinality ==
  ASSUME NEW S
  PROVE  Order!Cardinality(S) = Cardinality(S)
BY DEF Order!Cardinality, Cardinality

(* A step that moves worker calls forward, starts some only while the      *)
(* promise is pending and answers once is a step of RunOrder: the rest     *)
(* follows from the invariant before and after it.                         *)
LEMMA OrderStep ==
  ASSUME IInv, IInv', UNCHANGED <<deps, limit>>,
         Order!Forward,
         (\E i \in Items : status[i] = "waiting" /\ status'[i] # "waiting") => outcome' = "pending",
         outcome' # outcome => outcome \in {"new", "pending"},
         outcome' = "rejected" => outcome = "rejected" \/ \E i \in Items : status'[i] = "rejected"
  PROVE  Order!Next
<1>1. status' \in [Items -> {"waiting", "running", "settled", "rejected"}]
  BY DEF IInv, TypeOK
<1>2. OrderOK(status)' /\ OutcomeOK' /\ CountersOK' /\ QueueOK(ready, status)' /\ TypeOK'
  BY DEF IInv
<1>3. Order!Settled' = Over(status)'
  BY DEF Order!Settled, Over
<1>4. Order!Starts
  <2>1. ASSUME NEW i \in Order!Waiting \ Order!Waiting'
        PROVE  deps[i] \subseteq Order!Settled' /\ outcome' = "pending"
    <3>1. i \in Items /\ status[i] = "waiting" /\ status'[i] # "waiting"
      BY <2>1 DEF Order!Waiting
    <3> QED
      BY <1>2, <1>3, <3>1 DEF OrderOK
  <2>2. ASSUME outcome' = "pending"
        PROVE  Order!Rejected' = {} /\ Cardinality(Order!InFlight') <= limit
    <3>1. Order!Rejected' = {}
      BY <1>2, <2>2 DEF OutcomeOK, Order!Rejected
    <3>2. Order!InFlight' = Busy(status)'
      BY <3>1 DEF Order!InFlight, Order!Rejected, Busy
    <3> QED
      BY <1>2, <3>1, <3>2 DEF CountersOK
  <2>3. \A i \in Order!Waiting \ Order!Waiting' : deps[i] \subseteq Order!Settled'
    BY <2>1
  <2>4. Order!Waiting \ Order!Waiting' # {} =>
          outcome' = "pending" /\ Order!Rejected' = {} /\ Cardinality(Order!InFlight') <= limit
    BY <2>1, <2>2
  <2>5. outcome' = "pending" => (IF outcome' = "new" THEN "pending" ELSE outcome') = "pending"
    OBVIOUS
  <2> QED
    BY <2>3, <2>4, <2>5, OrderCardinality DEF Order!Starts
<1>5. Order!Answers
  <2>1. CASE outcome' = "resolved"
    BY <1>2, <1>3, <2>1 DEF Order!Answers, OutcomeOK
  <2>2. CASE outcome' = "rejected"
    BY <2>2 DEF Order!Answers, Order!Rejected
  <2>3. CASE outcome' = "stalled"
    <3>1. Busy(status)' = {}
      <4>1. IsFiniteSet(Busy(status)') /\ Cardinality(Busy(status)') = 0
        BY <1>2, <2>3, ItemsFinite DEF OutcomeOK, CountersOK, Busy
      <4> QED
        BY <4>1, FS_EmptySet
    <3>2. \A i \in Items : status'[i] \in {"waiting", "settled"}
      BY <1>1, <3>1 DEF Busy
    <3>3. \A i \in Items : ~ Queued(ready, i)'
      BY <1>2, <2>3 DEF OutcomeOK, Queued
    <3>4. \A i \in Items : status'[i] = "waiting" => ~ (deps[i] \subseteq Over(status)')
      BY <1>2, <3>3 DEF QueueOK, Startable
    <3>5. Order!InFlight' = {} /\ Order!Waiting' # {}
      BY <1>2, <2>3, <3>2 DEF OutcomeOK, Over, Order!InFlight, Order!Waiting
    <3> QED
      BY <1>3, <2>3, <3>4, <3>5 DEF Order!Answers, Order!Waiting
  <2>4. CASE outcome' \in {"new", "pending"}
    BY <2>4 DEF Order!Answers
  <2> QED
    BY <1>2, <2>1, <2>2, <2>3, <2>4 DEF TypeOK
<1> QED
  BY <1>1, <1>4, <1>5 DEF Order!Next

(* The scheduler implements RunOrder: dependency order, the bound on the   *)
(* workers in flight, nothing started after a rejection, no early answer.  *)
THEOREM Refinement == Spec => ImplementsRunOrder
<1>1. Init => Order!Init
  <2> SUFFICES ASSUME Init
               PROVE  Order!Init
    OBVIOUS
  <2>1. TypeOK /\ outcome = "new" /\ status = [i \in Items |-> "waiting"]
    BY InitIInv DEF IInv, Init, InitWith
  <2> QED
    BY <2>1 DEF Order!Init, TypeOK
<1>2. IInv /\ IInv' /\ [Next]_vars => [Order!Next]_(Order!vars)
  <2> SUFFICES ASSUME IInv, IInv', [Next]_vars
               PROVE  [Order!Next]_(Order!vars)
    OBVIOUS
  <2>1. TypeOK /\ OutcomeOK
    BY DEF IInv
  <2>2. CASE BeginStalled
    BY <2>1, <2>2, OrderStep DEF BeginStalled, Order!Forward
  <2>3. CASE Begin
    <3>1. \A i \in Items : status[i] = "waiting" /\ status'[i] \in {"waiting", "running"}
      BY <2>1, <2>3 DEF Begin, LaunchNext, OutcomeOK
    <3>2. Order!Forward
      BY <3>1 DEF Order!Forward
    <3>3. Items # {} => outcome' = "pending"
      BY <2>3, SchedulerAssumption DEF Begin, Items
    <3> QED
      BY <2>3, <3>2, <3>3, OrderStep DEF Begin
  <2>4. ASSUME NEW i \in Items, status[i] = "running", status' = Store(i), UNCHANGED <<deps, limit>>,
               outcome' # outcome => outcome = "pending", outcome' = "rejected" => outcome = "rejected"
        PROVE  Order!Next
    <3>1. /\ Order!Forward
          /\ \A j \in Items : status[j] = "waiting" => status'[j] = "waiting"
      BY <2>1, <2>4 DEF TypeOK, Store, Order!Forward
    <3> QED
      BY <2>4, <3>1, OrderStep
  <2>5. ASSUME NEW i \in Items, SettleAfterFailure(i)
        PROVE  Order!Next
    BY <2>4, <2>5 DEF SettleAfterFailure, Recorded
  <2>6. ASSUME NEW i \in Items, status[i] = "running", ~ done, outcome # "new"
        PROVE  outcome = "pending"
    BY <2>1, <2>6 DEF TypeOK, OutcomeOK, Over
  <2>7. ASSUME NEW i \in Items, SettleLast(i)
        PROVE  Order!Next
    BY <2>4, <2>6, <2>7 DEF SettleLast, Recorded
  <2>8. ASSUME NEW i \in Items, SettleStalled(i)
        PROVE  Order!Next
    BY <2>4, <2>6, <2>8 DEF SettleStalled, Recorded
  <2>9. ASSUME NEW i \in Items, SettleAndLaunch(i)
        PROVE  Order!Next
    <3>1. UNCHANGED outcome /\ outcome = "pending"
      BY <2>6, <2>9 DEF SettleAndLaunch, Recorded
    <3>2. Order!Forward /\ UNCHANGED <<deps, limit>>
      BY <2>1, <2>9, SettleMoves DEF Settle, TypeOK, Order!Forward
    <3> QED
      BY <3>1, <3>2, OrderStep
  <2>10. ASSUME NEW i \in Items, Reject(i)
         PROVE  Order!Next
    <3>1. /\ Order!Forward
          /\ \A j \in Items : status[j] = "waiting" => status'[j] = "waiting"
          /\ status'[i] = "rejected"
      BY <2>1, <2>10 DEF TypeOK, Reject, Order!Forward
    <3>2. outcome' # outcome => outcome = "pending"
      BY <2>6, <2>10 DEF Reject
    <3> QED
      BY <2>10, <3>1, <3>2, OrderStep DEF Reject
  <2>11. CASE UNCHANGED vars
    BY <2>11 DEF vars, Order!vars
  <2> QED
    BY <2>2, <2>3, <2>5, <2>7, <2>8, <2>9, <2>10, <2>11 DEF Next, Call, Settle
<1> QED
  BY <1>1, <1>2, Inductive, PTL DEF Spec, ImplementsRunOrder, Order!Spec

=============================================================================
