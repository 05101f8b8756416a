---------------------- MODULE ConcurrencyPool_proofs ----------------------
(***************************************************************************)
(* The pool is correct for every number of items and every concurrency:    *)
(* its safety properties and the refinement of RunOrder, from one          *)
(* inductive invariant that ties the loops and the shared iterator to the  *)
(* states of the worker calls.                                             *)
(***************************************************************************)
EXTENDS ConcurrencyPool, FiniteSetTheorems, TLAPS

Statuses == {"waiting", "running", "settled", "rejected"}

(* Every loop that has not returned awaits one worker.  While no worker    *)
(* has rejected and items are left, no loop has returned.                  *)
LoopsOK ==
  /\ N > 0 => workerCount <= N
  /\ loops = Cardinality(InFlight)
  /\ outcome # "new" /\ firstRejection = 0 /\ next <= N => loops = workerCount

(* The iterator has yielded the items that have started, and those alone   *)
(* as long as none rejected.                                               *)
IteratorOK ==
  \A i \in Items :
    /\ status[i] # "waiting" => i < next
    /\ firstRejection = 0 /\ i < next => status[i] # "waiting"

RejectionOK ==
  /\ firstRejection # 0 => status[firstRejection] = "rejected"
  /\ \A i \in Items : status[i] = "rejected" => firstRejection # 0

OutcomeOK ==
  /\ outcome = "new" => next = 1 /\ firstRejection = 0
  /\ outcome = "resolved" => loops = 0 /\ firstRejection = 0 /\ next = N + 1
  /\ outcome = "rejected" => loops = 0 /\ firstRejection # 0

IInv ==
  /\ TypeOK
  /\ LoopsOK
  /\ IteratorOK
  /\ RejectionOK
  /\ OutcomeOK

----------------------------------------------------------------------------
(* Sets of items are finite. *)
LEMMA ItemsFinite ==
  \A S \in SUBSET Items : IsFiniteSet(S) /\ Cardinality(S) \in Nat
<1>1. IsFiniteSet(Items)
  BY PoolAssumption, FS_Interval DEF Items
<1> QED
  BY <1>1, FS_Subset, FS_CardinalityType

(* The loops to start: at least one, and no more than there are items. *)
LEMMA WorkerCountFacts ==
  ASSUME NEW concurrency \in Concurrencies
  PROVE  /\ WorkerCount(concurrency) \in Nat \ {0}
         /\ N > 0 => WorkerCount(concurrency) <= N
<1>1. concurrency \in Int \/ concurrency = NotFinite
  BY PoolAssumption
<1> QED
  BY <1>1, PoolAssumption DEF WorkerCount

(* A worker that ends leaves one call fewer in flight, and there was one.  *)
LEMMA EndsFacts ==
  ASSUME TypeOK, NEW i \in Items, status[i] = "running", NEW how \in {"settled", "rejected"}
  PROVE  LET rest == {j \in Items : [status EXCEPT ![i] = how][j] = "running"}
         IN  /\ rest = InFlight \ {i}
             /\ Cardinality(rest) = Cardinality(InFlight) - 1
             /\ Cardinality(InFlight) \in Nat \ {0}
<1> DEFINE rest == {j \in Items : [status EXCEPT ![i] = how][j] = "running"}
<1>1. rest = InFlight \ {i} /\ i \in InFlight
  BY DEF InFlight, TypeOK
<1>2. IsFiniteSet(InFlight) /\ Cardinality(InFlight) \in Nat
  BY ItemsFinite DEF InFlight
<1>3. Cardinality(InFlight \ {i}) = Cardinality(InFlight) - 1
  BY <1>1, <1>2, FS_RemoveElement
<1>4. Cardinality(InFlight) # 0
  BY <1>1, <1>2, FS_EmptySet
<1> QED
  BY <1>1, <1>2, <1>3, <1>4

----------------------------------------------------------------------------
(* The call has not happened: every item waits and no loop runs. *)
LEMMA InitIInv == Init => IInv
<1> SUFFICES ASSUME NEW concurrency \in Concurrencies, InitWith(concurrency)
             PROVE  IInv
  BY DEF Init
<1>1. /\ workerCount \in Nat \ {0}
      /\ N > 0 => workerCount <= N
  BY WorkerCountFacts DEF InitWith
<1>2. InFlight = {}
  BY DEF InitWith, InFlight
<1>3. Cardinality(InFlight) = 0
  BY <1>2, FS_EmptySet
<1>4. TypeOK
  BY <1>1, PoolAssumption DEF InitWith, TypeOK
<1>5. LoopsOK
  BY <1>1, <1>3 DEF InitWith, LoopsOK
<1>6. IteratorOK /\ RejectionOK /\ OutcomeOK
  BY PoolAssumption DEF InitWith, IteratorOK, RejectionOK, OutcomeOK, Items
<1> QED
  BY <1>4, <1>5, <1>6 DEF IInv

(* The call starts the first `workerCount` items, one in each loop.        *)
LEMMA BeginStep ==
  ASSUME IInv, Begin
  PROVE  IInv'
<1>1. /\ outcome = "new"
      /\ status' = [i \in Items |-> IF i <= workerCount THEN "running" ELSE "waiting"]
      /\ next' = IF N = 0 THEN 1 ELSE workerCount + 1
      /\ loops' = IF N = 0 THEN 0 ELSE workerCount
      /\ outcome' = "pending"
      /\ UNCHANGED <<workerCount, firstRejection>>
  BY DEF Begin
<1>2. /\ workerCount \in Nat \ {0}
      /\ N > 0 => workerCount <= N
      /\ firstRejection = 0
  BY <1>1 DEF IInv, TypeOK, LoopsOK, OutcomeOK
<1>3. Cardinality(InFlight') = loops'
  <2>1. InFlight' = IF N = 0 THEN {} ELSE 1 .. workerCount
    BY <1>1, <1>2, PoolAssumption DEF InFlight, Items
  <2>2. Cardinality(1 .. workerCount) = workerCount
    BY <1>2, FS_Interval
  <2> QED
    BY <1>1, <2>1, <2>2, FS_EmptySet
<1>4. TypeOK'
  BY <1>1, <1>2, PoolAssumption DEF TypeOK
<1>5. LoopsOK'
  BY <1>1, <1>2, <1>3, PoolAssumption DEF LoopsOK
<1>6. IteratorOK' /\ RejectionOK' /\ OutcomeOK'
  BY <1>1, <1>2, PoolAssumption DEF IteratorOK, RejectionOK, OutcomeOK, Items
<1> QED
  BY <1>4, <1>5, <1>6 DEF IInv

(* A loop takes the next item: one call ends as another starts. *)
LEMMA SettleAndTakeNextStep ==
  ASSUME IInv, NEW i \in Items, SettleAndTakeNext(i)
  PROVE  IInv'
<1>1. /\ status[i] = "running"
      /\ next <= N
      /\ firstRejection = 0
      /\ status' = [status EXCEPT ![i] = "settled", ![next] = "running"]
      /\ next' = next + 1
      /\ UNCHANGED <<workerCount, loops, firstRejection, outcome>>
  BY DEF SettleAndTakeNext
<1>2. /\ status \in [Items -> Statuses]
      /\ next \in Items
      /\ status[next] = "waiting"
      /\ \A j \in Items : status[j] # "waiting" => j < next
      /\ \A j \in Items : j < next => status[j] # "waiting"
  BY <1>1, PoolAssumption DEF IInv, TypeOK, Statuses, IteratorOK, Items
<1>3. \A j \in Items : status'[j] = IF j = next THEN "running"
                                    ELSE IF j = i THEN "settled" ELSE status[j]
  BY <1>1, <1>2
<1>4. Cardinality(InFlight') = Cardinality(InFlight)
  <2>1. InFlight' = (InFlight \ {i}) \cup {next}
    BY <1>1, <1>2, <1>3 DEF InFlight
  <2>2. IsFiniteSet(InFlight) /\ i \in InFlight /\ next \notin InFlight
    BY <1>1, <1>2, ItemsFinite DEF InFlight
  <2>3. IsFiniteSet(InFlight \ {i}) /\ Cardinality(InFlight \ {i}) = Cardinality(InFlight) - 1
    BY <2>2, FS_RemoveElement
  <2>4. Cardinality((InFlight \ {i}) \cup {next}) = Cardinality(InFlight \ {i}) + 1
    BY <2>2, <2>3, FS_AddElement
  <2> QED
    BY <2>1, <2>2, <2>3, <2>4, FS_CardinalityType
<1>5. TypeOK'
  BY <1>1, <1>2, PoolAssumption DEF IInv, TypeOK, Statuses, Items
<1>6. LoopsOK'
  BY <1>1, <1>4 DEF IInv, LoopsOK, TypeOK
<1>7. IteratorOK' /\ RejectionOK' /\ OutcomeOK'
  <2>1. IteratorOK'
    BY <1>1, <1>2, <1>3, PoolAssumption DEF IteratorOK, Items
  <2>2. RejectionOK'
    <3>1. \A j \in Items : status[j] # "rejected"
      BY <1>1 DEF IInv, RejectionOK
    <3>2. \A j \in Items : status'[j] # "rejected"
      BY <1>3, <3>1
    <3> QED
      BY <1>1, <3>2 DEF RejectionOK
  <2>3. OutcomeOK'
    <3>1. outcome = "pending"
      <4>1. Cardinality(InFlight) # 0
        BY <1>1, EndsFacts DEF IInv
      <4> QED
        BY <1>1, <1>2, <4>1, PoolAssumption DEF IInv, TypeOK, OutcomeOK, LoopsOK, Items
    <3> QED
      BY <1>1, <3>1 DEF OutcomeOK
  <2> QED
    BY <2>1, <2>2, <2>3
<1> QED
  BY <1>5, <1>6, <1>7 DEF IInv

(* A loop returns after its worker: its call was the one it awaited.       *)
LEMMA LoopReturns ==
  ASSUME IInv, NEW i \in Items, status[i] = "running", NEW how \in {"settled", "rejected"},
         status' = [status EXCEPT ![i] = how],
         loops' = loops - 1,
         next' \in {next, next + 1} \cap (1 .. N + 1),
         firstRejection' \in 0 .. N,
         firstRejection' # 0 \/ next' > N,
         firstRejection = 0 => next' = next,
         firstRejection # 0 => firstRejection' = firstRejection,
         firstRejection = 0 => firstRejection' = IF how = "rejected" THEN i ELSE 0,
         UNCHANGED <<workerCount, outcome>>
  PROVE  IInv'
<1>1. /\ InFlight' = InFlight \ {i}
      /\ Cardinality(InFlight') = Cardinality(InFlight) - 1
      /\ Cardinality(InFlight) \in Nat \ {0}
  BY EndsFacts DEF IInv, InFlight
<1>2. /\ TypeOK
      /\ LoopsOK
      /\ IteratorOK
      /\ RejectionOK
      /\ OutcomeOK
  BY DEF IInv
<1>3. \A j \in Items : status'[j] = IF j = i THEN how ELSE status[j]
  BY <1>2 DEF TypeOK
<1>4. outcome = "pending"
  <2>1. i < next /\ i \in Nat \ {0}
    BY <1>2, PoolAssumption DEF IteratorOK, Items
  <2> QED
    BY <1>1, <1>2, <2>1 DEF TypeOK, LoopsOK, OutcomeOK
<1>5. TypeOK'
  BY <1>1, <1>2 DEF TypeOK, LoopsOK
<1>6. LoopsOK'
  BY <1>1, <1>2, PoolAssumption DEF TypeOK, LoopsOK
<1>7. IteratorOK'
  BY <1>2, <1>3, PoolAssumption DEF TypeOK, IteratorOK, Items
<1>8. RejectionOK'
  BY <1>2, <1>3, PoolAssumption DEF TypeOK, RejectionOK, Items
<1>9. OutcomeOK'
  BY <1>4 DEF OutcomeOK
<1> QED
  BY <1>5, <1>6, <1>7, <1>8, <1>9 DEF IInv

(* Promise.all answers when the last loop has returned. *)
LEMMA FinishStep ==
  ASSUME IInv, Finish
  PROVE  IInv'
<1>1. /\ outcome = "pending"
      /\ loops = 0
      /\ outcome' = IF firstRejection # 0 THEN "rejected" ELSE "resolved"
      /\ UNCHANGED <<workerCount, next, loops, status, firstRejection>>
  BY DEF Finish
<1>2. firstRejection = 0 => next = N + 1
  BY <1>1, PoolAssumption DEF IInv, TypeOK, LoopsOK
<1>3. InFlight' = InFlight
  BY <1>1 DEF InFlight
<1>4. TypeOK' /\ LoopsOK' /\ IteratorOK' /\ RejectionOK'
  BY <1>1, <1>3 DEF IInv, TypeOK, LoopsOK, IteratorOK, RejectionOK
<1>5. OutcomeOK'
  BY <1>1, <1>2 DEF OutcomeOK
<1> QED
  BY <1>4, <1>5 DEF IInv

(* What the call does to the worker calls: some that waited are started.   *)
LEMMA BeginMoves ==
  ASSUME IInv, Begin
  PROVE  \A j \in Items : status'[j] # status[j] => status[j] = "waiting" /\ status'[j] = "running"
BY PoolAssumption DEF IInv, TypeOK, IteratorOK, OutcomeOK, Begin, Items

(* A loop whose worker ends settles its item, starts at most one that      *)
(* waited, and leaves every other call alone.                              *)
LEMMA SettleMoves ==
  ASSUME IInv, NEW i \in Items, Settle(i)
  PROVE  /\ status[i] = "running" /\ status'[i] = "settled"
         /\ \A j \in Items \ {i} :
              status'[j] # status[j] => status[j] = "waiting" /\ status'[j] = "running"
         /\ UNCHANGED workerCount
<1>1. CASE SettleAndTakeNext(i)
  <2>1. next \in Items /\ status[next] = "waiting" /\ status \in [Items -> Statuses]
    BY <1>1, PoolAssumption DEF SettleAndTakeNext, IInv, TypeOK, Statuses, IteratorOK, Items
  <2> QED
    BY <1>1, <2>1 DEF SettleAndTakeNext
<1>2. CASE SettleAndDrop(i) \/ SettleAndReturn(i)
  BY <1>2 DEF SettleAndDrop, SettleAndReturn, IInv, TypeOK
<1> QED
  BY <1>1, <1>2 DEF Settle

(* Every step keeps the invariant, one case per action.                    *)
LEMMA NextIInv == IInv /\ [Next]_vars => IInv'
<1> SUFFICES ASSUME IInv, [Next]_vars
             PROVE  IInv'
  OBVIOUS
<1>1. CASE Begin
  BY <1>1, BeginStep
<1>2. CASE Finish
  BY <1>2, FinishStep
<1>3. ASSUME NEW i \in Items, SettleAndTakeNext(i)
      PROVE  IInv'
  BY <1>3, SettleAndTakeNextStep
<1>4. ASSUME NEW i \in Items, SettleAndDrop(i)
      PROVE  IInv'
  <2>1. /\ status[i] = "running"
        /\ status' = [status EXCEPT ![i] = "settled"]
        /\ next <= N /\ next \in 1 .. N + 1 /\ next' = next + 1
        /\ firstRejection # 0 /\ firstRejection \in 0 .. N
        /\ loops' = loops - 1
        /\ UNCHANGED <<workerCount, firstRejection, outcome>>
    BY <1>4 DEF SettleAndDrop, IInv, TypeOK
  <2>2. next' \in {next, next + 1} \cap (1 .. N + 1)
    BY <2>1, PoolAssumption
  <2> QED
    BY <2>1, <2>2, LoopReturns
<1>5. ASSUME NEW i \in Items, SettleAndReturn(i)
      PROVE  IInv'
  BY <1>5, LoopReturns DEF SettleAndReturn, IInv, TypeOK
<1>6. ASSUME NEW i \in Items, Reject(i)
      PROVE  IInv'
  <2>1. /\ status[i] = "running"
        /\ status' = [status EXCEPT ![i] = "rejected"]
        /\ firstRejection' = IF firstRejection = 0 THEN i ELSE firstRejection
        /\ loops' = loops - 1
        /\ next' = next /\ next \in 1 .. N + 1
        /\ UNCHANGED <<workerCount, outcome>>
    BY <1>6 DEF Reject, IInv, TypeOK
  <2>2. firstRejection' \in 0 .. N /\ firstRejection' # 0
    BY <2>1, PoolAssumption DEF IInv, TypeOK, Items
  <2> QED
    BY <2>1, <2>2, LoopReturns
<1>7. CASE UNCHANGED vars
  BY <1>7 DEF vars, IInv, TypeOK, LoopsOK, IteratorOK, RejectionOK, OutcomeOK, InFlight
<1> QED
  BY <1>1, <1>2, <1>3, <1>4, <1>5, <1>6, <1>7 DEF Next, Settle

(* The invariant holds of every behaviour of the pool. *)
THEOREM Inductive == Spec => []IInv
<1>1. Init => IInv
  BY InitIInv
<1>2. IInv /\ [Next]_vars => IInv'
  BY NextIInv
<1> QED
  BY <1>1, <1>2, PTL DEF Spec

----------------------------------------------------------------------------
(* There are never more loops than the call started, for any concurrency,  *)
(* and the iterator never runs past its end.                               *)
THEOREM TypeCorrect == Spec => []TypeOK
<1>1. IInv => TypeOK
  BY DEF IInv
<1> QED
  BY <1>1, Inductive, PTL

(* The promise resolves when every item has settled. *)
LEMMA ResolvedMeansSettled == IInv /\ outcome = "resolved" => \A i \in Items : status[i] = "settled"
<1> SUFFICES ASSUME IInv, outcome = "resolved", NEW i \in Items
             PROVE  status[i] = "settled"
  OBVIOUS
<1>1. IsFiniteSet(InFlight) /\ Cardinality(InFlight) = 0
  BY ItemsFinite DEF IInv, OutcomeOK, LoopsOK, InFlight
<1>2. InFlight = {}
  BY <1>1, FS_EmptySet
<1>3. i < next /\ firstRejection = 0
  BY PoolAssumption DEF IInv, OutcomeOK, Items
<1> QED
  BY <1>2, <1>3 DEF IInv, TypeOK, IteratorOK, RejectionOK, InFlight

(* No worker outlives the promise, be it resolved or rejected: a late      *)
(* rejection would have no handler left (the comment at lines 22 to 28).   *)
THEOREM Quiet == Spec => []AnswersOnlyWhenQuiet
<1>1. IInv => AnswersOnlyWhenQuiet
  <2> SUFFICES ASSUME IInv, outcome \in {"resolved", "rejected"}
               PROVE  InFlight = {}
    BY DEF AnswersOnlyWhenQuiet
  <2>1. IsFiniteSet(InFlight) /\ Cardinality(InFlight) = 0
    BY ItemsFinite DEF IInv, OutcomeOK, LoopsOK, InFlight
  <2> QED
    BY <2>1, FS_EmptySet
<1> QED
  BY <1>1, Inductive, PTL

(* Cardinality as RunOrder's instance names it. *)
LEMMA OrderCardinality ==
  ASSUME NEW S
  PROVE  Order!Cardinality(S) = Cardinality(S)
BY DEF Order!Cardinality, Cardinality

(* A step that moves worker calls forward, starts some only before any     *)
(* rejection and answers only by Finish is a step of RunOrder.             *)
LEMMA OrderStep ==
  ASSUME IInv, IInv', UNCHANGED workerCount,
         Order!Forward,
         (\E i \in Items : status[i] = "waiting" /\ status'[i] # "waiting") =>
           outcome' = "pending" /\ firstRejection' = 0,
         outcome' # outcome => outcome = "pending" \/ (outcome = "new" /\ outcome' = "pending")
  PROVE  Order!Next
<1>1. /\ status' \in [Items -> {"waiting", "running", "settled", "rejected"}]
      /\ TypeOK' /\ LoopsOK' /\ IteratorOK' /\ RejectionOK' /\ OutcomeOK'
  BY DEF IInv, TypeOK
<1>2. Order!Starts
  <2>1. ASSUME NEW i \in Order!Waiting \ Order!Waiting'
        PROVE  outcome' = "pending" /\ firstRejection' = 0
    BY <2>1 DEF Order!Waiting
  <2>2. ASSUME firstRejection' = 0
        PROVE  Order!Rejected' = {} /\ Cardinality(Order!InFlight') <= workerCount
    <3>1. Order!Rejected' = {}
      BY <1>1, <2>2 DEF RejectionOK, Order!Rejected
    <3>2. Order!InFlight' = InFlight'
      BY DEF Order!InFlight, InFlight
    <3> QED
      BY <1>1, <3>1, <3>2 DEF LoopsOK, TypeOK
  <2>3. Order!Waiting \ Order!Waiting' # {} =>
          outcome' = "pending" /\ Order!Rejected' = {} /\ Cardinality(Order!InFlight') <= workerCount
    BY <2>1, <2>2
  <2>4. \A i \in Order!Waiting \ Order!Waiting' : [j \in Items |-> {}][i] \subseteq Order!Settled'
    BY DEF Order!Waiting
  <2>5. outcome' = "pending" => (IF outcome' = "new" THEN "pending" ELSE outcome') = "pending"
    OBVIOUS
  <2> QED
    BY <2>3, <2>4, <2>5, OrderCardinality DEF Order!Starts
<1>3. Order!Answers
  <2>1. CASE outcome' = "resolved"
    <3>1. (IInv /\ outcome = "resolved" => \A i \in Items : status[i] = "settled")'
      BY ResolvedMeansSettled, PTL
    <3>2. Order!Settled' = Items
      BY <2>1, <3>1 DEF Order!Settled
    <3> QED
      BY <2>1, <3>2 DEF Order!Answers
  <2>2. CASE outcome' = "rejected"
    <3>1. Order!Rejected' # {}
      BY <1>1, <2>2 DEF OutcomeOK, RejectionOK, TypeOK, Order!Rejected, Items
    <3> QED
      BY <2>2, <3>1 DEF Order!Answers
  <2>3. CASE outcome' \in {"new", "pending"}
    BY <2>3 DEF Order!Answers
  <2> QED
    BY <1>1, <2>1, <2>2, <2>3 DEF TypeOK
<1> QED
  BY <1>1, <1>2, <1>3 DEF Order!Next

(* The pool implements RunOrder without dependencies: at most workerCount  *)
(* workers in flight, nothing started after a rejection, resolved only     *)
(* when every item has settled, rejected only because a worker was.        *)
THEOREM Refinement == Spec => ImplementsRunOrder
<1>1. Init => Order!Init
  <2> SUFFICES ASSUME Init
               PROVE  Order!Init
    OBVIOUS
  <2>1. TypeOK /\ outcome = "new" /\ status = [i \in Items |-> "waiting"]
    BY InitIInv DEF IInv, Init, InitWith
  <2> QED
    BY <2>1 DEF Order!Init, TypeOK
<1>2. IInv /\ IInv' /\ [Next]_vars => [Order!Next]_(Order!vars)
  <2> SUFFICES ASSUME IInv, IInv', [Next]_vars
               PROVE  [Order!Next]_(Order!vars)
    OBVIOUS
  <2>1. TypeOK /\ OutcomeOK /\ IteratorOK
    BY DEF IInv
  <2>2. CASE Begin
    <3>1. \A i \in Items : status[i] = "waiting" /\ status'[i] \in {"waiting", "running"}
      BY <2>1, <2>2, PoolAssumption DEF Begin, TypeOK, OutcomeOK, IteratorOK, Items
    <3>2. Order!Forward
      BY <3>1 DEF Order!Forward
    <3>3. firstRejection' = 0
      BY <2>1, <2>2 DEF Begin, OutcomeOK
    <3> QED
      BY <2>2, <3>2, <3>3, OrderStep DEF Begin
  <2>3. CASE Finish
    BY <2>3, OrderStep DEF Finish, Order!Forward
  <2>4. ASSUME NEW i \in Items, SettleAndTakeNext(i)
        PROVE  Order!Next
    <3>1. next \in Items /\ status[next] = "waiting"
      BY <2>1, <2>4, PoolAssumption DEF SettleAndTakeNext, TypeOK, IteratorOK, Items
    <3>2. Order!Forward
      BY <2>1, <2>4, <3>1 DEF SettleAndTakeNext, TypeOK, Order!Forward
    <3>3. outcome = "pending"
      <4>1. Cardinality(InFlight) # 0 /\ loops = Cardinality(InFlight)
        BY <2>4, EndsFacts DEF SettleAndTakeNext, IInv, LoopsOK
      <4>2. i < next /\ i \in Nat \ {0}
        BY <2>1, <2>4, PoolAssumption DEF SettleAndTakeNext, IteratorOK, Items
      <4> QED
        BY <2>1, <4>1, <4>2 DEF TypeOK, OutcomeOK
    <3> QED
      BY <2>4, <3>2, <3>3, OrderStep DEF SettleAndTakeNext
  <2>5. ASSUME NEW i \in Items, status[i] = "running", NEW how \in {"settled", "rejected"},
               status' = [status EXCEPT ![i] = how], UNCHANGED <<workerCount, outcome>>
        PROVE  Order!Next
    <3>1. /\ Order!Forward
          /\ \A j \in Items : status[j] = "waiting" => status'[j] = "waiting"
      BY <2>1, <2>5 DEF TypeOK, Order!Forward
    <3> QED
      BY <2>5, <3>1, OrderStep
  <2>6. ASSUME NEW i \in Items, SettleAndDrop(i) \/ SettleAndReturn(i)
        PROVE  Order!Next
    BY <2>5, <2>6 DEF SettleAndDrop, SettleAndReturn
  <2>7. ASSUME NEW i \in Items, Reject(i)
        PROVE  Order!Next
    BY <2>5, <2>7 DEF Reject
  <2>8. CASE UNCHANGED vars
    BY <2>8 DEF vars, Order!vars
  <2> QED
    BY <2>2, <2>3, <2>4, <2>6, <2>7, <2>8 DEF Next, Settle
<1> QED
  BY <1>1, <1>2, Inductive, PTL DEF Spec, ImplementsRunOrder, Order!Spec

=============================================================================
