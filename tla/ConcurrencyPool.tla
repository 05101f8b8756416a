-------------------------- MODULE ConcurrencyPool --------------------------
(***************************************************************************)
(* runWithConcurrency (src/execution/concurrency-pool.ts): `runNext` loops *)
(* share one iterator over the items; each awaits one worker at a time.    *)
(* A loop between two awaits runs to completion, so what a loop does when  *)
(* its worker settles, up to its next await or its return, is one action.  *)
(* Unlike the graph scheduler it rejects only when no worker is left.      *)
(***************************************************************************)
EXTENDS Integers, FiniteSets

CONSTANTS
  N,                        \* the number of items
  Concurrencies,            \* the values of the concurrency argument
  NotFinite                 \* NaN or an infinity, as a concurrency argument

Items == 1 .. N

ASSUME PoolAssumption ==
  /\ N \in Nat
  /\ Concurrencies \subseteq Int \cup {NotFinite}
  /\ NotFinite \notin Int

VARIABLES
  workerCount,              \* the number of loops started
  next,                     \* the item the shared iterator yields next; N + 1 at its end
  loops,                    \* the loops that have not returned
  status,                   \* the worker call of each item
  firstRejection,           \* the item whose rejection was recorded first, or 0
  outcome                   \* the returned promise; "new" before the call

vars == <<workerCount, next, loops, status, firstRejection, outcome>>

WorkerCount(concurrency) ==
  LET effective == IF concurrency = NotFinite THEN 1 ELSE concurrency
      capped    == IF effective < N THEN effective ELSE N
  IN  IF capped < 1 THEN 1 ELSE capped

InitWith(concurrency) ==
  /\ workerCount = WorkerCount(concurrency)
  /\ next = 1
  /\ loops = 0
  /\ status = [i \in Items |-> "waiting"]
  /\ firstRejection = 0
  /\ outcome = "new"

Init == \E concurrency \in Concurrencies : InitWith(concurrency)

(* The call: every loop takes its first item.  With no item there is one   *)
(* loop, and it returns at once.                                           *)
Begin ==
  /\ outcome = "new"
  /\ status' = [i \in Items |-> IF i <= workerCount THEN "running" ELSE "waiting"]
  /\ next' = IF N = 0 THEN 1 ELSE workerCount + 1
  /\ loops' = IF N = 0 THEN 0 ELSE workerCount
  /\ outcome' = "pending"
  /\ UNCHANGED <<workerCount, firstRejection>>

(* Names that end in "Mutant" are deliberate mistakes: each takes the place *)
(* of the definition after it to show that a property notices.             *)
SettleAndTakeNextMutant(i) ==
  /\ status[i] = "running"
  /\ next <= N
  /\ status' = [status EXCEPT ![i] = "settled", ![next] = "running"]
  /\ next' = next + 1
  /\ UNCHANGED <<workerCount, loops, firstRejection, outcome>>

(* The worker of item i resolves, and its loop takes the next item...      *)
SettleAndTakeNext(i) ==
  /\ status[i] = "running"
  /\ next <= N
  /\ firstRejection = 0
  /\ status' = [status EXCEPT ![i] = "settled", ![next] = "running"]
  /\ next' = next + 1
  /\ UNCHANGED <<workerCount, loops, firstRejection, outcome>>

(* ... or takes one and drops it, since a sibling has rejected...          *)
SettleAndDrop(i) ==
  /\ status[i] = "running"
  /\ next <= N
  /\ firstRejection # 0
  /\ status' = [status EXCEPT ![i] = "settled"]
  /\ next' = next + 1
  /\ loops' = loops - 1
  /\ UNCHANGED <<workerCount, firstRejection, outcome>>

(* ... or finds the iterator at its end.                                   *)
SettleAndReturn(i) ==
  /\ status[i] = "running"
  /\ next > N
  /\ status' = [status EXCEPT ![i] = "settled"]
  /\ loops' = loops - 1
  /\ UNCHANGED <<workerCount, next, firstRejection, outcome>>

RejectMutant(i) ==
  /\ status[i] = "running"
  /\ status' = [status EXCEPT ![i] = "rejected"]
  /\ firstRejection' = IF firstRejection = 0 THEN i ELSE firstRejection
  /\ UNCHANGED <<workerCount, next, loops, outcome>>

(* The catch: only the first error is kept, and the loop returns.          *)
Reject(i) ==
  /\ status[i] = "running"
  /\ status' = [status EXCEPT ![i] = "rejected"]
  /\ firstRejection' = IF firstRejection = 0 THEN i ELSE firstRejection
  /\ loops' = loops - 1
  /\ UNCHANGED <<workerCount, next, outcome>>

FinishMutant ==
  /\ outcome = "pending"
  /\ loops = 0 \/ firstRejection # 0
  /\ outcome' = IF firstRejection # 0 THEN "rejected" ELSE "resolved"
  /\ UNCHANGED <<workerCount, next, loops, status, firstRejection>>

(* Promise.all over the loops: every loop has returned.                    *)
Finish ==
  /\ outcome = "pending"
  /\ loops = 0
  /\ outcome' = IF firstRejection # 0 THEN "rejected" ELSE "resolved"
  /\ UNCHANGED <<workerCount, next, loops, status, firstRejection>>

Settle(i) == SettleAndTakeNext(i) \/ SettleAndDrop(i) \/ SettleAndReturn(i)

Next == Begin \/ Finish \/ \E i \in Items : Settle(i) \/ Reject(i)

(* The call happens, worker promises settle, and Promise.all is awaited.   *)
Fairness ==
  /\ WF_vars(Begin)
  /\ WF_vars(Finish)
  /\ \A i \in Items : WF_vars(Settle(i) \/ Reject(i))

Spec == Init /\ [][Next]_vars
FairSpec == Spec /\ Fairness

----------------------------------------------------------------------------
InFlight == {i \in Items : status[i] = "running"}

TypeOK ==
  /\ workerCount \in Nat \ {0}
  /\ next \in 1 .. N + 1
  /\ loops \in 0 .. workerCount
  /\ status \in [Items -> {"waiting", "running", "settled", "rejected"}]
  /\ firstRejection \in 0 .. N
  /\ outcome \in {"new", "pending", "resolved", "rejected"}

(* No worker outlives the call: when the promise settles, also by a        *)
(* rejection, nothing is in flight any more whose own rejection would have *)
(* no handler (the comment at lines 22 to 28).                             *)
AnswersOnlyWhenQuiet ==
  outcome \in {"resolved", "rejected"} => InFlight = {}

(* The pool keeps the promise RunOrder states for items without            *)
(* dependencies.                                                           *)
Order == INSTANCE RunOrder
           WITH deps <- [i \in Items |-> {}],
                limit <- workerCount,
                outcome <- IF outcome = "new" THEN "pending" ELSE outcome

ImplementsRunOrder == Order!Spec

(* The caller gets an answer even when workers reject.                     *)
EveryRunAnswers == <>(outcome \in {"resolved", "rejected"})
=============================================================================
