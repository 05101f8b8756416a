------------------------ MODULE DependencyScheduler ------------------------
(***************************************************************************)
(* runWithConcurrencyGraph (src/execution/dependency-scheduler.ts): Kahn's *)
(* algorithm run incrementally, with at most `limit` workers in flight.    *)
(* JavaScript runs each callback to completion, so one callback is one     *)
(* action: the call itself (Begin), the .then of a worker (the Settle      *)
(* actions) and its .catch (Reject).  Workers finish in any order.         *)
(***************************************************************************)
EXTENDS Integers, Sequences, FiniteSets

CONSTANTS
  N,                        \* the number of items
  Graphs,                   \* the values dependencyIndexes may have, one set of indexes per item
  Concurrencies,            \* the values of the concurrency argument
  NotFinite                 \* NaN or an infinity, as a concurrency argument

Items == 1 .. N

ASSUME SchedulerAssumption ==
  /\ N \in Nat
  /\ Graphs \subseteq [Items -> SUBSET Int]
  /\ Concurrencies \subseteq Int \cup {NotFinite}
  /\ NotFinite \notin Int

VARIABLES
  deps,                     \* the snapshot `dependencies`
  limit,                    \* `effectiveConcurrency`
  remaining,                \* unsettled dependencies of each item
  ready,                    \* the queue of items whose dependencies all settled
  status,                   \* the worker call of each item, as its promise shows it
  active,                   \* the counter compared with `limit`
  settled,                  \* the counter compared with `items.length`
  done,                     \* set by `fail`, and by nothing else
  outcome                   \* the returned promise; "new" before the call

vars == <<deps, limit, remaining, ready, status, active, settled, done, outcome>>

----------------------------------------------------------------------------
(* Names that end in "Mutant" are deliberate mistakes: each takes the place *)
(* of the definition after it to show that a property notices.             *)
SnapshotMutant(graph) == graph

(* Every out-of-range index is dropped when the graph is read. *)
Snapshot(graph) == [i \in Items |-> graph[i] \cap Items]

EffectiveConcurrencyMutant(concurrency) ==
  IF concurrency = NotFinite THEN 0 ELSE concurrency

EffectiveConcurrency(concurrency) ==
  IF concurrency = NotFinite \/ concurrency < 1 THEN 1 ELSE concurrency

AscendingAllMutant(S) ==
  {q \in [1 .. Cardinality(S) -> S] :
     /\ \A x, y \in DOMAIN q : x < y => q[x] > q[y]
     /\ \A s \in S : \E x \in DOMAIN q : q[x] = s}

(* The ascending enumeration of a set of items, as the one member of a set. *)
AscendingAll(S) ==
  {q \in [1 .. Cardinality(S) -> S] :
     /\ \A x, y \in DOMAIN q : x < y => q[x] < q[y]
     /\ \A s \in S : \E x \in DOMAIN q : q[x] = s}

Roots(graph) == {i \in Items : graph[i] = {}}

InitWith(graph, concurrency) ==
  /\ deps = Snapshot(graph)
  /\ limit = EffectiveConcurrency(concurrency)
  /\ remaining = [i \in Items |-> Cardinality(deps[i])]
  /\ ready \in AscendingAll(Roots(deps))
  /\ status = [i \in Items |-> "waiting"]
  /\ active = 0
  /\ settled = 0
  /\ done = FALSE
  /\ outcome = "new"

Init == \E graph \in Graphs, concurrency \in Concurrencies : InitWith(graph, concurrency)

----------------------------------------------------------------------------
LaunchCountMutant(queue, running) ==
  IF running < limit /\ queue # <<>> THEN 1 ELSE 0

OneTooManyMutant(queue, running) ==
  IF limit - running + 1 < Len(queue) THEN limit - running + 1 ELSE Len(queue)

(* launchNext: shift items off the queue `queue` and start their workers   *)
(* while fewer than `limit` of them run; `running` of them do already, and *)
(* `calls` is the state of the worker calls before.                        *)
LaunchCount(queue, running) ==
  IF limit - running < Len(queue) THEN limit - running ELSE Len(queue)

LaunchNext(queue, running, calls) ==
  LET k == LaunchCount(queue, running)
  IN  /\ ready' = SubSeq(queue, k + 1, Len(queue))
      /\ active' = running + k
      /\ status' = [i \in Items |-> IF \E x \in 1 .. k : queue[x] = i
                                    THEN "running" ELSE calls[i]]

(* The call: a graph without a root is a cycle, an empty list resolves.    *)
BeginStalled ==
  /\ outcome = "new"
  /\ N > 0
  /\ ready = <<>>
  /\ done' = TRUE
  /\ outcome' = "stalled"
  /\ UNCHANGED <<deps, limit, remaining, ready, status, active, settled>>

Begin ==
  /\ outcome = "new"
  /\ N = 0 \/ ready # <<>>
  /\ outcome' = IF N = 0 THEN "resolved" ELSE "pending"
  /\ LaunchNext(ready, active, status)
  /\ UNCHANGED <<deps, limit, remaining, settled, done>>

----------------------------------------------------------------------------
(* The bookkeeping every .then does: the result is stored, the dependents  *)
(* are counted down, and those that reach zero join the queue in the order *)
(* of the dependents list, which is ascending.                             *)
CountDown(i) == [j \in Items |-> IF i \in deps[j] THEN remaining[j] - 1 ELSE remaining[j]]
UnblockedMutant(i) == {j \in Items : i \in deps[j] /\ remaining[j] = 0}
Unblocked(i) == {j \in Items : i \in deps[j] /\ CountDown(i)[j] = 0}
Store(i)     == [status EXCEPT ![i] = "settled"]

Recorded(i) ==
  /\ outcome # "new"
  /\ status[i] = "running"
  /\ remaining' = CountDown(i)
  /\ settled' = settled + 1
  /\ UNCHANGED <<deps, limit>>

(* A worker that ends after the promise was rejected launches nothing. *)
SettleAfterFailure(i) ==
  /\ Recorded(i)
  /\ done
  /\ \E unblocked \in AscendingAll(Unblocked(i)) : ready' = ready \o unblocked
  /\ active' = active - 1
  /\ status' = Store(i)
  /\ UNCHANGED <<done, outcome>>

SettleLast(i) ==
  /\ Recorded(i)
  /\ ~ done
  /\ settled' = N
  /\ \E unblocked \in AscendingAll(Unblocked(i)) : ready' = ready \o unblocked
  /\ active' = active - 1
  /\ status' = Store(i)
  /\ outcome' = "resolved"
  /\ UNCHANGED done

(* Nothing runs and nothing is ready, yet items are left: fail(). *)
SettleStalled(i) ==
  /\ Recorded(i)
  /\ ~ done
  /\ settled' # N
  /\ active = 1
  /\ ready = <<>>
  /\ Unblocked(i) = {}
  /\ active' = active - 1
  /\ status' = Store(i)
  /\ done' = TRUE
  /\ outcome' = "stalled"
  /\ UNCHANGED ready

SettleAndLaunch(i) ==
  /\ Recorded(i)
  /\ ~ done
  /\ settled' # N
  /\ active # 1 \/ ready # <<>> \/ Unblocked(i) # {}
  /\ \E unblocked \in AscendingAll(Unblocked(i)) :
       LaunchNext(ready \o unblocked, active - 1, Store(i))
  /\ UNCHANGED <<done, outcome>>

RejectMutant(i) ==
  /\ outcome # "new"
  /\ status[i] = "running"
  /\ status' = [status EXCEPT ![i] = "rejected"]
  /\ outcome' = IF outcome = "pending" THEN "rejected" ELSE outcome
  /\ UNCHANGED <<deps, limit, remaining, ready, active, settled, done>>

(* .catch(fail): the promise rejects at once, with the other workers still *)
(* in flight; the counters are left as they are.                           *)
Reject(i) ==
  /\ outcome # "new"
  /\ status[i] = "running"
  /\ status' = [status EXCEPT ![i] = "rejected"]
  /\ done' = TRUE
  /\ outcome' = IF done THEN outcome ELSE "rejected"
  /\ UNCHANGED <<deps, limit, remaining, ready, active, settled>>

Settle(i) ==
  \/ SettleAfterFailure(i)
  \/ SettleLast(i)
  \/ SettleStalled(i)
  \/ SettleAndLaunch(i)

Call == BeginStalled \/ Begin

Next == Call \/ \E i \in Items : Settle(i) \/ Reject(i)

(* The call happens, and every worker promise settles one way or the other. *)
Fairness ==
  /\ WF_vars(Call)
  /\ \A i \in Items : WF_vars(Settle(i) \/ Reject(i))

Spec == Init /\ [][Next]_vars
FairSpec == Spec /\ Fairness

----------------------------------------------------------------------------
InFlight == {i \in Items : status[i] = "running"}
Settled  == {i \in Items : status[i] = "settled"}

(* The counters and the queue hold what their names say, and are typed. *)
TypeOK ==
  /\ deps \in [Items -> SUBSET Items]
  /\ limit \in Nat \ {0}
  /\ remaining \in [Items -> Nat]
  /\ ready \in Seq(Items)
  /\ status \in [Items -> {"waiting", "running", "settled", "rejected"}]
  /\ active \in Nat
  /\ settled \in 0 .. N
  /\ done \in BOOLEAN
  /\ outcome \in {"new", "pending", "resolved", "rejected", "stalled"}

(* Work conservation, said without the queue or the counters: while the    *)
(* promise is pending, either `limit` workers run or no waiting item could *)
(* start.  A lost count-down or a counter off by one idles a slot for      *)
(* good.                                                                   *)
NoIdleSlot ==
  outcome = "pending" =>
    \/ Cardinality(InFlight) = limit
    \/ \A i \in Items : status[i] = "waiting" => ~ (deps[i] \subseteq Settled)

(* The file's "in declaration order": an item never starts before an       *)
(* earlier one that waits for no more than it does.                        *)
NoOvertaking ==
  \A i, j \in Items :
    /\ i < j
    /\ deps[i] \subseteq deps[j]
    /\ status[j] # "waiting"
    => status[i] # "waiting"

(* The stall guards (lines 114 and 193) fire for cyclic graphs alone, and  *)
(* a cyclic graph never resolves as if it had been run.                    *)
Cyclic(graph) ==
  \E S \in SUBSET Items : S # {} /\ \A i \in S : graph[i] \cap S # {}

StallMeansCycle ==
  /\ outcome = "stalled" => Cyclic(deps)
  /\ outcome = "resolved" => ~ Cyclic(deps)

(* The queue and the counters implement the promise RunOrder states:       *)
(* dependency order, the bound on workers in flight, nothing started after *)
(* a rejection, no early resolution.                                       *)
Order == INSTANCE RunOrder
           WITH outcome <- IF outcome = "new" THEN "pending" ELSE outcome

ImplementsRunOrder == Order!Spec

(* Whatever the graph, cyclic ones included, the caller gets an answer: no *)
(* schedule leaves the promise pending with nothing left to run.           *)
EveryRunAnswers == <>(outcome \notin {"new", "pending"})
=============================================================================
