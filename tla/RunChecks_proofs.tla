------------------------- MODULE RunChecks_proofs -------------------------
(***************************************************************************)
(* runChecks is correct for every configuration that validation admits.    *)
(* The invariant of the scheduler in use, proved in its own module, is     *)
(* carried along by INSTANCE; what this module adds is how the worker      *)
(* calls, their evidence and the fail-fast flag follow the scheduler.      *)
(***************************************************************************)
EXTENDS RunChecks, FiniteSetTheorems, TLAPS

G == INSTANCE DependencyScheduler_proofs
       WITH Graphs <- {DependencyIndexes(c) : c \in Configs}
P == INSTANCE ConcurrencyPool_proofs

(* The scheduler that runs the checks was given this configuration.        *)
SchedulerOK ==
  IF HasDependencies
  THEN /\ G!IInv
       /\ deps = DependencyIndexes(config)
       /\ limit = G!EffectiveConcurrency(config.concurrency)
  ELSE /\ P!IInv
       /\ workerCount = P!WorkerCount(config.concurrency)

WorkerTypeOK ==
  /\ config \in Configs
  /\ Validated(config)
  /\ call \in [Checks -> {"idle", "running", "answered", "returned", "threw"}]
  /\ evidence \in [Checks -> {"none", "passed", "failed", "aborted", "skipped"}]
  /\ cheapCheckFailed \in BOOLEAN
  /\ aborted \in BOOLEAN
  /\ handlers \in BOOLEAN

(* The worker calls and the scheduler's view of them agree.                *)
CallsOK ==
  \A i \in Checks :
    /\ call[i] = "idle" <=> status[i] = "waiting"
    /\ status[i] = "settled" => call[i] = "returned"
    /\ status[i] = "rejected" => call[i] = "threw"
    /\ evidence[i] = "none" <=> call[i] \in {"idle", "running", "threw"}
    /\ evidence[i] = "skipped" => config.failFast /\ i \in config.expensive /\ cheapCheckFailed

(* The flag is set by the return of a cheap check that did not pass, and   *)
(* by nothing else.                                                        *)
FlagOK ==
  /\ cheapCheckFailed =>
       \E c \in Checks \ config.expensive : evidence[c] \in {"failed", "aborted"} /\ call[c] = "returned"
  /\ \A c \in Checks \ config.expensive :
       call[c] = "returned" /\ evidence[c] # "passed" => cheapCheckFailed

GuardedOK == config.failFast => DependentsAreGuarded

WorkersOK == WorkerTypeOK /\ CallsOK /\ FlagOK /\ GuardedOK

IInv == SchedulerOK /\ WorkersOK

(* What a check waits for has settled by the time it is started.           *)
EdgesOK(st) ==
  \A i \in Checks : st[i] # "waiting" =>
    \A d \in DependencyIndexes(config)[i] : st[d] = "settled"

----------------------------------------------------------------------------
(* Both schedulers get the constants they assume. *)
LEMMA SchedulersAssume == G!SchedulerAssumption /\ P!PoolAssumption
BY ConfigsAssumption DEF G!SchedulerAssumption, P!PoolAssumption, DependencyIndexes,
                         Concurrencies, Checks, G!Items

LEMMA SameItems == G!Items = Checks /\ P!Items = Checks
BY DEF G!Items, P!Items, Checks

(* The steps taken here are the ones the schedulers' invariants are about. *)
LEMMA SameGraphSteps ==
  /\ \A c \in Configs : Graph!InitWith(DependencyIndexes(c), c.concurrency) =>
                          G!InitWith(DependencyIndexes(c), c.concurrency)
  /\ Graph!Call <=> G!Call
  /\ \A i \in Checks : Graph!Settle(i) <=> G!Settle(i)
  /\ \A i \in Checks : Graph!Reject(i) <=> G!Reject(i)
<1> USE DEF G!Items, Graph!Items
<1>1. \A c \in Configs : Graph!InitWith(DependencyIndexes(c), c.concurrency) =>
                           G!InitWith(DependencyIndexes(c), c.concurrency)
  BY DEF Graph!InitWith, G!InitWith, Graph!Snapshot, G!Snapshot, Graph!EffectiveConcurrency,
         G!EffectiveConcurrency, Graph!AscendingAll, G!AscendingAll, Graph!Roots, G!Roots,
         Graph!Cardinality, G!Cardinality
<1>2. Graph!Call <=> G!Call
  BY DEF Graph!Call, G!Call, Graph!BeginStalled, G!BeginStalled, Graph!Begin, G!Begin,
         Graph!LaunchNext, G!LaunchNext, Graph!LaunchCount, G!LaunchCount
<1>3. \A i \in Checks : Graph!Settle(i) <=> G!Settle(i)
  BY DEF Graph!Settle, G!Settle, Graph!SettleAfterFailure, G!SettleAfterFailure,
         Graph!SettleLast, G!SettleLast, Graph!SettleStalled, G!SettleStalled,
         Graph!SettleAndLaunch, G!SettleAndLaunch, Graph!Recorded, G!Recorded,
         Graph!CountDown, G!CountDown, Graph!Unblocked, G!Unblocked, Graph!Store, G!Store,
         Graph!AscendingAll, G!AscendingAll, Graph!LaunchNext, G!LaunchNext,
         Graph!LaunchCount, G!LaunchCount, Graph!Cardinality, G!Cardinality
<1>4. \A i \in Checks : Graph!Reject(i) <=> G!Reject(i)
  BY DEF Graph!Reject, G!Reject
<1> QED
  BY <1>1, <1>2, <1>3, <1>4

LEMMA SamePoolSteps ==
  /\ \A c \in Configs : Pool!InitWith(c.concurrency) => P!InitWith(c.concurrency)
  /\ Pool!Begin <=> P!Begin
  /\ Pool!Finish <=> P!Finish
  /\ \A i \in Checks : Pool!Settle(i) <=> P!Settle(i)
  /\ \A i \in Checks : Pool!Reject(i) <=> P!Reject(i)
BY DEF P!Items, Pool!Items, Pool!InitWith, P!InitWith, Pool!WorkerCount, P!WorkerCount,
       Pool!Begin, P!Begin, Pool!Finish, P!Finish, Pool!Reject, P!Reject,
       Pool!Settle, P!Settle, Pool!SettleAndTakeNext, P!SettleAndTakeNext,
       Pool!SettleAndDrop, P!SettleAndDrop, Pool!SettleAndReturn, P!SettleAndReturn

(* A configuration has an index for every check, and every index is of a   *)
(* check declared before.                                                  *)
LEMMA IndexFacts ==
  ASSUME NEW c \in Configs, Validated(c)
  PROVE  /\ DependencyIndexes(c) \in [Checks -> SUBSET Checks]
         /\ \A i \in Checks : DependencyIndexes(c)[i] \subseteq 1 .. i - 1
         /\ c.concurrency \in Concurrencies
         /\ c.concurrency \in Int /\ c.concurrency # NotFinite
BY ConfigsAssumption DEF Validated, DependencyIndexes, Checks, Concurrencies

(* The scheduler's own type invariant, and the order it keeps.             *)
LEMMA SchedulerFacts ==
  ASSUME IInv
  PROVE  /\ status \in [Checks -> {"waiting", "running", "settled", "rejected"}]
         /\ outcome \in {"new", "pending", "resolved", "rejected"}
         /\ EdgesOK(status)
         /\ outcome = "resolved" => \A i \in Checks : status[i] = "settled"
<1>1. /\ WorkerTypeOK /\ SchedulerOK
      /\ DependencyIndexes(config) \in [Checks -> SUBSET Checks]
      /\ \A i \in Checks : DependencyIndexes(config)[i] \subseteq 1 .. i - 1
  BY IndexFacts DEF IInv, WorkersOK, WorkerTypeOK
<1>2. CASE HasDependencies
  <2>1. G!IInv /\ deps = DependencyIndexes(config)
    BY <1>1, <1>2 DEF SchedulerOK
  <2>2. G!Backward
    BY <1>1, <2>1, SameItems DEF G!Backward
  <2>3. outcome # "stalled"
    BY <2>1, <2>2, SchedulersAssume, G!StallIsCycle, G!BackwardAcyclic DEF G!StallMeansCycle
  <2>4. /\ status \in [Checks -> {"waiting", "running", "settled", "rejected"}]
        /\ outcome \in {"new", "pending", "resolved", "rejected"}
    BY <2>1, <2>3, SameItems DEF G!IInv, G!TypeOK
  <2>5. EdgesOK(status)
    BY <2>1, SameItems DEF G!IInv, G!OrderOK, G!Over, EdgesOK
  <2>6. outcome = "resolved" => \A i \in Checks : status[i] = "settled"
    BY <2>1, SameItems DEF G!IInv, G!OutcomeOK, G!Over
  <2> QED
    BY <2>4, <2>5, <2>6
<1>3. CASE ~ HasDependencies
  <2>1. P!IInv
    BY <1>1, <1>3 DEF SchedulerOK
  <2>2. /\ status \in [Checks -> {"waiting", "running", "settled", "rejected"}]
        /\ outcome \in {"new", "pending", "resolved", "rejected"}
    BY <2>1, SameItems DEF P!IInv, P!TypeOK
  <2>3. EdgesOK(status)
    BY <1>3 DEF HasDependencies, DependencyIndexes, EdgesOK
  <2>4. outcome = "resolved" => \A i \in Checks : status[i] = "settled"
    BY <2>1, SchedulersAssume, SameItems, P!ResolvedMeansSettled
  <2> QED
    BY <2>2, <2>3, <2>4
<1> QED
  BY <1>2, <1>3

----------------------------------------------------------------------------
(* The synchronous part of the workers that a step of the scheduler starts *)
(* while it settles the checks of S: they find the flag as their           *)
(* dependencies left it.                                                   *)
LEMMA LaunchWorkersStep ==
  ASSUME WorkersOK, LaunchWorkers,
         status \in [Checks -> {"waiting", "running", "settled", "rejected"}],
         EdgesOK(status), EdgesOK(status)',
         NEW S \in SUBSET Checks,
         \A i \in S : call[i] = "returned" /\ status[i] = "running" /\ status'[i] = "settled",
         \A i \in Checks \ S :
           status'[i] # status[i] => status[i] = "waiting" /\ status'[i] = "running"
  PROVE  WorkersOK'
<1> DEFINE started  == {i \in Checks : status[i] = "waiting" /\ status'[i] = "running"}
           spawning == {i \in started : SpawnsNow(i)}
<1>1. PICK throwing \in SUBSET spawning :
        call' = [i \in Checks |-> IF i \in throwing THEN "threw"
                                  ELSE IF i \in spawning THEN "running"
                                  ELSE IF i \in started THEN "answered"
                                  ELSE call[i]]
  BY DEF LaunchWorkers
<1>2. /\ evidence' = [i \in Checks |-> IF i \in started \ spawning
                                       THEN IF Skip(i) THEN "skipped" ELSE "aborted"
                                       ELSE evidence[i]]
      /\ UNCHANGED <<config, cheapCheckFailed, aborted, handlers>>
  BY DEF LaunchWorkers
<1>3. /\ WorkerTypeOK /\ CallsOK /\ FlagOK /\ GuardedOK
  BY DEF WorkersOK
<1>4. \A i \in started : call[i] = "idle" /\ evidence[i] = "none" /\ i \notin S
  BY <1>3 DEF CallsOK
<1>5. \A i \in Checks \ started : call'[i] = call[i] /\ evidence'[i] = evidence[i]
  BY <1>1, <1>2
<1>6. \A i \in started : /\ call'[i] \in {"threw", "running", "answered"}
                         /\ call'[i] = "answered" <=> i \notin spawning
                         /\ i \in spawning => evidence'[i] = "none"
                         /\ i \notin spawning => evidence'[i] = IF Skip(i) THEN "skipped" ELSE "aborted"
  BY <1>1, <1>2, <1>4
<1> HIDE DEF started, spawning
<1>7. WorkerTypeOK'
  <2>1. call' \in [Checks -> {"idle", "running", "answered", "returned", "threw"}]
    BY <1>1, <1>3 DEF WorkerTypeOK
  <2>2. evidence' \in [Checks -> {"none", "passed", "failed", "aborted", "skipped"}]
    BY <1>2, <1>3 DEF WorkerTypeOK
  <2> QED
    BY <1>2, <1>3, <2>1, <2>2 DEF WorkerTypeOK, Validated
<1>8. CallsOK'
  <2> SUFFICES ASSUME NEW i \in Checks
               PROVE  /\ call'[i] = "idle" <=> status'[i] = "waiting"
                      /\ status'[i] = "settled" => call'[i] = "returned"
                      /\ status'[i] = "rejected" => call'[i] = "threw"
                      /\ evidence'[i] = "none" <=> call'[i] \in {"idle", "running", "threw"}
                      /\ evidence'[i] = "skipped" =>
                           config.failFast /\ i \in config.expensive /\ cheapCheckFailed
    BY <1>2 DEF CallsOK
  <2>1. CASE i \in started
    BY <1>4, <1>6, <2>1 DEF started, Skip
  <2>2. CASE i \in S
    BY <1>3, <1>4, <1>5, <2>2 DEF CallsOK
  <2>3. CASE i \notin started /\ i \notin S
    BY <1>3, <1>5, <2>3 DEF CallsOK, started
  <2> QED
    BY <2>1, <2>2, <2>3
<1>9. FlagOK'
  BY <1>2, <1>3, <1>4, <1>5, <1>6 DEF FlagOK
<1>10. GuardedOK'
  <2> SUFFICES ASSUME config.failFast, NEW i \in config.expensive,
                      NEW d \in DependencyIndexes(config)[i] \ config.expensive,
                      evidence'[d] \in {"failed", "aborted"}, call'[i] # "idle"
               PROVE  evidence'[i] = "skipped"
    BY <1>2 DEF GuardedOK, DependentsAreGuarded, DependencyIndexes
  <2>1. i \in Checks /\ d \in Checks
    BY <1>3, IndexFacts, ConfigsAssumption DEF WorkerTypeOK
  <2>2. CASE i \notin started
    <3>1. status[i] # "waiting" /\ call[i] # "idle"
      BY <1>3, <1>5, <2>1, <2>2 DEF CallsOK
    <3>2. status[d] = "settled"
      BY <2>1, <3>1 DEF EdgesOK
    <3>3. d \notin started
      BY <3>2 DEF started
    <3> QED
      BY <1>3, <1>5, <2>1, <2>2, <3>1, <3>3 DEF GuardedOK, DependentsAreGuarded
  <2>3. CASE i \in started
    <3>1. status'[d] = "settled"
      BY <1>2, <2>1, <2>3 DEF EdgesOK, started, DependencyIndexes
    <3>2. d \notin started /\ call'[d] = "returned"
      BY <1>8, <2>1, <3>1 DEF CallsOK, started
    <3>3. cheapCheckFailed
      BY <1>3, <1>5, <2>1, <3>2 DEF FlagOK
    <3>4. Skip(i) /\ i \notin spawning
      BY <3>3 DEF Skip, SpawnsNow, spawning
    <3> QED
      BY <1>6, <2>3, <3>4
  <2> QED
    BY <2>2, <2>3
<1> QED
  BY <1>7, <1>8, <1>9, <1>10 DEF WorkersOK

----------------------------------------------------------------------------
(* No worker has been called. *)
LEMMA InitIInv == Init => IInv
<1> SUFFICES ASSUME Init
             PROVE  IInv
  OBVIOUS
<1>1. /\ config \in Configs /\ Validated(config)
      /\ Graph!InitWith(DependencyIndexes(config), config.concurrency)
      /\ Pool!InitWith(config.concurrency)
      /\ call = [i \in Checks |-> "idle"]
      /\ evidence = [i \in Checks |-> "none"]
      /\ cheapCheckFailed = FALSE /\ aborted = FALSE /\ handlers = TRUE
  BY DEF Init
<1>2. /\ G!InitWith(DependencyIndexes(config), config.concurrency)
      /\ P!InitWith(config.concurrency)
      /\ DependencyIndexes(config) \in [Checks -> SUBSET Checks]
      /\ config.concurrency \in Concurrencies
  BY <1>1, SameGraphSteps, SamePoolSteps, IndexFacts
<1>3. G!Init /\ P!Init
  BY <1>1, <1>2 DEF G!Init, P!Init
<1>4. SchedulerOK
  <2>1. G!IInv /\ P!IInv
    BY <1>3, SchedulersAssume, G!InitIInv, P!InitIInv
  <2>2. deps = DependencyIndexes(config)
    <3>1. \A i \in Checks : DependencyIndexes(config)[i] \cap Checks = DependencyIndexes(config)[i]
      BY <1>2
    <3> QED
      BY <1>2, <3>1, SameItems DEF G!InitWith, G!Snapshot
  <2>3. /\ limit = G!EffectiveConcurrency(config.concurrency)
        /\ workerCount = P!WorkerCount(config.concurrency)
    BY <1>2 DEF G!InitWith, P!InitWith
  <2> QED
    BY <2>1, <2>2, <2>3 DEF SchedulerOK
<1>5. status = [i \in Checks |-> "waiting"]
  BY <1>2, SameItems DEF G!InitWith
<1>6. WorkersOK
  <2>1. WorkerTypeOK
    BY <1>1 DEF WorkerTypeOK
  <2>2. CallsOK
    BY <1>1, <1>5 DEF CallsOK
  <2>3. FlagOK
    BY <1>1 DEF FlagOK
  <2>4. GuardedOK
    <3>1. \A i \in config.expensive : i \in Checks
      BY <1>1, ConfigsAssumption
    <3> QED
      BY <1>1, <3>1 DEF GuardedOK, DependentsAreGuarded
  <2> QED
    BY <2>1, <2>2, <2>3, <2>4 DEF WorkersOK
<1> QED
  BY <1>4, <1>6 DEF IInv

(* A step of the graph scheduler that leaves the configuration alone.      *)
LEMMA GraphStep ==
  ASSUME IInv, HasDependencies, UNCHANGED config,
         [G!Next]_(G!vars), UNCHANGED <<deps, limit>>
  PROVE  SchedulerOK'
<1>1. G!IInv'
  BY SchedulersAssume, G!NextIInv DEF IInv, SchedulerOK
<1>2. HasDependencies' /\ DependencyIndexes(config)' = DependencyIndexes(config)
  BY DEF HasDependencies, DependencyIndexes
<1> QED
  BY <1>1, <1>2 DEF IInv, SchedulerOK, G!EffectiveConcurrency

(* A step of the pool that leaves the configuration alone.                 *)
LEMMA PoolStep ==
  ASSUME IInv, ~ HasDependencies, UNCHANGED config,
         [P!Next]_(P!vars), UNCHANGED workerCount
  PROVE  SchedulerOK'
<1>1. P!IInv'
  BY SchedulersAssume, P!NextIInv DEF IInv, SchedulerOK
<1>2. ~ HasDependencies'
  BY DEF HasDependencies
<1> QED
  BY <1>1, <1>2 DEF IInv, SchedulerOK, P!WorkerCount

(* Callbacks that are none of the scheduler's leave it as it is.           *)
LEMMA SchedulerUntouched ==
  ASSUME IInv, UNCHANGED <<config, status, outcome, graphVars, poolVars>>
  PROVE  SchedulerOK'
<1>1. /\ UNCHANGED <<deps, limit, remaining, ready, status, active, settled, done, outcome>>
      /\ UNCHANGED <<workerCount, next, loops, status, firstRejection, outcome>>
  BY DEF graphVars, poolVars
<1>2. UNCHANGED G!vars /\ UNCHANGED P!vars
  BY <1>1 DEF G!vars, P!vars
<1> QED
  BY <1>1, <1>2, GraphStep, PoolStep

(* What the edges allow after a step they allowed before it.               *)
LEMMA EdgesNext ==
  ASSUME SchedulerOK', UNCHANGED config
  PROVE  EdgesOK(status)'
<1>1. CASE HasDependencies
  <2>1. HasDependencies'
    BY <1>1 DEF HasDependencies
  <2>2. G!IInv' /\ deps' = DependencyIndexes(config)'
    BY <2>1 DEF SchedulerOK
  <2> QED
    BY <2>2, SameItems DEF G!IInv, G!OrderOK, G!Over, EdgesOK
<1>2. CASE ~ HasDependencies
  BY <1>2 DEF HasDependencies, DependencyIndexes, EdgesOK
<1> QED
  BY <1>1, <1>2

----------------------------------------------------------------------------
(* The call starts the first workers. *)
LEMMA StartStep ==
  ASSUME IInv, Start
  PROVE  IInv'
<1>1. /\ WorkersOK /\ LaunchWorkers /\ UNCHANGED config
      /\ status \in [Checks -> {"waiting", "running", "settled", "rejected"}]
      /\ EdgesOK(status)
  BY SchedulerFacts DEF IInv, Start, LaunchWorkers
<1>2. /\ SchedulerOK'
      /\ \A i \in Checks :
           status'[i] # status[i] => status[i] = "waiting" /\ status'[i] = "running"
  <2>1. CASE HasDependencies /\ Graph!Call
    <3>1. G!IInv /\ G!Call
      BY <2>1, SameGraphSteps DEF IInv, SchedulerOK
    <3>2. UNCHANGED <<deps, limit>>
      BY <3>1 DEF G!Call, G!Begin, G!BeginStalled
    <3>3. SchedulerOK'
      BY <1>1, <2>1, <3>1, <3>2, GraphStep DEF G!Next
    <3> QED
      BY <3>1, <3>3, SchedulersAssume, SameItems, G!CallMoves
  <2>2. CASE ~ HasDependencies /\ Pool!Begin
    <3>1. P!IInv /\ P!Begin
      BY <2>2, SamePoolSteps DEF IInv, SchedulerOK
    <3>2. UNCHANGED workerCount
      BY <3>1 DEF P!Begin
    <3>3. SchedulerOK'
      BY <1>1, <2>2, <3>1, <3>2, PoolStep DEF P!Next
    <3> QED
      BY <3>1, <3>3, SchedulersAssume, SameItems, P!BeginMoves
  <2> QED
    BY <2>1, <2>2 DEF Start
<1>3. EdgesOK(status)'
  BY <1>1, <1>2, EdgesNext
<1>4. WorkersOK'
  <2> DEFINE S == {}
  <2>1. /\ S \in SUBSET Checks
        /\ \A j \in S : call[j] = "returned" /\ status[j] = "running" /\ status'[j] = "settled"
        /\ \A j \in Checks \ S :
             status'[j] # status[j] => status[j] = "waiting" /\ status'[j] = "running"
    BY <1>2
  <2> HIDE DEF S
  <2> QED
    BY <1>1, <1>3, <2>1, LaunchWorkersStep
<1> QED
  BY <1>2, <1>4 DEF IInv

(* The scheduler takes an answer and starts what has become free.          *)
LEMMA SettleStep ==
  ASSUME IInv, NEW i \in Checks, Settle(i)
  PROVE  IInv'
<1>1. /\ WorkersOK /\ LaunchWorkers /\ UNCHANGED config /\ call[i] = "returned"
      /\ status \in [Checks -> {"waiting", "running", "settled", "rejected"}]
      /\ EdgesOK(status)
  BY SchedulerFacts DEF IInv, Settle, LaunchWorkers
<1>2. /\ SchedulerOK'
      /\ status[i] = "running" /\ status'[i] = "settled"
      /\ \A j \in Checks \ {i} :
           status'[j] # status[j] => status[j] = "waiting" /\ status'[j] = "running"
  <2>1. CASE HasDependencies /\ Graph!Settle(i)
    <3>1. G!IInv /\ G!Settle(i)
      BY <2>1, SameGraphSteps DEF IInv, SchedulerOK
    <3>2. /\ status[i] = "running" /\ status'[i] = "settled"
          /\ \A j \in Checks \ {i} :
               status'[j] # status[j] => status[j] = "waiting" /\ status'[j] = "running"
          /\ UNCHANGED <<deps, limit>>
      BY <3>1, SchedulersAssume, SameItems, G!SettleMoves
    <3>3. SchedulerOK'
      BY <1>1, <2>1, <3>1, <3>2, GraphStep, SameItems DEF G!Next
    <3> QED
      BY <3>2, <3>3
  <2>2. CASE ~ HasDependencies /\ Pool!Settle(i)
    <3>1. P!IInv /\ P!Settle(i)
      BY <2>2, SamePoolSteps DEF IInv, SchedulerOK
    <3>2. /\ status[i] = "running" /\ status'[i] = "settled"
          /\ \A j \in Checks \ {i} :
               status'[j] # status[j] => status[j] = "waiting" /\ status'[j] = "running"
          /\ UNCHANGED workerCount
      BY <3>1, SchedulersAssume, SameItems, P!SettleMoves
    <3>3. SchedulerOK'
      BY <1>1, <2>2, <3>1, <3>2, PoolStep, SameItems DEF P!Next
    <3> QED
      BY <3>2, <3>3
  <2> QED
    BY <2>1, <2>2 DEF Settle
<1>3. EdgesOK(status)'
  BY <1>1, <1>2, EdgesNext
<1>4. WorkersOK'
  <2> DEFINE S == {i}
  <2>1. /\ S \in SUBSET Checks
        /\ \A j \in S : call[j] = "returned" /\ status[j] = "running" /\ status'[j] = "settled"
        /\ \A j \in Checks \ S :
             status'[j] # status[j] => status[j] = "waiting" /\ status'[j] = "running"
    BY <1>1, <1>2
  <2> HIDE DEF S
  <2> QED
    BY <1>1, <1>3, <2>1, LaunchWorkersStep
<1> QED
  BY <1>2, <1>4 DEF IInv

(* The scheduler learns that a worker threw: only a check whose spawn did. *)
LEMMA RejectStep ==
  ASSUME IInv, NEW i \in Checks, Reject(i)
  PROVE  IInv'
<1>1. /\ WorkersOK /\ call[i] = "threw"
      /\ UNCHANGED <<config, call, evidence, cheapCheckFailed, aborted, handlers>>
  BY DEF IInv, Reject, runVars
<1>2. SchedulerOK' /\ status[i] = "running" /\ status' = [status EXCEPT ![i] = "rejected"]
  <2>1. CASE HasDependencies /\ Graph!Reject(i)
    <3>1. G!Reject(i)
      BY <2>1, SameGraphSteps
    <3>2. /\ status[i] = "running" /\ status' = [status EXCEPT ![i] = "rejected"]
          /\ UNCHANGED <<deps, limit>>
      BY <3>1 DEF G!Reject
    <3> QED
      BY <1>1, <2>1, <3>1, <3>2, GraphStep, SameItems DEF G!Next
  <2>2. CASE ~ HasDependencies /\ Pool!Reject(i)
    <3>1. P!Reject(i)
      BY <2>2, SamePoolSteps
    <3>2. /\ status[i] = "running" /\ status' = [status EXCEPT ![i] = "rejected"]
          /\ UNCHANGED workerCount
      BY <3>1 DEF P!Reject
    <3> QED
      BY <1>1, <2>2, <3>1, <3>2, PoolStep, SameItems DEF P!Next
  <2> QED
    BY <2>1, <2>2 DEF Reject
<1>3. \A j \in Checks : status'[j] = IF j = i THEN "rejected" ELSE status[j]
  BY <1>2, SchedulerFacts
<1>4. WorkerTypeOK' /\ FlagOK' /\ GuardedOK'
  BY <1>1 DEF WorkersOK, WorkerTypeOK, Validated, FlagOK, GuardedOK, DependentsAreGuarded, DependencyIndexes
<1>5. CallsOK'
  BY <1>1, <1>2, <1>3 DEF WorkersOK, CallsOK
<1> QED
  BY <1>2, <1>4, <1>5 DEF IInv, WorkersOK

(* spawnCheck's promise settles: nothing has yet waited for this evidence. *)
LEMMA ProcessEndsStep ==
  ASSUME IInv, NEW i \in Checks, ProcessEnds(i)
  PROVE  IInv'
<1>1. /\ call[i] = "running"
      /\ call' = [call EXCEPT ![i] = "answered"]
      /\ UNCHANGED <<config, status, outcome, graphVars, poolVars, cheapCheckFailed, aborted, handlers>>
  BY DEF ProcessEnds
<1>2. PICK e \in {"passed", "failed", "aborted"} : evidence' = [evidence EXCEPT ![i] = e]
  BY DEF ProcessEnds
<1>3. /\ WorkerTypeOK /\ CallsOK /\ FlagOK /\ GuardedOK /\ EdgesOK(status)
  BY SchedulerFacts DEF IInv, WorkersOK
<1>4. SchedulerOK'
  BY <1>1, SchedulerUntouched
<1>5. /\ \A j \in Checks : call'[j] = IF j = i THEN "answered" ELSE call[j]
      /\ \A j \in Checks : evidence'[j] = IF j = i THEN e ELSE evidence[j]
  BY <1>1, <1>2, <1>3 DEF WorkerTypeOK
<1>6. WorkerTypeOK'
  BY <1>1, <1>2, <1>3 DEF WorkerTypeOK, Validated
<1>7. CallsOK'
  BY <1>1, <1>3, <1>5 DEF CallsOK
<1>8. FlagOK'
  BY <1>1, <1>3, <1>5 DEF FlagOK
<1>9. GuardedOK'
  <2> SUFFICES ASSUME config.failFast, NEW h \in config.expensive,
                      NEW d \in DependencyIndexes(config)[h] \ config.expensive,
                      evidence'[d] \in {"failed", "aborted"}, call'[h] # "idle"
               PROVE  evidence'[h] = "skipped"
    BY <1>1 DEF GuardedOK, DependentsAreGuarded, DependencyIndexes
  <2>1. h \in Checks /\ d \in Checks
    BY <1>3, IndexFacts, ConfigsAssumption DEF WorkerTypeOK
  <2>2. status[d] = "settled" /\ call[h] # "idle"
    BY <1>1, <1>3, <1>5, <2>1 DEF CallsOK, EdgesOK
  <2>3. d # i
    BY <1>1, <1>3, <2>1, <2>2 DEF CallsOK
  <2>4. evidence[h] = "skipped"
    BY <1>3, <1>5, <2>1, <2>2, <2>3 DEF GuardedOK, DependentsAreGuarded
  <2>5. h # i
    BY <1>1, <1>3, <2>1, <2>4 DEF CallsOK
  <2> QED
    BY <1>5, <2>1, <2>4, <2>5
<1> QED
  BY <1>4, <1>6, <1>7, <1>8, <1>9 DEF IInv, WorkersOK

(* The worker resumes and notes a cheap failure before the scheduler can   *)
(* release an edge.                                                        *)
LEMMA WorkerReturnsStep ==
  ASSUME IInv, NEW i \in Checks, WorkerReturns(i)
  PROVE  IInv'
<1>1. /\ call[i] = "answered"
      /\ call' = [call EXCEPT ![i] = "returned"]
      /\ cheapCheckFailed' = (cheapCheckFailed \/ CheapFailure(i))
      /\ UNCHANGED <<config, status, outcome, graphVars, poolVars, evidence, aborted, handlers>>
  BY DEF WorkerReturns
<1>2. /\ WorkerTypeOK /\ CallsOK /\ FlagOK /\ GuardedOK
  BY DEF IInv, WorkersOK
<1>3. SchedulerOK'
  BY <1>1, SchedulerUntouched
<1>4. \A j \in Checks : call'[j] = IF j = i THEN "returned" ELSE call[j]
  BY <1>1, <1>2 DEF WorkerTypeOK
<1>5. WorkerTypeOK'
  BY <1>1, <1>2 DEF WorkerTypeOK, Validated
<1>6. CallsOK'
  <2> SUFFICES ASSUME NEW j \in Checks
               PROVE  /\ call'[j] = "idle" <=> status[j] = "waiting"
                      /\ status[j] = "settled" => call'[j] = "returned"
                      /\ status[j] = "rejected" => call'[j] = "threw"
                      /\ evidence[j] = "none" <=> call'[j] \in {"idle", "running", "threw"}
                      /\ evidence[j] = "skipped" =>
                           config.failFast /\ j \in config.expensive /\ cheapCheckFailed'
    BY <1>1 DEF CallsOK
  <2>1. cheapCheckFailed => cheapCheckFailed'
    BY <1>1, <1>2 DEF WorkerTypeOK, CheapFailure
  <2>2. CASE j = i
    <3>1. call[j] = "answered" /\ call'[j] = "returned"
      BY <1>1, <1>4, <2>2
    <3> QED
      BY <1>2, <2>1, <3>1 DEF CallsOK
  <2>3. CASE j # i
    <3>1. call'[j] = call[j]
      BY <1>4, <2>3
    <3> QED
      BY <1>2, <2>1, <3>1 DEF CallsOK
  <2> QED
    BY <2>2, <2>3
<1>7. FlagOK'
  <2>1. CASE CheapFailure(i)
    <3>1. evidence[i] \in {"failed", "aborted"} /\ i \in Checks \ config.expensive
      BY <1>1, <1>2, <2>1 DEF CheapFailure, WorkerTypeOK, CallsOK
    <3> QED
      BY <1>1, <1>4, <2>1, <3>1 DEF FlagOK
  <2>2. CASE ~ CheapFailure(i)
    BY <1>1, <1>2, <1>4, <2>2 DEF FlagOK, CheapFailure, WorkerTypeOK
  <2> QED
    BY <2>1, <2>2
<1>8. GuardedOK'
  <2>1. \A j \in config.expensive : j \in Checks
    BY <1>2, ConfigsAssumption DEF WorkerTypeOK
  <2> QED
    BY <1>1, <1>2, <1>4, <2>1 DEF GuardedOK, DependentsAreGuarded, DependencyIndexes
<1> QED
  BY <1>3, <1>5, <1>6, <1>7, <1>8 DEF IInv, WorkersOK

(* Every step keeps the invariant, one case per action.                    *)
LEMMA NextIInv == IInv /\ [Next]_vars => IInv'
<1> SUFFICES ASSUME IInv, [Next]_vars
             PROVE  IInv'
  OBVIOUS
<1>1. CASE Start
  BY <1>1, StartStep
<1>2. CASE PoolFinishes
  <2>1. /\ ~ HasDependencies /\ P!Finish
        /\ UNCHANGED <<config, call, evidence, cheapCheckFailed, aborted, handlers>>
    BY <1>2, SamePoolSteps DEF PoolFinishes, runVars
  <2>2. UNCHANGED <<workerCount, status>>
    BY <2>1 DEF P!Finish
  <2>3. SchedulerOK'
    BY <2>1, <2>2, PoolStep DEF P!Next
  <2>4. WorkersOK'
    BY <2>1, <2>2 DEF IInv, WorkersOK, WorkerTypeOK, Validated, CallsOK, FlagOK, GuardedOK,
                      DependentsAreGuarded, DependencyIndexes
  <2> QED
    BY <2>3, <2>4 DEF IInv
<1>3. CASE Finally \/ Abort \/ HostSignal
  <2>1. /\ UNCHANGED <<config, status, outcome, graphVars, poolVars, call, evidence, cheapCheckFailed>>
        /\ handlers' \in BOOLEAN /\ aborted' \in BOOLEAN
    BY <1>3 DEF Finally, Abort, HostSignal, IInv, WorkersOK, WorkerTypeOK
  <2>2. SchedulerOK'
    BY <2>1, SchedulerUntouched
  <2>3. WorkersOK'
    BY <2>1 DEF IInv, WorkersOK, WorkerTypeOK, Validated, CallsOK, FlagOK, GuardedOK,
                DependentsAreGuarded, DependencyIndexes
  <2> QED
    BY <2>2, <2>3 DEF IInv
<1>4. ASSUME NEW i \in Checks, ProcessEnds(i) \/ WorkerReturns(i)
      PROVE  IInv'
  BY <1>4, ProcessEndsStep, WorkerReturnsStep
<1>5. ASSUME NEW i \in Checks, Settle(i) \/ Reject(i)
      PROVE  IInv'
  BY <1>5, SettleStep, RejectStep
<1>6. CASE UNCHANGED vars
  <2>1. UNCHANGED <<config, status, outcome, graphVars, poolVars, call, evidence,
                    cheapCheckFailed, aborted, handlers>>
    BY <1>6 DEF vars, runVars
  <2>2. SchedulerOK'
    BY <2>1, SchedulerUntouched
  <2>3. WorkersOK'
    BY <2>1 DEF IInv, WorkersOK, WorkerTypeOK, Validated, CallsOK, FlagOK, GuardedOK,
                DependentsAreGuarded, DependencyIndexes
  <2> QED
    BY <2>2, <2>3 DEF IInv
<1> QED
  BY <1>1, <1>2, <1>3, <1>4, <1>5, <1>6 DEF Next

(* The workers and the scheduler agree in every state of a run. *)
THEOREM Inductive == Spec => []IInv
<1>1. Init => IInv
  BY InitIInv
<1>2. IInv /\ [Next]_vars => IInv'
  BY NextIInv
<1> QED
  BY <1>1, <1>2, PTL DEF Spec

----------------------------------------------------------------------------
(* Types, and with them that the graph scheduler's stall error is out of   *)
(* a validated configuration's reach: `outcome` is never "stalled".        *)
THEOREM TypeCorrect == Spec => []TypeOK
<1>1. IInv => TypeOK
  BY SchedulerFacts DEF IInv, WorkersOK, WorkerTypeOK, TypeOK
<1> QED
  BY <1>1, Inductive, PTL

(* An isolated check never shares the machine with another one, for every  *)
(* configuration, concurrency and order in which checks finish (lines 293  *)
(* to 305).                                                                *)
THEOREM Isolation == Spec => []IsolationBarrier
<1>1. IInv => IsolationBarrier
  <2> SUFFICES ASSUME IInv, NEW i \in config.isolated, status[i] = "running",
                      NEW j \in Checks \ {i}, status[j] = "running"
               PROVE  FALSE
    BY DEF IsolationBarrier
  <2>1. /\ i \in Checks /\ EdgesOK(status)
        /\ i \in Int /\ j \in Int
    BY SchedulerFacts, ConfigsAssumption DEF IInv, WorkersOK, WorkerTypeOK, Checks
  <2>2. CASE j < i
    <3>1. j \in DependencyIndexes(config)[i]
      BY <2>1, <2>2, ConfigsAssumption DEF DependencyIndexes, Checks
    <3> QED
      BY <2>1, <3>1 DEF EdgesOK
  <2>3. CASE i < j
    <3>1. i \in DependencyIndexes(config)[j]
      BY <2>1, <2>3, ConfigsAssumption DEF DependencyIndexes, Checks
    <3> QED
      BY <2>1, <3>1 DEF EdgesOK
  <2> QED
    BY <2>1, <2>2, <2>3
<1> QED
  BY <1>1, Inductive, PTL

(* A check that has started finds the evidence of each check it depends on *)
(* recorded, and none of them threw.                                       *)
THEOREM DependenciesFirst == Spec => []DependsOnFinished
<1>1. IInv => DependsOnFinished
  <2> SUFFICES ASSUME IInv, NEW i \in Checks, call[i] # "idle", NEW d \in config.dependsOn[i]
               PROVE  call[d] = "returned" /\ evidence[d] # "none"
    BY DEF DependsOnFinished
  <2>1. d \in Checks /\ d \in DependencyIndexes(config)[i]
    BY ConfigsAssumption DEF IInv, WorkersOK, WorkerTypeOK, DependencyIndexes
  <2>2. status[d] = "settled"
    BY <2>1, SchedulerFacts DEF IInv, WorkersOK, CallsOK, EdgesOK
  <2> QED
    BY <2>1, <2>2 DEF IInv, WorkersOK, CallsOK
<1> QED
  BY <1>1, Inductive, PTL

(* Fail-fast: the flag of a cheap failure is set before any edge to an     *)
(* expensive check is released, and nothing is skipped without one.        *)
THEOREM FailFast == Spec => []FailFastIsExact
<1>1. IInv => FailFastIsExact
  BY DEF IInv, WorkersOK, CallsOK, FlagOK, GuardedOK, SkipsAreJustified, FailFastIsExact
<1> QED
  BY <1>1, Inductive, PTL

(* A run that resolves has evidence of every check in its report: none is  *)
(* lost, spawned or not, by either scheduler.                              *)
ReportIsComplete ==
  outcome = "resolved" => \A i \in Checks : call[i] = "returned" /\ evidence[i] # "none"

(* The safety half of EveryCheckIsReported, for every configuration.       *)
THEOREM CompleteReport == Spec => []ReportIsComplete
<1>1. IInv => ReportIsComplete
  BY SchedulerFacts DEF IInv, WorkersOK, CallsOK, ReportIsComplete
<1> QED
  BY <1>1, Inductive, PTL

(* The schedulers and this module count with one operator. *)
LEMMA SameCardinality ==
  ASSUME NEW S
  PROVE  G!Cardinality(S) = Cardinality(S) /\ P!Cardinality(S) = Cardinality(S)
<1>1. G!Cardinality(S) = Cardinality(S)
  BY DEF G!Cardinality, Cardinality
<1>2. P!Cardinality(S) = Cardinality(S)
  BY DEF P!Cardinality, Cardinality
<1> QED
  BY <1>1, <1>2

(* Neither scheduler ever has more processes running than the              *)
(* configuration allows, whichever of them the configuration selects.      *)
THEOREM BoundedParallelism == Spec => []Parallelism
<1>1. IInv => Parallelism
  <2> SUFFICES ASSUME IInv
               PROVE  Parallelism
    OBVIOUS
  <2>1. /\ config.concurrency \in Int /\ config.concurrency # NotFinite
        /\ config.concurrency \in Concurrencies
        /\ status \in [Checks -> {"waiting", "running", "settled", "rejected"}]
    BY IndexFacts, SchedulerFacts DEF IInv, WorkersOK, WorkerTypeOK
  <2> DEFINE Calls == {i \in Checks : status[i] \in {"running", "rejected"}}
             Bound == IF config.concurrency < 1 THEN 1 ELSE config.concurrency
  <2>2. IsFiniteSet(Checks)
    BY ConfigsAssumption, FS_Interval DEF Checks
  <2>3. Alive \subseteq Calls
    BY <2>1 DEF IInv, WorkersOK, CallsOK, Alive
  <2>4. CASE HasDependencies
    <3>1. /\ G!Cardinality(G!Busy(status)) <= limit
          /\ limit = G!EffectiveConcurrency(config.concurrency)
      BY <2>4 DEF IInv, SchedulerOK, G!IInv, G!CountersOK
    <3>2. G!Busy(status) = Calls
      BY SameItems DEF G!Busy
    <3>3. Cardinality(Calls) <= Bound
      BY <2>1, <3>1, <3>2, SameCardinality DEF G!EffectiveConcurrency
    <3>4. /\ IsFiniteSet(Calls)
          /\ Cardinality(Alive) \in Nat /\ Cardinality(Calls) \in Nat
          /\ Cardinality(Alive) <= Cardinality(Calls)
      BY <2>2, <2>3, FS_Subset, FS_CardinalityType
    <3> QED
      BY <2>1, <3>3, <3>4 DEF Parallelism
  <2>5. CASE ~ HasDependencies
    <3>1. /\ P!Cardinality(P!InFlight) <= workerCount
          /\ workerCount = P!WorkerCount(config.concurrency)
      BY <2>5 DEF IInv, SchedulerOK, P!IInv, P!LoopsOK, P!TypeOK
    <3>2. Alive \subseteq P!InFlight /\ P!InFlight \subseteq Checks
      BY <2>1, SameItems DEF IInv, WorkersOK, CallsOK, Alive, P!InFlight
    <3>3. /\ IsFiniteSet(P!InFlight)
          /\ Cardinality(Alive) \in Nat /\ Cardinality(P!InFlight) \in Nat
          /\ Cardinality(Alive) <= Cardinality(P!InFlight)
      BY <2>2, <3>2, FS_Subset, FS_CardinalityType
    <3>4. workerCount \in Nat /\ workerCount <= Bound
      BY <2>1, <3>1, ConfigsAssumption DEF P!WorkerCount
    <3>5. Cardinality(P!InFlight) <= workerCount
      BY <3>1, SameCardinality
    <3> QED
      BY <2>1, <3>3, <3>4, <3>5 DEF Parallelism
  <2> QED
    BY <2>4, <2>5
<1> QED
  BY <1>1, Inductive, PTL

=============================================================================
