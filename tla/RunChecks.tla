----------------------------- MODULE RunChecks -----------------------------
(***************************************************************************)
(* runChecks (src/execution/run-checks.ts): the worker every check goes    *)
(* through, the scheduling edges that `dependsOn` and `isolated` imply,    *)
(* fail-fast, cancellation, and the termination handlers' lifetime.  The   *)
(* scheduling itself is DependencyScheduler's when some check has an edge  *)
(* and ConcurrencyPool's otherwise; the actions below are theirs, joined   *)
(* with what the worker does.                                              *)
(*                                                                         *)
(* A worker call has three asynchronous parts, separate actions because    *)
(* other callbacks run between them: spawnCheck's promise settles          *)
(* (ProcessEnds), the worker resumes after its await (WorkerReturns), and  *)
(* the scheduler's own continuation runs (Settle or Reject).               *)
(***************************************************************************)
EXTENDS Integers, Sequences, FiniteSets

CONSTANTS
  N,                        \* the number of resolved entries, in declaration order
  Configs,                  \* the configurations a run may be given
  NotFinite                 \* a concurrency that is no finite number

Checks == 1 .. N
Concurrencies == {c.concurrency : c \in Configs}

ASSUME ConfigsAssumption ==
  /\ N \in Nat
  /\ Configs \subseteq [dependsOn : [Checks -> SUBSET Checks],
                        isolated : SUBSET Checks,
                        expensive : SUBSET Checks,
                        failFast : BOOLEAN,
                        concurrency : Int]
  /\ NotFinite \notin Int

VARIABLES
  config,                                                      \* fixed for the run
  status, outcome,                                             \* shared by both schedulers
  deps, limit, remaining, ready, active, settled, done,        \* DependencyScheduler
  workerCount, next, loops, firstRejection,                    \* ConcurrencyPool
  call,                     \* how far each check's worker call has come
  evidence,                 \* what spawnCheck resolved to
  cheapCheckFailed,         \* set once a check that is not expensive has failed
  aborted,                  \* runSignal: options.signal or the host's own controller
  handlers                  \* the SIGINT and SIGTERM listeners are installed

graphVars == <<deps, limit, remaining, ready, active, settled, done>>
poolVars  == <<workerCount, next, loops, firstRejection>>
runVars   == <<call, evidence, cheapCheckFailed, aborted, handlers>>
vars      == <<config, status, outcome, graphVars, poolVars, runVars>>

----------------------------------------------------------------------------
(* Names that end in "Mutant" are deliberate mistakes: each takes the place *)
(* of the definition after it to show that a property notices.             *)
ValidatedMutant(c) == \A i \in Checks : i \notin c.dependsOn[i]

(* validateDependencyGraph: every declared edge points backward. *)
Validated(c) == \A i \in Checks : c.dependsOn[i] \subseteq 1 .. i - 1

DrainingMutant(c) ==
  [i \in Checks |->
     IF i \in c.isolated THEN c.dependsOn[i] \cup 1 .. i - 1 ELSE c.dependsOn[i]]

DeclaredMutant(c) ==
  [i \in Checks |-> IF i \in c.isolated THEN 1 .. i - 1 ELSE c.isolated \cap 1 .. i - 1]

(* An isolated check waits for everything declared before it, and what is  *)
(* declared after it waits for it.                                         *)
DependencyIndexes(c) ==
  [i \in Checks |->
     IF i \in c.isolated THEN c.dependsOn[i] \cup 1 .. i - 1
                         ELSE c.dependsOn[i] \cup (c.isolated \cap 1 .. i - 1)]

HasDependencies == config.isolated # {} \/ \E i \in Checks : config.dependsOn[i] # {}

Graph == INSTANCE DependencyScheduler
           WITH Graphs <- {DependencyIndexes(c) : c \in Configs}
Pool  == INSTANCE ConcurrencyPool

Init ==
  /\ config \in {c \in Configs : Validated(c)}
  /\ Graph!InitWith(DependencyIndexes(config), config.concurrency)
  /\ Pool!InitWith(config.concurrency)
  /\ call = [i \in Checks |-> "idle"]
  /\ evidence = [i \in Checks |-> "none"]
  /\ cheapCheckFailed = FALSE
  /\ aborted = FALSE
  /\ handlers = TRUE

----------------------------------------------------------------------------
(* The synchronous part of the worker, run for each check the scheduler    *)
(* starts in this step: skip it, resolve at once when the run is aborted,  *)
(* or spawn, which may throw.                                              *)
Skip(i) == config.failFast /\ i \in config.expensive /\ cheapCheckFailed

SpawnsNow(i) == ~ Skip(i) /\ ~ aborted

LaunchWorkers ==
  LET started  == {i \in Checks : status[i] = "waiting" /\ status'[i] = "running"}
      spawning == {i \in started : SpawnsNow(i)}
  IN  /\ \E throwing \in SUBSET spawning :
           call' = [i \in Checks |-> IF i \in throwing THEN "threw"
                                     ELSE IF i \in spawning THEN "running"
                                     ELSE IF i \in started THEN "answered"
                                     ELSE call[i]]
      /\ evidence' = [i \in Checks |-> IF i \in started \ spawning
                                       THEN IF Skip(i) THEN "skipped" ELSE "aborted"
                                       ELSE evidence[i]]
      /\ UNCHANGED <<config, cheapCheckFailed, aborted, handlers>>

Start ==
  /\ \/ HasDependencies /\ Graph!Call /\ UNCHANGED poolVars
     \/ ~ HasDependencies /\ Pool!Begin /\ UNCHANGED graphVars
  /\ LaunchWorkers

(* The process of check i ends and spawnCheck resolves.  A run that was    *)
(* aborted meanwhile has killed it, and the evidence says so, unless there *)
(* was no process because spawning had failed.                             *)
ProcessEnds(i) ==
  /\ call[i] = "running"
  /\ call' = [call EXCEPT ![i] = "answered"]
  /\ \E e \in IF aborted THEN {"aborted", "failed"} ELSE {"passed", "failed"} :
       evidence' = [evidence EXCEPT ![i] = e]
  /\ UNCHANGED <<config, status, outcome, graphVars, poolVars, cheapCheckFailed, aborted, handlers>>

ExitCodeOnlyMutant(i) == i \notin config.expensive /\ evidence[i] = "failed"

CheapFailure(i) == i \notin config.expensive /\ evidence[i] # "passed"

(* The worker resumes: a cheap check that did not pass is noted, then the  *)
(* onEvidence hook is told, which cannot change the run.                   *)
WorkerReturns(i) ==
  /\ call[i] = "answered"
  /\ call' = [call EXCEPT ![i] = "returned"]
  /\ cheapCheckFailed' = (cheapCheckFailed \/ CheapFailure(i))
  /\ UNCHANGED <<config, status, outcome, graphVars, poolVars, evidence, aborted, handlers>>

(* The scheduler takes the answer, and starts what it allows to start.     *)
Settle(i) ==
  /\ call[i] = "returned"
  /\ \/ HasDependencies /\ Graph!Settle(i) /\ UNCHANGED poolVars
     \/ ~ HasDependencies /\ Pool!Settle(i) /\ UNCHANGED graphVars
  /\ LaunchWorkers

Reject(i) ==
  /\ call[i] = "threw"
  /\ \/ HasDependencies /\ Graph!Reject(i) /\ UNCHANGED poolVars
     \/ ~ HasDependencies /\ Pool!Reject(i) /\ UNCHANGED graphVars
  /\ UNCHANGED <<config, runVars>>

PoolFinishes ==
  /\ ~ HasDependencies
  /\ Pool!Finish
  /\ UNCHANGED <<config, graphVars, runVars>>

(* The finally block, once the scheduler's promise has settled.  (Its      *)
(* disposeRunSignal() releases nothing where AbortSignal.any exists.)      *)
Finally ==
  /\ outcome \notin {"new", "pending"}
  /\ handlers
  /\ handlers' = FALSE
  /\ UNCHANGED <<config, status, outcome, graphVars, poolVars, call, evidence,
                 cheapCheckFailed, aborted>>

(* options.signal aborts, at any time. *)
Abort ==
  /\ ~ aborted
  /\ aborted' = TRUE
  /\ UNCHANGED <<config, status, outcome, graphVars, poolVars, call, evidence,
                 cheapCheckFailed, handlers>>

(* SIGINT or SIGTERM reaches the host: the handler aborts the run, kills   *)
(* the active checks and uninstalls both handlers.                         *)
HostSignal ==
  /\ handlers
  /\ handlers' = FALSE
  /\ aborted' = TRUE
  /\ UNCHANGED <<config, status, outcome, graphVars, poolVars, call, evidence,
                 cheapCheckFailed>>

Next ==
  \/ Start
  \/ PoolFinishes
  \/ Finally
  \/ Abort
  \/ HostSignal
  \/ \E i \in Checks : ProcessEnds(i) \/ WorkerReturns(i) \/ Settle(i) \/ Reject(i)

(* Promise continuations run, and every process ends (SpawnCheck says when *)
(* that is so); nobody has to abort the run.                               *)
Fairness ==
  /\ WF_vars(Start)
  /\ WF_vars(PoolFinishes)
  /\ WF_vars(Finally)
  /\ \A i \in Checks :
       WF_vars(ProcessEnds(i)) /\ WF_vars(WorkerReturns(i)) /\ WF_vars(Settle(i) \/ Reject(i))

Spec == Init /\ [][Next]_vars
FairSpec == Spec /\ Fairness

----------------------------------------------------------------------------
Alive == {i \in Checks : call[i] = "running"}           \* checks with a live process

TypeOK ==
  /\ config \in Configs
  /\ status \in [Checks -> {"waiting", "running", "settled", "rejected"}]
  /\ outcome \in {"new", "pending", "resolved", "rejected"}
  /\ call \in [Checks -> {"idle", "running", "answered", "returned", "threw"}]
  /\ evidence \in [Checks -> {"none", "passed", "failed", "aborted", "skipped"}]
  /\ cheapCheckFailed \in BOOLEAN
  /\ aborted \in BOOLEAN
  /\ handlers \in BOOLEAN

(* An isolated check is a barrier: while its worker call is in flight, no  *)
(* other check's is, whatever the declarations around it and the order in  *)
(* which checks finish (lines 293 to 305).                                 *)
IsolationBarrier ==
  \A i \in config.isolated : status[i] = "running" =>
    \A j \in Checks \ {i} : status[j] # "running"

(* A check starts only when each check it names in dependsOn has its       *)
(* evidence recorded and its worker returned, never on one that threw.     *)
DependsOnFinished ==
  \A i \in Checks : call[i] # "idle" =>
    \A d \in config.dependsOn[i] : call[d] = "returned" /\ evidence[d] # "none"

(* An expensive check that waits for a cheap one, by dependsOn or across   *)
(* an isolated barrier, finds the flag set if that check did not pass.     *)
DependentsAreGuarded ==
  \A i \in config.expensive : \A d \in DependencyIndexes(config)[i] \ config.expensive :
    evidence[d] \in {"failed", "aborted"} => call[i] = "idle" \/ evidence[i] = "skipped"

SkipsAreJustified ==
  \A i \in Checks : evidence[i] = "skipped" =>
    /\ i \in config.expensive
    /\ \E c \in Checks \ config.expensive : evidence[c] \in {"failed", "aborted"}

(* Fail-fast skips what it should and no more: the flag of a cheap check   *)
(* that did not pass is set before any edge to a dependent is released,    *)
(* and each skip has such a check in the same report.                      *)
FailFastIsExact ==
  IF config.failFast
  THEN DependentsAreGuarded /\ SkipsAreJustified
  ELSE \A i \in Checks : evidence[i] # "skipped"

(* "At most `concurrency` running at once" (line 182): whichever scheduler *)
(* the configuration selects, and however completions, skips and answers   *)
(* without a process interleave with the launches they trigger, live       *)
(* processes never outnumber the configured concurrency.                   *)
Parallelism ==
  Cardinality(Alive) <= IF config.concurrency < 1 THEN 1 ELSE config.concurrency

(* Every check gets evidence, spawned or not, and the caller gets all of   *)
(* it, unless a worker threw.  This also says the scheduler's stall error  *)
(* is unreachable from a validated configuration.                          *)
EveryCheckIsReported ==
  <>(\/ outcome = "rejected"
     \/ outcome = "resolved" /\ \A i \in Checks : call[i] = "returned" /\ evidence[i] # "none")

(* installTerminationHandlers covers checks "while any check is in flight" *)
(* (line 39): the finally block takes the handlers away only when no check *)
(* has a live process.                                                     *)
HandlersOutliveChecks == [][Finally => Alive = {}]_vars
=============================================================================
