# A TLA+ model of repo-contract

`repo-contract` runs a repository's configured *checks* (each a command, run as
a process), collects the *evidence* of each, hands all of it to the checks'
*policies*, and aggregates their results into a *verdict*. This directory
models the parts of it that are hard to test: the scheduling of checks, the life
of their processes, the phases of a run and the logs runs leave; the analysis that
narrows a run to what a change affects; the files under `.repo-contract` that
processes share; and the contract the repository holds itself to, with the
published presets. Paths below are relative to the repository's `src/`.

## Inventory

| Component | State it keeps | Operations | Modelled in |
|---|---|---|---|
| Dependency scheduler, `execution/dependency-scheduler.ts` | `remaining`, `ready`, `active`, `settled`, `done`, the returned promise | the call; a worker's `.then` and `.catch` | `DependencyScheduler` |
| Concurrency pool, `execution/concurrency-pool.ts` | the shared iterator, the loops, `firstRejection` | the call; a loop between two awaits | `ConcurrencyPool` |
| Run checks, `execution/run-checks.ts` | `cheapCheckFailed`, `runSignal`, the termination handlers, the active handles | the worker; cancellation; SIGINT/SIGTERM; the `finally` block | `RunChecks` |
| Spawn check, `execution/spawn-check.ts`, `process-tree.ts`, `abort-signals.ts` | per check: timers, listener, handle, `terminationReason`, `hostTerminated`, the promise | spawn, timeout, abort, kill, escalation, `close`, `error` | `SpawnCheck` |
| Pipeline, `run-repo-contract.ts`, `evidence/`, `parsing/`, `policy/` | the evidence, the thrown errors, the indexed results | validate, run, parse, judge | `RunPipeline` |
| Configuration, `config/` | none | validation, command tokenising | the graph's validation, in `RunChecks` |
| Contract logs, `helpers/contract-logs.ts` | the write queue, `written`, `reported`, the folder | `begin`, `saveEvidence`, `prependVerdict`, `flush` | `ContractLogs`, `LoggedRuns` |
| Affected analysis, `affected/compute-affected.ts`, `worklist.ts`, `explain.ts`, `analyze-module.ts` | per run: `known`, the queue, the affected files | place, seed, spread, widen, assemble | `AffectedGraph`, `AffectedRequirements` |
| Affected command and shards, `affected/collect.ts`, `shard.ts`, `bin/affected-cli.mjs`, `bin/merge-mutation-cli.mjs` | the plan, the reports of jobs | collect, plan, run a shard, merge | `AffectedRun` |
| Run scope, `affected/scope.ts`, `fail-fast.ts`, the mode of `cache.ts` | none | what a run validates, replays, and stops for | `RunScope` |
| Affected cache, `affected/cache.ts`, `helpers/file-cache-store.ts`, `bin/cache-cli.mjs` | a directory shared by processes | `lookup`, `store`, `prune`, `clear` | `AffectedCache` |
| Exception registry, `helpers/*exception*` and the eight checks that keep one | a JSON file | scan, load, reconcile, write, judge | `ExceptionRegistry`, `ExceptionChecks`, `ExceptionPolicy` |
| Presets, `presets/` | none (they read report files) | a policy each | `Presets` |
| Own checks and scripts, `checks/`, `scripts/`, `repo-contract.config.ts` | report files, the scorecard document | what a script prints, a policy each, the run of all | `OwnChecks`, `Scorecard`, `OwnContract` |
| Command lines, `bin/` | none | | the affected, merge and cache commands, above |
| Metrics, report, glob matching | none | pure functions | no |

How they interact: `runRepoContract` calls `runChecks`, which gives a *worker*
to one of the two schedulers; the worker awaits `spawnCheck`; `spawnCheck`
registers a kill handle in a set that the SIGINT/SIGTERM handler of `runChecks`
reads, and listens to an `AbortSignal` composed of the caller's, the host's and
its own timeout. Only then are outputs parsed, and only then do policies run.

The affected command and the cache are used by repositories beside the contract:
a command computes which tests a change needs, and a cache replays the result of
a check whose inputs did not change. The registry keepers write records for
reviewers to fill in, between a scan and a verdict.

The hard behaviours: workers end and reject in any order; callbacks of timers,
signals, processes and promises interleave at every `await`; several kills
overlap on one process; a process ignores SIGTERM, or leaves descendants; the
host is told to end while checks run; a worker throws while others run; the
graph may be cyclic when validation is bypassed; a fact about a module is found
again at a smaller distance; jobs of a plan repeat, get lost or belong to another
plan; processes read, write and remove the same files without a lock, and die
between two steps; a tool dies in the middle of its report, or leaves the last
run's. `PROJECT.json` lists them as
hazards, each at its line.

What makes each component correct, in a sentence: the schedulers bound the
workers in flight, respect dependencies, never idle and always answer;
`runChecks` keeps isolation and fail-fast true under every completion order and
reports every check; `spawnCheck` settles, kills what it was told to kill in
bounded time, leaves nothing armed, and reports the right cause; a run judges
only complete evidence and gives each check its own result whatever the order
of settling; the log folder ends up describing the last run; narrowing a run
skips nothing a change reaches, and a merged report holds every target; a replay
is of the very inputs it is asked for; no registry record is lost or invented by
a run, and no check passes on a finding nobody reviewed; a check that passes
rests on something its tool really said in this run.

## Modules

* `RunOrder` is the promise both schedulers make, with no data structure in
  it: what a step may start and when it may answer.
* `DependencyScheduler` has the code's own variables. JavaScript runs a
  callback to completion, so one callback is one action: `Begin` and
  `BeginStalled` are the call; `SettleAfterFailure`, `SettleLast`,
  `SettleStalled` and `SettleAndLaunch` are the `.then` of a worker, by the
  return it takes; `Reject` is `.catch(fail)`. The `dependents` lists are
  derived from `deps`; results are not carried. `AscendingAll` is the ascending
  order in which the code builds its lists.
* `ConcurrencyPool` does the same for `runNext`: an action is what a loop does
  from the end of one await to the next, or to its return.
* `RunChecks` composes both schedulers (`INSTANCE`), joins their actions with
  what the worker does when started (`LaunchWorkers`), and adds the two
  asynchronous halves of a worker (`ProcessEnds`, `WorkerReturns`), aborts, host
  signals and the `finally` block. Evidence is abstracted to passed, failed,
  aborted or skipped; `failed` stands for every other status.
* `SpawnCheck` models several calls of `spawnCheck` and the host process:
  one action per callback, plus the operating system's actions (processes end by
  themselves, or after a signal they do not survive). `Descendants` says what a
  command may leave behind: nothing, a quiet member of its process group, a
  member holding the check's stdio, or a holder in another group. A root may refuse
  a kill (it runs as another user): `child.kill` then emits `error` from inside the
  kill, so the promise answers `spawn_error` and cleans up (`Refused`) before
  `killWithEscalation` arms the escalation of a check that has just been answered.
* `RunPipeline` is `runRepoContract` called again and again by a caller that awaits
  each call. The scheduling of checks is reduced to what a later phase can see of it:
  workers end or throw in any order, checks not launched are dropped, the graph
  scheduler rejects at once and leaves *strays*, the pool when no worker is left. A
  run may have no checks at all. `stage`, `results` and `entries` are arrays over
  positions, as in `runPolicies`. A policy that throws, rejects or returns no
  `PolicyResult` is one action, since the code treats the three alike.
* `ContractLogs` is the log store: the hooks change `written` at once and put an
  operation on the promise chain (`queue`); `Work` takes the first operation off
  it, done or failed (a write may leave the file cut off). `LoggedRuns` joins
  them: `EvidenceLogged`, `VerdictLogged` and `StrayLogged` are a step of the run
  together with the hook it calls. `intruded` is a history variable: an earlier
  run's stray has written since this run began.
* `AffectedGraph` is `computeAffected` over modules reduced to what
  `analyze-module.ts` extracts (declarations, mentions, top-level statements,
  exports, imports). A fact (`Event`) is a local name, an export, every export or
  any export of a file; `Spread` takes one item off the queue and is the handler
  that `drain` calls for it, `Emit` and `Affect` the closures of the same names.
  `GoFull`, `SeedChanges`, `WidenForDynamicLoads` and `Assemble` are the other
  phases. `AffectedRequirements` says, with no worklist, which tests a change
  reaches: as the least set closed under "reads", defined from the language's
  meaning of imports and exports, and what a chain of explanations must be. `After`
  is what a change leaves at a path: the module there now and, where the diff says
  that one went away, nothing too. `StarGaps` and `TestGaps` in `AffectedRun` are
  the two places where the code does not follow a change, and
  `PlainBarrels` is a condition on the sources under which the first is empty.
  `AffectedRun` puts git before it (each question may fail, each read be
  refused) and the CI jobs after it: jobs plan again, repeat, see other targets
  or timings, and the merge comes at any time, with reports that may be damaged or of
  another schema version (`Forms`). `PlaceHeaviest` is one round of the
  loop of `planShards`: instead of sorting first, it picks the heaviest target left,
  equal weights by name, which is the order the stable sort gives.
* `RunScope` is the decision of how much a run validates, whether it may replay
  results and whether it may stop early, from arguments and environment.
* `AtomicFiles` is what a shared directory promises: whole contents or none.
  `SharedFiles` has the operations both users of `.repo-contract` are made of;
  opening, filling and renaming a temporary file are steps of their own.
  `AffectedCache` and `ExceptionRegistry` are processes over it, one action per
  awaited file operation; `SharedDirectory` joins them. `prune` reads the clock once,
  before its scan (`since`). A cached value is modelled by the world it was computed
  from, so a wrong replay shows. In `ExceptionRegistry` `kind` is the check:
  `ExceptionChecks` says, for each of the eight, what its tool may answer, when it
  loads and reconciles its registry, what policy its findings fall under and how it
  judges; `ExceptionPolicy` is the resolution of policies. `approved` is a history
  variable: what a person has filled in.
* `Presets` and `OwnChecks` are the policies, over a document reduced to its form
  and the kinds of entries it shows ("sound", "mild", "bad"); `of` names the runs
  a document rests on. A document may be nothing, cut short, no object or array at
  all ("alien"), without the containers its policy walks ("odd"), or with entries in
  them that lack the fields it looks at ("hollow"): some policies throw at these,
  some fail, some find nothing. `Scorecard` is the arithmetic of the OpenSSF script.
  `OwnContract` runs them: a check is launched, its tool examines the tree,
  delivers its report, and exits, or dies, or is killed, at every point (a killed
  process may answer the signal and exit with a code, which the evidence keeps); then
  every policy judges, and somebody edits the tree and runs again over the
  report files that are left. A *scene* is the set of checks asked for, with
  bounds on what may go wrong in it.
* `MC*` modules give the constants their values. A component's theorems are in
  the module `<component>_proofs` beside it; `RunPipeline` and `ContractLogs` are
  proved about where they are joined, in `LoggedRuns_proofs`, as are the cache and the
  registry in `SharedDirectory_proofs`, the presets, own checks and the scorecard in
  `OwnContract_proofs`.

Definitions whose name ends in `Mutant` are deliberate mistakes placed beside
the definition they would replace (a dropped guard, an off-by-one, a missing
reset): for each property of each passing run there is one that breaks it, which
shows the property can fail. No specification uses them.

## Runs

| Run | Instance | What it shows |
|---|---|---|
| `scheduler` | 4 items; every validated graph, and each with item 1 depending on anything, which closes cycles of every length; limits 0, 2, 3 and non-finite | the invariants, the refinement of `RunOrder`, and that every run answers |
| `pool` | 5 items; limits 0, 2, 3, 7 and non-finite | the same for the pool, and that it answers only when no worker is left |
| `run_checks` | 3 checks, every combination of `dependsOn`, `isolated`, `expensive`, fail-fast and concurrency 1 to 3 | isolation, dependency order, fail-fast, no more processes than configured, full reports |
| `logged_runs` | 2 runs of one or both of 2 checks, one operation at most still queued when the second begins; the three log modes | phases never overlap, verdicts are faithful, the logs tell the last run, everything ends |
| `spawn_check` | 2 checks with group descendants | timers, kills taken and refused, host exit, causes, settlement |
| `affected` | about 950 repositories of five modules | nothing a change reaches is skipped, mutation targets are the direct readers, facts end at their shortest distance, explanations end at the change, merged shards lose nothing, the analysis ends |
| `shared_files` | per scene: two runs and a keeper over the cache, or one check over its registry (`deps` twice at once) with a person editing | the refinement of `AtomicFiles`, genuine hits, and that only a race undoes another's work |
| `own_contract` | two runs of each scene: every check alone, or with what it depends on | a pass rests on what the tools said in this run, but for the cases named below |
| `handlers_lifetime` | as `run_checks` | a documented property the code violates |
| `whole_tree` | 1 check | another |
| `star_exports` | as `affected`, with barrels whose `export *` changes | another |
| `stale_report` | the mutation check, two runs | another |

The bounds. Four items are the least with a diamond, with two items becoming
ready in one step, and with a cycle beside an item outside it; limits on both
sides of the number of ready items make the queue and the bound bite. Five items
with two or three loops let a loop take, drop and return after a sibling's
rejection. Three checks give an isolated check something before and after it,
and a fail-fast skip a cause and a bystander; a `dependsOn` that an isolated check
between or at its ends implies anyway adds no edge, and such configurations are
left out. Two process calls are enough for
one to be queued or settled while the other ends; the host's behaviour depends
on whether any handle is active, not on how many. Two runs are what it takes for
one to leave logs, queued writes or strays to another, and two checks for
policies to settle out of order and for one log to be the wrong one; `Backlog`
bounds the writes the first run may leave queued to one, which is enough for
any operation of it, a verdict included, to be worked off during the second.

In `affected` a leaf `A` changes in eleven ways (a helper, two names, a statement, a helper a statement uses,
an export's target, an export withdrawn, only comments, a bare import, a dynamic
load, deleted, added), `B` imports it in each of ten forms, and a test imports
`B`, or `C` over `B`, in each of the forms tests have; `C` also reads `A` directly,
so that a fact is found again nearer, and `B` and `C` import each other. Renames,
reads that fail, files that do not parse, and paths that are no modules come as
single repositories. Which item of a batch goes first is open in the two
repositories where it could matter most (`FreeRepos`); elsewhere it is fixed,
for the number of states. Three reports suffice for two shards to be complete,
to lack one, or to have one twice. Repositories whose changed module cannot be
read are checked; one whose *unchanged* module cannot be read is outside
`NothingNeededIsSkipped` (`Blind`), since nothing then tells the analysis of it;
those with a changed `export *` under a test that binds a name are in
`star_exports` instead.

In `shared_files` two runs may want one entry, or two that differ in the tools
only; the clock ticks once, so an entry is new or old; a person makes one edit
at any time. The inputs of a check do not change between the key and the
computation: the caller gives both. One kind of check
(`deps`) runs twice at once; the two runs of any other would meet the same file by
the same operations.

In `own_contract` two runs are what it takes to find the first one's files. In a
scene two tools at most fail over both runs, and in each run one or two find
anything but sound; the one scene with six checks (`crap`, which needs coverage
and the three test categories) gets one of each, and in the scorecard's, which comes
with five sets of facts, one tool fails. The sets of facts cover every
branch of the scorecard.

The four violations are disagreements between the repository's words and its
code, quoted in `PROJECT.json`: the handlers are taken away while checks run when
a spawn throws on the graph path; a descendant that survives SIGTERM without
holding the stdio outlives the check; a test that imports a name through an
`export *` that was pointed at another module is not selected; `mutation` passes on
the report of an earlier run when its own process ends before Stryker has written
one, although `scripts/run-mutation.mjs` says its evidence is always fresh. The
passing `spawn_check` run says what does hold: escalation is never lost while the
promise is open (`GraceIsBounded`), and the check settles when its descendants
stay in its group (`CancelledChecksSettle`). `PassMeansExamined` says what holds
of report files: when the tools got to deliver, the verdict is about this run. It
names what the policies let pass all the same: `Overlooked`, documents a policy does
not tell from one that shows nothing, and `KilledButZero`, the two policies that take
the exit code of a killed process for its own. `ShardsLoseNothing` is about a merge of
reports that are shares of one list of targets, split by one set of timings; a report
does not say which list it is a share of, so of others the merge can promise nothing.

### Observed while modelling, with no run

* The staleness of `mutation` is shared by every policy that reads a report file
  which its command does not remove first: `presets/test.ts:33`,
  `presets/duplication.ts:82`, `presets/markdownlint.ts:70`,
  `presets/security-secrets.ts:40`, `checks/size.ts:136`, the contract's own
  `arethetypeswrong` (when packing fails before the report is opened), and
  `checks/crap.ts:171`. `scripts/check-docs.mjs` removes its report first, and
  `scripts/run-test-category.mjs` uses a private file. `reports/` is ignored by git
  and not removed by `npm run clean`.
* The policies of the test categories, `mutation`, `coverage`, `lint` and others do not
  look at the exit code or the status, only at the document; `MustComplete` names
  those that do.
* A tool that prints the JSON value `null` makes the policies of `license`,
  `coverage`, `crap`, `size`, `mutation` and the own `lint` throw, which ends the run
  with an error (`"threw"`).
* Policies that pass a document with entries of a shape they do not expect, such as
  `[{}]`: the own `lint` (`checks/lint.ts:109-128`), `presets/lint.ts`, `stylelint.ts`,
  `dead-code.ts`, `broken-links.ts` and `security-secrets.ts`, and
  `checks/accessibility.ts` and `size.ts`. Both `arethetypeswrong` pass an object
  without their container, too (`Overlooked`).
* A build that is killed, by its timeout or by the host, answers the signal and exits
  with 0 passes (`checks/build.ts:18`), and so does the schema generator when its files
  are there (`checks/schema.ts:16`): both look at the exit code alone
  (`KilledButZero`).
* `specs/architecture.md:207-212` gives the status of a check by the priority aborted,
  timed out, terminated by the host. The code tests the host's kill first
  (`execution/spawn-check.ts:492-501`), and by the document a check that the host
  killed, after the host aborted the run, would read `aborted`. The model follows the
  code.
* Line 214 there says that `spawn_error` means that no pid was ever obtained. A process
  that refuses a kill (`EPERM`) reads `spawn_error` too, while it runs on, and its
  escalation stays armed after the promise has settled (`NothingArmedAfterSettle` and
  `OwnKillsAreOwned` say exactly that much).
* A shard report left over from an earlier plan of as many shards can stand in for a
  lost one: nothing in a report tells its plan (`affected/shard.ts:151-177`).
* `adr-governance` reads a git that fails as nothing changed, as
  `scripts/diff-files.ts:120-124` says.
* The `warn` of `checks/openssf-scorecard.ts` cannot come about: four of the
  practices are always scored.
* `suppression-governance`, `schema` and `api-docs-report` read the sources while
  `lint --fix` may rewrite them; a comment in `repo-contract.config.ts` says a
  reader must never race a rewrite.
* The `expires` of a version 2 exception record is validated and never enforced.
* A worker that a rejected run left in flight writes its evidence among the logs
  of the next run (`StrayLogged`); a descendant in another process group that
  holds the stdio keeps a check's promise open (`Descendants`).

## Fairness

Promise continuations and timers run (the event loop), so the schedulers' call
and each worker's end are weakly fair; nothing says which way a worker ends. In
`RunChecks` a process ends, which is an assumption there; `SpawnCheck` discharges
as much of it as the code guarantees, and there a process ends only when a signal
it cannot survive has been sent: no fairness on `RootExits` or `ChildExits`.
Aborts and signals are never fair: nobody has to send them. `SelfTerminates`
waits for the escalations because 2250 ms end after the 2000 ms armed in the same
callback; that is the only use of time. In `LoggedRuns` schemas, policies and
file operations settle, one way or another: a policy that never settles hangs the
run, for which the code has no timeout. Strays need not end, and runs need not
begin. In `AffectedRun` collecting and analysing are one promise chain and weakly
fair; whether a CI job ever starts is not the program's, so jobs and merges have
no fairness. `SharedDirectory` and `OwnContract` state only safety, and assume
none: any process may stop for good at any step.

## Proofs

What the runs check on small instances the `*_proofs` modules prove for every
value of the constants: every number of checks, loops, runs, processes and files,
every graph, configuration, tree and set of facts the assumptions admit. Each
module has the same shape: an invariant `IInv`, stated part by part, which holds
initially and is preserved by every action (`Inductive`, one step per action);
the properties of the runs, which follow from it (`TypeCorrect` and the others);
and, where there is one, the action property or the refinement, step by step. No
property but a few type invariants is inductive alone: the properties speak of
what a reader cares about, the actions of counters, queues, timers and files, and
`IInv` says how the two hang together.

* **`DependencyScheduler_proofs`.** `remaining[j]` is the number of `j`'s unsettled
  dependencies, `settled` and `active` are cardinalities (`CountersOK`); the queue
  holds exactly the waiting items whose dependencies all settled, once each
  (`QueueOK`); what has left waiting had its dependencies settled (`OrderOK`); a
  pending promise has a worker and a full or exhausted queue (`OutcomeOK`); no
  item of a cycle ever starts (`CyclesWait`). From it: `NoIdleSlot`,
  `StallMeansCycle`, `PendingHasWorker` (a pending promise has something to settle
  it), that a validated graph never stalls, and the refinement of `RunOrder`.
  `NoOvertaking` takes an invariant of its own about the queue (`InOrder`): an item
  that could overtake an earlier one has it ahead of itself.
* **`ConcurrencyPool_proofs`.** The loops that have not returned are as many as the
  workers in flight (`LoopsOK`), and the iterator has passed exactly the items that
  started (`IteratorOK`): hence `AnswersOnlyWhenQuiet` and the refinement of
  `RunOrder` without dependencies.
* **`RunChecks_proofs`** takes over the invariant of whichever scheduler the
  configuration selects, by `INSTANCE` of their proof modules, and adds that the
  worker calls follow it (`CallsOK`), that the fail-fast flag is set by a cheap
  failure and nothing else (`FlagOK`), and that an expensive check has not started,
  or was skipped, when a cheap one it depends on has failed (`GuardedOK`). From it:
  `IsolationBarrier`, `DependsOnFinished`, `FailFastIsExact`, that processes never
  outnumber the concurrency (`Parallelism`), and that a run which resolves has
  evidence of every check (`ReportIsComplete`).
* **`SpawnCheck_proofs`.** A listener lives as long as its promise is open, a handle
  as long as there is a process too, and only such a check, or one whose process has
  refused a kill, has an escalation to come (`ArmedOK`); what was signalled is what the reasons and the host's kills
  account for (`KillsOK`); a host on its way out has killed every handle
  (`HostOK`); whoever was signalled is about to be killed or has no process left in
  its group (`GraceOK`); evidence names what happened (`EvidenceOK`). A settled check
  has nothing armed but, behind a kill its process refused, that one escalation
  (`Disowned`). The four properties follow, and `NoLateKill`: no step signals a tree
  whose check has settled, but for the SIGKILL of that escalation.
* **`LoggedRuns_proofs`.** The checks of a run move through its phases together
  (`PhasesOK`), and the queue foretells the folder (`LogInv`): the last queued
  operation on a check's file, or the file itself when there is none, leaves what the
  run has come to, unless a stray of an earlier run has written (`intruded`). From
  it: faithful verdicts, phases that never overlap, and logs that tell the last run.
* **`SharedDirectory_proofs`.** Files hold whole contents, and nobody has two
  temporary files (`FilesOK`, `OneTempEach`); a run has no value but that of its
  own world (`RunsOK`), a keeper removes only what it read to be beyond its limits
  (`KeepersOK`), a check holds, at each of its steps, what its tool made of the tree
  and what the registry it loaded makes of that (`CheckersOK`, `TempsOK`); what stands
  in a record somebody has put there (`ApprovedOK`). From it: `HitsAreGenuine` (with
  `ReleasesAreFull`: a release has no cache), `OnlyRacesLose`, the refinement of
  `AtomicFiles`, and `NoVerdictWithoutApproval`, for which `PassIsSound` carries a
  verdict back through the rules of the eight checks. `StrictestIsReduced` shows that
  the model's closed form of the strictest policy is what the code's reduction, one
  rule after another, comes to.
* **`OwnContract_proofs`.** What may be chosen has its form (`SettingOK`); a process
  has reached the stage its record says, with the answer, the output and the report
  that the stage, its tree and its end allow (`StageOK`, `AnswerOK`); a report file
  is this run's or one that an earlier run can have left (`ReportOK`); a verdict is
  what the policy says of what is there (`JudgedOK`). `PassMeansExamined` then goes
  through the policies one by one, over the closure of "depends on", and
  `AverageInRange` shows that the scorecard's weighted average lies between 0 and 10.
  That is a statement about a fold over a set, and is proved by a smallest subset
  that would violate it (`SubsetInduction`), since induction theorems over an
  operator are out of this prover's reach.
* **`AffectedRun_proofs`.** Every known fact and affected file has a cause: the
  change, an unreadable load, or a known fact no farther away (`KnownOK`,
  `ReachedOK`); what waits in the queue is known at the queued distance or nearer
  (`WorkOK`). A fact that was found again nearer leaves
  what was told from it out of date, and is itself back on the queue: what a fact
  leads to is known and near enough, but for the facts that wait (`ClosedOK`). With
  the queue empty this is `DistancesAreShortest`. Explanations need more, since
  facts of one file are equally far: the facts at one distance can be ranked in the
  order in which they got there, a cause before what it led to (`RankOK`).
  Along a chain distance or rank falls, so no fact is repeated, and as there are
  finitely many facts (`EventsFinite`) the chain ends (`ExplanationEnds`), at the
  change or at a load: `ExplanationsReachTheChange`. For `ShardsLoseNothing`
  (`PlanFacts`) every round of the placement puts one target more into exactly one
  bin, and as many different shards in range as the plan has are all of them
  (`OneOfEach`). The recursions here are recursive functions: `RecursionExists`
  shows that one with a step function exists, and `Counting` is the induction over
  a set of numbers that says what it comes to.

  That the analysis is exact needs the requirements in another form. `Readers` is a
  recursion over sets of facts; `ReadersAre` shows, by counting the facts that are
  not yet in, that it comes to the least set closed under the reading relation. What
  a fact's handler tells is what reads it (`WithinReads`, `AcrossReads`), and what
  reads it is told (`ReadersAcrossAreTold`), inside a module with one exception: a
  name the module only passes on (`ReadersWithinAreTold`). What git says makes the
  seeds the facts that the change makes (`ToldByGit`, `SeedsAreTheChange`). The
  invariant (`NarrowOK`) says that what is known at no distance follows from the
  change inside its module, what is reached at one reads that directly, and what is
  known lies in a reached, a changed or an opaque file. At the end of the queue the
  known facts are closed, so they contain the least closed set: `NothingSkipped`
  where `StarGaps` and `TestGaps` are empty, `TargetsDirect` where `StarGaps` is, and
  `PlainlyFollowed` for modules that pass names on and do nothing else. Neither
  hypothesis can go. `star_exports` is the counterexample for the first: a barrel that
  counts as changed in every export, for whatever reason, tells the importers of the
  names it has and not of those it passes on (`onAll`). For the second, let a test load
  code dynamically and another test import it: the first runs on any change, but
  `widenForDynamicLoads` emits nothing for it, so the second is not selected, where the
  decision record treats such a module as affected by any change.

The assumptions are about the constants only: their types (`SchedulerAssumption`,
`PoolAssumption`, `ConfigsAssumption`, `PipelineAssumption`, `WorldsAssumption`,
`TreesAssumption`, `ContractAssumption`, `ScenesAssumption`, `FactsAssumption`,
`GraphAssumption`, `RunAssumption`, `ReposAssumption`), that git tells of every path
of a diff what became of it (`GitAssumption`: a path that can be read is there by some
change, and one that had a module before was modified, deleted or renamed), that files and names are
finitely many and that `NameOrder` lists the files, that
the directory's files are finitely many and that a registry or an entry has its
name in it (`OneDirectory`), and that the marks for "nothing" are no value of
something (`FileMarks`, `LogMarks`). TLC evaluates each in every run that uses it.

Only model-checked: liveness (`EveryRunAnswers`, `EveryCheckIsReported`,
`CancelledChecksSettle`, `RunsAndFlushesEnd`, `EveryRunConcludes`), with fairness and
ENABLED, which this prover does not reach. The safety halves are proved where there
are any (`PendingHasWorker`, `ReportIsComplete`, `GraceIsBounded`).
`NothingNeededIsSkipped` and `MutationTargetsAreDirect` hold in every repository of
the `affected` run, some of which have gaps; the theorems claim them where there is
none.

## Not modelled

The Windows branch of `killTree` (no signals there, `taskkill` at once); output
capture and its truncation; command tokenising and the child's environment; the
clamp of long timeouts; hooks
other than the logs', which `notify` isolates; the class of the error a failed
policy or parse becomes; the text of a log.

Parsing of source text and module resolution (the compiler's), `tsconfig.ts` and
`artifacts.ts`; `stats` and `why` of the cache, which only read; `memo.ts`, a map in
one process; `doctor.ts`, `canary.ts` and `config.ts`, which read one file and
report on it. The parsers inside the scanners: a finding is what its registry
and policy tell apart. Field-by-field validation of a configuration and command
tokenising. Metrics and reporting, which format what a run returned. Glob
matching: whether a pattern matches a category is a parameter (`Globs`) of
`ExceptionPolicy`. The checks under `packages/` (api-contract, api-docs-report,
ambient-capabilities, agent-skill), and the command lines that write files once
(init, doctor, metrics).

## Plan

1. Scheduler, pool, run checks, spawn check: done, in that order, since every
   guarantee of the later phases rests on them.
2. `RunPipeline`, `ContractLogs` and `LoggedRuns`: done. Left: an abstract
   specification of a run, whose verdict is a function of what the policies
   returned, for `RunPipeline` to refine.
3. The affected family, the shared files and the own contract: done.
4. Proofs of the scheduler, the pool, run checks, spawn check, the logged runs, the
   shared directory, the own contract and the affected analysis: done.
5. The analysis is exact but for the two gaps. Were the code to close them, by telling
   the importers of passed-on names in `onAll` and by emitting an opaque test like an
   opaque source, the model would follow it, and the theorems should be proved anew
   without `StarGaps` and `TestGaps`.
