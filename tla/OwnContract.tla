----------------------------- MODULE OwnContract -----------------------------
(***************************************************************************)
(* The contract this repository holds itself to (repo-contract.config.ts): *)
(* its own checks, with the published presets among them and beside them,  *)
(* run one after another on a working tree that may differ from run to     *)
(* run, with tools that may answer nonsense, die, or be killed.            *)
(*                                                                         *)
(* A run spawns the selected checks in the order that dependsOn and        *)
(* isolated leave open, and then lets every policy judge.  Report files    *)
(* stay on disk from one run to the next.                                  *)
(***************************************************************************)
EXTENDS OwnChecks, Sequences, SequencesExt, TLC

CONSTANTS
  Scenes,                   \* what a user may ask for, see below
  Trees,                    \* what there may be for a tool to find
  Facts,                    \* what the scorecard may find out
  MaxRuns                   \* bound: runs of the command

(* A scene is the checks asked for, with two bounds: how many tools fail   *)
(* over all runs, and how many find something else than "sound" in one.    *)
ASSUME ContractAssumption ==
  /\ \A scene \in Scenes : scene.faults \in Nat /\ scene.unsound \in Nat
  /\ Trees \subseteq SUBSET Kinds /\ {"sound"} \in Trees
  /\ MaxRuns \in Nat \ {0}

(* What is counted is counted, and upstream publishes positive weights.    *)
ASSUME FactsAssumption ==
  \A f \in Facts :
    /\ f.pinned \in Nat /\ f.unpinned \in Nat /\ f.idleDays \in Int
    /\ \A risk \in DOMAIN f.riskWeights : f.riskWeights[risk] \in Nat \ {0}

---------------------------------------------------------------------------
(* The checks object, without the packages' own checks and the keepers of  *)
(* registries, and the presets it does not use.                            *)
Declared ==
  <<"suppression-governance", "sbom", "lint", "format", "schema", "build", "typecheck",
    "test-unit", "test-integration", "test-property", "architecture", "github-actions",
    "coverage", "crap", "test-e2e", "size", "duplication", "publint", "arethetypeswrong",
    "license", "accessibility", "security-deps", "security-secrets", "dist-no-urls",
    "adr-governance", "commitlint", "openssf-scorecard", "mutation">>

Published ==
  <<"presets/lint", "presets/dead-code", "presets/security-deps", "presets/arethetypeswrong",
    "test", "e2e", "markdownlint", "broken-links", "stylelint">>

AllChecks == ToSet(Declared) \cup ToSet(Published)

ASSUME ScenesAssumption == \A asked \in Scenes : asked.checks \subseteq AllChecks

DependsOn(c) ==
  CASE c = "format"                           -> {"lint"}
    [] c \in {"test-integration", "mutation"} -> {"suppression-governance"}
    [] c = "coverage"                         -> {"test-unit", "test-integration", "test-property"}
    [] c = "crap"                             -> {"coverage"}
    [] c = "openssf-scorecard"                -> {"security-deps"}
    [] OTHER                                  -> {}

Isolated == {"build", "test-unit", "test-integration", "test-property", "test-e2e", "mutation"}

(* The registry keepers' own verdicts are ExceptionChecks'. *)
Feeders == {"suppression-governance", "security-deps"}

Categories == {"test-unit", "test-integration", "test-property", "test-e2e"}
Measured   == DependsOn("coverage")

(* The checks whose tools leave a report file, which the policy reads. *)
FileJudged ==
  {"test", "duplication", "markdownlint", "security-secrets", "crap", "size", "schema",
   "arethetypeswrong", "mutation"}
Files == FileJudged \cup Measured \cup {"coverage"}

(* Scripts that catch what their tool does, and print one document at the end. *)
Scripts == {"lint", "architecture", "accessibility", "github-actions", "sbom", "adr-governance"}

(* The tools whose document may be something else than documented. *)
Documented ==
  (AllChecks \ {"coverage", "schema", "openssf-scorecard"})
     \ {"format", "typecheck", "commitlint", "build", "publint"}

(* The ones whose document has entries that may lack a field.  The registry's *)
(* keeper writes its own evidence, and git prints names.                      *)
Walked == Documented \ {"suppression-governance", "adr-governance"}

Configurable == {"presets/dead-code", "license", "dist-no-urls"}

(* A check pulls in what it depends on; the longest chain has three edges. *)
Pulled(checks) == checks \cup UNION {DependsOn(c) : c \in checks}
Closure(requested) == Pulled(Pulled(Pulled(requested)))

---------------------------------------------------------------------------
VARIABLES
  scene,                    \* what the user asks for
  options, chrome, facts,   \* how presets are called, and the machine
  tree,                     \* what there is for each tool to find in this run
  run,                      \* which run of the command this is
  process,                  \* what became of each check in this run
  reports,                  \* the report files on disk
  verdict,                  \* each policy's outcome, or "none"
  scorecard,                \* docs/OpenSSF-Scorecard.md
  faults                    \* the tools that failed so far

setting == <<scene, options, chrome, facts>>
vars == <<setting, tree, run, process, reports, verdict, scorecard, faults>>

Waiting ==
  [at |-> "waiting", status |-> "none", notFound |-> FALSE, exit |-> NoExit,
   answer |-> "none", left |-> Nothing, out |-> Nothing]

Stages == {"waiting", "running", "writing", "written", "done"}
Verdicts == {"none", "pass", "warn", "fail", "threw"}

selected == Closure(scene.checks)
Judged == selected \ Feeders

(* All that a run may find: something else than "sound" for a few checks.  *)
Few == {checks \in SUBSET selected : Cardinality(checks) <= scene.unsound}
Worlds ==
  UNION {{[c \in selected |-> IF c \in checks THEN finds[c] ELSE {"sound"}] :
            finds \in [checks -> Trees]} : checks \in Few}

NoScorecard == [run |-> 0, results |-> <<>>, known |-> FALSE, points |-> 0, outOf |-> 0]

Init ==
  /\ scene \in Scenes
  /\ options \in IF selected \cap Configurable = {}
                 THEN {"published"}
                 ELSE {"published", "overridden", "malformed"}
  /\ chrome \in IF "accessibility" \in selected THEN BOOLEAN ELSE {FALSE}
  /\ facts \in IF "openssf-scorecard" \in selected THEN Facts ELSE {CHOOSE f \in Facts : TRUE}
  /\ tree \in Worlds
  /\ run = 1
  /\ process = [c \in selected |-> Waiting]
  /\ reports = [f \in selected \cap Files |-> Nothing]
  /\ verdict = [c \in Judged |-> "none"]
  /\ scorecard = NoScorecard
  /\ faults = 0

---------------------------------------------------------------------------
(* Gathering the evidence. *)

Position(c) == CHOOSE i \in DOMAIN Declared : Declared[i] = c
Earlier(c) ==
  IF c \in ToSet(Declared)
  THEN {d \in selected \cap ToSet(Declared) : Position(d) < Position(c)}
  ELSE {}

WaitsFor(c) == DependsOn(c) \cup IF c \in Isolated THEN Earlier(c) ELSE Earlier(c) \cap Isolated

IsDone(c) == process[c].at = "done"

(* What a tool reads that other checks wrote. *)
Inputs(c) ==
  CASE c = "coverage" -> {reports[d] : d \in Measured}
    [] c = "crap"     -> {reports["coverage"]}
    [] OTHER          -> {}

Truth(c) ==
  CASE c = "coverage" -> CheckCoverage(Inputs(c), tree[c])
    [] c = "crap"     -> Report(reports["coverage"].of, tree[c])
    [] OTHER          -> Report({run}, tree[c])

Becomes(c, record) == process' = [process EXCEPT ![c] = record]
Writes(files, document) ==
  reports' = [f \in DOMAIN reports |-> IF f \in files THEN document ELSE reports[f]]
Fault == faults < scene.faults /\ faults' = faults + 1

Unjudged == UNCHANGED <<setting, tree, run, verdict, scorecard>>

Ends(c, status, exit, out) ==
  Becomes(c, [process[c] EXCEPT !.at = "done", !.status = status, !.exit = exit, !.out = out])

Launch(c) ==
  /\ process[c].at = "waiting"
  /\ \A d \in WaitsFor(c) : IsDone(d)
  /\ Becomes(c, [process[c] EXCEPT !.at = "running"])
  /\ UNCHANGED <<reports, faults>> /\ Unjudged

CannotStart(c) ==
  /\ process[c].at = "waiting"
  /\ \A d \in WaitsFor(c) : IsDone(d)
  /\ Fault
  /\ \E notFound \in BOOLEAN :
       Becomes(c, [process[c] EXCEPT !.at = "done", !.status = "spawn_error", !.notFound = notFound])
  /\ UNCHANGED reports /\ Unjudged

(***************************************************************************)
(* What the spawned tools do is theirs; these three actions are what every *)
(* one of them may do.  A tool has seen the tree, and opens its report for *)
(* writing: from then on, and be it for the time of one write, the file    *)
(* that an earlier run left is cut short.                                  *)
(***************************************************************************)
Examine(c) ==
  /\ process[c].at = "running"
  /\ \A d \in Inputs(c) : IsShaped(d)
  /\ Becomes(c, [process[c] EXCEPT !.at = "writing"])
  /\ Writes({c}, Blank("broken", {run}))
  /\ UNCHANGED faults /\ Unjudged

LacksInput(c) ==
  /\ process[c].at = "running"
  /\ \E d \in Inputs(c) : ~ IsShaped(d)
  /\ Ends(c, "completed", 1, Nothing)
  /\ UNCHANGED <<reports, faults>> /\ Unjudged

(***************************************************************************)
(* The report is complete, or the output printed.  A test category keeps   *)
(* the report in a temporary file until its tool has ended, and writes its *)
(* coverage beside it.                                                     *)
(***************************************************************************)
Deliver(c, answer) ==
  LET document == DocumentOf(answer, Truth(c)) IN
  /\ process[c].at = "writing"
  /\ \/ answer = "honest" /\ UNCHANGED faults
     \/ answer \in {"half", "odd", "alien"} /\ c \in Documented /\ Fault
     \/ answer = "hollow" /\ c \in Walked /\ Fault
  /\ IF c \in Categories
     THEN Becomes(c, [process[c] EXCEPT !.at = "written", !.answer = answer, !.left = document])
     ELSE Becomes(c, [process[c] EXCEPT !.at = "written", !.answer = answer,
                        !.out = IF c \in FileJudged THEN Nothing
                                ELSE Printed(c, answer, Truth(c), chrome)])
  /\ Writes({c}, IF c \in Measured THEN Truth(c) ELSE document)
  /\ Unjudged

Exit(c) ==
  /\ process[c].at = "written"
  /\ Ends(c, "completed", IF "bad" \in tree[c] THEN 1 ELSE 0,
           IF c \in Categories THEN RunTestCategory(process[c].left) ELSE process[c].out)
  /\ UNCHANGED <<reports, faults>> /\ Unjudged

(* What a program printed that stopped before its end. *)
CutShort(c) ==
  IF process[c].at = "writing" /\ c \notin Files \cup Categories \cup Scripts
  THEN Blank("broken", {run})
  ELSE Nothing

(* The tool dies; the script that runs it lives on and says so. *)
Die(c) ==
  /\ process[c].at \in {"running", "writing"}
  /\ Fault
  /\ \E exit \in IF c = "license" THEN {1, MissingExit} ELSE {1} :
       Ends(c, "completed", exit,
             CASE c \in Scripts    -> Printed(c, "none", Truth(c), chrome)
               [] c \in Categories -> RunTestCategory(process[c].left)
               [] OTHER            -> CutShort(c))
  /\ UNCHANGED reports /\ Unjudged

(***************************************************************************)
(* The check's own process is killed, at any point of its work.  A signal  *)
(* may end it, or it answers the signal and exits with a code of its own,  *)
(* which the evidence keeps.                                               *)
(***************************************************************************)
Kill(c, status) ==
  /\ process[c].at \in {"running", "writing", "written"}
  /\ Fault
  /\ \E exit \in IF status = "signaled" THEN {NoExit} ELSE {NoExit, 0, 1} :
       Ends(c, status, exit, IF process[c].at = "written" THEN process[c].out ELSE CutShort(c))
  /\ UNCHANGED reports /\ Unjudged

---------------------------------------------------------------------------
(* Judging it. *)

Evidence(c) ==
  [status   |-> process[c].status,
   notFound |-> process[c].notFound,
   exit     |-> process[c].exit,
   out      |-> process[c].out,
   report   |-> IF c \in FileJudged THEN reports[c] ELSE Nothing,
   needs    |-> CASE c = "mutation"          -> process["suppression-governance"].out
                  [] c = "openssf-scorecard" -> process["security-deps"].out
                  [] OTHER                   -> Nothing,
   options  |-> options]

Results(e) ==
  LET found == RunScorecard(facts)
  IN  [practice \in DOMAIN found \cup {"Vulnerabilities"} |->
         IF practice = "Vulnerabilities" THEN EvaluateVulnerabilities(e.needs) ELSE found[practice]]

Policy(c, e) ==
  CASE c = "sbom"                     -> Sbom(e)
    [] c = "lint"                     -> EvaluateLintPolicy(e.out)
    [] c = "format"                   -> Format(e)
    [] c = "schema"                   -> Schema(e)
    [] c = "build"                    -> Build(e)
    [] c = "typecheck"                -> Typecheck(e)
    [] c \in Categories               -> TestCategory(e)
    [] c = "architecture"             -> EvaluateArchitecturePolicy(e.out)
    [] c = "github-actions"           -> EvaluateGitHubActionsPolicy(e.out)
    [] c = "coverage"                 -> EvaluateCoveragePolicy(e.out)
    [] c = "crap"                     -> Crap(e)
    [] c = "size"                     -> Size(e)
    [] c = "duplication"              -> Duplication(e)
    [] c = "publint"                  -> Publint(e)
    [] c = "arethetypeswrong"         -> ArethetypeswrongToFile(e)
    [] c = "license"                  -> License(e)
    [] c = "accessibility"            -> Accessibility(e)
    [] c = "security-secrets"         -> SecuritySecrets(e)
    [] c = "dist-no-urls"             -> DistNoUrls(e)
    [] c = "adr-governance"           -> EvaluateAdrGovernancePolicy(e.out)
    [] c = "commitlint"               -> Commitlint(e)
    [] c = "openssf-scorecard"        -> OpenssfScorecard(e, Results(e))
    [] c = "mutation"                 -> Mutation(e)
    [] c = "presets/lint"             -> Lint(e)
    [] c = "presets/dead-code"        -> DeadCode(e)
    [] c = "presets/security-deps"    -> SecurityDeps(e)
    [] c = "presets/arethetypeswrong" -> Arethetypeswrong(e)
    [] c = "test"                     -> Test(e)
    [] c = "e2e"                      -> E2e(e)
    [] c = "markdownlint"             -> Markdownlint(e)
    [] c = "broken-links"             -> BrokenLinks(e)
    [] c = "stylelint"                -> Stylelint(e)

(* A mistake for the runs to notice: judging starts with the first end. *)
AllDoneMutant == \E c \in selected : IsDone(c)

AllDone == \A c \in selected : IsDone(c)
AllJudged == \A c \in Judged : verdict[c] # "none"

(* The scorecard's policy writes its document before it answers. *)
WritesScorecard ==
  /\ "openssf-scorecard" \in Judged
  /\ Policy("openssf-scorecard", Evidence("openssf-scorecard")) \in {"pass", "warn"}

Written ==
  LET results == Results(Evidence("openssf-scorecard"))
      fetched == FetchScorecardWeights(facts)
      average == ComputeWeightedAverage(results, fetched.weights)
  IN  [run |-> run, results |-> results, known |-> fetched.known,
       points |-> average.points, outOf |-> average.outOf]

Judge ==
  /\ AllDone
  /\ ~ AllJudged
  /\ verdict' = [c \in Judged |-> Policy(c, Evidence(c))]
  /\ scorecard' = IF WritesScorecard THEN Written ELSE scorecard
  /\ UNCHANGED <<setting, tree, run, process, reports, faults>>

(* Somebody edits the tree, and runs the command again. *)
RunAgain ==
  /\ AllDone /\ AllJudged
  /\ run < MaxRuns
  /\ run' = run + 1
  /\ tree' \in Worlds
  /\ process' = [c \in selected |-> Waiting]
  /\ verdict' = [c \in Judged |-> "none"]
  /\ UNCHANGED <<setting, reports, scorecard, faults>>

Next ==
  \/ \E c \in selected :
       \/ Launch(c)
       \/ CannotStart(c)
       \/ Examine(c)
       \/ LacksInput(c)
       \/ \E answer \in Answers : Deliver(c, answer)
       \/ Exit(c)
       \/ Die(c)
       \/ \E status \in {"timed_out", "aborted", "host_terminated", "signaled"} : Kill(c, status)
  \/ Judge
  \/ RunAgain

Spec == Init /\ [][Next]_vars

---------------------------------------------------------------------------
(* Stages, documents and verdicts have their forms, and nothing is judged  *)
(* before everything has ended.                                            *)
TypeOK ==
  /\ run \in 1 .. MaxRuns /\ faults \in 0 .. scene.faults
  /\ \A c \in selected :
       /\ process[c].at \in Stages
       /\ process[c].answer \in Answers
       /\ {process[c].out, process[c].left} \subseteq Documents(1 .. MaxRuns)
       /\ IsDone(c) <=> process[c].status # "none"
  /\ \A f \in DOMAIN reports : reports[f] \in Documents(1 .. MaxRuns)
  /\ \A c \in Judged : verdict[c] \in Verdicts
  /\ \A c \in Judged, d \in selected : verdict[c] # "none" => process[d].status # "none"

(* What a verdict rests on.  license passes on no output at all. *)
Basis(c) ==
  CASE c \in FileJudged                                                  -> reports[c]
    [] c = "license" /\ process[c].out = Nothing /\ process[c].exit = 0  -> Truth(c)
    [] OTHER                                                             -> process[c].out

(* Whose policy looks at how the process ended, and whose at its exit code. *)
MustComplete ==
  {"format", "typecheck", "commitlint", "crap", "license"}
    \cup {"duplication", "publint", "security-secrets", "dist-no-urls"}
    \cup ToSet(Published)

MustExitWithZero == {"format", "schema", "build", "typecheck", "commitlint", "publint"}

(***************************************************************************)
(* Two policies take the exit code of a process that was killed for its    *)
(* own: a build that answers the signal and exits with 0 passes, finished  *)
(* or not, and so does the schema generator when the files are there.      *)
(***************************************************************************)
KilledButZero(c) ==
  /\ c \in {"build", "schema"} /\ process[c].status # "completed" /\ process[c].exit = 0
  /\ c = "schema" => IsShaped(reports[c])

Blocking(c) ==
  CASE c \in {"markdownlint", "security-secrets", "github-actions"} -> {"mild", "bad"}
    [] c = "presets/dead-code" /\ options # "published"             -> {"mild", "bad"}
    [] c = "openssf-scorecard"                                      -> {}
    [] c = "sbom"                                                   -> {}
    [] OTHER                                                        -> {"bad"}

(* A run of nothing proves nothing. *)
Required(c) ==
  CASE c \in Categories \cup {"test", "size", "dist-no-urls"} -> {{"sound"}}
    [] c \in {"e2e", "mutation"}                              -> {Kinds}
    [] OTHER                                                  -> {}

(***************************************************************************)
(* What a policy does not tell from a report that shows nothing: without   *)
(* its container, or with entries that lack the field that decides.        *)
(***************************************************************************)
Overlooked(c, form) ==
  \/ form = "odd" /\ c \in {"arethetypeswrong", "presets/arethetypeswrong"}
  \/ form = "hollow" /\ c \in {"lint", "presets/lint", "stylelint", "presets/dead-code",
                               "broken-links", "security-secrets", "accessibility", "size"}

(* The check and all it rests on delivered in this run. *)
DeliveredNow(c) == \A d \in Closure({c}) : process[d].answer # "none"

Examined(c) ==
  LET basis == Basis(c)
  IN  /\ IsShaped(basis) \/ Overlooked(c, basis.form)
      /\ ~ Finds(basis, Blocking(c))
      /\ IsShaped(basis) => \A kinds \in Required(c) : Finds(basis, kinds)
      /\ c \in MustComplete => process[c].status = "completed"
      /\ c \in MustExitWithZero => process[c].exit = 0
      /\ DeliveredNow(c) => basis.of = {run}

(* Ignored mutants count only with the word of this run's registry. *)
SuppressionsVouched ==
  LET registry == process["suppression-governance"]
  IN  Finds(reports["mutation"], {"mild"}) =>
        /\ registry.answer = "honest"
        /\ "bad" \notin tree["suppression-governance"]

(* The scorecard of this run: its score for vulnerabilities is this run's  *)
(* audit, and its average one of scores from 0 to 10.                      *)
ScorecardStands ==
  /\ scorecard.run = run
  /\ scorecard.results.Vulnerabilities = 10 =>
       /\ process["security-deps"].answer = "honest"
       /\ "bad" \notin tree["security-deps"]
  /\ scorecard.points \in 0 .. 10 * scorecard.outOf /\ scorecard.outOf > 0

(***************************************************************************)
(* Whatever the tools answer, however they end, and whatever an earlier    *)
(* run left on disk: a check that passes rests on a document its tool      *)
(* finished, that shows nothing the check is there to block and something  *)
(* where nothing would prove nothing; when the tools it rests on got to    *)
(* deliver, on this run's documents; ignored mutants are vouched for by    *)
(* this run's registry, and the scorecard is this run's own.  What the     *)
(* policies let pass all the same is named above: documents they do not    *)
(* tell from empty ones, and two kinds of killed process.  (policies of    *)
(* src/presets and checks/, runPolicies after runChecks.)                  *)
(***************************************************************************)
PassMeansExamined ==
  \A c \in Judged : verdict[c] = "pass" =>
    /\ Examined(c) \/ KilledButZero(c)
    /\ c = "mutation" => SuppressionsVouched
    /\ c = "openssf-scorecard" => ScorecardStands

(***************************************************************************)
(* What run-mutation.mjs says of its evidence: that it always reflects a   *)
(* fresh analysis.  A run that ends before Stryker writes its report       *)
(* leaves the last one, and the policy reads that.                         *)
(***************************************************************************)
MutationEvidenceIsFresh ==
  "mutation" \in Judged /\ verdict["mutation"] = "pass" => reports["mutation"].of = {run}
=============================================================================
