------------------------------ MODULE OwnChecks ------------------------------
(***************************************************************************)
(* The checks this repository runs on itself (src/checks) that keep no     *)
(* registry of exceptions: the scripts that turn a tool's answer into      *)
(* evidence, and the policies that read it.                                *)
(*                                                                         *)
(* A tool's answer is "honest" (it examined the tree and says so), "half"  *)
(* (its document was cut short), "odd", "hollow" or "alien"; a tool that   *)
(* died gave "none".  alien is the JSON value null.                        *)
(***************************************************************************)
EXTENDS Presets, Scorecard

Answers == {"honest", "half", "odd", "hollow", "alien", "none"}

DocumentOf(answer, truth) ==
  CASE answer = "honest" -> truth
    [] answer = "none"   -> Nothing
    [] answer = "half"   -> Blank("broken", truth.of)
    [] OTHER             -> Blank(answer, truth.of)

Refusal(truth) == Blank("refusal", truth.of)

---------------------------------------------------------------------------
(* scripts/: what each prints, given what its tool answered. *)

(* run-test-category: whatever report Vitest left in its temporary file. *)
RunTestCategory(leftBehind) == leftBehind

(***************************************************************************)
(* aggregate-coverage merges the files the categories wrote, and throws    *)
(* when one is missing or no JSON; `kinds` is what the merged coverage     *)
(* shows.                                                                  *)
(***************************************************************************)
AggregateCoverage(sources, kinds) ==
  IF \E s \in sources : ~ IsShaped(s)
  THEN Nothing
  ELSE Report(UNION {s.of : s \in sources}, kinds)

CheckCoverage(sources, kinds) == AggregateCoverage(sources, kinds)

(* check-lint: a tool whose output is no JSON is reported as not ok. *)
RunJsonTool(answer, truth) ==
  IF answer \in {"none", "half"} THEN Refusal(truth) ELSE DocumentOf(answer, truth)

CheckLint(answer, truth) == RunJsonTool(answer, truth)

(* check-architecture: dependency-cruiser's summary, the boundaries, the ADRs. *)
RunDependencyCruiser(answer) == answer \in {"honest", "hollow"}
CheckArchitecture(answer, truth) ==
  IF RunDependencyCruiser(answer) THEN DocumentOf(answer, truth) ELSE Refusal(truth)

(* check-accessibility: without a browser it says so, and exits 0. *)
CheckAccessibility(answer, truth, chrome) ==
  IF ~ chrome THEN Blank("unavailable", truth.of)
  ELSE IF answer \in {"honest", "hollow"} THEN DocumentOf(answer, truth)
  ELSE Refusal(truth)

(* lint.mjs: no array is a failure, and any element of one a finding. *)
LintWorkflows(answer, truth) ==
  IF "sound" \notin truth.has THEN Report(truth.of, {})     \* no workflow file
  ELSE CASE answer = "honest" -> truth
         [] answer = "hollow" -> Report(truth.of, {"sound", "bad"})
         [] OTHER             -> Refusal(truth)

ValidateSbomDocument(document) == HasContainers(document)
RunCycloneDxNpm(answer) == answer # "none"
GenerateSbom(answer, truth) ==
  IF RunCycloneDxNpm(answer) /\ ValidateSbomDocument(DocumentOf(answer, truth))
  THEN truth
  ELSE Refusal(truth)

(* git that fails (an unknown base) reads as nothing changed. *)
ListChangedFiles(answer, truth) ==
  IF answer = "honest" THEN truth.has ELSE {}

(* "bad": a governed file changed and no decision record is named. *)
RunAdrGovernanceCheck(answer, truth) ==
  Report(truth.of, ListChangedFiles(answer, truth))

(* What a check prints on its standard output. *)
Printed(check, answer, truth, chrome) ==
  CASE check = "lint"           -> CheckLint(answer, truth)
    [] check = "architecture"   -> CheckArchitecture(answer, truth)
    [] check = "accessibility"  -> CheckAccessibility(answer, truth, chrome)
    [] check = "github-actions" -> LintWorkflows(answer, truth)
    [] check = "sbom"           -> GenerateSbom(answer, truth)
    [] check = "adr-governance" -> RunAdrGovernanceCheck(answer, truth)
    [] check = "license" /\ answer = "honest" /\ "bad" \notin truth.has -> Nothing
    [] OTHER                    -> DocumentOf(answer, truth)

---------------------------------------------------------------------------
(* checks/: the policies. *)

RequireParsedOutput(document) == IsJson(document)

(* A property of null, or a method of what is no array, throws. *)
OrThrew(document, throwing, otherwise) ==
  CASE ~ RequireParsedOutput(document) -> "fail"
    [] document.form \in throwing      -> "threw"
    [] OTHER                           -> otherwise

EvaluateCoveragePolicy(document) ==
  OrThrew(document, {"alien"},
          Verdict(~ IsShaped(document) \/ Finds(document, {"bad"}), FALSE))

EvaluateCrapPolicy(document) ==
  OrThrew(document, {"alien"},
          Verdict(~ IsShaped(document) \/ Finds(document, {"bad"}), FALSE))

Crap(e) == IF e.status # "completed" THEN "fail" ELSE EvaluateCrapPolicy(e.report)

(* "sound": every file with a budget was there to be measured.  A size that *)
(* is missing, and not null, exceeds no budget.                             *)
EvaluateSizePolicy(document) ==
  Verdict(\/ ~ HasContainers(document)
          \/ Finds(document, {"bad"})
          \/ IsShaped(document) /\ ~ Finds(document, {"sound"}),
          FALSE)

Size(e) == OrThrew(e.report, {"alien"}, EvaluateSizePolicy(e.report))

Schema(e) == Verdict(e.exit # 0 \/ ~ IsShaped(e.report), FALSE)

EvaluateArchitecturePolicy(document) ==
  OrThrew(document, {"alien", "odd"},
          Verdict(document.form = "refusal" \/ Finds(document, {"bad"}),
                  IsHollow(document) \/ Finds(document, {"mild"})))   \* no severity: no error

EvaluateLintPolicy(document) ==
  OrThrew(document, {"alien", "odd"},
          Verdict(document.form = "refusal" \/ Finds(document, {"bad"}), FALSE))

Accessibility(e) ==
  OrThrew(e.out, {"alien", "odd"},
          Verdict(e.out.form = "refusal" \/ Finds(e.out, {"bad"}),
                  e.out.form = "unavailable" \/ Finds(e.out, {"mild"})))

GetAdrGovernanceDeterminant(document) ==
  CASE Finds(document, {"bad"})           -> "unsatisfied"
    [] ~ Finds(document, {"mild", "bad"}) -> "nothing-governed-changed"
    [] OTHER                              -> "adr-touched or referenced"

EvaluateAdrGovernancePolicy(document) ==
  OrThrew(document, {"alien", "odd"},
          Verdict(GetAdrGovernanceDeterminant(document) = "unsatisfied", FALSE))

Build(e) == Verdict(e.exit # 0, FALSE)

EvaluateGitHubActionsPolicy(document) ==
  OrThrew(document, {"alien", "odd"},
          Verdict(\/ document.form = "refusal"
                  \/ Finds(document, {"sound"}) /\ Finds(document, {"mild", "bad"}),
                  FALSE))

Sbom(e) == OrThrew(e.out, {"alien"}, Verdict(~ IsShaped(e.out), FALSE))

TestCategory(e) == EvaluateVitestJsonPolicy(e.out)

(* The contract's own arethetypeswrong looks at the report file alone. *)
ArethetypeswrongToFile(e) ==
  IF ReadJsonReport(e.report) THEN EvaluateAttwReport(e.report) ELSE "fail"

(***************************************************************************)
(* mutation: "mild" is a mutant ignored by a comment, which the registry   *)
(* of suppressions must account for in this very run; "bad" one that       *)
(* survived, was not covered, timed out, or was ignored for no known       *)
(* reason.                                                                 *)
(***************************************************************************)
MutantsReported(report) == IsShaped(report) /\ Finds(report, Kinds)
FailingMutants(report)  == Finds(report, {"bad"})

StrykerSuppressionGateFailure(report, suppressions) ==
  /\ Finds(report, {"mild"})
  /\ ~ IsShaped(suppressions) \/ Finds(suppressions, {"bad"})

(* The registry's evidence is read before any outcome is decided. *)
Mutation(e) ==
  OrThrew(e.report, {"alien"},
          IF Finds(e.report, {"mild"}) /\ e.needs.form = "alien"
          THEN "threw"
          ELSE Verdict(\/ ~ MutantsReported(e.report)
                       \/ FailingMutants(e.report)
                       \/ StrykerSuppressionGateFailure(e.report, e.needs),
                       FALSE))

(* The scorecard is written, and the check passes, whatever the scores are. *)
OpenssfScorecard(e, results) ==
  OrThrew(e.out, {"alien", "odd"}, Verdict(FALSE, Evaluated(results) = {}))
=============================================================================
