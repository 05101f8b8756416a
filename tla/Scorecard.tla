------------------------------ MODULE Scorecard ------------------------------
(***************************************************************************)
(* What scripts/openssf-scorecard makes of a repository: a score from 0 to *)
(* 10, or none, for each of thirteen practices, and their weighted         *)
(* average.                                                                *)
(*                                                                         *)
(* `f` records the facts the script looks up.  Those it asks GitHub for    *)
(* come with the answer of the gh command: "no gh", "signed out" (not      *)
(* authenticated), "missing" (404), "failed", "garbled" (no JSON) or       *)
(* "answered".                                                             *)
(***************************************************************************)
EXTENDS Integers, FiniteSets, FiniteSetsExt

NotApplicable == -1
Scores == 0..10

SpawnGhApi(answer) ==
  CASE answer \in {"no gh", "signed out"} -> "unavailable"
    [] answer = "missing"                 -> "not-found"
    [] answer = "failed"                  -> "error"
    [] OTHER                              -> "ok"

GhApiJson(answer) == IF answer = "garbled" THEN "error" ELSE SpawnGhApi(answer)
GhApiRaw(answer)  == SpawnGhApi(answer)

Points(holds, points) == IF holds THEN points ELSE 0

EvaluateLicense(f, spdx) ==
  IF spdx THEN 10 ELSE Points(f.licenseFile, 6)

EvaluateSecurityPolicy(f) ==
  IF ~ f.policyFile THEN 0
  ELSE IF f.contact /\ f.mentions >= 2 THEN 10 ELSE 6

(* Math.round of ten times the pinned share. *)
EvaluatePinnedDependencies(f) ==
  LET uses == f.pinned + f.unpinned
  IN  IF ~ f.workflows \/ uses = 0
      THEN NotApplicable
      ELSE (20 * f.pinned + uses) \div (2 * uses)

EvaluateTokenPermissions(f) ==
  IF ~ f.workflows THEN NotApplicable
  ELSE IF f.undeclared = 0 THEN 10 ELSE Points(f.jobLevel, 5)

EvaluateDangerousWorkflow(f) ==
  IF ~ f.workflows THEN NotApplicable ELSE Points(~ f.spliced, 10)

EvaluateCiTests(f) == Points(f.ciOnPullRequest /\ f.ciTests, 10)
EvaluatePackaging(f) == Points(~ f.private, 10)

EvaluateBranchProtection(f) ==
  CASE GhApiJson(f.protection) = "not-found" -> 0
    [] GhApiJson(f.protection) = "ok" -> Points(f.reviews >= 1, 3) + Points(f.dismissStale, 2)
                                           + Points(f.admins, 3) + Points(f.contexts, 2)
    [] OTHER                                 -> NotApplicable

EvaluateCodeReview(f) ==
  CASE GhApiJson(f.protection) = "not-found" -> 0
    [] GhApiJson(f.protection) = "ok"        -> Points(f.reviews >= 1, 10)
    [] OTHER                                 -> NotApplicable

SpawnNpmProvenanceCheck(f) == f.provenance

EvaluateSignedReleases(f) ==
  IF GhApiJson(f.releases) # "ok" \/ f.released = 0 THEN NotApplicable
  ELSE IF f.signed = f.released THEN 8
  ELSE Points(SpawnNpmProvenanceCheck(f), 9)

EvaluateContributors(f) ==
  IF GhApiJson(f.people) # "ok" THEN NotApplicable ELSE Points(f.humans >= 3, 10)

EvaluateMaintained(f) ==
  IF GhApiJson(f.meta) # "ok" THEN NotApplicable
  ELSE IF f.archived THEN 0
  ELSE IF f.ageDays < 90 THEN NotApplicable
  ELSE CASE f.idleDays <= 7  -> 10
         [] f.idleDays >= 77 -> 0
         [] OTHER            -> 10 - f.idleDays \div 7

(* Without the repository's own record, nothing is asked about it. *)
RunScorecard(f) ==
  LET known == GhApiJson(f.meta) = "ok"
      asked(score) == IF known THEN score ELSE NotApplicable
  IN  [License             |-> EvaluateLicense(f, known /\ f.spdx),
       SecurityPolicy      |-> EvaluateSecurityPolicy(f),
       PinnedDependencies  |-> EvaluatePinnedDependencies(f),
       TokenPermissions    |-> EvaluateTokenPermissions(f),
       DangerousWorkflow   |-> EvaluateDangerousWorkflow(f),
       CiTests             |-> EvaluateCiTests(f),
       Packaging           |-> EvaluatePackaging(f),
       BranchProtection    |-> asked(EvaluateBranchProtection(f)),
       CodeReview          |-> asked(EvaluateCodeReview(f)),
       SignedReleases      |-> asked(EvaluateSignedReleases(f)),
       Contributors        |-> asked(EvaluateContributors(f)),
       Maintained          |-> asked(EvaluateMaintained(f))]

(* From the evidence of security-deps in the same run, however it ended.   *)
(* Counts that are not all there do not sum to zero.                       *)
EvaluateVulnerabilities(audit) ==
  IF audit.form \notin {"report", "hollow"}
  THEN NotApplicable
  ELSE Points(audit.form = "report" /\ "bad" \notin audit.has, 10)

(***************************************************************************)
(* Both upstream files must be readable; a practice whose risk has no      *)
(* weight is left out, and counts 1.                                       *)
(***************************************************************************)
ParseRiskLevels(f)     == f.risks
ParseRiskWeightTable(f) == f.riskWeights

FetchScorecardWeights(f) ==
  IF \/ GhApiRaw(f.checksYaml) # "ok" \/ f.checksYaml = "garbled"
     \/ GhApiRaw(f.goSource) # "ok" \/ f.goSource = "garbled"
  THEN [known |-> FALSE, weights |-> [p \in {} |-> 1]]
  ELSE LET risks == ParseRiskLevels(f)
           table == ParseRiskWeightTable(f)
       IN  [known   |-> TRUE,
            weights |-> [p \in {q \in DOMAIN risks : risks[q] \in DOMAIN table}
                           |-> table[risks[p]]]]

WeightOf(weights, practice) ==
  IF practice \in DOMAIN weights THEN weights[practice] ELSE 1

Evaluated(results) == {p \in DOMAIN results : results[p] # NotApplicable}

(* The average as a fraction: its two sums. *)
ComputeWeightedAverage(results, weights) ==
  [points  |-> MapThenSumSet(LAMBDA p : results[p] * WeightOf(weights, p), Evaluated(results)),
   outOf   |-> MapThenSumSet(LAMBDA p : WeightOf(weights, p), Evaluated(results))]
=============================================================================
