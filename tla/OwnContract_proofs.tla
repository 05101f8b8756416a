-------------------------- MODULE OwnContract_proofs --------------------------
(***************************************************************************)
(* Proofs about OwnContract, for every set of scenes, trees and facts:     *)
(* that a check that passes rests on a document its tool finished.         *)
(***************************************************************************)
EXTENDS OwnContract, FiniteSetTheorems, TLAPS

(* The record of a process. *)
Records ==
  [at : Stages, status : Ended \cup {"none"}, notFound : BOOLEAN,
   exit : {NoExit, 0, 1, MissingExit}, answer : Answers,
   left : Documents(1 .. MaxRuns), out : Documents(1 .. MaxRuns)]

(* Everything has its form. *)
SettingOK ==
  /\ scene \in Scenes
  /\ run \in 1 .. MaxRuns
  /\ faults \in 0 .. scene.faults
  /\ tree \in [selected -> SUBSET Kinds]
  /\ process \in [selected -> Records]
  /\ reports \in [selected \cap Files -> Documents(1 .. MaxRuns)]
  /\ "openssf-scorecard" \in selected => facts \in Facts

(* The stages of a process. *)
StageOK(c) ==
  /\ process[c].at = "done" <=> process[c].status # "none"
  /\ process[c].at # "done" => process[c].exit = NoExit
  /\ process[c].at = "written" => process[c].answer # "none"
  /\ process[c].at \in {"waiting", "running", "writing"} =>
       process[c].answer = "none" /\ process[c].left = Nothing /\ process[c].out = Nothing
  /\ process[c].exit = 0 /\ process[c].status = "completed" =>
       process[c].answer # "none" /\ "bad" \notin tree[c]
  /\ process[c].at # "waiting" => \A d \in DependsOn(c) : IsDone(d)

(* The checks whose output always has its fields. *)
Complete == {"adr-governance", "github-actions", "openssf-scorecard"}

(* What a check may have said: what it left behind, or printed. *)
SaidOK(c, document) ==
  /\ document.form = "nothing" => document = Nothing
  /\ document.form = "unavailable" => c = "accessibility"
  /\ document.form = "refusal" => c \in Scripts \ {"adr-governance"}
  /\ document.form = "hollow" => c \notin Complete
  /\ document # Nothing /\ c # "coverage" => document.of = {run}

(* The tools that always answer as documented. *)
Plain == {"format", "typecheck", "commitlint", "build", "publint"}

(***************************************************************************)
(* Output that shows something was honestly printed about this run's tree; *)
(* a plain tool's output is its report.                                    *)
(***************************************************************************)
AnswerOK(c) ==
  /\ c \notin Documented => process[c].answer \in {"honest", "none"}
  /\ SaidOK(c, process[c].left) /\ SaidOK(c, process[c].out)
  /\ c = "github-actions" /\ Finds(process[c].out, {"mild", "bad"}) => "sound" \in process[c].out.has
  /\ c \notin Scripts \cup Categories \cup FileJudged \cup {"coverage"} /\ IsShaped(process[c].out) =>
       process[c].answer = "honest" /\ process[c].out.has = tree[c]
  /\ c \in Plain /\ process[c].answer # "none" => process[c].out = Report({run}, tree[c])

(* The checks whose tools got to deliver in this run. *)
Answered(checks) == \A d \in checks : process[d].answer # "none"

(***************************************************************************)
(* A report on disk may be an earlier run's, until its tool delivers;      *)
(* coverage and crap are of this run when all they read is.                *)
(***************************************************************************)
ReportOK(f) ==
  /\ reports[f].form \in {"nothing", "broken", "report", "odd", "hollow", "alien"}
  /\ f \notin {"coverage", "crap"} /\ process[f].answer # "none" => reports[f].of = {run}
  /\ f = "schema" /\ process[f].answer # "none" => reports[f] = Report({run}, tree[f])
  /\ f = "coverage" /\ process[f].at = "writing" => \A d \in Measured : IsShaped(reports[d])
  /\ f = "coverage" /\ Answered(Measured \cup {"coverage"}) =>
       reports[f].of = {run} /\ process[f].out.of = {run}
  /\ f = "crap" /\ Answered(Measured \cup {"coverage", "crap"}) => reports[f].of = {run}

(***************************************************************************)
(* Verdicts are what the policies say of the evidence, which no longer     *)
(* changes once they are given.                                            *)
(***************************************************************************)
JudgedOK ==
  \/ verdict = [c \in Judged |-> "none"]
  \/ /\ AllDone
     /\ verdict = [c \in Judged |-> Policy(c, Evidence(c))]
     /\ WritesScorecard => scorecard = Written

(* The inductive invariant. *)
IInv ==
  /\ SettingOK
  /\ \A c \in selected : StageOK(c) /\ AnswerOK(c)
  /\ \A f \in selected \cap Files : ReportOK(f)
  /\ JudgedOK

---------------------------------------------------------------------------
(* Names, and what a check pulls in. *)

(* The names of the checks, as sets. *)
DeclaredNames ==
  {"suppression-governance", "sbom", "lint", "format", "schema", "build", "typecheck",
    "test-unit", "test-integration", "test-property", "architecture", "github-actions",
    "coverage", "crap", "test-e2e", "size", "duplication", "publint", "arethetypeswrong",
    "license", "accessibility", "security-deps", "security-secrets", "dist-no-urls",
    "adr-governance", "commitlint", "openssf-scorecard", "mutation"}
PublishedNames ==
  {"presets/lint", "presets/dead-code", "presets/security-deps", "presets/arethetypeswrong",
    "test", "e2e", "markdownlint", "broken-links", "stylelint"}

(* The sequences of the declared and the published checks, as sets. *)
LEMMA PublishedAreNamed == ToSet(Published) = PublishedNames
<1>1. DOMAIN Published = 1 .. 9
  BY DEF Published
<1>2. ToSet(Published) = {Published[i] : i \in 1..9}
  BY <1>1 DEF ToSet
<1> QED
  BY <1>2 DEF Published, PublishedNames

LEMMA DeclaredAreNamed == ToSet(Declared) = DeclaredNames
<1>1. DOMAIN Declared = 1 .. 28
  BY DEF Declared
<1>2. ToSet(Declared) = {Declared[i] : i \in 1..28}
  BY <1>1 DEF ToSet
<1>3. DeclaredNames \subseteq {Declared[i] : i \in 1..28}
  BY DEF Declared, DeclaredNames
<1>4. \A i \in 1..28 : Declared[i] \in DeclaredNames
  BY DEF Declared, DeclaredNames
<1> QED
  BY <1>2, <1>3, <1>4

(* dependsOn, check by check. *)
LEMMA DependsFacts ==
  /\ DependsOn("format") = {"lint"}
  /\ DependsOn("mutation") = {"suppression-governance"}
  /\ DependsOn("test-integration") = {"suppression-governance"}
  /\ DependsOn("coverage") = {"test-unit", "test-integration", "test-property"}
  /\ DependsOn("crap") = {"coverage"}
  /\ DependsOn("openssf-scorecard") = {"security-deps"}
  /\ \A c : c \notin {"format", "mutation", "test-integration", "coverage", "crap", "openssf-scorecard"} => DependsOn(c) = {}
BY DEF DependsOn

(* No chain of dependsOn has more than three edges. *)
LEMMA Chains ==
  ASSUME NEW z, NEW a \in DependsOn(z), NEW b \in DependsOn(a), NEW c \in DependsOn(b)
  PROVE  DependsOn(c) = {}
<1>1. a \in {"lint", "suppression-governance", "test-unit", "test-integration", "test-property", "coverage", "security-deps"}
  BY DependsFacts
<1>2. b \in {"suppression-governance", "test-unit", "test-integration", "test-property"}
  BY <1>1, DependsFacts
<1>3. c = "suppression-governance"
  BY <1>2, DependsFacts
<1> QED
  BY <1>3, DependsFacts

(***************************************************************************)
(* Three rounds pull in everything a check rests on, however the checks    *)
(* were asked for.                                                         *)
(***************************************************************************)
LEMMA ClosureIsClosed ==
  ASSUME NEW checks, NEW c \in Closure(checks)
  PROVE  DependsOn(c) \subseteq Closure(checks)
<1> DEFINE P1 == Pulled(checks)
           P2 == Pulled(P1)
           P3 == Pulled(P2)
<1>1. \A S, x : x \in Pulled(S) <=> (x \in S \/ \E y \in S : x \in DependsOn(y))
  BY DEF Pulled
<1>2. Closure(checks) = P3
  BY DEF Closure
<1>3. CASE c \in P2
  <2> HIDE DEF P2
  <2> QED
    BY <1>1, <1>2, <1>3
<1>4. CASE c \notin P2
  <2>1. PICK b \in P2 : c \in DependsOn(b)
    <3> HIDE DEF P2
    <3> QED
      BY <1>1, <1>2, <1>4
  <2>2. b \notin P1
    <3> HIDE DEF P1
    <3> QED
      BY <1>1, <1>4, <2>1
  <2>3. PICK a \in P1 : b \in DependsOn(a)
    <3> HIDE DEF P1
    <3> QED
      BY <1>1, <2>1, <2>2
  <2>4. a \notin checks
    BY <1>1, <2>2, <2>3
  <2>5. PICK z \in checks : a \in DependsOn(z)
    BY <1>1, <2>3, <2>4
  <2> QED
    BY <2>1, <2>3, <2>5, Chains
<1> QED
  BY <1>3, <1>4

(* Pulling in stays within the checks there are. *)
LEMMA ClosureStays ==
  ASSUME NEW checks \in SUBSET AllChecks
  PROVE  Closure(checks) \subseteq AllChecks /\ checks \subseteq Closure(checks)
<1>0. AllChecks = DeclaredNames \cup PublishedNames
  BY PublishedAreNamed, DeclaredAreNamed DEF AllChecks
<1>1. \A c : DependsOn(c) \subseteq AllChecks
  BY <1>0, DependsFacts DEF DeclaredNames
<1>2. \A S \in SUBSET AllChecks : Pulled(S) \subseteq AllChecks /\ S \subseteq Pulled(S)
  BY <1>1 DEF Pulled
<1> QED
  BY <1>2 DEF Closure

(***************************************************************************)
(* What a check rests on is among what it pulls in; for crap that is the   *)
(* coverage and all three suites.                                          *)
(***************************************************************************)
LEMMA DeliveredMeans ==
  /\ \A c : c \in Closure({c}) /\ DependsOn(c) \subseteq Closure({c})
  /\ Measured \subseteq Closure({"crap"}) /\ "coverage" \in Closure({"crap"})
<1>1. \A c : c \in Closure({c})
  <2>1. \A S : S \subseteq Pulled(S)
    BY DEF Pulled
  <2> QED
    BY <2>1 DEF Closure
<1>2. \A c : DependsOn(c) \subseteq Closure({c})
  BY <1>1, ClosureIsClosed
<1> QED
  BY <1>1, <1>2, ClosureIsClosed, DependsFacts DEF Measured

---------------------------------------------------------------------------
(* The scorecard: every score is one, and so is their average. *)
LEMMA PinnedScore ==
  ASSUME NEW p \in Nat, NEW u \in Nat, p + u # 0
  PROVE  (20 * p + (p + u)) \div (2 * (p + u)) \in Scores
<1> DEFINE q == (20 * p + (p + u)) \div (2 * (p + u))
           d == 2 * (p + u)
           n == 20 * p + (p + u)
<1>1. n \in Nat /\ d \in Nat /\ d > 0 /\ n < 11 * d
  OBVIOUS
<1>2. q \in Int /\ d * q <= n /\ n < d * (q + 1)
  <2> HIDE DEF n, d
  <2>1. \A a \in Nat, b \in Nat : b > 0 => /\ a \div b \in Int
                                   /\ b * (a \div b) <= a /\ a < b * ((a \div b) + 1)
    OBVIOUS
  <2> QED BY <1>1, <2>1 DEF n, d
<1>3. q >= 0 /\ q <= 10
  <2> HIDE DEF n, d, q
  <2>1. q >= 0
    <3> SUFFICES ASSUME q + 1 <= 0  PROVE FALSE
      BY <1>2
    <3>1. d * (q + 1) <= 0
      BY <1>1, <1>2
    <3> QED BY <1>1, <1>2, <3>1
  <2>2. q <= 10
    <3> SUFFICES ASSUME q >= 11  PROVE FALSE
      BY <1>2
    <3>1. d * q >= d * 11
      BY <1>1, <1>2
    <3> QED BY <1>1, <1>2, <3>1
  <2> QED BY <2>1, <2>2
<1> QED
  BY <1>2, <1>3 DEF Scores

(* So is what the days since the last commit leave of ten. *)
LEMMA IdleScore ==
  ASSUME NEW days \in Int, days > 7, days < 77
  PROVE  10 - days \div 7 \in Scores
BY DEF Scores

(***************************************************************************)
(* Every practice gets a score from 0 to 10, or none; License always gets  *)
(* one.                                                                    *)
(***************************************************************************)
LEMMA ScoresInRange ==
  ASSUME NEW f \in Facts
  PROVE  /\ \A p \in DOMAIN RunScorecard(f) : RunScorecard(f)[p] \in Scores \cup {NotApplicable}
         /\ "License" \in DOMAIN RunScorecard(f)
         /\ "Vulnerabilities" \notin DOMAIN RunScorecard(f)
         /\ RunScorecard(f)["License"] \in Scores
         /\ IsFiniteSet(DOMAIN RunScorecard(f))
<1> DEFINE Allowed == Scores \cup {NotApplicable}
           known == GhApiJson(f.meta) = "ok"
<1>0. NotApplicable \in Allowed /\ 0..10 \subseteq Allowed
  BY DEF Scores
<1> HIDE DEF Allowed
<1>1. EvaluateLicense(f, known /\ f.spdx) \in Scores
  BY DEF EvaluateLicense, Scores, Points
<1>2. EvaluateSecurityPolicy(f) \in Allowed
  BY <1>0 DEF EvaluateSecurityPolicy, Points
<1>3. EvaluatePinnedDependencies(f) \in Allowed
  <2>1. f.pinned \in Nat /\ f.unpinned \in Nat
    BY FactsAssumption
  <2>2. f.pinned + f.unpinned # 0 =>
         (20 * f.pinned + (f.pinned + f.unpinned)) \div (2 * (f.pinned + f.unpinned)) \in Scores
    BY <2>1, PinnedScore
  <2> QED
    BY <1>0, <2>2 DEF EvaluatePinnedDependencies, Scores
<1>4. EvaluateTokenPermissions(f) \in Allowed
  BY <1>0 DEF EvaluateTokenPermissions, Points
<1>5. EvaluateDangerousWorkflow(f) \in Allowed
  BY <1>0 DEF EvaluateDangerousWorkflow, Points
<1>6. EvaluateCiTests(f) \in Allowed /\ EvaluatePackaging(f) \in Allowed
  BY <1>0 DEF EvaluateCiTests, EvaluatePackaging, Points
<1>7. EvaluateBranchProtection(f) \in Allowed
  BY <1>0 DEF EvaluateBranchProtection, Points
<1>8. EvaluateCodeReview(f) \in Allowed
  BY <1>0 DEF EvaluateCodeReview, Points
<1>9. EvaluateSignedReleases(f) \in Allowed
  BY <1>0 DEF EvaluateSignedReleases, Points
<1>10. EvaluateContributors(f) \in Allowed
  BY <1>0 DEF EvaluateContributors, Points
<1>11. EvaluateMaintained(f) \in Allowed
  <2>1. f.idleDays \in Int
    BY FactsAssumption
  <2>2. f.idleDays > 7 /\ f.idleDays < 77 => 10 - f.idleDays \div 7 \in Allowed
    BY <1>0, <2>1, IdleScore DEF Scores
  <2> QED
    BY <1>0, <2>1, <2>2 DEF EvaluateMaintained
<1> DEFINE R == RunScorecard(f)
           Names == {"License", "SecurityPolicy", "PinnedDependencies", "TokenPermissions",
                     "DangerousWorkflow", "CiTests", "Packaging", "BranchProtection", "CodeReview",
                     "SignedReleases", "Contributors", "Maintained"}
<1>12. DOMAIN R = Names
  BY DEF RunScorecard
<1>13. /\ R["License"] \in Scores
       /\ R["License"] \in Allowed /\ R["SecurityPolicy"] \in Allowed /\ R["PinnedDependencies"] \in Allowed
       /\ R["TokenPermissions"] \in Allowed /\ R["DangerousWorkflow"] \in Allowed
       /\ R["CiTests"] \in Allowed /\ R["Packaging"] \in Allowed
  BY <1>1, <1>2, <1>3, <1>4, <1>5, <1>6 DEF RunScorecard, Allowed
<1>14. /\ R["BranchProtection"] \in Allowed /\ R["CodeReview"] \in Allowed
       /\ R["SignedReleases"] \in Allowed /\ R["Contributors"] \in Allowed /\ R["Maintained"] \in Allowed
  BY <1>0, <1>7, <1>8, <1>9, <1>10, <1>11 DEF RunScorecard
<1>15. IsFiniteSet(Names)
  <2>1. \A a, b, c, d : IsFiniteSet({a, b, c, d})
    <3> TAKE a, b, c, d
    <3>1. {a, b, c, d} = (({a} \cup {b}) \cup {c}) \cup {d}
      OBVIOUS
    <3>2. IsFiniteSet({a}) /\ IsFiniteSet({b}) /\ IsFiniteSet({c}) /\ IsFiniteSet({d})
      BY FS_Singleton
    <3>3. IsFiniteSet({a} \cup {b})
      BY <3>2, FS_Union
    <3>4. IsFiniteSet(({a} \cup {b}) \cup {c})
      BY <3>2, <3>3, FS_Union
    <3>5. IsFiniteSet((({a} \cup {b}) \cup {c}) \cup {d})
      BY <3>2, <3>4, FS_Union
    <3> QED
      BY <3>1, <3>5, Zenon
  <2>2. Names = ({"License", "SecurityPolicy", "PinnedDependencies", "TokenPermissions"}
                  \cup {"DangerousWorkflow", "CiTests", "Packaging", "BranchProtection"})
                  \cup {"CodeReview", "SignedReleases", "Contributors", "Maintained"}
    OBVIOUS
  <2> DEFINE A == {"License", "SecurityPolicy", "PinnedDependencies", "TokenPermissions"}
             B == {"DangerousWorkflow", "CiTests", "Packaging", "BranchProtection"}
             C == {"CodeReview", "SignedReleases", "Contributors", "Maintained"}
  <2>3. IsFiniteSet(A) /\ IsFiniteSet(B) /\ IsFiniteSet(C) /\ Names = (A \cup B) \cup C
    BY <2>1, <2>2, Zenon
  <2> HIDE DEF A, B, C, Names
  <2>4. IsFiniteSet(A \cup B)
    BY <2>3, FS_Union
  <2>5. IsFiniteSet((A \cup B) \cup C)
    BY <2>3, <2>4, FS_Union
  <2> QED
    BY <2>3, <2>5, Zenon
<1> HIDE DEF R
<1> QED
  BY <1>12, <1>13, <1>14, <1>15 DEF R, Allowed

(* A practice weighs what upstream says, or 1. *)
LEMMA WeightsArePositive ==
  ASSUME NEW f \in Facts, NEW p
  PROVE  WeightOf(FetchScorecardWeights(f).weights, p) \in Nat \ {0}
<1> DEFINE risks == ParseRiskLevels(f)
           table == ParseRiskWeightTable(f)
<1>1. \A risk \in DOMAIN table : table[risk] \in Nat \ {0}
  BY FactsAssumption DEF ParseRiskWeightTable
<1>2. \/ FetchScorecardWeights(f).weights = [q \in {} |-> 1]
      \/ FetchScorecardWeights(f).weights
           = [q \in {r \in DOMAIN risks : risks[r] \in DOMAIN table} |-> table[risks[q]]]
  BY DEF FetchScorecardWeights
<1> HIDE DEF risks, table
<1> QED
  BY <1>1, <1>2 DEF WeightOf

(* The subsets of a finite set are well-founded. *)
LEMMA MinimalSubset ==
  ASSUME NEW S, IsFiniteSet(S), NEW B, B \subseteq SUBSET S, B # {}
  PROVE  \E T \in B : \A U \in B : ~ (<<U, T>> \in StrictSubsetOrdering(S))
<1>1. IsWellFoundedOn(StrictSubsetOrdering(S), SUBSET S)
  BY FS_StrictSubsetOrderingWellFounded, FS_FiniteSubsetsOfFinite
<1> QED
  BY <1>1, WFMin

(* Induction over the subsets of a finite set, for a set of subsets.       *)
LEMMA SubsetInduction ==
  ASSUME NEW S, IsFiniteSet(S), NEW Good \in SUBSET (SUBSET S),
         \A T \in SUBSET S : (\A U \in (SUBSET T) \ {T} : U \in Good) => T \in Good
  PROVE  Good = SUBSET S
<1> SUFFICES ASSUME (SUBSET S) \ Good # {}  PROVE FALSE
  OBVIOUS
<1> DEFINE Bad == (SUBSET S) \ Good
<1>1. PICK T \in Bad : \A U \in Bad : ~ (<<U, T>> \in StrictSubsetOrdering(S))
  <2>1. Bad \subseteq SUBSET S /\ Bad # {}
    OBVIOUS
  <2>2. IsFiniteSet(S)
    OBVIOUS
  <2> HIDE DEF Bad
  <2> QED
    BY ONLY <2>1, <2>2, MinimalSubset
<1>2. \A U \in (SUBSET T) \ {T} : U \in Good
  <2> TAKE U \in (SUBSET T) \ {T}
  <2>1. <<U, T>> \in StrictSubsetOrdering(S)
    BY DEF StrictSubsetOrdering
  <2> QED
    BY <1>1, <2>1
<1> QED
  BY <1>1, <1>2

(* The element a fold takes next. *)
Pick(s) == CHOOSE x \in s : TRUE

(* What the fold of a sum over S is, by its defining equation.             *)
Sums(S, value, g) ==
  g = [s \in SUBSET S |-> IF s = {} THEN 0 ELSE value[Pick(s)] + g[s \ {Pick(s)}]]

(* The sums over a subset do not depend on the set they were begun for. *)
LEMMA SumsAgree ==
  ASSUME NEW S, IsFiniteSet(S), NEW T \in SUBSET S, NEW value, NEW g, NEW h,
         Sums(S, value, g), Sums(T, value, h)
  PROVE  \A s \in SUBSET T : g[s] = h[s]
<1> DEFINE Good == {s \in SUBSET T : g[s] = h[s]}
<1>1. IsFiniteSet(T)
  BY FS_Subset
<1>2. ASSUME NEW s \in SUBSET T, \A U \in (SUBSET s) \ {s} : U \in Good
      PROVE  s \in Good
  <2>1. CASE s = {}
    BY <2>1 DEF Sums
  <2>2. CASE s # {}
    <3>1. Pick(s) \in s
      BY <2>2 DEF Pick
    <3>2. s \ {Pick(s)} \in (SUBSET s) \ {s}
      BY <3>1
    <3>3. g[s \ {Pick(s)}] = h[s \ {Pick(s)}]
      BY <1>2, <3>2
    <3>4. g[s] = value[Pick(s)] + g[s \ {Pick(s)}] /\ h[s] = value[Pick(s)] + h[s \ {Pick(s)}]
      BY <2>2 DEF Sums
    <3> QED
      BY <3>3, <3>4
  <2> QED
    BY <2>1, <2>2
<1>3. Good = SUBSET T
  <2> HIDE DEF Good
  <2>1. Good \in SUBSET (SUBSET T)
    BY DEF Good
  <2> QED
    BY <1>1, <1>2, <2>1, SubsetInduction
<1> QED
  BY <1>3

(***************************************************************************)
(* The defining equation of the sums has a solution, so that CHOOSE finds  *)
(* one.                                                                    *)
(***************************************************************************)
LEMMA SumsExist ==
  ASSUME NEW S, IsFiniteSet(S), NEW value
  PROVE  \E g : Sums(S, value, g)
<1> DEFINE Good == {T \in SUBSET S : \E g : Sums(T, value, g)}
<1>1. ASSUME NEW T \in SUBSET S, \A U \in (SUBSET T) \ {T} : U \in Good
      PROVE  T \in Good
  <2> DEFINE sum(U) == CHOOSE g : Sums(U, value, g)
             Rest(s) == s \ {Pick(s)}
             g == [s \in SUBSET T |-> IF s = {} THEN 0 ELSE value[Pick(s)] + sum(Rest(s))[Rest(s)]]
  <2>1. \A s \in SUBSET T : s # {} => Rest(s) \in (SUBSET T) \ {T} /\ Rest(s) \subseteq s
    <3> TAKE s \in SUBSET T
    <3> HAVE s # {}
    <3>1. Pick(s) \in s
      BY DEF Pick
    <3> QED
      BY <3>1
  <2>2. \A U \in (SUBSET T) \ {T} : Sums(U, value, sum(U))
    BY <1>1
  <2>3. \A s \in SUBSET T : s # {} => g[Rest(s)] = sum(Rest(s))[Rest(s)]
    <3> TAKE s \in SUBSET T
    <3> HAVE s # {}
    <3> DEFINE U == Rest(s)
    <3>1. U \in (SUBSET T) \ {T} /\ Sums(U, value, sum(U))
      BY <2>1, <2>2
    <3>2. CASE U = {}
      <4>1. g[U] = 0
        BY <3>1, <3>2
      <4>2. sum(U)[U] = 0
        <5> HIDE DEF sum, g, Rest
        <5> QED  BY <3>1, <3>2 DEF Sums
      <4> QED
        BY <4>1, <4>2
    <3>3. CASE U # {}
      <4>1. g[U] = value[Pick(U)] + sum(Rest(U))[Rest(U)]
        BY <3>1, <3>3
      <4>2. sum(U)[U] = value[Pick(U)] + sum(U)[U \ {Pick(U)}]
        <5> HIDE DEF sum, g, Rest, U
        <5> QED  BY <3>1, <3>3 DEF Sums
      <4>3. Rest(U) \in (SUBSET T) \ {T} /\ Rest(U) \subseteq U /\ Sums(Rest(U), value, sum(Rest(U)))
        <5> HIDE DEF sum, U, Rest
        <5> QED BY <2>1, <2>2, <3>1, <3>3
      <4>4. IsFiniteSet(U)
        BY <3>1, FS_Subset
      <4>5. sum(U)[Rest(U)] = sum(Rest(U))[Rest(U)]
        <5> HIDE DEF sum, U, Rest, g
        <5> QED
          BY <3>1, <4>3, <4>4, SumsAgree
      <4> QED
        BY <4>1, <4>2, <4>5
    <3> QED
      BY <3>2, <3>3
  <2>4. Sums(T, value, g)
    <3>1. \A s \in SUBSET T : (IF s = {} THEN 0 ELSE value[Pick(s)] + sum(Rest(s))[Rest(s)])
                            = (IF s = {} THEN 0 ELSE value[Pick(s)] + g[s \ {Pick(s)}])
      <4> HIDE DEF sum, g
      <4> QED BY <2>3
    <3>2. g = [s \in SUBSET T |-> IF s = {} THEN 0 ELSE value[Pick(s)] + g[s \ {Pick(s)}]]
      <4> DEFINE a(s) == IF s = {} THEN 0 ELSE value[Pick(s)] + sum(Rest(s))[Rest(s)]
                 b(s) == IF s = {} THEN 0 ELSE value[Pick(s)] + g[s \ {Pick(s)}]
      <4>1. g = [s \in SUBSET T |-> a(s)]
        OBVIOUS
      <4>2. \A s \in SUBSET T : a(s) = b(s)
        BY <3>1
      <4> HIDE DEF a, b, g
      <4>3. g = [s \in SUBSET T |-> b(s)]
        BY <4>1, <4>2
      <4> QED
        BY <4>3 DEF b
    <3> QED
      BY <3>2 DEF Sums
  <2> QED
    BY <2>4
<1>2. Good = SUBSET S
  <2> HIDE DEF Good
  <2>1. Good \in SUBSET (SUBSET S)
    BY DEF Good
  <2> QED
    BY <1>1, <2>1, SubsetInduction
<1> QED
  BY <1>2

(* A sum of scores, each at most ten times its weight, is at most ten      *)
(* times the sum of the weights.                                           *)
LEMMA SumsCompare ==
  ASSUME NEW S, IsFiniteSet(S), NEW value \in [S -> Nat], NEW weight \in [S -> Nat \ {0}],
         \A p \in S : value[p] <= 10 * weight[p],
         NEW g, NEW h, Sums(S, value, g), Sums(S, weight, h)
  PROVE  g[S] \in Nat /\ h[S] \in Nat /\ g[S] <= 10 * h[S] /\ (S # {} => h[S] > 0)
<1> DEFINE Good == {s \in SUBSET S : g[s] \in Nat /\ h[s] \in Nat /\ g[s] <= 10 * h[s]
                                     /\ (s # {} => h[s] > 0)}
<1>1. ASSUME NEW s \in SUBSET S, \A U \in (SUBSET s) \ {s} : U \in Good
      PROVE  s \in Good
  <2>1. CASE s = {}
    <3>1. g[s] = 0 /\ h[s] = 0
      BY <2>1 DEF Sums
    <3> QED
      BY <2>1, <3>1
  <2>2. CASE s # {}
    <3>1. Pick(s) \in s /\ Pick(s) \in S
      BY <2>2 DEF Pick
    <3>2. s \ {Pick(s)} \in Good
      <4>1. s \ {Pick(s)} \in (SUBSET s) \ {s}
        BY <3>1
      <4> QED
        BY <1>1, <4>1
    <3>3. g[s] = value[Pick(s)] + g[s \ {Pick(s)}] /\ h[s] = weight[Pick(s)] + h[s \ {Pick(s)}]
      BY <2>2 DEF Sums
    <3>4. /\ value[Pick(s)] \in Nat /\ weight[Pick(s)] \in Nat /\ weight[Pick(s)] > 0
          /\ value[Pick(s)] <= 10 * weight[Pick(s)]
      BY <3>1
    <3>5. /\ g[s \ {Pick(s)}] \in Nat /\ h[s \ {Pick(s)}] \in Nat
          /\ g[s \ {Pick(s)}] <= 10 * h[s \ {Pick(s)}]
      BY <3>2
    <3>6. g[s] \in Nat /\ h[s] \in Nat /\ g[s] <= 10 * h[s] /\ h[s] > 0
      BY <3>3, <3>4, <3>5
    <3> QED
      BY <3>6
  <2> QED
    BY <2>1, <2>2
<1>2. Good = SUBSET S
  <2> HIDE DEF Good
  <2>1. Good \in SUBSET (SUBSET S)
    BY DEF Good
  <2> QED
    BY <1>1, <2>1, SubsetInduction
<1> QED
  BY <1>2

(* The sums of the scorecard are the folds they are written as.            *)
LEMMA AverageIsSums ==
  ASSUME NEW results, NEW weights, IsFiniteSet(Evaluated(results))
  PROVE  LET average == ComputeWeightedAverage(results, weights)
             S       == Evaluated(results)
         IN  \E g, h : /\ Sums(S, [p \in S |-> results[p] * WeightOf(weights, p)], g)
                       /\ Sums(S, [p \in S |-> WeightOf(weights, p)], h)
                       /\ average.points = g[S] /\ average.outOf = h[S]
<1> DEFINE S == Evaluated(results)
           value == [p \in S |-> results[p] * WeightOf(weights, p)]
           weight == [p \in S |-> WeightOf(weights, p)]
           g == CHOOSE it : Sums(S, value, it)
           h == CHOOSE it : Sums(S, weight, it)
<1>1. Sums(S, value, g) /\ Sums(S, weight, h)
  <2> HIDE DEF S, value, weight
  <2> QED
    BY SumsExist DEF S
<1>2. \A s \in SUBSET S : s # {} => Pick(s) \in S
  <2> HIDE DEF S
  <2> QED
    BY DEF Pick
<1>3. \A it : Sums(S, value, it) <=>
        it = [s \in SUBSET S |->
                IF s = {} THEN 0
                ELSE results[Pick(s)] * WeightOf(weights, Pick(s)) + it[s \ {Pick(s)}]]
  <2> TAKE it
  <2> DEFINE a(s) == IF s = {} THEN 0 ELSE value[Pick(s)] + it[s \ {Pick(s)}]
             b(s) == IF s = {} THEN 0
                     ELSE results[Pick(s)] * WeightOf(weights, Pick(s)) + it[s \ {Pick(s)}]
  <2>1. \A s \in SUBSET S : a(s) = b(s)
    <3> HIDE DEF S
    <3> QED
      BY <1>2
  <2>2. [s \in SUBSET S |-> a(s)] = [s \in SUBSET S |-> b(s)]
    <3> HIDE DEF a, b, S
    <3> QED
      BY <2>1
  <2> QED
    BY <2>2 DEF Sums
<1>4. \A it : Sums(S, weight, it) <=>
        it = [s \in SUBSET S |->
                IF s = {} THEN 0 ELSE WeightOf(weights, Pick(s)) + it[s \ {Pick(s)}]]
  <2> TAKE it
  <2> DEFINE a(s) == IF s = {} THEN 0 ELSE weight[Pick(s)] + it[s \ {Pick(s)}]
             b(s) == IF s = {} THEN 0 ELSE WeightOf(weights, Pick(s)) + it[s \ {Pick(s)}]
  <2>1. \A s \in SUBSET S : a(s) = b(s)
    <3> HIDE DEF S
    <3> QED
      BY <1>2
  <2>2. [s \in SUBSET S |-> a(s)] = [s \in SUBSET S |-> b(s)]
    <3> HIDE DEF a, b, S
    <3> QED
      BY <2>1
  <2> QED
    BY <2>2 DEF Sums
<1>5. ComputeWeightedAverage(results, weights).points = g[S]
  <2>1. g = CHOOSE it : it = [s \in SUBSET S |->
                IF s = {} THEN 0
                ELSE results[Pick(s)] * WeightOf(weights, Pick(s)) + it[s \ {Pick(s)}]]
    <3> HIDE DEF S, value
    <3> QED
      BY <1>3
  <2> QED
    BY <2>1 DEF ComputeWeightedAverage, MapThenSumSet, MapThenFoldSet, Pick
<1>6. ComputeWeightedAverage(results, weights).outOf = h[S]
  <2>1. h = CHOOSE it : it = [s \in SUBSET S |->
                IF s = {} THEN 0 ELSE WeightOf(weights, Pick(s)) + it[s \ {Pick(s)}]]
    <3> HIDE DEF S, weight
    <3> QED
      BY <1>4
  <2> QED
    BY <2>1 DEF ComputeWeightedAverage, MapThenSumSet, MapThenFoldSet, Pick
<1> QED
  BY <1>1, <1>5, <1>6

(* The results are the script's own and the score for vulnerabilities. *)
LEMMA ResultsFacts ==
  ASSUME facts \in Facts, NEW e
  PROVE  /\ DOMAIN Results(e) = DOMAIN RunScorecard(facts) \cup {"Vulnerabilities"}
         /\ Results(e)["Vulnerabilities"] = EvaluateVulnerabilities(e.needs)
         /\ \A p \in DOMAIN RunScorecard(facts) : Results(e)[p] = RunScorecard(facts)[p]
<1> DEFINE R == RunScorecard(facts)
           v == EvaluateVulnerabilities(e.needs)
<1>1. "Vulnerabilities" \notin DOMAIN R
  BY ScoresInRange
<1> HIDE DEF R, v
<1>2. Results(e) = [p \in DOMAIN R \cup {"Vulnerabilities"} |->
                      IF p = "Vulnerabilities" THEN v ELSE R[p]]
  BY DEF Results, R, v
<1> QED
  BY <1>1, <1>2 DEF R, v

(* Whatever the script found out, the average is one of scores from 0 to   *)
(* 10, and something was scored.                                           *)
THEOREM AverageInRange ==
  ASSUME facts \in Facts, NEW e
  PROVE  LET average == ComputeWeightedAverage(Results(e), FetchScorecardWeights(facts).weights)
         IN  average.points \in 0 .. 10 * average.outOf /\ average.outOf > 0
<1> DEFINE results == Results(e)
           weights == FetchScorecardWeights(facts).weights
           S == Evaluated(results)
           value == [p \in S |-> results[p] * WeightOf(weights, p)]
           weight == [p \in S |-> WeightOf(weights, p)]
<1>1. \A p \in DOMAIN results : results[p] \in Scores \cup {NotApplicable}
  <2>1. results["Vulnerabilities"] \in Scores \cup {NotApplicable}
    BY ResultsFacts DEF EvaluateVulnerabilities, Points, Scores
  <2> HIDE DEF results
  <2> QED
    BY <2>1, ResultsFacts, ScoresInRange DEF results
<1>2. "License" \in S /\ IsFiniteSet(S)
  <2>1. "License" \in DOMAIN results /\ results["License"] \in Scores
    BY ResultsFacts, ScoresInRange
  <2>2. IsFiniteSet(DOMAIN results)
    BY ResultsFacts, ScoresInRange, FS_AddElement
  <2>3. S \subseteq DOMAIN results
    BY DEF Evaluated
  <2> HIDE DEF results
  <2>4. "License" \in S
    BY <2>1 DEF Evaluated, Scores, NotApplicable
  <2> QED
    BY <2>2, <2>3, <2>4, FS_Subset
<1>3. \A p \in S : results[p] \in Nat /\ results[p] <= 10
  <2> HIDE DEF results
  <2> QED
    BY <1>1 DEF Evaluated, Scores
<1>4. \A p : WeightOf(weights, p) \in Nat \ {0}
  BY WeightsArePositive
<1>5. PICK g, h : /\ Sums(S, value, g) /\ Sums(S, weight, h)
                  /\ ComputeWeightedAverage(results, weights).points = g[S]
                  /\ ComputeWeightedAverage(results, weights).outOf = h[S]
  <2> HIDE DEF results, weights
  <2> QED
    BY <1>2, AverageIsSums
<1>6. value \in [S -> Nat] /\ weight \in [S -> Nat \ {0}] /\ \A p \in S : value[p] <= 10 * weight[p]
  <2> HIDE DEF results, weights, S
  <2>1. \A a \in Nat, b \in Nat : a <= 10 => a * b \in Nat /\ a * b <= 10 * b
    OBVIOUS
  <2> QED
    BY <1>3, <1>4, <2>1
<1>7. g[S] \in Nat /\ h[S] \in Nat /\ g[S] <= 10 * h[S] /\ h[S] > 0
  <2> HIDE DEF results, weights, S, value, weight
  <2> QED
    BY <1>2, <1>5, <1>6, SumsCompare
<1> QED
  BY <1>5, <1>7

---------------------------------------------------------------------------
(* Steps of one check's process. *)
LEMMA SameSelected ==
  ASSUME scene' = scene
  PROVE  selected' = selected /\ Judged' = Judged
BY DEF selected, Judged, Closure, Pulled

(* The selected checks bring what they depend on. *)
LEMMA SelectedFacts ==
  ASSUME SettingOK
  PROVE  /\ selected \subseteq AllChecks
         /\ \A c \in selected : DependsOn(c) \subseteq selected
<1>1. scene.checks \in SUBSET AllChecks
  BY ScenesAssumption DEF SettingOK
<1> QED
  BY <1>1, ClosureStays, ClosureIsClosed DEF selected

(* A step of one check's process that has not ended. *)
Moves(c) ==
  /\ c \in selected /\ process[c].at # "done"
  /\ \E record \in Records : process' = [process EXCEPT ![c] = record]
  /\ \/ reports' = reports
     \/ \E document \in Documents(1 .. MaxRuns) : Writes({c}, document)
  /\ faults' \in 0 .. scene.faults
  /\ Unjudged

(***************************************************************************)
(* A move leaves every other process and report, and all that has ended,   *)
(* as it was.                                                              *)
(***************************************************************************)
LEMMA MoveFacts ==
  ASSUME SettingOK, NEW c, Moves(c)
  PROVE  /\ SettingOK'
         /\ selected' = selected /\ Judged' = Judged
         /\ process'[c] \in Records
         /\ \A d \in selected : d # c => process'[d] = process[d]
         /\ \A f \in selected \cap Files : f # c => reports'[f] = reports[f]
         /\ \A d \in selected : IsDone(d) => process'[d] = process[d]
<1>1. selected' = selected /\ Judged' = Judged
  BY SameSelected DEF Moves, Unjudged, setting
<1>2. PICK record \in Records : process' = [process EXCEPT ![c] = record]
  BY DEF Moves
<1>3. /\ process' \in [selected -> Records] /\ process'[c] = record
      /\ \A d \in selected : d # c => process'[d] = process[d]
  BY <1>2 DEF SettingOK, Moves
<1>4. /\ reports' \in [selected \cap Files -> Documents(1 .. MaxRuns)]
      /\ \A f \in selected \cap Files : f # c => reports'[f] = reports[f]
  <2>1. CASE reports' = reports
    BY <2>1 DEF SettingOK
  <2>2. CASE \E document \in Documents(1 .. MaxRuns) : Writes({c}, document)
    <3>1. PICK document \in Documents(1 .. MaxRuns) : Writes({c}, document)
      BY <2>2
    <3>2. reports' = [f \in selected \cap Files |-> IF f = c THEN document ELSE reports[f]]
      BY <3>1 DEF Writes, SettingOK
    <3> QED
      BY <3>2 DEF SettingOK
  <2> QED
    BY <2>1, <2>2 DEF Moves
<1>5. scene' = scene /\ run' = run /\ tree' = tree /\ facts' = facts
  BY DEF Moves, Unjudged, setting
<1>6. Records' = Records
  BY DEF Records
<1>7. SettingOK'
  BY <1>1, <1>3, <1>4, <1>5, <1>6 DEF SettingOK, Moves
<1> QED
  BY <1>1, <1>3, <1>4, <1>7 DEF Moves, IsDone

(***************************************************************************)
(* A move keeps the invariant when it keeps what is said of the check that *)
(* moves: what the others' parts say of this one is about ended processes  *)
(* only.                                                                   *)
(***************************************************************************)
LEMMA Moving ==
  ASSUME IInv, NEW c, Moves(c), StageOK(c)', AnswerOK(c)', c \in Files => ReportOK(c)'
  PROVE  IInv'
<1>1. SettingOK /\ \A d \in selected : StageOK(d) /\ AnswerOK(d)
  BY DEF IInv
<1>2. scene' = scene /\ run' = run /\ tree' = tree /\ facts' = facts /\ verdict' = verdict
      /\ options' = options /\ scorecard' = scorecard
  BY DEF Moves, Unjudged, setting
<1>3. /\ SettingOK'
      /\ selected' = selected /\ Judged' = Judged
      /\ \A d \in selected : d # c => process'[d] = process[d]
      /\ \A f \in selected \cap Files : f # c => reports'[f] = reports[f]
      /\ \A d \in selected : IsDone(d) => process'[d] = process[d]
  BY <1>1, MoveFacts
<1>4. \A d \in selected : DependsOn(d) \subseteq selected
  BY <1>1, SelectedFacts
<1>5. \A d \in selected : StageOK(d)'
  <2> SUFFICES ASSUME NEW d \in selected, d # c  PROVE StageOK(d)'
    OBVIOUS
  <2>1. process'[d] = process[d] /\ StageOK(d)
    BY <1>1, <1>3
  <2>2. \A x \in DependsOn(d) : IsDone(x) => IsDone(x)'
    BY <1>3, <1>4 DEF IsDone
  <2> QED
    BY <1>2, <2>1, <2>2 DEF StageOK
<1>6. \A d \in selected : AnswerOK(d)'
  <2> SUFFICES ASSUME NEW d \in selected, d # c  PROVE AnswerOK(d)'
    OBVIOUS
  <2>1. process'[d] = process[d] /\ AnswerOK(d)
    BY <1>1, <1>3
  <2> QED
    BY <1>2, <2>1 DEF AnswerOK, SaidOK
<1>7. \A f \in selected \cap Files : ReportOK(f)'
  <2> SUFFICES ASSUME NEW f \in selected \cap Files, f # c  PROVE ReportOK(f)'
    BY DEF Moves
  <2>1. process'[f] = process[f] /\ reports'[f] = reports[f] /\ ReportOK(f) /\ StageOK(f)
    BY <1>1, <1>3 DEF IInv
  <2>2. process[c].at # "done" /\ c \in selected
    BY DEF Moves
  <2>3. CASE f \notin {"coverage", "crap"}
    BY <1>2, <2>1, <2>3 DEF ReportOK
  <2>4. CASE f = "coverage"
    <3>1. process[f].answer # "none" \/ process[f].at = "writing" => \A d \in Measured : IsDone(d) /\ d \in selected /\ d \in Files
      BY <1>4, <2>1, <2>4 DEF StageOK, Measured, Files, IsDone
    <3>2. process[f].answer # "none" \/ process[f].at = "writing" =>
            \A d \in Measured : process'[d] = process[d] /\ reports'[d] = reports[d]
      BY <1>3, <2>2, <3>1 DEF IsDone
    <3> QED
      BY <1>2, <2>1, <2>4, <3>2 DEF ReportOK, Answered
  <2>5. CASE f = "crap"
    <3>1. process[f].answer # "none" => IsDone("coverage") /\ "coverage" \in selected
      BY <1>4, <2>1, <2>5, DependsFacts DEF StageOK, IsDone
    <3>2. process[f].answer # "none" => \A d \in Measured : IsDone(d) /\ d \in selected
      BY <1>1, <1>4, <3>1 DEF StageOK, Measured, IsDone
    <3>3. process[f].answer # "none" => \A d \in Measured \cup {"coverage"} : process'[d] = process[d]
      BY <1>3, <3>1, <3>2
    <3> QED
      BY <1>2, <2>1, <2>5, <3>3 DEF ReportOK, Answered
  <2> QED
    BY <2>3, <2>4, <2>5
<1>8. JudgedOK'
  <2>1. ~ AllDone
    BY DEF AllDone, IsDone, Moves
  <2> QED
    BY <1>2, <1>3, <2>1 DEF IInv, JudgedOK
<1> QED
  BY <1>3, <1>5, <1>6, <1>7, <1>8 DEF IInv

(* The invariant, for one selected check. *)
LEMMA Here ==
  ASSUME IInv, NEW c \in selected
  PROVE  /\ SettingOK /\ StageOK(c) /\ AnswerOK(c) /\ (c \in Files => ReportOK(c))
         /\ process \in [selected -> Records] /\ process[c] \in Records
         /\ tree[c] \subseteq Kinds /\ run \in 1 .. MaxRuns
         /\ DependsOn(c) \subseteq selected /\ DependsOn(c) \subseteq WaitsFor(c)
         /\ c \in AllChecks
BY SelectedFacts DEF IInv, SettingOK, WaitsFor

(* The documents are documents. *)
LEMMA DocumentFacts ==
  ASSUME NEW runs \in SUBSET (1 .. MaxRuns), NEW kinds \in SUBSET Kinds, NEW form \in Forms
  PROVE  /\ Nothing \in Documents(1 .. MaxRuns)
         /\ Blank(form, runs) \in Documents(1 .. MaxRuns)
         /\ Report(runs, kinds) \in Documents(1 .. MaxRuns)
BY DEF Documents, Nothing, Blank, Report, Forms

(* Nothing, and output cut short, say nothing a policy could pass on. *)
LEMMA SaysLittle ==
  ASSUME NEW c
  PROVE  /\ SaidOK(c, Nothing) /\ ~ IsShaped(Nothing) /\ ~ Finds(Nothing, {"mild", "bad"})
         /\ LET cut == Blank("broken", {run})
            IN  SaidOK(c, cut) /\ ~ IsShaped(cut) /\ ~ Finds(cut, {"mild", "bad"})
BY DEF SaidOK, Nothing, Blank, IsShaped, Finds

(* A report that is left alone stays what it was. *)
LEMMA KeptReport ==
  ASSUME IInv, NEW c, Moves(c), c \in Files, reports' = reports,
         process'[c].answer = process[c].answer,
         process[c].answer # "none" => process'[c].out = process[c].out,
         process'[c].at # "writing"
  PROVE  ReportOK(c)'
<1>1. c \in selected /\ ReportOK(c) /\ SettingOK /\ StageOK(c)
  BY Here DEF Moves
<1>2. run' = run /\ tree' = tree /\ \A d \in selected : d # c => process'[d] = process[d]
  BY <1>1, MoveFacts DEF Moves, Unjudged, setting
<1>3. \A d \in selected : DependsOn(d) \subseteq selected
  BY <1>1, SelectedFacts
<1>4. CASE c \notin {"coverage", "crap"}
  BY <1>1, <1>2, <1>4 DEF ReportOK
<1>5. CASE c = "coverage"
  <2>1. \A d \in Measured : process'[d] = process[d]
    BY <1>1, <1>2, <1>3, <1>5, DependsFacts DEF Measured
  <2> QED
    BY <1>1, <1>2, <1>5, <2>1 DEF ReportOK, Answered
<1>6. CASE c = "crap"
  <2>1. \A d \in Measured \cup {"coverage"} : process'[d] = process[d]
    BY <1>1, <1>2, <1>3, <1>6, DependsFacts DEF Measured
  <2> QED
    BY <1>1, <1>2, <1>6, <2>1 DEF ReportOK, Answered
<1> QED
  BY <1>4, <1>5, <1>6

(* A move that only changes the process. *)
LEMMA Proceeding ==
  ASSUME IInv, NEW c \in selected, process[c].at # "done",
         NEW record \in Records, process' = [process EXCEPT ![c] = record],
         reports' = reports, faults' \in 0 .. scene.faults, Unjudged,
         StageOK(c)', AnswerOK(c)', record.at # "writing",
         record.answer = process[c].answer,
         process[c].answer # "none" => record.out = process[c].out \/ c \in Categories
  PROVE  IInv'
<1>1. Moves(c)
  BY DEF Moves
<1>2. process'[c] = record
  BY Here
<1>3. c \in Files /\ c \notin Categories => ReportOK(c)'
  BY <1>1, <1>2, KeptReport
<1>4. c \in Categories => ReportOK(c)' \/ c \notin Files
  <2> SUFFICES ASSUME c \in Categories, c \in Files  PROVE ReportOK(c)'
    OBVIOUS
  <2>1. ReportOK(c) /\ c \notin {"coverage", "crap", "schema"}
    BY Here DEF Categories
  <2>2. run' = run
    BY DEF Unjudged
  <2> QED
    BY <1>2, <2>1, <2>2 DEF ReportOK
<1> QED
  BY <1>1, <1>3, <1>4, Moving

(* Faults stay within their bound. *)
LEMMA FaultFacts ==
  ASSUME SettingOK
  PROVE  /\ faults \in 0 .. scene.faults
         /\ Fault => faults' \in 0 .. scene.faults
BY ContractAssumption DEF SettingOK, Fault

(* Every operation keeps the invariant. *)
LEMMA LaunchOK ==
  ASSUME IInv, NEW c \in selected, Launch(c)
  PROVE  IInv'
<1> DEFINE record == [process[c] EXCEPT !.at = "running"]
<1>1. /\ process[c] \in Records /\ StageOK(c) /\ AnswerOK(c) /\ process[c].at = "waiting"
      /\ process' = [process EXCEPT ![c] = record] /\ process'[c] = record
      /\ run' = run /\ tree' = tree /\ faults' = faults /\ reports' = reports /\ Unjudged
  BY Here DEF Launch, Becomes, Unjudged
<1>2. /\ record \in Records /\ record.at = "running" /\ record.status = process[c].status
      /\ record.exit = process[c].exit /\ record.answer = process[c].answer
      /\ record.left = process[c].left /\ record.out = process[c].out
  BY <1>1 DEF Records, Stages
<1> HIDE DEF record
<1>3. \A d \in DependsOn(c) : IsDone(d)'
  <2>1. \A d \in DependsOn(c) : d \in selected /\ d # c /\ process[d].at = "done"
    BY <1>1, Here DEF Launch, IsDone
  <2> QED
    BY <1>1, <2>1, Here DEF IsDone
<1>4. StageOK(c)'
  BY <1>1, <1>2, <1>3 DEF StageOK
<1>5. AnswerOK(c)'
  BY <1>1, <1>2 DEF AnswerOK, SaidOK
<1>6. faults' \in 0 .. scene.faults
  BY <1>1, Here, FaultFacts
<1> QED
  BY <1>1, <1>2, <1>4, <1>5, <1>6, Proceeding

LEMMA CannotStartOK ==
  ASSUME IInv, NEW c \in selected, CannotStart(c)
  PROVE  IInv'
<1>1. PICK notFound \in BOOLEAN :
        process' = [process EXCEPT ![c] = [process[c] EXCEPT !.at = "done", !.status = "spawn_error",
                                                            !.notFound = notFound]]
  BY DEF CannotStart, Becomes
<1> DEFINE record == [process[c] EXCEPT !.at = "done", !.status = "spawn_error", !.notFound = notFound]
<1>2. /\ process[c] \in Records /\ StageOK(c) /\ AnswerOK(c) /\ process[c].at = "waiting"
      /\ process' = [process EXCEPT ![c] = record] /\ process'[c] = record
      /\ run' = run /\ tree' = tree /\ Fault /\ reports' = reports /\ Unjudged
  BY <1>1, Here DEF CannotStart, Unjudged
<1>3. /\ record \in Records /\ record.at = "done" /\ record.status = "spawn_error"
      /\ record.exit = process[c].exit /\ record.answer = process[c].answer
      /\ record.left = process[c].left /\ record.out = process[c].out
  BY <1>2 DEF Records, Stages, Ended
<1> HIDE DEF record
<1>4. \A d \in DependsOn(c) : IsDone(d)'
  <2>1. \A d \in DependsOn(c) : d \in selected /\ d # c /\ process[d].at = "done"
    BY <1>2, Here DEF CannotStart, IsDone
  <2> QED
    BY <1>2, <2>1, Here DEF IsDone
<1>5. StageOK(c)'
  BY <1>2, <1>3, <1>4 DEF StageOK, NoExit
<1>6. AnswerOK(c)'
  BY <1>2, <1>3 DEF AnswerOK, SaidOK
<1>7. faults' \in 0 .. scene.faults
  BY <1>2, Here, FaultFacts
<1> QED
  BY <1>2, <1>3, <1>5, <1>6, <1>7, Proceeding

(* The end of a check's process.                                           *)
LEMMA Ending ==
  ASSUME IInv, NEW c \in selected, process[c].at \in {"running", "writing", "written"},
         NEW status \in Ended, NEW exit \in {NoExit, 0, 1, MissingExit},
         NEW out \in Documents(1 .. MaxRuns), Ends(c, status, exit, out),
         reports' = reports, faults' \in 0 .. scene.faults, Unjudged,
         SaidOK(c, out),
         c = "github-actions" /\ Finds(out, {"mild", "bad"}) => "sound" \in out.has,
         process[c].answer # "none" => out = process[c].out \/ c \in Categories,
         process[c].answer = "none" => ~ IsShaped(out) \/ c \in Scripts,
         exit = 0 /\ status = "completed" => process[c].answer # "none" /\ "bad" \notin tree[c]
  PROVE  IInv'
<1> DEFINE record == [process[c] EXCEPT !.at = "done", !.status = status, !.exit = exit, !.out = out]
<1>1. /\ process[c] \in Records /\ StageOK(c) /\ AnswerOK(c)
      /\ process' = [process EXCEPT ![c] = record] /\ process'[c] = record
      /\ run' = run /\ tree' = tree
  BY Here DEF Ends, Becomes, Unjudged
<1>2. /\ record \in Records /\ record.at = "done" /\ record.status = status
      /\ record.exit = exit /\ record.answer = process[c].answer
      /\ record.left = process[c].left /\ record.out = out
  BY <1>1 DEF Records, Stages
<1> HIDE DEF record
<1>3. \A d \in DependsOn(c) : IsDone(d)'
  <2>1. \A d \in DependsOn(c) : d \in selected /\ d # c /\ process[d].at = "done"
    BY <1>1, Here DEF StageOK, IsDone
  <2> QED
    BY <1>1, <2>1, Here DEF IsDone
<1>4. StageOK(c)'
  BY <1>1, <1>2, <1>3 DEF StageOK, Ended
<1>5. AnswerOK(c)'
  <2>1. c \in Categories => c \notin Plain
    BY DEF Categories, Plain
  <2> QED
    BY <1>1, <1>2, <2>1 DEF AnswerOK, SaidOK
<1> QED
  BY <1>1, <1>2, <1>4, <1>5, Proceeding

LEMMA LacksInputOK ==
  ASSUME IInv, NEW c \in selected, LacksInput(c)
  PROVE  IInv'
<1>1. /\ process[c].at = "running" /\ StageOK(c) /\ Ends(c, "completed", 1, Nothing)
      /\ reports' = reports /\ faults' = faults /\ Unjudged /\ SettingOK
  BY Here DEF LacksInput
<1>2. process[c].answer = "none" /\ Nothing \in Documents(1 .. MaxRuns)
  BY <1>1, DocumentFacts DEF StageOK, Nothing, Documents, Blank, Forms
<1>3. faults' \in 0 .. scene.faults
  BY <1>1, FaultFacts
<1> QED
  BY <1>1, <1>2, <1>3, Ending, SaysLittle DEF Ended

(* A program that stopped before its end printed nothing whole. *)
LEMMA CutShortFacts ==
  ASSUME IInv, NEW c \in selected
  PROVE  /\ CutShort(c) \in Documents(1 .. MaxRuns) /\ SaidOK(c, CutShort(c))
         /\ ~ IsShaped(CutShort(c)) /\ ~ Finds(CutShort(c), {"mild", "bad"})
<1>1. {run} \in SUBSET (1 .. MaxRuns)
  BY Here
<1>2. Blank("broken", {run}) \in Documents(1 .. MaxRuns) /\ Nothing \in Documents(1 .. MaxRuns)
  BY <1>1 DEF Documents, Nothing, Blank, Forms
<1>3. CutShort(c) = Nothing \/ CutShort(c) = Blank("broken", {run})
  BY DEF CutShort
<1> QED
  BY <1>2, <1>3, SaysLittle

LEMMA KillOK ==
  ASSUME IInv, NEW c \in selected,
         NEW status \in {"timed_out", "aborted", "host_terminated", "signaled"}, Kill(c, status)
  PROVE  IInv'
<1> DEFINE out == IF process[c].at = "written" THEN process[c].out ELSE CutShort(c)
<1>1. /\ process[c].at \in {"running", "writing", "written"} /\ StageOK(c) /\ AnswerOK(c)
      /\ process[c] \in Records /\ reports' = reports /\ Fault /\ Unjudged /\ SettingOK
  BY Here DEF Kill
<1>e. PICK exit \in {NoExit, 0, 1} : Ends(c, status, exit, out)
  BY DEF Kill
<1>2. /\ out \in Documents(1 .. MaxRuns) /\ SaidOK(c, out)
      /\ (c = "github-actions" /\ Finds(out, {"mild", "bad"}) => "sound" \in out.has)
  <2>1. process[c].out \in Documents(1 .. MaxRuns)
    BY <1>1 DEF Records
  <2> QED
    BY <1>1, <2>1, CutShortFacts DEF AnswerOK
<1>3. process[c].answer # "none" => out = process[c].out
  BY <1>1 DEF StageOK
<1>4. process[c].answer = "none" => ~ IsShaped(out)
  BY <1>1, CutShortFacts DEF StageOK
<1>5. faults' \in 0 .. scene.faults
  BY <1>1, FaultFacts
<1> HIDE DEF out
<1> QED
  BY <1>1, <1>2, <1>3, <1>4, <1>5, <1>e, Ending DEF Ended

LEMMA ExitOK ==
  ASSUME IInv, NEW c \in selected, Exit(c)
  PROVE  IInv'
<1> DEFINE out == IF c \in Categories THEN RunTestCategory(process[c].left) ELSE process[c].out
           exit == IF "bad" \in tree[c] THEN 1 ELSE 0
<1>1. /\ process[c].at = "written" /\ StageOK(c) /\ AnswerOK(c)
      /\ Ends(c, "completed", exit, out) /\ process[c] \in Records
      /\ reports' = reports /\ faults' = faults /\ Unjudged /\ SettingOK
  BY Here DEF Exit
<1>2. /\ out \in Documents(1 .. MaxRuns) /\ SaidOK(c, out)
      /\ (c = "github-actions" /\ Finds(out, {"mild", "bad"}) => "sound" \in out.has)
      /\ (out = process[c].out \/ c \in Categories)
  <2>1. process[c].out \in Documents(1 .. MaxRuns) /\ process[c].left \in Documents(1 .. MaxRuns)
    BY <1>1 DEF Records
  <2>2. "github-actions" \notin Categories
    BY DEF Categories
  <2> QED
    BY <1>1, <2>1, <2>2 DEF AnswerOK, RunTestCategory
<1>3. process[c].answer # "none"
  BY <1>1 DEF StageOK
<1>4. faults' \in 0 .. scene.faults
  BY <1>1, FaultFacts
<1>5. exit \in {NoExit, 0, 1, MissingExit} /\ (exit = 0 => "bad" \notin tree[c])
  OBVIOUS
<1> HIDE DEF out, exit
<1> QED
  BY <1>1, <1>2, <1>3, <1>4, <1>5, Ending DEF Ended

(* What each check prints, whatever its tool answered. *)
PrintedOK(c, answer, kinds, document) ==
  /\ document \in Documents(1 .. MaxRuns) /\ SaidOK(c, document)
  /\ c = "github-actions" /\ Finds(document, {"mild", "bad"}) => "sound" \in document.has
  /\ c \notin Scripts /\ IsShaped(document) => answer = "honest" /\ document.has = kinds
  /\ c \in Plain /\ answer = "honest" => document = Report({run}, kinds)

(***************************************************************************)
(* Whatever its tool answered, a script prints what its policy can tell    *)
(* apart; only an honest answer yields a plain tool's report.              *)
(***************************************************************************)
LEMMA PrintedFacts ==
  ASSUME NEW c, NEW answer \in Answers, NEW kinds \in SUBSET Kinds, run \in 1 .. MaxRuns,
         answer = "hollow" => c # "openssf-scorecard"
  PROVE  PrintedOK(c, answer, kinds, Printed(c, answer, Report({run}, kinds), chrome))
<1> DEFINE truth == Report({run}, kinds)
           document == Printed(c, answer, truth, chrome)
<1> SUFFICES PrintedOK(c, answer, kinds, document)
  OBVIOUS
<1>1. /\ truth.of = {run} /\ truth.has = kinds /\ truth.form = "report"
      /\ truth \in Documents(1 .. MaxRuns)
  BY DEF Report, Documents, Forms
<1>2. \A form \in Forms : Blank(form, {run}) \in Documents(1 .. MaxRuns) /\ Blank(form, {run}).form = form
                          /\ Blank(form, {run}).of = {run} /\ Blank(form, {run}).has = {}
  BY DEF Blank, Documents
<1>3. \A some \in SUBSET Kinds :
        /\ Report({run}, some) \in Documents(1 .. MaxRuns) /\ Report({run}, some).form = "report"
        /\ Report({run}, some).of = {run} /\ Report({run}, some).has = some
  BY DEF Report, Documents, Forms
<1>4. Nothing \in Documents(1 .. MaxRuns) /\ Nothing.form = "nothing" /\ Nothing.has = {} /\ Nothing.of = {}
  BY DEF Nothing, Blank, Documents, Forms
<1> HIDE DEF truth
<1>5. Refusal(truth) = Blank("refusal", {run})
  BY <1>1 DEF Refusal
<1>6. /\ answer = "honest" => DocumentOf(answer, truth) = truth
      /\ answer = "none" => DocumentOf(answer, truth) = Nothing
      /\ answer = "half" => DocumentOf(answer, truth) = Blank("broken", {run})
      /\ answer \in {"odd", "hollow", "alien"} => DocumentOf(answer, truth) = Blank(answer, {run})
  BY <1>1 DEF DocumentOf
<1>a. \A form \in {"broken", "odd", "hollow", "alien", "refusal", "unavailable"} :
        /\ Blank(form, {run}) \in Documents(1 .. MaxRuns) /\ ~ IsShaped(Blank(form, {run}))
        /\ ~ Finds(Blank(form, {run}), {"mild", "bad"})
        /\ (form = "unavailable" => c = "accessibility")
             /\ (form = "refusal" => c \in Scripts \ {"adr-governance"})
             /\ (form = "hollow" => c \notin Complete) => SaidOK(c, Blank(form, {run}))
  BY <1>2, <1>4 DEF Forms, SaidOK, IsShaped, Finds
<1>b. \A some \in SUBSET Kinds : SaidOK(c, Report({run}, some)) /\ IsShaped(Report({run}, some))
  BY <1>3 DEF SaidOK, IsShaped
<1>c. SaidOK(c, truth) /\ SaidOK(c, Nothing) /\ ~ IsShaped(Nothing)
  BY <1>1, <1>4 DEF SaidOK, IsShaped
<1> HIDE DEF document
<1>7. CASE c = "lint"
  <2>1. document \in {truth, Blank("refusal", {run}), Blank("odd", {run}), Blank("hollow", {run}),
                     Blank("alien", {run})}
    BY <1>5, <1>6, <1>7 DEF Printed, CheckLint, RunJsonTool, Answers, document
  <2> QED
    BY <1>1, <1>7, <1>a, <1>c, <2>1 DEF PrintedOK, Scripts, Plain, Complete
<1>8. CASE c = "architecture"
  <2>1. document \in {truth, Blank("hollow", {run}), Blank("refusal", {run})}
    BY <1>5, <1>6, <1>8 DEF Printed, CheckArchitecture, RunDependencyCruiser, document
  <2> QED
    BY <1>1, <1>8, <1>a, <1>c, <2>1 DEF PrintedOK, Scripts, Plain, Complete
<1>9. CASE c = "accessibility"
  <2>1. document \in {truth, Blank("hollow", {run}), Blank("refusal", {run}), Blank("unavailable", {run})}
    BY <1>1, <1>5, <1>6, <1>9 DEF Printed, CheckAccessibility, document
  <2> QED
    BY <1>1, <1>9, <1>a, <1>c, <2>1 DEF PrintedOK, Scripts, Plain, Complete
<1>10. CASE c = "github-actions"
  <2>1. \/ document = truth /\ "sound" \in kinds
        \/ document \in {Report({run}, {}), Report({run}, {"sound", "bad"}), Blank("refusal", {run})}
    BY <1>1, <1>5, <1>10 DEF Printed, LintWorkflows, document
  <2>2. {} \in SUBSET Kinds /\ {"sound", "bad"} \in SUBSET Kinds
    BY DEF Kinds
  <2>3. document \in Documents(1 .. MaxRuns) /\ SaidOK(c, document)
    BY <1>1, <1>3, <1>10, <1>a, <1>b, <1>c, <2>1, <2>2 DEF Scripts
  <2>4. Finds(document, {"mild", "bad"}) => "sound" \in document.has
    BY <1>1, <1>3, <1>a, <2>1, <2>2, ZenonT(30) DEF Finds
  <2> QED
    BY <1>10, <2>3, <2>4 DEF PrintedOK, Scripts, Plain
<1>11. CASE c = "sbom"
  <2>1. document \in {truth, Blank("refusal", {run})}
    BY <1>5, <1>11 DEF Printed, GenerateSbom, document
  <2> QED
    BY <1>1, <1>11, <1>a, <1>c, <2>1 DEF PrintedOK, Scripts, Plain
<1>12. CASE c = "adr-governance"
  <2>1. document \in {Report({run}, kinds), Report({run}, {})}
    BY <1>1, <1>12 DEF Printed, RunAdrGovernanceCheck, ListChangedFiles, document
  <2>2. {} \in SUBSET Kinds
    OBVIOUS
  <2>3. document \in Documents(1 .. MaxRuns) /\ SaidOK(c, document)
    BY <1>3, <1>b, <2>1, <2>2
  <2>4. c # "github-actions" /\ c \in Scripts /\ c \notin Plain
    BY <1>12 DEF Scripts, Plain
  <2> QED
    BY <2>3, <2>4 DEF PrintedOK
<1>13. CASE c \notin Scripts
  <2>1. (document = Nothing /\ c = "license") \/ document = DocumentOf(answer, truth)
    BY <1>13 DEF Printed, Scripts, document
  <2>2. "license" \notin Plain /\ "github-actions" \in Scripts
    BY DEF Plain, Scripts
  <2>3. \/ document = truth /\ answer = "honest"
        \/ document \in {Nothing, Blank("broken", {run}), Blank("odd", {run}), Blank("alien", {run})}
        \/ document = Blank("hollow", {run}) /\ c \notin Complete
    BY <1>6, <1>13, <2>1 DEF Answers, Scripts, Complete
  <2>4. document \in Documents(1 .. MaxRuns) /\ SaidOK(c, document)
        /\ (IsShaped(document) => document = truth /\ answer = "honest")
    BY <1>1, <1>4, <1>a, <1>c, <2>3
  <2>5. c \in Plain /\ answer = "honest" => document = truth
    BY <1>6, <2>1, <2>2
  <2> QED
    BY <1>1, <1>13, <2>2, <2>4, <2>5 DEF PrintedOK, truth
<1> QED
  BY <1>7, <1>8, <1>9, <1>10, <1>11, <1>12, <1>13 DEF Scripts

(***************************************************************************)
(* What a tool finds is a report about the tree, on this run or on the     *)
(* documents it read.                                                      *)
(***************************************************************************)
LEMMA TruthFacts ==
  ASSUME IInv, NEW c \in selected
  PROVE  /\ c \notin {"coverage", "crap"} => Truth(c) = Report({run}, tree[c])
         /\ process[c].at = "writing" =>
              /\ Truth(c) \in Documents(1 .. MaxRuns)
              /\ Truth(c).form = "report" /\ Truth(c).has = tree[c]
              /\ c = "coverage" => Truth(c).of = UNION {reports[d].of : d \in Measured}
              /\ c = "crap" => Truth(c).of = reports["coverage"].of
<1>1. /\ SettingOK /\ tree[c] \subseteq Kinds /\ run \in 1 .. MaxRuns /\ DependsOn(c) \subseteq selected
      /\ c \in Files => ReportOK(c)
  BY Here
<1>2. \A runs, kinds : /\ Report(runs, kinds).form = "report" /\ Report(runs, kinds).of = runs
                       /\ Report(runs, kinds).has = kinds
                       /\ runs \subseteq 1 .. MaxRuns /\ kinds \subseteq Kinds =>
                            Report(runs, kinds) \in Documents(1 .. MaxRuns)
  BY DEF Report, Documents, Forms
<1>3. \A f \in selected \cap Files : reports[f] \in Documents(1 .. MaxRuns) /\ reports[f].of \subseteq 1 .. MaxRuns
  BY <1>1 DEF SettingOK, Documents
<1>4. CASE c \notin {"coverage", "crap"}
  <2>1. Truth(c) = Report({run}, tree[c])
    BY <1>4 DEF Truth
  <2> QED
    BY <1>1, <1>2, <1>4, <2>1
<1>5. CASE c = "coverage"
  <2>1. Measured \subseteq selected \cap Files
    BY <1>1, <1>5 DEF Measured, Files
  <2> SUFFICES ASSUME process[c].at = "writing"
               PROVE  /\ Truth(c) \in Documents(1 .. MaxRuns)
                      /\ Truth(c).form = "report" /\ Truth(c).has = tree[c]
                      /\ Truth(c).of = UNION {reports[d].of : d \in Measured}
    BY <1>5
  <2>2. \A d \in Measured : IsShaped(reports[d])
    BY <1>1, <1>5 DEF ReportOK, Files
  <2>3. Inputs(c) = {reports[d] : d \in Measured}
    BY <1>5 DEF Inputs
  <2>4. Truth(c) = AggregateCoverage(Inputs(c), tree[c])
    BY <1>5 DEF Truth, CheckCoverage
  <2>5. Truth(c) = Report(UNION {s.of : s \in Inputs(c)}, tree[c])
    BY <2>2, <2>3, <2>4 DEF AggregateCoverage
  <2>6. UNION {s.of : s \in Inputs(c)} = UNION {reports[d].of : d \in Measured}
    BY <2>3
  <2>7. UNION {reports[d].of : d \in Measured} \subseteq 1 .. MaxRuns
    BY <1>3, <2>1
  <2> DEFINE runs == UNION {reports[d].of : d \in Measured}
  <2>8. Truth(c) = Report(runs, tree[c]) /\ runs \subseteq 1 .. MaxRuns
    BY <2>5, <2>6, <2>7
  <2> HIDE DEF runs
  <2>9. /\ Truth(c) \in Documents(1 .. MaxRuns) /\ Truth(c).form = "report"
        /\ Truth(c).has = tree[c] /\ Truth(c).of = runs
    BY ONLY <1>1, <1>2, <2>8
  <2> QED
    BY ONLY <2>9 DEF runs
<1>6. CASE c = "crap"
  <2>1. "coverage" \in selected \cap Files
    BY <1>1, <1>6, DependsFacts DEF Files
  <2>2. Truth(c) = Report(reports["coverage"].of, tree[c])
    BY <1>6 DEF Truth
  <2> QED
    BY <1>1, <1>2, <1>3, <1>6, <2>1, <2>2
<1> QED
  BY <1>4, <1>5, <1>6

LEMMA DieOK ==
  ASSUME IInv, NEW c \in selected, Die(c)
  PROVE  IInv'
<1> DEFINE out == CASE c \in Scripts    -> Printed(c, "none", Truth(c), chrome)
                    [] c \in Categories -> RunTestCategory(process[c].left)
                    [] OTHER            -> CutShort(c)
<1>1. PICK exit \in {1, MissingExit} : Ends(c, "completed", exit, out)
  BY DEF Die
<1>2. /\ process[c].at \in {"running", "writing"} /\ StageOK(c) /\ SettingOK
      /\ reports' = reports /\ Fault /\ Unjudged /\ tree[c] \subseteq Kinds /\ run \in 1 .. MaxRuns
  BY Here DEF Die
<1>3. process[c].answer = "none" /\ process[c].left = Nothing
  BY <1>2 DEF StageOK
<1>4. faults' \in 0 .. scene.faults
  BY <1>2, FaultFacts
<1>5. /\ out \in Documents(1 .. MaxRuns) /\ SaidOK(c, out)
      /\ (c = "github-actions" /\ Finds(out, {"mild", "bad"}) => "sound" \in out.has)
      /\ (~ IsShaped(out) \/ c \in Scripts)
  <2>1. CASE c \in Scripts
    <3>1. Truth(c) = Report({run}, tree[c])
      BY <2>1, TruthFacts DEF Scripts
    <3>2. out = Printed(c, "none", Report({run}, tree[c]), chrome)
      BY <2>1, <3>1 DEF Scripts, Categories
    <3>3. PrintedOK(c, "none", tree[c], out)
      BY <1>2, <3>2, PrintedFacts DEF Answers
    <3> QED
      BY <2>1, <3>3 DEF PrintedOK
  <2>2. CASE c \in Categories
    <3>1. out = Nothing
      BY <1>3, <2>2 DEF Scripts, Categories, RunTestCategory
    <3>2. Nothing \in Documents(1 .. MaxRuns)
      BY DEF Nothing, Documents, Blank, Forms
    <3> QED
      BY <3>1, <3>2, SaysLittle
  <2>3. CASE c \notin Scripts /\ c \notin Categories
    <3>1. out = CutShort(c)
      BY <2>3
    <3> QED
      BY <3>1, CutShortFacts
  <2> QED
    BY <2>1, <2>2, <2>3
<1> HIDE DEF out
<1> QED
  BY <1>1, <1>2, <1>3, <1>4, <1>5, Ending DEF Ended, MissingExit

LEMMA ExamineOK ==
  ASSUME IInv, NEW c \in selected, Examine(c)
  PROVE  IInv'
<1> DEFINE record == [process[c] EXCEPT !.at = "writing"]
           cut == Blank("broken", {run})
<1>1. /\ process[c] \in Records /\ StageOK(c) /\ AnswerOK(c) /\ process[c].at = "running"
      /\ process' = [process EXCEPT ![c] = record] /\ process'[c] = record /\ SettingOK
      /\ run' = run /\ tree' = tree /\ faults' = faults /\ Writes({c}, cut) /\ Unjudged
      /\ DependsOn(c) \subseteq selected /\ run \in 1 .. MaxRuns
  BY Here DEF Examine, Becomes, Unjudged
<1>2. /\ record \in Records /\ record.at = "writing" /\ record.status = process[c].status
      /\ record.exit = process[c].exit /\ record.answer = process[c].answer
      /\ record.left = process[c].left /\ record.out = process[c].out
  BY <1>1 DEF Records, Stages
<1>3. cut \in Documents(1 .. MaxRuns) /\ cut.form = "broken" /\ cut.of = {run}
  BY <1>1 DEF Documents, Blank, Forms
<1> HIDE DEF record, cut
<1>4. Moves(c)
  <2>1. faults' \in 0 .. scene.faults
    BY <1>1, FaultFacts
  <2> QED
    BY <1>1, <1>2, <1>3, <2>1 DEF Moves
<1>5. \A d \in selected : d # c => process'[d] = process[d]
  BY <1>1, <1>4, MoveFacts
<1>6. StageOK(c)'
  <2>1. \A d \in DependsOn(c) : d # c /\ IsDone(d)
    BY <1>1 DEF StageOK, IsDone
  <2>2. \A d \in DependsOn(c) : IsDone(d)'
    BY <1>1, <1>5, <2>1 DEF IsDone
  <2> QED
    BY <1>1, <1>2, <2>2 DEF StageOK
<1>7. AnswerOK(c)'
  BY <1>1, <1>2 DEF AnswerOK, SaidOK
<1>8. ASSUME c \in Files  PROVE ReportOK(c)'
  <2>1. reports'[c] = cut
    BY <1>1, <1>8 DEF Writes, SettingOK
  <2>2. process'[c].answer = "none"
    BY <1>1, <1>2 DEF StageOK
  <2>3. c = "coverage" => \A d \in Measured : IsShaped(reports'[d])
    <3> SUFFICES ASSUME c = "coverage", NEW d \in Measured  PROVE IsShaped(reports'[d])
      OBVIOUS
    <3>1. IsShaped(reports[d])
      BY DEF Examine, Inputs
    <3>2. d \in selected \cap Files /\ d # c
      BY <1>1 DEF Measured, Files, DependsOn
    <3>3. reports'[d] = reports[d]
      BY <1>1, <1>4, <3>2, MoveFacts
    <3> QED
      BY <3>1, <3>3
  <2> QED
    BY <1>1, <1>3, <2>1, <2>2, <2>3 DEF ReportOK, Answered
<1> QED
  BY <1>4, <1>6, <1>7, <1>8, Moving

(***************************************************************************)
(* A tool's answer is about the same runs as the truth it tells or         *)
(* garbles.                                                                *)
(***************************************************************************)
LEMMA DocumentOfFacts ==
  ASSUME NEW truth \in Documents(1 .. MaxRuns), truth.form = "report",
         NEW answer \in {"honest", "half", "odd", "hollow", "alien"}
  PROVE  /\ DocumentOf(answer, truth) \in Documents(1 .. MaxRuns)
         /\ DocumentOf(answer, truth).form \in {"broken", "report", "odd", "hollow", "alien"}
         /\ DocumentOf(answer, truth).of = truth.of
         /\ answer = "honest" => DocumentOf(answer, truth) = truth
<1>1. truth.of \subseteq 1 .. MaxRuns
  BY DEF Documents
<1>2. \A form \in {"broken", "odd", "hollow", "alien"} :
        /\ Blank(form, truth.of) \in Documents(1 .. MaxRuns)
        /\ Blank(form, truth.of).form = form /\ Blank(form, truth.of).of = truth.of
  BY <1>1 DEF Blank, Documents, Forms
<1>3. /\ answer = "honest" => DocumentOf(answer, truth) = truth
      /\ answer = "half" => DocumentOf(answer, truth) = Blank("broken", truth.of)
      /\ answer \in {"odd", "hollow", "alien"} => DocumentOf(answer, truth) = Blank(answer, truth.of)
  BY DEF DocumentOf
<1> QED
  BY <1>2, <1>3

(***************************************************************************)
(* Delivering: a test category leaves its report behind, a file-judged     *)
(* check writes one, any other prints; coverage and crap carry over the    *)
(* runs of what they read.                                                 *)
(***************************************************************************)
LEMMA DeliverOK ==
  ASSUME IInv, NEW c \in selected, NEW answer \in Answers, Deliver(c, answer)
  PROVE  IInv'
<1> DEFINE truth == Truth(c)
           document == DocumentOf(answer, truth)
           printed == Printed(c, answer, truth, chrome)
           out == IF c \in FileJudged THEN Nothing ELSE printed
           record == IF c \in Categories
                     THEN [process[c] EXCEPT !.at = "written", !.answer = answer, !.left = document]
                     ELSE [process[c] EXCEPT !.at = "written", !.answer = answer, !.out = out]
           written == IF c \in Measured THEN truth ELSE document
<1>1. /\ process[c] \in Records /\ StageOK(c) /\ AnswerOK(c) /\ process[c].at = "writing"
      /\ SettingOK /\ DependsOn(c) \subseteq selected /\ run \in 1 .. MaxRuns /\ tree[c] \subseteq Kinds
      /\ (c \in Files => ReportOK(c))
      /\ run' = run /\ tree' = tree /\ Unjudged
  BY Here DEF Deliver, Unjudged
<1>2. process' = [process EXCEPT ![c] = record] /\ Writes({c}, written)
  BY DEF Deliver, Becomes
<1>3. /\ answer \in {"honest", "half", "odd", "hollow", "alien"} /\ (c \notin Documented => answer = "honest")
      /\ answer = "hollow" => c # "openssf-scorecard"
  BY DEF Deliver, Walked, Documented
<1>4. faults' \in 0 .. scene.faults
  BY <1>1, FaultFacts DEF Deliver
<1>5. /\ truth \in Documents(1 .. MaxRuns) /\ truth.form = "report" /\ truth.has = tree[c]
      /\ (c \notin {"coverage", "crap"} => truth = Report({run}, tree[c]))
      /\ (c \notin {"coverage", "crap"} => truth.of = {run})
      /\ (c = "coverage" => truth.of = UNION {reports[d].of : d \in Measured})
      /\ (c = "crap" => truth.of = reports["coverage"].of)
  BY <1>1, TruthFacts DEF Report
<1>6. /\ document \in Documents(1 .. MaxRuns)
      /\ document.form \in {"broken", "report", "odd", "hollow", "alien"}
      /\ document.of = truth.of /\ (answer = "honest" => document = truth)
  BY <1>3, <1>5, DocumentOfFacts
<1>7. c \notin {"coverage", "crap"} => PrintedOK(c, answer, tree[c], printed)
  BY <1>1, <1>3, <1>5, PrintedFacts
<1>8. c = "coverage" => printed = truth
  BY <1>3, <1>6 DEF Printed, Documented
<1> HIDE DEF truth, document, printed
<1>9. out \in Documents(1 .. MaxRuns) /\ SaidOK(c, out)
  <2>1. Nothing \in Documents(1 .. MaxRuns)
    BY DEF Nothing, Documents, Blank, Forms
  <2>2. "crap" \in FileJudged
    BY DEF FileJudged
  <2>3. c = "coverage" => SaidOK(c, truth)
    BY <1>5 DEF SaidOK
  <2> QED
    BY <1>5, <1>7, <1>8, <2>1, <2>2, <2>3, SaysLittle DEF PrintedOK
<1>10. written \in Documents(1 .. MaxRuns) /\ written.form \in {"broken", "report", "odd", "hollow", "alien"}
       /\ written.of = truth.of
  BY <1>5, <1>6
<1>11. /\ record \in Records /\ record.at = "written" /\ record.status = process[c].status
       /\ record.exit = process[c].exit /\ record.answer = answer
       /\ record.left = (IF c \in Categories THEN document ELSE process[c].left)
       /\ record.out = (IF c \in Categories THEN process[c].out ELSE out)
  <2>1. process[c].left \in Documents(1 .. MaxRuns) /\ process[c].out \in Documents(1 .. MaxRuns)
    BY <1>1 DEF Records
  <2> HIDE DEF out
  <2>2. CASE c \in Categories
    BY <1>1, <1>6, <2>1, <2>2 DEF Records, Stages, Answers
  <2>3. CASE c \notin Categories
    BY <1>1, <1>9, <2>1, <2>3 DEF Records, Stages, Answers
  <2> QED
    BY <2>2, <2>3
<1> HIDE DEF record, written
<1>12. Moves(c)
  BY <1>1, <1>2, <1>4, <1>10, <1>11 DEF Moves
<1>13. /\ process'[c] = record
       /\ \A d \in selected : d # c => process'[d] = process[d]
  <2>1. process'[c] = record
    BY <1>1, <1>2 DEF SettingOK
  <2> QED
    BY <1>1, <1>12, <2>1, MoveFacts
<1>14. StageOK(c)'
  <2>1. \A d \in DependsOn(c) : d # c /\ IsDone(d)
    BY <1>1 DEF StageOK, IsDone
  <2>2. \A d \in DependsOn(c) : IsDone(d)'
    BY <1>1, <1>13, <2>1 DEF IsDone
  <2> QED
    BY <1>1, <1>3, <1>11, <1>13, <2>2 DEF StageOK, NoExit
<1>15. AnswerOK(c)'
  <2>1. SaidOK(c, record.left)
    <3>1. c \in Categories => c \notin {"coverage", "crap"} \cup Complete
      BY DEF Categories, Complete
    <3> QED
      BY <1>1, <1>5, <1>6, <1>11, <3>1 DEF AnswerOK, SaidOK
  <2>2. SaidOK(c, record.out)
    BY <1>1, <1>9, <1>11 DEF AnswerOK
  <2>4. c = "github-actions" /\ Finds(record.out, {"mild", "bad"}) => "sound" \in record.out.has
    <3>1. "github-actions" \notin Categories \cup FileJudged \cup {"coverage", "crap"}
      BY DEF Categories, FileJudged
    <3> QED
      BY <1>7, <1>11, <3>1 DEF PrintedOK
  <2>5. c \notin Scripts \cup Categories \cup FileJudged \cup {"coverage"} /\ IsShaped(record.out) =>
          answer = "honest" /\ record.out.has = tree[c]
    <3>1. "crap" \in FileJudged
      BY DEF FileJudged
    <3> QED
      BY <1>7, <1>11, <3>1 DEF PrintedOK
  <2>6. c \in Plain => record.out = Report({run}, tree[c])
    <3>1. c \in Plain => c \notin Categories \cup FileJudged \cup {"coverage", "crap"} \cup Documented
      BY DEF Plain, Categories, FileJudged, Documented
    <3> QED
      BY <1>3, <1>7, <1>11, <3>1 DEF PrintedOK
  <2> QED
    BY <1>1, <1>3, <1>11, <1>13, <2>1, <2>2, <2>4, <2>5, <2>6 DEF AnswerOK, SaidOK
<1>16. ASSUME c \in Files  PROVE ReportOK(c)'
  <2>1. reports'[c] = written
    BY <1>1, <1>2, <1>16 DEF Writes, SettingOK
  <2>2. process'[c].at = "written"
    BY <1>11, <1>13
  <2>3. c = "schema" => written = Report({run}, tree[c])
    BY <1>3, <1>5, <1>6 DEF written, Documented
  <2>4. c = "coverage" /\ Answered(Measured \cup {"coverage"})' =>
          written.of = {run} /\ record.out.of = {run}
    <3> SUFFICES ASSUME c = "coverage", Answered(Measured \cup {"coverage"})'
                 PROVE  written.of = {run} /\ record.out.of = {run}
      OBVIOUS
    <3>1. \A d \in Measured : d \in selected \cap Files /\ d # c /\ d \notin {"coverage", "crap"}
      BY <1>1, DependsFacts DEF Measured, Files
    <3>2. \A d \in Measured : ReportOK(d) /\ process'[d] = process[d]
      BY <1>13, <3>1 DEF IInv
    <3>3. \A d \in Measured : reports[d].of = {run}
      BY <3>1, <3>2 DEF ReportOK, Answered
    <3>4. "test-unit" \in Measured
      BY DependsFacts DEF Measured
    <3>5. truth.of = {run}
      BY <1>5, <3>3, <3>4
    <3>6. record.out = truth
      BY <1>8, <1>11 DEF Categories, FileJudged
    <3> QED
      BY <1>10, <3>5, <3>6
  <2>5. c = "crap" /\ Answered(Measured \cup {"coverage", "crap"})' => written.of = {run}
    <3> SUFFICES ASSUME c = "crap", Answered(Measured \cup {"coverage", "crap"})'
                 PROVE  written.of = {run}
      OBVIOUS
    <3>1. "coverage" \in selected \cap Files
      BY <1>1, DependsFacts DEF Files
    <3>2. Measured \subseteq selected
      BY <1>1, <3>1, Here DEF Measured
    <3>3. \A d \in Measured \cup {"coverage"} : process'[d] = process[d]
      BY <1>13, <3>1, <3>2, DependsFacts DEF Measured
    <3>4. Answered(Measured \cup {"coverage"})
      BY <3>3 DEF Answered
    <3>5. reports["coverage"].of = {run}
      BY <3>1, <3>4 DEF IInv, ReportOK
    <3> QED
      BY <1>5, <1>10, <3>5
  <2> QED
    BY <1>1, <1>5, <1>10, <1>13, <2>1, <2>2, <2>3, <2>4, <2>5 DEF ReportOK
<1> QED
  BY <1>12, <1>14, <1>15, <1>16, Moving

---------------------------------------------------------------------------
(* Judging, running again, and the invariant. *)

(* Policies look at the facts, the options, the processes and the reports. *)
LEMMA Stable ==
  ASSUME UNCHANGED <<setting, tree, run, process, reports>>
  PROVE  /\ selected' = selected /\ Judged' = Judged
         /\ \A c \in Judged : Policy(c, Evidence(c))' = Policy(c, Evidence(c))
         /\ WritesScorecard' = WritesScorecard
         /\ Written' = Written
         /\ AllDone' = AllDone
<1>1. /\ scene' = scene /\ facts' = facts /\ options' = options
      /\ run' = run /\ process' = process /\ reports' = reports
  BY DEF setting
<1>2. selected' = selected /\ Judged' = Judged
  BY <1>1, SameSelected
<1>3. \A c : Evidence(c)' = Evidence(c)
  BY <1>1 DEF Evidence
<1>4. \A e : Results(e)' = Results(e)
  BY <1>1 DEF Results
<1>5. \A c, e : Policy(c, e)' = Policy(c, e)
  BY <1>4 DEF Policy
<1>6. \A c : Policy(c, Evidence(c))' = Policy(c, Evidence(c))
  BY <1>3, <1>4 DEF Policy
<1>7. WritesScorecard' = WritesScorecard
  BY <1>2, <1>6 DEF WritesScorecard
<1>8. Written' = Written
  BY <1>1, <1>3, <1>4 DEF Written
<1>9. AllDone' = AllDone
  BY <1>1, <1>2 DEF AllDone, IsDone
<1> QED
  BY <1>2, <1>6, <1>7, <1>8, <1>9

(* Judging changes no process and no report. *)
LEMMA Unmoved ==
  ASSUME IInv, UNCHANGED <<setting, tree, run, process, reports, faults>>
  PROVE  /\ SettingOK'
         /\ (\A c \in selected : StageOK(c) /\ AnswerOK(c))'
         /\ (\A f \in selected \cap Files : ReportOK(f))'
<1>1. /\ scene' = scene /\ facts' = facts /\ options' = options /\ tree' = tree
      /\ run' = run /\ process' = process /\ reports' = reports /\ faults' = faults
  BY DEF setting
<1>2. selected' = selected /\ Records' = Records
  BY <1>1, SameSelected DEF Records
<1>3. SettingOK'
  BY <1>1, <1>2 DEF IInv, SettingOK
<1>4. (\A c \in selected : StageOK(c) /\ AnswerOK(c))'
  <2>1. \A c : StageOK(c) => StageOK(c)'
    BY <1>1 DEF StageOK, IsDone
  <2>2. \A c : AnswerOK(c) => AnswerOK(c)'
    BY <1>1 DEF AnswerOK, SaidOK
  <2> QED
    BY <1>2, <2>1, <2>2 DEF IInv
<1>5. (\A f \in selected \cap Files : ReportOK(f))'
  <2>1. \A f \in selected \cap Files : ReportOK(f)
    BY DEF IInv
  <2>2. \A f : ReportOK(f) => ReportOK(f)'
    BY ONLY <1>1, <1>2 DEF ReportOK, Answered
  <2> QED
    BY ONLY <1>2, <2>1, <2>2
<1> QED
  BY <1>3, <1>4, <1>5

LEMMA JudgeOK ==
  ASSUME IInv, Judge
  PROVE  IInv'
<1>1. UNCHANGED <<setting, tree, run, process, reports, faults>>
  BY DEF Judge
<1>2. /\ Judged' = Judged /\ AllDone' = AllDone /\ Written' = Written
      /\ WritesScorecard' = WritesScorecard
      /\ \A c \in Judged : Policy(c, Evidence(c))' = Policy(c, Evidence(c))
  BY <1>1, Stable
<1>3. verdict' = [c \in Judged' |-> Policy(c, Evidence(c))']
  BY <1>2 DEF Judge
<1>4. JudgedOK'
  BY <1>2, <1>3 DEF Judge, JudgedOK
<1> QED
  BY <1>1, <1>4, Unmoved DEF IInv

LEMMA StutterOK ==
  ASSUME IInv, UNCHANGED vars
  PROVE  IInv'
<1>1. UNCHANGED <<setting, tree, run, process, reports, faults>> /\ verdict' = verdict
      /\ scorecard' = scorecard
  BY DEF vars
<1>2. /\ Judged' = Judged /\ AllDone' = AllDone /\ Written' = Written
      /\ WritesScorecard' = WritesScorecard
      /\ \A c \in Judged : Policy(c, Evidence(c))' = Policy(c, Evidence(c))
  BY <1>1, Stable
<1>3. JudgedOK'
  BY <1>1, <1>2 DEF JudgedOK, IInv
<1> QED
  BY <1>1, <1>3, Unmoved DEF IInv

(* Where every process begins. *)
LEMMA WaitingFacts ==
  /\ Waiting \in Records /\ Waiting.at = "waiting" /\ Waiting.status = "none"
  /\ Waiting.exit = NoExit /\ Waiting.answer = "none"
  /\ Waiting.left = Nothing /\ Waiting.out = Nothing
<1>1. Nothing \in Documents(1 .. MaxRuns)
  BY DEF Nothing, Documents, Blank, Forms
<1> QED
  BY <1>1 DEF Waiting, Records, Stages, Answers

(* A world says for every check what there is to find. *)
LEMMA WorldsAreTrees ==
  ASSUME NEW world \in Worlds
  PROVE  world \in [selected -> SUBSET Kinds]
BY ContractAssumption DEF Worlds, Few

LEMMA RunAgainOK ==
  ASSUME IInv, RunAgain
  PROVE  IInv'
<1>1. /\ scene' = scene /\ facts' = facts /\ reports' = reports /\ faults' = faults
      /\ run' = run + 1 /\ run < MaxRuns /\ tree' \in Worlds
      /\ process' = [c \in selected |-> Waiting] /\ verdict' = [c \in Judged |-> "none"]
      /\ SettingOK
  BY DEF RunAgain, setting, IInv
<1>2. selected' = selected /\ Judged' = Judged /\ Records' = Records
  BY <1>1, SameSelected DEF Records
<1>3. SettingOK'
  <2>1. run' \in 1 .. MaxRuns
    BY <1>1, ContractAssumption DEF SettingOK
  <2>2. tree' \in [selected -> SUBSET Kinds]
    BY <1>1, WorldsAreTrees
  <2>3. process' \in [selected -> Records]
    BY <1>1, WaitingFacts
  <2> QED
    BY <1>1, <1>2, <2>1, <2>2, <2>3 DEF SettingOK
<1>4. \A c \in selected : process'[c] = Waiting
  BY <1>1
<1> HIDE DEF Waiting
<1>5. ASSUME NEW c \in selected  PROVE StageOK(c)' /\ AnswerOK(c)'
  <2>1. /\ process'[c].at = "waiting" /\ process'[c].status = "none" /\ process'[c].exit = NoExit
        /\ process'[c].answer = "none" /\ process'[c].left = Nothing /\ process'[c].out = Nothing
    BY <1>4, <1>5, WaitingFacts
  <2>2. StageOK(c)'
    BY <2>1 DEF StageOK, NoExit
  <2>3. Nothing.form = "nothing" /\ ~ IsShaped(Nothing) /\ ~ Finds(Nothing, {"mild", "bad"})
    BY DEF Nothing, Blank, IsShaped, Finds
  <2>4. AnswerOK(c)'
    BY <2>1, <2>3 DEF AnswerOK, SaidOK
  <2> QED
    BY <2>2, <2>4
<1>6. ASSUME NEW f \in selected \cap Files  PROVE ReportOK(f)'
  <2>1. ReportOK(f) /\ process'[f].answer = "none" /\ process'[f].at = "waiting"
    BY <1>4, <1>6, WaitingFacts DEF IInv
  <2> QED
    BY <1>1, <2>1 DEF ReportOK, Answered
<1>7. JudgedOK'
  BY <1>1, <1>2 DEF JudgedOK
<1> QED
  BY <1>2, <1>3, <1>5, <1>6, <1>7 DEF IInv

LEMMA InitOK ==
  ASSUME Init
  PROVE  IInv
<1>1. /\ scene \in Scenes /\ run = 1 /\ faults = 0 /\ tree \in Worlds
      /\ process = [c \in selected |-> Waiting] /\ verdict = [c \in Judged |-> "none"]
      /\ reports = [f \in selected \cap Files |-> Nothing]
  BY DEF Init
<1>2. Nothing \in Documents(1 .. MaxRuns) /\ Nothing.form = "nothing"
      /\ ~ IsShaped(Nothing) /\ ~ Finds(Nothing, {"mild", "bad"})
  BY DEF Nothing, Documents, Blank, Forms, IsShaped, Finds
<1>3. SettingOK
  <2>1. run \in 1 .. MaxRuns /\ faults \in 0 .. scene.faults
    BY <1>1, ContractAssumption
  <2>2. tree \in [selected -> SUBSET Kinds] /\ process \in [selected -> Records]
    BY <1>1, WorldsAreTrees, WaitingFacts
  <2>3. "openssf-scorecard" \in selected => facts \in Facts
    BY DEF Init
  <2>4. reports \in [selected \cap Files -> Documents(1 .. MaxRuns)]
    BY <1>1, <1>2
  <2> QED
    BY <1>1, <2>1, <2>2, <2>3, <2>4 DEF SettingOK
<1>4. ASSUME NEW c \in selected  PROVE StageOK(c) /\ AnswerOK(c)
  <2>1. /\ process[c].at = "waiting" /\ process[c].status = "none" /\ process[c].exit = NoExit
        /\ process[c].answer = "none" /\ process[c].left = Nothing /\ process[c].out = Nothing
    BY <1>1, <1>4, WaitingFacts
  <2> QED
    BY <1>2, <2>1 DEF StageOK, AnswerOK, SaidOK, NoExit
<1>5. ASSUME NEW f \in selected \cap Files  PROVE ReportOK(f)
  <2>1. reports[f] = Nothing /\ process[f].answer = "none" /\ process[f].at = "waiting"
    BY <1>1, <1>5, WaitingFacts
  <2> QED
    BY <1>2, <2>1 DEF ReportOK, Answered
<1>6. JudgedOK
  BY <1>1 DEF JudgedOK
<1> QED
  BY <1>3, <1>4, <1>5, <1>6 DEF IInv

LEMMA NextOK ==
  ASSUME IInv, [Next]_vars
  PROVE  IInv'
<1>1. ASSUME NEW c \in selected, Launch(c)  PROVE IInv'
  BY <1>1, LaunchOK
<1>2. ASSUME NEW c \in selected, CannotStart(c)  PROVE IInv'
  BY <1>2, CannotStartOK
<1>3. ASSUME NEW c \in selected, Examine(c)  PROVE IInv'
  BY <1>3, ExamineOK
<1>4. ASSUME NEW c \in selected, LacksInput(c)  PROVE IInv'
  BY <1>4, LacksInputOK
<1>5. ASSUME NEW c \in selected, NEW answer \in Answers, Deliver(c, answer)  PROVE IInv'
  BY <1>5, DeliverOK
<1>6. ASSUME NEW c \in selected, Exit(c)  PROVE IInv'
  BY <1>6, ExitOK
<1>7. ASSUME NEW c \in selected, Die(c)  PROVE IInv'
  BY <1>7, DieOK
<1>8. ASSUME NEW c \in selected,
             NEW status \in {"timed_out", "aborted", "host_terminated", "signaled"}, Kill(c, status)
      PROVE  IInv'
  BY <1>8, KillOK
<1>9. CASE Judge
  BY <1>9, JudgeOK
<1>10. CASE RunAgain
  BY <1>10, RunAgainOK
<1>11. CASE UNCHANGED vars
  BY <1>11, StutterOK
<1> QED
  BY <1>1, <1>2, <1>3, <1>4, <1>5, <1>6, <1>7, <1>8, <1>9, <1>10, <1>11 DEF Next

(***************************************************************************)
(* In every state that any mix of tools, failures and runs can reach:      *)
(* stages, answers, output and reports fit together as IInv says, and      *)
(* verdicts are what the policies say of the evidence as it still is       *)
(* (runChecks and runPolicies, over the contract's own checks).            *)
(***************************************************************************)
THEOREM Inductive == Spec => []IInv
<1>1. Init => IInv
  BY InitOK
<1>2. IInv /\ [Next]_vars => IInv'
  BY NextOK
<1> QED
  BY <1>1, <1>2, PTL DEF Spec

---------------------------------------------------------------------------
(* Policies: what they answer, and what they have seen when they pass. *)

(* The checks that are judged when selected. *)
Checked == AllChecks \ Feeders

(* The checks whose verdicts are modelled here, by name. *)
LEMMA CheckedNames ==
  Checked = (DeclaredNames \cup PublishedNames) \ {"suppression-governance", "security-deps"}
BY PublishedAreNamed, DeclaredAreNamed DEF Checked, AllChecks, Feeders

(* Which policy each check has. *)
LEMMA PolicyCases ==
  ASSUME NEW e
  PROVE  /\ Policy("sbom", e) = Sbom(e) /\ Policy("lint", e) = EvaluateLintPolicy(e.out)
         /\ Policy("format", e) = Format(e) /\ Policy("schema", e) = Schema(e)
         /\ Policy("build", e) = Build(e) /\ Policy("typecheck", e) = Typecheck(e)
         /\ \A c \in Categories : Policy(c, e) = TestCategory(e)
         /\ Policy("architecture", e) = EvaluateArchitecturePolicy(e.out)
         /\ Policy("github-actions", e) = EvaluateGitHubActionsPolicy(e.out)
         /\ Policy("coverage", e) = EvaluateCoveragePolicy(e.out)
         /\ Policy("crap", e) = Crap(e) /\ Policy("size", e) = Size(e)
         /\ Policy("duplication", e) = Duplication(e) /\ Policy("publint", e) = Publint(e)
         /\ Policy("arethetypeswrong", e) = ArethetypeswrongToFile(e)
         /\ Policy("license", e) = License(e) /\ Policy("accessibility", e) = Accessibility(e)
         /\ Policy("security-secrets", e) = SecuritySecrets(e)
         /\ Policy("dist-no-urls", e) = DistNoUrls(e)
         /\ Policy("adr-governance", e) = EvaluateAdrGovernancePolicy(e.out)
         /\ Policy("commitlint", e) = Commitlint(e)
         /\ Policy("openssf-scorecard", e) = OpenssfScorecard(e, Results(e))
         /\ Policy("mutation", e) = Mutation(e) /\ Policy("presets/lint", e) = Lint(e)
         /\ Policy("presets/dead-code", e) = DeadCode(e)
         /\ Policy("presets/security-deps", e) = SecurityDeps(e)
         /\ Policy("presets/arethetypeswrong", e) = Arethetypeswrong(e)
         /\ Policy("test", e) = Test(e) /\ Policy("e2e", e) = E2e(e)
         /\ Policy("markdownlint", e) = Markdownlint(e) /\ Policy("broken-links", e) = BrokenLinks(e)
         /\ Policy("stylelint", e) = Stylelint(e)
BY DEF Policy, Categories

(* Every policy answers pass, warn or fail, or throws. *)
LEMMA PolicyTyped ==
  ASSUME NEW c \in Checked, NEW e
  PROVE  Policy(c, e) \in {"pass", "warn", "fail", "threw"}
<1> DEFINE Outcomes == {"pass", "warn", "fail", "threw"}
<1>1. \A fails, warns : Verdict(fails, warns) \in Outcomes
  BY DEF Verdict
<1>2. \A document, throwing, otherwise :
        otherwise \in Outcomes => OrThrew(document, throwing, otherwise) \in Outcomes
  BY DEF OrThrew
<1> HIDE DEF Outcomes
<1>3. "fail" \in Outcomes /\ "threw" \in Outcomes
  BY DEF Outcomes
<1>4. /\ Sbom(e) \in Outcomes /\ EvaluateLintPolicy(e.out) \in Outcomes
      /\ EvaluateArchitecturePolicy(e.out) \in Outcomes /\ EvaluateGitHubActionsPolicy(e.out) \in Outcomes
      /\ EvaluateCoveragePolicy(e.out) \in Outcomes /\ EvaluateAdrGovernancePolicy(e.out) \in Outcomes
      /\ Accessibility(e) \in Outcomes /\ OpenssfScorecard(e, Results(e)) \in Outcomes
  BY <1>1, <1>2 DEF Sbom, EvaluateLintPolicy, EvaluateArchitecturePolicy, EvaluateGitHubActionsPolicy,
                    EvaluateCoveragePolicy, EvaluateAdrGovernancePolicy, Accessibility, OpenssfScorecard
<1>5. /\ Format(e) \in Outcomes /\ Schema(e) \in Outcomes /\ Build(e) \in Outcomes
      /\ Typecheck(e) \in Outcomes /\ TestCategory(e) \in Outcomes /\ Duplication(e) \in Outcomes
      /\ Publint(e) \in Outcomes /\ SecuritySecrets(e) \in Outcomes /\ DistNoUrls(e) \in Outcomes
      /\ Commitlint(e) \in Outcomes /\ DeadCode(e) \in Outcomes /\ SecurityDeps(e) \in Outcomes
      /\ E2e(e) \in Outcomes /\ Markdownlint(e) \in Outcomes /\ BrokenLinks(e) \in Outcomes
  <2>1. /\ Format(e) \in Outcomes /\ Schema(e) \in Outcomes /\ Build(e) \in Outcomes
        /\ Typecheck(e) \in Outcomes /\ TestCategory(e) \in Outcomes
        /\ Publint(e) \in Outcomes /\ SecuritySecrets(e) \in Outcomes /\ DistNoUrls(e) \in Outcomes
    BY <1>1 DEF Format, Schema, Build, Typecheck, TestCategory, EvaluateVitestJsonPolicy,
                Publint, SecuritySecrets, DistNoUrls
  <2>2. /\ Commitlint(e) \in Outcomes /\ DeadCode(e) \in Outcomes /\ SecurityDeps(e) \in Outcomes
        /\ E2e(e) \in Outcomes /\ BrokenLinks(e) \in Outcomes
    BY <1>1 DEF Commitlint, DeadCode, SecurityDeps, E2e, BrokenLinks
  <2>3. Duplication(e) \in Outcomes /\ Markdownlint(e) \in Outcomes
    BY <1>1, <1>3 DEF Duplication, Markdownlint
  <2> QED
    BY <2>1, <2>2, <2>3
<1>6. /\ Crap(e) \in Outcomes /\ Size(e) \in Outcomes /\ ArethetypeswrongToFile(e) \in Outcomes
      /\ License(e) \in Outcomes /\ Mutation(e) \in Outcomes /\ Lint(e) \in Outcomes
      /\ Arethetypeswrong(e) \in Outcomes /\ Test(e) \in Outcomes /\ Stylelint(e) \in Outcomes
  <2>1. Crap(e) \in Outcomes /\ Size(e) \in Outcomes
    BY <1>1, <1>2, <1>3 DEF Crap, EvaluateCrapPolicy, Size, EvaluateSizePolicy
  <2>2. ArethetypeswrongToFile(e) \in Outcomes /\ Arethetypeswrong(e) \in Outcomes
    BY <1>1, <1>3 DEF ArethetypeswrongToFile, Arethetypeswrong, EvaluateAttwReport
  <2>3. License(e) \in Outcomes
    BY <1>1, <1>3 DEF License
  <2>4. Mutation(e) \in Outcomes
    BY <1>1, <1>2, <1>3 DEF Mutation
  <2>5. Lint(e) \in Outcomes /\ Stylelint(e) \in Outcomes
    BY <1>1, <1>3 DEF Lint, Stylelint, ErrorWarningPassPolicy
  <2>6. Test(e) \in Outcomes
    BY <1>1, <1>3 DEF Test, EvaluateVitestJsonPolicy
  <2> QED
    BY <2>1, <2>2, <2>3, <2>4, <2>5, <2>6
<1> QED
  BY <1>4, <1>5, <1>6, PolicyCases, CheckedNames DEF DeclaredNames, PublishedNames, Categories, Outcomes

(* A verdict is what the policy says of the evidence as it still is. *)
LEMMA JudgedFacts ==
  ASSUME IInv
  PROVE  /\ Judged \subseteq Checked /\ Judged \subseteq selected
         /\ \A c \in Judged : verdict[c] # "none" =>
              /\ AllDone /\ verdict[c] = Policy(c, Evidence(c))
              /\ WritesScorecard => scorecard = Written
<1>1. Judged \subseteq selected /\ Judged \subseteq Checked
  BY SelectedFacts DEF IInv, Judged, Checked
<1> QED
  BY <1>1 DEF IInv, JudgedOK

(***************************************************************************)
(* Stages, documents and verdicts have their forms, and no policy has      *)
(* judged before every process has ended: runPolicies after runChecks.     *)
(***************************************************************************)
THEOREM TypeCorrect == Spec => []TypeOK
<1>1. IInv => TypeOK
  <2> SUFFICES ASSUME IInv  PROVE TypeOK
    OBVIOUS
  <2>1. run \in 1 .. MaxRuns /\ faults \in 0 .. scene.faults
    BY DEF IInv, SettingOK
  <2>2. ASSUME NEW c \in selected
        PROVE  /\ process[c].at \in Stages /\ process[c].answer \in Answers
               /\ {process[c].out, process[c].left} \subseteq Documents(1 .. MaxRuns)
               /\ IsDone(c) <=> process[c].status # "none"
    BY <2>2, Here DEF Records, StageOK, IsDone
  <2>3. \A f \in DOMAIN reports : reports[f] \in Documents(1 .. MaxRuns)
    BY DEF IInv, SettingOK
  <2>4. ASSUME NEW c \in Judged
        PROVE  verdict[c] \in Verdicts
    BY <2>4, JudgedFacts, PolicyTyped DEF Verdicts
  <2>5. ASSUME NEW c \in Judged, NEW d \in selected, verdict[c] # "none"
        PROVE  process[d].status # "none"
    BY <2>2, <2>5, JudgedFacts DEF AllDone
  <2> QED
    BY <2>1, <2>2, <2>3, <2>4, <2>5 DEF TypeOK
<1> QED
  BY <1>1, Inductive, PTL

(* What a passing policy has seen of the document it reads. *)
Shown(c, e, document) ==
  /\ IsShaped(document) \/ Overlooked(c, document.form)
  /\ ~ Finds(document, Blocking(c))
  /\ IsShaped(document) => \A kinds \in Required(c) : Finds(document, kinds)
  /\ c \in MustComplete => e.status = "completed"

(***************************************************************************)
(* A policy passes when nothing fails and nothing warns, and no throwing   *)
(* form was read.                                                          *)
(***************************************************************************)
LEMMA Passing ==
  /\ \A fails, warns : Verdict(fails, warns) = "pass" <=> ~ fails /\ ~ warns
  /\ \A document, throwing, otherwise :
       OrThrew(document, throwing, otherwise) = "pass" =>
         IsJson(document) /\ document.form \notin throwing /\ otherwise = "pass"
<1>1. \A fails, warns : Verdict(fails, warns) = "pass" <=> ~ fails /\ ~ warns
  BY DEF Verdict
<1>2. \A document, throwing, otherwise :
        OrThrew(document, throwing, otherwise) = "pass" =>
          IsJson(document) /\ document.form \notin throwing /\ otherwise = "pass"
  BY DEF OrThrew, RequireParsedOutput
<1> QED
  BY <1>1, <1>2

(* What each check must block and must see, by name. *)
LEMMA DemandsOf ==
  /\ \A c \in {"markdownlint", "security-secrets", "github-actions"} : Blocking(c) = {"mild", "bad"}
  /\ Blocking("presets/dead-code") = IF options # "published" THEN {"mild", "bad"} ELSE {"bad"}
  /\ \A c \in {"openssf-scorecard", "sbom"} : Blocking(c) = {}
  /\ \A c : c \notin {"markdownlint", "security-secrets", "github-actions", "presets/dead-code",
                      "openssf-scorecard", "sbom"} => Blocking(c) = {"bad"}
  /\ \A c \in Categories \cup {"test", "size", "dist-no-urls"} : Required(c) = {{"sound"}}
  /\ \A c \in {"e2e", "mutation"} : Required(c) = {Kinds}
  /\ \A c : c \notin Categories \cup {"test", "size", "dist-no-urls", "e2e", "mutation"} => Required(c) = {}
<1>1. /\ \A c \in {"markdownlint", "security-secrets", "github-actions"} : Blocking(c) = {"mild", "bad"}
      /\ Blocking("presets/dead-code") = IF options # "published" THEN {"mild", "bad"} ELSE {"bad"}
      /\ \A c \in {"openssf-scorecard", "sbom"} : Blocking(c) = {}
      /\ \A c : c \notin {"markdownlint", "security-secrets", "github-actions", "presets/dead-code",
                          "openssf-scorecard", "sbom"} => Blocking(c) = {"bad"}
  BY DEF Blocking
<1>2. /\ \A c \in Categories \cup {"test", "size", "dist-no-urls"} : Required(c) = {{"sound"}}
      /\ \A c \in {"e2e", "mutation"} : Required(c) = {Kinds}
      /\ \A c : c \notin Categories \cup {"test", "size", "dist-no-urls", "e2e", "mutation"} => Required(c) = {}
  BY DEF Required, Categories
<1> QED
  BY <1>1, <1>2

(* Whose policy looks at how the process ended, by name. *)
LEMMA MustCompleteNames ==
  MustComplete =
    {"format", "typecheck", "commitlint", "crap", "license", "duplication",
     "publint", "security-secrets", "dist-no-urls"} \cup PublishedNames
BY PublishedAreNamed DEF MustComplete

(* The policies that judge what was printed. *)
LEMMA OutShows ==
  ASSUME NEW c \in Checked, c \notin FileJudged \cup Plain \cup {"license"},
         NEW e, e.options = options, e.out \in Documents(1 .. MaxRuns),
         e.out.form = "unavailable" => c = "accessibility",
         e.out.form = "refusal" => c \in Scripts \ {"adr-governance"},
         e.out.form = "hollow" => c \notin Complete,
         c = "github-actions" /\ Finds(e.out, {"mild", "bad"}) => "sound" \in e.out.has,
         Policy(c, e) = "pass"
  PROVE  Shown(c, e, e.out)
<1>1. e.out.form \in Forms
  BY DEF Documents
<1>2. \A kinds : kinds = {} => ~ Finds(e.out, kinds)
  BY DEF Finds
<1>3. DidNotRun(e) \/ CheckTerminatedAbnormally(e) \/ e.status = "completed"
  BY DEF CheckTerminatedAbnormally
<1>4. ~ DidNotRun(e) => e.status = "completed"
  BY DEF DidNotRun, CheckTerminatedAbnormally
<1>5. CASE c = "lint"
  <2>1. EvaluateLintPolicy(e.out) = "pass"
    BY <1>5, PolicyCases
  <2>2. IsJson(e.out) /\ e.out.form \notin {"alien", "odd", "refusal"} /\ ~ Finds(e.out, {"bad"})
    BY <2>1, Passing DEF Verdict, OrThrew, RequireParsedOutput, EvaluateLintPolicy
  <2>3. IsShaped(e.out) \/ Overlooked(c, e.out.form)
    BY <1>1, <1>5, <2>2 DEF IsJson, IsShaped, Forms, Overlooked
  <2> QED
    BY <1>5, <2>2, <2>3, DemandsOf, MustCompleteNames DEF Shown, Categories, PublishedNames
<1>6. CASE c = "architecture"
  <2>1. EvaluateArchitecturePolicy(e.out) = "pass"
    BY <1>6, PolicyCases
  <2>2. IsJson(e.out) /\ e.out.form \notin {"alien", "odd", "hollow", "refusal"} /\ ~ Finds(e.out, {"bad"})
    BY <2>1, Passing DEF Verdict, OrThrew, RequireParsedOutput, EvaluateArchitecturePolicy, IsHollow
  <2> QED
    BY <1>1, <1>6, <2>2, DemandsOf, MustCompleteNames
    DEF Shown, IsJson, IsShaped, Forms, Categories, PublishedNames
<1>7. CASE c = "accessibility"
  <2>1. Accessibility(e) = "pass"
    BY <1>7, PolicyCases
  <2>2. IsJson(e.out) /\ e.out.form \notin {"alien", "odd", "refusal", "unavailable"} /\ ~ Finds(e.out, {"bad"})
    BY <2>1, Passing DEF Verdict, OrThrew, RequireParsedOutput, Accessibility
  <2>3. IsShaped(e.out) \/ Overlooked(c, e.out.form)
    BY <1>1, <1>7, <2>2 DEF IsJson, IsShaped, Forms, Overlooked
  <2> QED
    BY <1>7, <2>2, <2>3, DemandsOf, MustCompleteNames DEF Shown, Categories, PublishedNames
<1>8. CASE c = "adr-governance"
  <2>1. EvaluateAdrGovernancePolicy(e.out) = "pass"
    BY <1>8, PolicyCases
  <2>2. /\ IsJson(e.out) /\ e.out.form \notin {"alien", "odd"}
        /\ GetAdrGovernanceDeterminant(e.out) # "unsatisfied"
    BY <2>1, Passing DEF Verdict, OrThrew, RequireParsedOutput, EvaluateAdrGovernancePolicy
  <2>3. ~ Finds(e.out, {"bad"})
    <3>1. Finds(e.out, {"bad"}) => Finds(e.out, {"mild", "bad"})
      BY DEF Finds
    <3> QED
      BY <2>2, <3>1 DEF GetAdrGovernanceDeterminant
  <2> QED
    BY <1>1, <1>8, <2>2, <2>3, DemandsOf, MustCompleteNames
    DEF Shown, IsJson, IsShaped, Forms, Categories, PublishedNames, Complete
<1>9. CASE c = "github-actions"
  <2>1. EvaluateGitHubActionsPolicy(e.out) = "pass"
    BY <1>9, PolicyCases
  <2>2. /\ IsJson(e.out) /\ e.out.form \notin {"alien", "odd", "refusal"}
        /\ ~ (Finds(e.out, {"sound"}) /\ Finds(e.out, {"mild", "bad"}))
    BY <2>1, Passing DEF Verdict, OrThrew, RequireParsedOutput, EvaluateGitHubActionsPolicy
  <2>3. ~ Finds(e.out, {"mild", "bad"})
    BY <1>9, <2>2 DEF Finds
  <2> QED
    BY <1>1, <1>9, <2>2, <2>3, DemandsOf, MustCompleteNames
    DEF Shown, IsJson, IsShaped, Forms, Categories, PublishedNames, Complete
<1>10. CASE c = "sbom"
  <2>1. Sbom(e) = "pass"
    BY <1>10, PolicyCases
  <2>2. IsShaped(e.out)
    BY <2>1, Passing DEF Verdict, OrThrew, RequireParsedOutput, Sbom
  <2> QED
    BY <1>2, <1>10, <2>2, DemandsOf, MustCompleteNames
    DEF Shown, IsShaped, Categories, PublishedNames
<1>11. CASE c \in Categories
  <2>1. EvaluateVitestJsonPolicy(e.out) = "pass"
    BY <1>11, PolicyCases DEF TestCategory
  <2>2. IsShaped(e.out) /\ ~ Finds(e.out, {"bad"}) /\ Finds(e.out, {"sound"})
    BY <2>1, Passing DEF Verdict, OrThrew, RequireParsedOutput, EvaluateVitestJsonPolicy
  <2>3. Blocking(c) = {"bad"} /\ Required(c) = {{"sound"}}
    BY <1>11, DemandsOf DEF Categories
  <2>4. c \notin MustComplete
    BY <1>11, MustCompleteNames DEF Categories, PublishedNames
  <2> QED
    BY <2>2, <2>3, <2>4 DEF Shown
<1>12. CASE c = "coverage"
  <2>1. EvaluateCoveragePolicy(e.out) = "pass"
    BY <1>12, PolicyCases
  <2>2. IsShaped(e.out) /\ ~ Finds(e.out, {"bad"})
    BY <2>1, Passing DEF Verdict, OrThrew, RequireParsedOutput, EvaluateCoveragePolicy
  <2>3. Blocking(c) = {"bad"} /\ Required(c) = {}
    BY <1>12, DemandsOf DEF Categories
  <2>4. c \notin MustComplete
    BY <1>12, MustCompleteNames DEF PublishedNames
  <2> QED
    BY <2>2, <2>3, <2>4 DEF Shown
<1>13. CASE c = "dist-no-urls"
  <2>1. DistNoUrls(e) = "pass"
    BY <1>13, PolicyCases
  <2>2. /\ e.status = "completed" /\ IsShaped(e.out)
        /\ ~ Finds(e.out, {"bad"}) /\ Finds(e.out, {"sound"})
    BY <2>1, Passing DEF Verdict, OrThrew, RequireParsedOutput, DistNoUrls, CheckTerminatedAbnormally
  <2>3. Blocking(c) = {"bad"} /\ Required(c) = {{"sound"}}
    BY <1>13, DemandsOf
  <2> QED
    BY <2>2, <2>3 DEF Shown
<1>14. CASE c = "openssf-scorecard"
  <2>1. OpenssfScorecard(e, Results(e)) = "pass"
    BY <1>14, PolicyCases
  <2>2. IsJson(e.out) /\ e.out.form \notin {"alien", "odd"}
    BY <2>1, Passing DEF Verdict, OrThrew, RequireParsedOutput, OpenssfScorecard
  <2>3. IsShaped(e.out)
    BY <1>1, <1>14, <2>2 DEF IsJson, IsShaped, Forms, Scripts, Complete
  <2> QED
    BY <1>2, <1>14, <2>3, DemandsOf, MustCompleteNames
    DEF Shown, IsShaped, Categories, PublishedNames
<1>15. CASE c \in {"presets/lint", "stylelint"}
  <2>1. Lint(e) = "pass" \/ Stylelint(e) = "pass"
    BY <1>15, PolicyCases
  <2>2. e.status = "completed" /\ HasContainers(e.out) /\ ~ Finds(e.out, {"bad"})
    BY <1>4, <2>1, Passing DEF Verdict, OrThrew, RequireParsedOutput, Lint, Stylelint, ErrorWarningPassPolicy
  <2>3. IsShaped(e.out) \/ Overlooked(c, e.out.form)
    BY <1>15, <2>2 DEF HasContainers, IsHollow, Overlooked
  <2> QED
    BY <1>15, <2>2, <2>3, DemandsOf, MustCompleteNames DEF Shown, Categories, PublishedNames
<1>16. CASE c = "presets/dead-code"
  <2>1. DeadCode(e) = "pass"
    BY <1>16, PolicyCases
  <2>2. e.status = "completed" /\ HasContainers(e.out) /\ ~ Finds(e.out, {"mild", "bad"} \ Exempted(e))
    BY <1>4, <2>1, Passing DEF Verdict, OrThrew, RequireParsedOutput, DeadCode
  <2>3. ~ Finds(e.out, Blocking("presets/dead-code"))
    <3>1. CASE options = "published"
      <4>1. {"mild", "bad"} \ Exempted(e) = {"bad"}
        BY <3>1 DEF Exempted
      <4> QED
        BY <2>2, <3>1, <4>1, DemandsOf
    <3>2. CASE options # "published"
      <4>1. {"mild", "bad"} \ Exempted(e) = {"mild", "bad"}
        BY <3>2 DEF Exempted
      <4> QED
        BY <2>2, <3>2, <4>1, DemandsOf
    <3> QED
      BY <3>1, <3>2
  <2>4. IsShaped(e.out) \/ Overlooked(c, e.out.form)
    BY <1>16, <2>2 DEF HasContainers, IsHollow, Overlooked
  <2> QED
    BY <1>16, <2>2, <2>3, <2>4, DemandsOf, MustCompleteNames DEF Shown, Categories, PublishedNames
<1>17. CASE c \in {"presets/security-deps", "e2e"}
  <2>1. SecurityDeps(e) = "pass" \/ E2e(e) = "pass"
    BY <1>17, PolicyCases
  <2>2. e.status = "completed" /\ IsShaped(e.out) /\ ~ Finds(e.out, {"bad"})
    BY <1>4, <2>1, Passing DEF Verdict, OrThrew, RequireParsedOutput, SecurityDeps, E2e, CheckTerminatedAbnormally
  <2>3. c = "e2e" => Finds(e.out, Kinds)
    BY PolicyCases, Passing DEF Verdict, OrThrew, RequireParsedOutput, E2e
  <2> QED
    BY <1>17, <2>2, <2>3, DemandsOf, MustCompleteNames, ZenonT(30)
    DEF Shown, IsShaped, Categories, PublishedNames
<1>18. CASE c = "broken-links"
  <2>1. BrokenLinks(e) = "pass"
    BY <1>18, PolicyCases
  <2>2. e.status = "completed" /\ HasContainers(e.out) /\ ~ Finds(e.out, {"bad"})
    BY <1>4, <2>1, Passing DEF BrokenLinks
  <2>3. IsShaped(e.out) \/ Overlooked(c, e.out.form)
    BY <1>18, <2>2 DEF HasContainers, IsHollow, Overlooked
  <2> QED
    BY <1>18, <2>2, <2>3, DemandsOf, MustCompleteNames DEF Shown, Categories, PublishedNames
<1>19. CASE c = "presets/arethetypeswrong"
  <2>1. Arethetypeswrong(e) = "pass"
    BY <1>19, PolicyCases
  <2>2. /\ e.status = "completed" /\ IsJson(e.out) /\ e.out.form \notin {"alien", "hollow"}
        /\ ~ Finds(e.out, {"bad"})
    BY <1>4, <2>1, Passing DEF Verdict, OrThrew, RequireParsedOutput, Arethetypeswrong, EvaluateAttwReport
  <2>3. IsShaped(e.out) \/ Overlooked(c, e.out.form)
    BY <1>1, <1>19, <2>2 DEF IsJson, IsShaped, Forms, Scripts, Overlooked
  <2> QED
    BY <1>19, <2>2, <2>3, DemandsOf, MustCompleteNames DEF Shown, Categories, PublishedNames
<1> QED
  BY <1>5, <1>6, <1>7, <1>8, <1>9, <1>10, <1>11, <1>12, <1>13, <1>14, <1>15, <1>16, <1>17, <1>19, <1>18,
     CheckedNames DEF DeclaredNames, PublishedNames, FileJudged, Plain, Categories

(* The policies that judge a report file. *)
LEMMA FileShows ==
  ASSUME NEW c \in FileJudged, c # "schema",
         NEW e, e.report.form \in {"nothing", "broken", "report", "odd", "hollow", "alien"},
         Policy(c, e) = "pass"
  PROVE  Shown(c, e, e.report)
<1>1. ~ DidNotRun(e) => e.status = "completed"
  BY DEF DidNotRun, CheckTerminatedAbnormally
<1>2. CASE c = "test"
  <2>1. Test(e) = "pass"
    BY <1>2, PolicyCases
  <2>2. e.status = "completed" /\ EvaluateVitestJsonPolicy(e.report) = "pass"
    BY <1>1, <2>1 DEF Test
  <2>3. IsShaped(e.report) /\ ~ Finds(e.report, {"bad"}) /\ Finds(e.report, {"sound"})
    BY <2>2, Passing DEF Verdict, OrThrew, RequireParsedOutput, EvaluateVitestJsonPolicy
  <2>4. Blocking(c) = {"bad"} /\ Required(c) = {{"sound"}}
    BY <1>2, DemandsOf
  <2> QED
    BY <2>2, <2>3, <2>4 DEF Shown
<1>3. CASE c \in {"duplication", "markdownlint"}
  <2>1. IF c = "duplication" THEN Duplication(e) = "pass" ELSE Markdownlint(e) = "pass"
    BY <1>3, PolicyCases
  <2>2. /\ e.status = "completed" /\ IsShaped(e.report)
        /\ IF c = "duplication" THEN ~ Finds(e.report, {"bad"}) ELSE ~ Finds(e.report, {"mild", "bad"})
    BY <1>1, <1>3, <2>1, Passing DEF Duplication, Markdownlint
  <2>3. /\ Blocking(c) = IF c = "duplication" THEN {"bad"} ELSE {"mild", "bad"}
        /\ Required(c) = {}
    BY <1>3, DemandsOf DEF Categories
  <2> QED
    BY <2>2, <2>3 DEF Shown
<1>4. CASE c = "security-secrets"
  <2>1. SecuritySecrets(e) = "pass"
    BY <1>4, PolicyCases
  <2>2. e.status = "completed" /\ HasContainers(e.report) /\ ~ Finds(e.report, {"mild", "bad"})
    BY <1>1, <2>1, Passing DEF SecuritySecrets
  <2>3. IsShaped(e.report) \/ Overlooked(c, e.report.form)
    BY <1>4, <2>2 DEF HasContainers, IsHollow, Overlooked
  <2> QED
    BY <1>4, <2>2, <2>3, DemandsOf DEF Shown, Categories
<1>5. CASE c = "crap"
  <2>1. Crap(e) = "pass"
    BY <1>5, PolicyCases
  <2>2. e.status = "completed" /\ IsShaped(e.report) /\ ~ Finds(e.report, {"bad"})
    BY <2>1, Passing DEF Verdict, OrThrew, RequireParsedOutput, Crap, EvaluateCrapPolicy
  <2> QED
    BY <1>5, <2>2, DemandsOf DEF Shown, IsShaped, Categories
<1>6. CASE c = "size"
  <2>1. Size(e) = "pass"
    BY <1>6, PolicyCases
  <2>2. /\ HasContainers(e.report) /\ ~ Finds(e.report, {"bad"})
        /\ IsShaped(e.report) => Finds(e.report, {"sound"})
    BY <2>1, Passing DEF OrThrew, Size, EvaluateSizePolicy
  <2>3. IsShaped(e.report) \/ Overlooked(c, e.report.form)
    BY <1>6, <2>2 DEF HasContainers, IsHollow, Overlooked
  <2>4. Blocking(c) = {"bad"} /\ Required(c) = {{"sound"}}
    BY <1>6, DemandsOf
  <2> QED
    BY <1>6, <2>2, <2>3, <2>4, MustCompleteNames DEF Shown, PublishedNames
<1>7. CASE c = "arethetypeswrong"
  <2>1. ArethetypeswrongToFile(e) = "pass"
    BY <1>7, PolicyCases
  <2>2. IsJson(e.report) /\ e.report.form \notin {"alien", "hollow"} /\ ~ Finds(e.report, {"bad"})
    BY <2>1, Passing DEF Verdict, OrThrew, RequireParsedOutput, ArethetypeswrongToFile, EvaluateAttwReport, ReadJsonReport
  <2>3. IsShaped(e.report) \/ Overlooked(c, e.report.form)
    BY <1>7, <2>2 DEF IsJson, IsShaped, Overlooked
  <2> QED
    BY <1>7, <2>2, <2>3, DemandsOf, MustCompleteNames DEF Shown, Categories, PublishedNames
<1>8. CASE c = "mutation"
  <2>1. Mutation(e) = "pass"
    BY <1>8, PolicyCases
  <2>2. /\ MutantsReported(e.report) /\ ~ FailingMutants(e.report)
    BY <2>1, Passing DEF Verdict, OrThrew, RequireParsedOutput, Mutation
  <2> QED
    BY <1>8, <2>2, DemandsOf, MustCompleteNames
    DEF Shown, IsShaped, PublishedNames, MutantsReported, FailingMutants
<1> QED
  BY <1>2, <1>3, <1>4, <1>5, <1>6, <1>7, <1>8 DEF FileJudged

(* What the evidence holds. *)
LEMMA EvidenceFacts ==
  ASSUME NEW c
  PROVE  /\ Evidence(c).status = process[c].status /\ Evidence(c).exit = process[c].exit
         /\ Evidence(c).out = process[c].out /\ Evidence(c).options = options
         /\ c \in FileJudged => Evidence(c).report = reports[c]
         /\ c = "mutation" => Evidence(c).needs = process["suppression-governance"].out
         /\ c = "openssf-scorecard" => Evidence(c).needs = process["security-deps"].out
BY DEF Evidence

(* What a verdict rests on, check by check. *)
LEMMA BasisFacts ==
  ASSUME NEW c
  PROVE  /\ c \in FileJudged => Basis(c) = reports[c]
         /\ c = "license" /\ process[c].out = Nothing /\ process[c].exit = 0 => Basis(c) = Truth(c)
         /\ c \notin FileJudged \cup {"license"} => Basis(c) = process[c].out
BY DEF Basis, FileJudged

(* What a passing check rests on shows what it must. *)
BasisShown(c) ==
  /\ IsShaped(Basis(c)) \/ Overlooked(c, Basis(c).form)
  /\ ~ Finds(Basis(c), Blocking(c))
  /\ IsShaped(Basis(c)) => \A kinds \in Required(c) : Finds(Basis(c), kinds)
  /\ c \in MustComplete => process[c].status = "completed"
  /\ c \in MustExitWithZero => process[c].exit = 0

(* ... and belongs to this run when everything it rests on was delivered. *)
BasisFresh(c) == DeliveredNow(c) => Basis(c).of = {run}

(* An exit code of 0 stands for the tool's own report of this run. *)
LEMMA TruthShows ==
  ASSUME NEW c, Basis(c) = Report({run}, tree[c]), "bad" \notin tree[c],
         process[c].status = "completed", process[c].exit = 0,
         c \in Plain \cup {"schema", "license"}
  PROVE  BasisShown(c) /\ BasisFresh(c)
<1>1. /\ Basis(c).form = "report" /\ Basis(c).of = {run} /\ Basis(c).has = tree[c]
  BY DEF Report
<1>2. Blocking(c) = {"bad"} /\ Required(c) = {}
  BY DemandsOf DEF Plain, Categories
<1> QED
  BY <1>1, <1>2 DEF BasisShown, BasisFresh, IsShaped, Finds

(* A report file is this run's when everything it rests on was delivered. *)
LEMMA FreshFile ==
  ASSUME IInv, NEW c \in selected \cap FileJudged, DeliveredNow(c)
  PROVE  reports[c].of = {run}
<1>1. ReportOK(c)
  BY DEF IInv, Files
<1>2. process[c].answer # "none"
  BY DeliveredMeans DEF DeliveredNow
<1>3. c = "crap" => Answered(Measured \cup {"coverage", "crap"})
  BY <1>2, DeliveredMeans DEF DeliveredNow, Answered
<1>4. c # "coverage"
  BY DEF FileJudged
<1> QED
  BY <1>1, <1>2, <1>3, <1>4 DEF ReportOK

(* So is what was printed. *)
LEMMA FreshOutput ==
  ASSUME IInv, NEW c \in selected, DeliveredNow(c), process[c].out.form # "nothing"
  PROVE  process[c].out.of = {run}
<1>1. CASE c = "coverage"
  <2>1. ReportOK(c)
    BY <1>1 DEF IInv, Files
  <2>2. Measured \cup {"coverage"} \subseteq Closure({c})
    BY <1>1, DeliveredMeans DEF Measured
  <2>3. Answered(Measured \cup {"coverage"})
    BY <2>2 DEF DeliveredNow, Answered
  <2> QED
    BY <1>1, <2>1, <2>3 DEF ReportOK
<1>2. CASE c # "coverage"
  <2>1. SaidOK(c, process[c].out)
    BY Here DEF AnswerOK
  <2>2. process[c].out # Nothing
    BY DEF Nothing, Blank
  <2> QED
    BY <1>2, <2>1, <2>2 DEF SaidOK
<1> QED
  BY <1>1, <1>2

(***************************************************************************)
(* A check that passes rests on a basis that shows what it must, and is    *)
(* fresh; but for a killed build or schema generator that exited with 0.   *)
(***************************************************************************)
LEMMA BasisOK ==
  ASSUME IInv, NEW c \in Judged, verdict[c] = "pass"
  PROVE  (BasisShown(c) /\ BasisFresh(c)) \/ KilledButZero(c)
<1> DEFINE e == Evidence(c)
<1>1. /\ c \in Checked /\ c \in selected /\ Policy(c, e) = "pass"
      /\ StageOK(c) /\ AnswerOK(c) /\ (c \in Files => ReportOK(c)) /\ process[c] \in Records
  BY JudgedFacts, Here
<1>2. /\ e.status = process[c].status /\ e.exit = process[c].exit
      /\ e.out = process[c].out /\ e.options = options
      /\ c \in FileJudged => e.report = reports[c]
  BY EvidenceFacts
<1> HIDE DEF e
<1>3. process[c].exit = 0 /\ process[c].status = "completed" => process[c].answer # "none" /\ "bad" \notin tree[c]
  BY <1>1 DEF StageOK
<1>4. CASE c \in FileJudged /\ c # "schema"
  <2>1. e.report.form \in {"nothing", "broken", "report", "odd", "hollow", "alien"} /\ Basis(c) = e.report
    BY <1>1, <1>2, <1>4, BasisFacts DEF ReportOK, Files
  <2>2. Shown(c, e, e.report)
    BY <1>1, <1>4, <2>1, FileShows
  <2>3. BasisFresh(c)
    BY <1>1, <1>2, <1>4, <2>1, FreshFile DEF BasisFresh
  <2>4. c \notin MustExitWithZero
    BY <1>4 DEF FileJudged, MustExitWithZero
  <2> QED
    BY <1>2, <2>1, <2>2, <2>3, <2>4 DEF Shown, BasisShown
<1>5. CASE c = "schema"
  <2>1. process[c].exit = 0 /\ IsShaped(reports[c]) /\ Basis(c) = reports[c]
    BY <1>1, <1>2, <1>5, PolicyCases, Passing, BasisFacts DEF Schema, FileJudged
  <2>2. CASE process[c].status = "completed"
    <3>1. reports[c] = Report({run}, tree[c])
      BY <1>1, <1>3, <1>5, <2>1, <2>2 DEF ReportOK, Files, FileJudged
    <3> QED
      BY <1>3, <1>5, <2>1, <2>2, <3>1, TruthShows
  <2>3. CASE process[c].status # "completed"
    BY <1>5, <2>1, <2>3 DEF KilledButZero
  <2> QED
    BY <2>2, <2>3
<1>6. CASE c = "license"
  <2>1. License(e) = "pass"
    BY <1>1, <1>6, PolicyCases
  <2>2. e.out.form = "nothing" /\ e.exit = 0 /\ e.status = "completed"
    BY <2>1, Passing DEF License, Verdict, CheckTerminatedAbnormally
  <2>3. process[c].out = Nothing
    BY <1>1, <1>2, <2>2 DEF AnswerOK, SaidOK
  <2>4. Basis(c) = Truth(c) /\ Truth(c) = Report({run}, tree[c])
    BY <1>1, <1>2, <1>6, <2>2, <2>3, BasisFacts, TruthFacts
  <2> QED
    BY <1>2, <1>3, <1>6, <2>2, <2>4, TruthShows
<1>7. CASE c \in Plain
  <2>1. \/ Format(e) = "pass" \/ Typecheck(e) = "pass" \/ Commitlint(e) = "pass"
        \/ Build(e) = "pass" \/ Publint(e) = "pass"
    BY <1>1, <1>7, PolicyCases DEF Plain
  <2>2. e.exit = 0
    BY <2>1, Passing DEF Format, Typecheck, Commitlint, Build, Publint
  <2>3. c # "build" => e.status = "completed"
    <3>1. c \notin {"build"} => \/ Format(e) = "pass" \/ Typecheck(e) = "pass"
                              \/ Commitlint(e) = "pass" \/ Publint(e) = "pass"
      BY <1>1, <1>7, PolicyCases DEF Plain
    <3>2. c \notin {"build"} => ~ DidNotRun(e)
      BY <3>1, Passing DEF Format, Typecheck, Commitlint, Publint
    <3> QED
      BY <3>2 DEF DidNotRun, CheckTerminatedAbnormally
  <2>4. CASE e.status = "completed"
    <3>1. Basis(c) = process[c].out
      BY <1>7, BasisFacts DEF Plain, FileJudged
    <3>2. process[c].out = Report({run}, tree[c])
      BY <1>1, <1>2, <1>3, <1>7, <2>2, <2>4 DEF AnswerOK
    <3> QED
      BY <1>2, <1>3, <1>7, <2>2, <2>4, <3>1, <3>2, TruthShows
  <2>5. CASE e.status # "completed"
    BY <1>2, <2>2, <2>3, <2>5 DEF KilledButZero
  <2> QED
    BY <2>4, <2>5
<1>8. CASE c \notin FileJudged \cup Plain \cup {"license"}
  <2>1. Basis(c) = e.out /\ SaidOK(c, e.out) /\ e.out \in Documents(1 .. MaxRuns)
    BY <1>1, <1>2, <1>8, BasisFacts DEF AnswerOK, Records
  <2>2. /\ e.out.form = "unavailable" => c = "accessibility"
        /\ e.out.form = "refusal" => c \in Scripts \ {"adr-governance"}
        /\ e.out.form = "hollow" => c \notin Complete
        /\ (c = "github-actions" /\ Finds(e.out, {"mild", "bad"})) => "sound" \in e.out.has
    BY <1>1, <1>2, <2>1 DEF AnswerOK, SaidOK
  <2>3. Shown(c, e, e.out)
    BY <1>1, <1>2, <1>8, <2>1, <2>2, OutShows
  <2>4. e.out.form # "nothing"
    BY <2>3 DEF Shown, IsShaped, Overlooked
  <2>5. BasisFresh(c)
    BY <1>1, <1>2, <2>1, <2>4, FreshOutput DEF BasisFresh
  <2>6. c \notin MustExitWithZero
    BY <1>8 DEF FileJudged, Plain, MustExitWithZero
  <2> QED
    BY <1>2, <2>1, <2>3, <2>5, <2>6 DEF Shown, BasisShown
<1> QED
  BY <1>4, <1>5, <1>6, <1>7, <1>8 DEF FileJudged

(* A feeder's whole report is an honest one about this run's tree. *)
LEMMA FeederSays ==
  ASSUME IInv, NEW d \in Feeders, d \in selected, IsShaped(process[d].out)
  PROVE  process[d].answer = "honest" /\ process[d].out.has = tree[d]
<1>1. d \notin Scripts \cup Categories \cup FileJudged \cup {"coverage"}
  BY DEF Feeders, Scripts, Categories, FileJudged
<1> QED
  BY <1>1, Here DEF AnswerOK

(* Ignored mutants pass only with the word of an honest registry. *)
LEMMA VouchedOK ==
  ASSUME IInv, "mutation" \in Judged, verdict["mutation"] = "pass"
  PROVE  SuppressionsVouched
<1> DEFINE e == Evidence("mutation")
           registry == process["suppression-governance"]
<1>1. /\ Policy("mutation", e) = "pass" /\ "suppression-governance" \in selected
  BY JudgedFacts, Here, DependsFacts
<1>2. e.report = reports["mutation"] /\ e.needs = registry.out
  BY EvidenceFacts DEF FileJudged
<1> HIDE DEF e
<1>3. Mutation(e) = "pass"
  BY <1>1, PolicyCases
<1>4. ~ StrykerSuppressionGateFailure(e.report, e.needs)
  BY <1>3, Passing DEF Mutation, Verdict, OrThrew
<1>5. Finds(reports["mutation"], {"mild"}) =>
        IsShaped(registry.out) /\ ~ Finds(registry.out, {"bad"})
  BY <1>2, <1>4 DEF StrykerSuppressionGateFailure
<1>6. Finds(reports["mutation"], {"mild"}) =>
        registry.answer = "honest" /\ "bad" \notin tree["suppression-governance"]
  BY <1>1, <1>5, FeederSays DEF Feeders, Finds
<1> QED
  BY <1>6 DEF SuppressionsVouched

(* A scorecard that passes was written in this run, from this run's audit. *)
LEMMA ScorecardOK ==
  ASSUME IInv, "openssf-scorecard" \in Judged, verdict["openssf-scorecard"] = "pass"
  PROVE  ScorecardStands
<1> DEFINE e == Evidence("openssf-scorecard")
           audit == process["security-deps"]
           weights == FetchScorecardWeights(facts).weights
           average == ComputeWeightedAverage(Results(e), weights)
<1>1. /\ Policy("openssf-scorecard", e) = "pass" /\ "security-deps" \in selected
      /\ "openssf-scorecard" \in selected /\ (WritesScorecard => scorecard = Written)
  BY JudgedFacts, Here, DependsFacts
<1>2. scorecard = Written /\ facts \in Facts
  BY <1>1 DEF WritesScorecard, IInv, SettingOK
<1>3. /\ scorecard.run = run /\ scorecard.results = Results(e)
      /\ scorecard.points = average.points /\ scorecard.outOf = average.outOf
  BY <1>2 DEF Written
<1>4. average.points \in 0 .. 10 * average.outOf /\ average.outOf > 0
  BY <1>2, AverageInRange
<1>5. e.needs = audit.out
  BY EvidenceFacts
<1>6. scorecard.results.Vulnerabilities = EvaluateVulnerabilities(audit.out)
  BY <1>2, <1>3, <1>5, ResultsFacts
<1>7. scorecard.results.Vulnerabilities = 10 => IsShaped(audit.out) /\ "bad" \notin audit.out.has
  BY <1>6 DEF EvaluateVulnerabilities, Points, NotApplicable, IsShaped
<1>8. scorecard.results.Vulnerabilities = 10 =>
        audit.answer = "honest" /\ "bad" \notin tree["security-deps"]
  BY <1>1, <1>7, FeederSays DEF Feeders
<1> HIDE DEF average, e
<1> QED
  BY <1>3, <1>4, <1>8 DEF ScorecardStands

(***************************************************************************)
(* A check that passes has examined: whatever the tools answered, however  *)
(* they ended and whatever earlier runs left on disk, its verdict rests on *)
(* a finished document that shows nothing it must block and something      *)
(* where nothing would prove nothing, on this run's when all it rests on   *)
(* was delivered; ignored mutants are vouched for, and the scorecard is    *)
(* this run's with an average from 0 to 10.  The exceptions are the ones   *)
(* Overlooked and KilledButZero name, and no others (the policies of       *)
(* src/presets and checks/).                                               *)
(***************************************************************************)
THEOREM Examination == Spec => []PassMeansExamined
<1>1. IInv => PassMeansExamined
  <2> SUFFICES ASSUME IInv, NEW c \in Judged, verdict[c] = "pass"
               PROVE  /\ Examined(c) \/ KilledButZero(c)
                      /\ c = "mutation" => SuppressionsVouched
                      /\ c = "openssf-scorecard" => ScorecardStands
    BY DEF PassMeansExamined
  <2>1. (BasisShown(c) /\ BasisFresh(c)) \/ KilledButZero(c)
    BY BasisOK
  <2>2. Examined(c) \/ KilledButZero(c)
    BY <2>1 DEF BasisShown, BasisFresh, Examined
  <2>3. c = "mutation" => SuppressionsVouched
    BY VouchedOK
  <2>4. c = "openssf-scorecard" => ScorecardStands
    BY ScorecardOK
  <2> QED
    BY <2>2, <2>3, <2>4
<1> QED
  BY <1>1, Inductive, PTL
=============================================================================
