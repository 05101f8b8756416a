------------------------------- MODULE Presets -------------------------------
(***************************************************************************)
(* The policies of the published presets (src/src/presets): how each reads *)
(* the evidence of one tool into pass, warn or fail.                       *)
(*                                                                         *)
(* A tool examines the working tree and hands back a document, on its      *)
(* standard output or in a report file.  What a policy can tell of it is   *)
(* its form, and which kinds of entries it has:                            *)
(*                                                                         *)
(*   "nothing"      no file, or no output                                  *)
(*   "broken"       not JSON: cut short, or still being written            *)
(*   "alien"        JSON, but no object or array where one is expected     *)
(*   "odd"          an object where an array is expected, or one without   *)
(*                  the containers the reader walks                        *)
(*   "hollow"       those containers, with an entry that lacks the fields  *)
(*                  that decide: a message of no severity, a link of no    *)
(*                  state, a count that is missing                         *)
(*   "refusal"      a script of this repository says its tool failed       *)
(*   "unavailable"  a script says there is nothing here to run its tool    *)
(*   "report"       what the tool documents                                *)
(*                                                                         *)
(* Entries are "sound" (a test that passed, a file that was scanned),      *)
(* "mild" (a warning, a flaky test, a waived finding) and "bad".           *)
(***************************************************************************)
EXTENDS Integers, FiniteSets

Forms == {"nothing", "broken", "alien", "odd", "hollow", "refusal", "unavailable", "report"}
Kinds == {"sound", "mild", "bad"}

(* `of` holds the runs whose tools a document rests on. *)
Documents(runs) == [form : Forms, of : SUBSET runs, has : SUBSET Kinds]

Blank(form, runs)   == [form |-> form, of |-> runs, has |-> {}]
Nothing             == Blank("nothing", {})
Report(runs, kinds) == [form |-> "report", of |-> runs, has |-> kinds]

NoExit      == -1        \* exitCode is null
MissingExit == 127       \* license.ts: its launcher found no licensee

Ended  == {"completed", "timed_out", "aborted", "host_terminated", "signaled", "spawn_error"}

(***************************************************************************)
(* An evidence record: how the process ended, what it printed, the report  *)
(* file as it is when the policy reads it, the output of the check it      *)
(* depends on, and whether the check runs the preset's own command line    *)
(* with its options.                                                       *)
(***************************************************************************)
Verdict(fails, warns) == IF fails THEN "fail" ELSE IF warns THEN "warn" ELSE "pass"

IsJson(document) == document.form \notin {"nothing", "broken"}
IsShaped(document) == document.form = "report"
IsHollow(document) == document.form = "hollow"
HasContainers(document) == IsShaped(document) \/ IsHollow(document)
Finds(document, kinds) == document.has \cap kinds # {}

CheckDependencyInstalled(e) == e.status = "spawn_error" /\ e.notFound

(* A mistake for the runs to notice: only a process that never started counts. *)
CheckTerminatedAbnormallyMutant(e) == e.status = "spawn_error"

CheckTerminatedAbnormally(e) == e.status # "completed"

(* A tool that is not installed, or whose process did not reach its own exit. *)
DidNotRun(e) == CheckDependencyInstalled(e) \/ CheckTerminatedAbnormally(e)

ErrorWarningPassPolicy(errors, warnings) == Verdict(errors, warnings)

(* readJsonReport: the file can be read and is JSON. *)
ReadJsonReport(document) == IsJson(document)

EvaluateVitestJsonPolicy(document) ==
  Verdict(\/ ~ IsJson(document)
          \/ ~ IsShaped(document)                  \* no testResults, no counts
          \/ Finds(document, {"bad"})
          \/ ~ Finds(document, {"sound"}),         \* nothing ran
          FALSE)

EvaluateAttwReport(document) ==
  Verdict(document.form \in {"alien", "hollow"} \/ Finds(document, {"bad"}), FALSE)

Arethetypeswrong(e) ==
  IF DidNotRun(e) \/ ~ IsJson(e.out) THEN "fail" ELSE EvaluateAttwReport(e.out)

BrokenLinks(e) ==
  Verdict(DidNotRun(e) \/ ~ HasContainers(e.out) \/ Finds(e.out, {"bad"}), FALSE)

Commitlint(e) == Verdict(DidNotRun(e) \/ e.exit # 0, FALSE)
Format(e)     == Verdict(DidNotRun(e) \/ e.exit # 0, FALSE)
Typecheck(e)  == Verdict(DidNotRun(e) \/ e.exit # 0, FALSE)

(* The exempt dependencies are read back from the command line that ran. *)
Exempted(e) == IF e.options = "published" THEN {"mild"} ELSE {}

DeadCode(e) ==
  Verdict(\/ DidNotRun(e)
          \/ ~ HasContainers(e.out)
          \/ Finds(e.out, {"mild", "bad"} \ Exempted(e)),
          FALSE)

(* "mild": a URL that an entry of the allow list matches; a finding that  *)
(* names no URL is an offender.                                            *)
DistNoUrls(e) ==
  Verdict(\/ CheckTerminatedAbnormally(e)
          \/ e.options = "malformed"
          \/ ~ IsShaped(e.out)
          \/ ~ Finds(e.out, {"sound"})             \* dist/ does not exist
          \/ Finds(e.out, {"bad"}),
          FALSE)

(* Rendering a duplicate without its two files throws. *)
Duplication(e) ==
  IF ~ DidNotRun(e) /\ IsHollow(e.report)
  THEN "threw"
  ELSE Verdict(\/ DidNotRun(e)
               \/ ~ ReadJsonReport(e.report)
               \/ ~ IsShaped(e.report)
               \/ Finds(e.report, {"bad"}),
               FALSE)

E2e(e) ==
  Verdict(\/ DidNotRun(e)
          \/ ~ IsShaped(e.out)
          \/ ~ Finds(e.out, Kinds)                 \* no test ran
          \/ Finds(e.out, {"bad"}),
          Finds(e.out, {"mild"}))

(***************************************************************************)
(* license prints one line of JSON per package it objects to.  A line      *)
(* that is null has no name: the policy throws.                            *)
(***************************************************************************)
License(e) ==
  IF \/ e.options # "published" /\ CheckDependencyInstalled(e)
     \/ CheckTerminatedAbnormally(e)
     \/ e.exit = MissingExit
  THEN "fail"
  ELSE IF e.out.form = "alien" THEN "threw"
  ELSE Verdict(e.out.form # "nothing" \/ e.exit # 0, FALSE)

Lint(e) ==
  IF DidNotRun(e) \/ ~ HasContainers(e.out)
  THEN "fail"
  ELSE ErrorWarningPassPolicy(Finds(e.out, {"bad"}), Finds(e.out, {"mild"}))

Stylelint(e) ==
  IF DidNotRun(e) \/ ~ HasContainers(e.out)
  THEN "fail"
  ELSE ErrorWarningPassPolicy(Finds(e.out, {"bad"}), Finds(e.out, {"mild"}))

(* Rendering a finding without its rule's names throws. *)
Markdownlint(e) ==
  IF ~ DidNotRun(e) /\ IsHollow(e.report)
  THEN "threw"
  ELSE Verdict(\/ DidNotRun(e)
               \/ ~ ReadJsonReport(e.report)
               \/ ~ IsShaped(e.report)
               \/ Finds(e.report, {"mild", "bad"}),
               FALSE)

Publint(e) == Verdict(DidNotRun(e) \/ e.exit # 0, Finds(e.out, {"mild"}))

SecurityDeps(e) ==
  Verdict(\/ CheckTerminatedAbnormally(e)
          \/ ~ IsShaped(e.out)                     \* a count that is no number
          \/ Finds(e.out, {"bad"}),
          Finds(e.out, {"mild"}))

(* An element without messages is skipped, as one that has none. *)
SecuritySecrets(e) ==
  Verdict(\/ DidNotRun(e)
          \/ ~ ReadJsonReport(e.report)
          \/ ~ HasContainers(e.report)
          \/ Finds(e.report, {"mild", "bad"}),
          FALSE)

Test(e) == IF DidNotRun(e) THEN "fail" ELSE EvaluateVitestJsonPolicy(e.report)
=============================================================================
