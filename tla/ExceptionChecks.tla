-------------------------- MODULE ExceptionChecks --------------------------
(***************************************************************************)
(* The eight checks that keep a registry of reviewed exceptions, each by   *)
(* what its tool can end in, which findings it hands to the registry and   *)
(* how it judges them (scripts/*/, scripts/check-docs.mjs and checks/).    *)
(* A finding is [id, place, classes, mark]: the id names its record, place *)
(* tells findings of one id apart, mark is "ok" for a link that works,     *)
(* "opaque" for a command that is no literal, "reasoned" for a suppression *)
(* that gives its reason in the code.                                      *)
(***************************************************************************)
EXTENDS ExceptionPolicy

Kinds == {"suppression", "network", "socket", "deps", "docs", "deadCode", "presetCommands", "coderabbit"}

--------------------------------------------------------------------------
\* The fields of a record, by the groups in which the policies require them:
\* assessment is category and verificationMethod, or method and exceptionType;
\* alternatives is alternatives and remediation; reason is the finding's own.
Reviewed == {"justification", "assessment"}
Full == Reviewed \cup {"alternatives"}

Group(default, rules) == [default |-> default, rules |-> rules]
Rule(pattern, policy) == [pattern |-> pattern, policy |-> policy]

SuppressionPolicy ==
    [eslint |-> Group(Requiring(Reviewed),
                      {Rule("security/*", Forbidden), Rule("no-console", Allowed),
                       Rule("react-hooks/exhaustive-deps", Requiring(Reviewed))}),
     typescript |-> Group(Requiring(Reviewed),
                      {Rule("@ts-ignore", Forbidden), Rule("@ts-nocheck", Forbidden), Rule("@ts-expect-error", Allowed)}),
     stryker |-> Group(Requiring(Reviewed \cup {"reason"}), {Rule("all", Forbidden)})]

NetworkPolicy ==
    [network |-> Group(Forbidden,
                    {Rule(capability, Requiring(Full)) : capability \in
                        {"module-import", "named-import", "global-usage", "dynamic-import"}})]

SocketPolicy ==
    [socket |-> Group(None, {Rule("critical", Forbidden), Rule("high", Forbidden), Rule("middle", Requiring(Full)),
                             Rule("low", Requiring(Reviewed)), Rule("unknown", Requiring(Full))}),
     category |-> Group(Allowed, {Rule("supplyChainRisk", Forbidden)})]

DepsPolicy == [deps |-> Group(Requiring(Full), {})]
DocsPolicy == [links |-> Group(Requiring({"justification"}), {})]
CoderabbitPolicy == [coderabbit |-> Group(Requiring(Full), {})]

\* deadCode and presetCommands have no policy: see Approves.
PolicyConfig(kind) ==
    CASE kind = "suppression" -> SuppressionPolicy
      [] kind = "network"     -> NetworkPolicy
      [] kind = "socket"      -> SocketPolicy
      [] kind = "deps"        -> DepsPolicy
      [] kind = "docs"        -> DocsPolicy
      [] kind = "coderabbit"  -> CoderabbitPolicy
      [] OTHER                -> [none |-> Group(None, {})]

GlobalDefault(kind) ==
    CASE kind = "suppression" -> Requiring(Reviewed)
      [] kind = "network"     -> Forbidden
      [] kind = "docs"        -> Requiring({"justification"})
      [] OTHER                -> Requiring(Full)

--------------------------------------------------------------------------
(* What a tool said: "complete" if it is known which findings there are.   *)

Answer(outcome) == IF outcome = "done" THEN "complete" ELSE "broken"

\* socket ci: what is known not to be an answer warns, anything not known to
\* be one is an error, alerts in the report's own nested form included.
SocketCli(outcome) ==
    IF outcome \in {"not installed", "not authenticated", "unreachable"} THEN "unavailable"
    ELSE IF outcome \in {"timed out", "not ok", "nested alerts"} THEN "broken" ELSE "complete"

\* The lockfile says which alerted packages are shipped.
SocketStatus(outcome, alerts) ==
    IF outcome = "no lockfile" /\ alerts # {} THEN "broken" ELSE SocketCli(outcome)

\* A stream without a last event that counts what was streamed is no review.
AgentStream(outcome) == IF outcome \in {"not JSON", "after the end", "miscounted", "cut short"} THEN "broken" ELSE "complete"

CoderabbitCli(outcome) ==
    IF outcome \in {"in CI", "detached head", "not installed"} THEN "unavailable"
    ELSE IF outcome = "timed out" THEN "broken" ELSE AgentStream(outcome)

\* markdownlint's report is removed before it runs, so one that is there is
\* its own; linkinator's answer is what it prints.
Markdownlint(outcome) == outcome # "no lint report"
Linkinator(outcome) == IF outcome = "no links" THEN "broken" ELSE "complete"

\* A report with an error, or without vulnerabilities, is no report.
AuditReport(outcome) == Answer(outcome)
Knip(outcome) == Answer(outcome)

ToolOutcomes(kind) ==
    {"done"} \cup
    CASE kind = "network"    -> {"failed", "no files"}
      [] kind = "socket"     -> {"not installed", "not authenticated", "unreachable", "timed out", "not ok", "nested alerts", "no lockfile"}
      [] kind = "docs"       -> {"no links", "no lint report", "lint errors", "lint warnings"}
      [] kind = "coderabbit" -> {"in CI", "detached head", "not installed", "timed out", "not JSON", "after the end", "miscounted", "cut short"}
      [] OTHER               -> {"failed"}

Status(kind, outcome, tree) ==
    CASE kind = "socket"     -> SocketStatus(outcome, tree)
      [] kind = "coderabbit" -> CoderabbitCli(outcome)
      [] kind = "docs"       -> Linkinator(outcome)
      [] kind = "deps"       -> AuditReport(outcome)
      [] kind = "deadCode"   -> Knip(outcome)
      [] OTHER               -> IF outcome = "no files" THEN "complete" ELSE Answer(outcome)

--------------------------------------------------------------------------
(* A run: after which answers it loads its registry and after which it     *)
(* reconciles it, and whether findings of one id are one finding; if not,  *)
(* a record cannot tell them apart, which is an integrity failure.         *)

Run(loads, reconciles, collapses) == [loads |-> loads, reconciles |-> reconciles, collapses |-> collapses]
Whatever == {"complete", "broken", "unavailable"}

SuppressionRun    == Run({"complete"}, {"complete"}, FALSE)
NetworkRun        == Run({"complete"}, {"complete"}, FALSE)
SocketRun         == Run(Whatever, {"complete"}, FALSE)
DepsRun           == Run({"complete"}, {"complete"}, FALSE)
DocsRun           == Run(Whatever, Whatever, TRUE)
DeadCodeRun       == Run({"complete"}, {"complete"}, FALSE)
PresetCommandsRun == Run({"complete"}, {"complete"}, TRUE)
CoderabbitRun     == Run(Whatever, {"complete"}, TRUE)

RunOf(kind) ==
    CASE kind = "suppression"    -> SuppressionRun
      [] kind = "network"        -> NetworkRun
      [] kind = "socket"         -> SocketRun
      [] kind = "deps"           -> DepsRun
      [] kind = "docs"           -> DocsRun
      [] kind = "deadCode"       -> DeadCodeRun
      [] kind = "presetCommands" -> PresetCommandsRun
      [] kind = "coderabbit"     -> CoderabbitRun

\* What a scan finds in the tree.
Scanned(outcome, status, tree) == IF outcome = "no files" \/ status # "complete" THEN {} ELSE tree

\* A command that is no literal has no record.
Governed(findings) == {f \in findings : f.mark # "opaque"}
Ids(findings) == {f.id : f \in Governed(findings)}
Distinguishable(kind, findings) == RunOf(kind).collapses \/ Cardinality(Governed(findings)) = Cardinality(Ids(findings))

\* docs writes no stub for a link that works.
WorthAStub(kind, id, findings) == kind # "docs" \/ (\E f \in findings : f.id = id /\ f.mark # "ok")

--------------------------------------------------------------------------
(* The policies of the checks over their evidence.  active is the record   *)
(* of each finding, by what is filled in; stale are the other records.     *)

Permits(kind, classes, filled) ==
    EvaluateExceptionRecord(filled, classes, PolicyConfig(kind), GlobalDefault(kind)) = "permitted"

\* The reason of a suppression stands in the code, not in the record.
SuppressionApproves(f, filled) ==
    f.classes # {} /\ Permits("suppression", f.classes, filled \cup (IF f.mark = "reasoned" THEN {"reason"} ELSE {}))

NetworkApproves(f, filled) == Permits("network", f.classes, filled)
SocketApproves(f, filled) == Permits("socket", f.classes, filled)
DepsApproves(f, filled) == Permits("deps", f.classes, filled)
LinkApproves(f, filled) == f.mark = "ok" \/ Permits("docs", f.classes, filled)
CoderabbitApproves(f, filled) == Permits("coderabbit", f.classes, filled)
JustificationApproves(f, filled) == f.mark # "opaque" /\ "justification" \in filled

\* The records are what the check says they are, and its policy is valid.
Consistent(kind, e) == DOMAIN e.active = Ids(e.findings) /\ ValidConfig(PolicyConfig(kind), Fields)

FilledFor(e, f) == IF f.id \in DOMAIN e.active THEN e.active[f.id] ELSE {}
NothingLeft(e, Approves(_, _)) == e.stale = {} /\ \A f \in e.findings : Approves(f, FilledFor(e, f))

SuppressionVerdict(e) ==
    IF /\ e.status = "complete" /\ ~e.registryError /\ Consistent("suppression", e)
       /\ NothingLeft(e, SuppressionApproves)
    THEN "pass" ELSE "fail"

NetworkVerdict(e) ==
    IF /\ e.status = "complete" /\ ~e.registryError /\ Consistent("network", e)
       /\ e.outcome # "no files" /\ NothingLeft(e, NetworkApproves)
    THEN "pass" ELSE "fail"

SocketVerdict(e) ==
    CASE e.registryError -> "fail"
      [] ~e.registryError /\ e.status = "unavailable" -> "warn"
      [] ~e.registryError /\ e.status = "broken" -> "fail"
      [] OTHER -> IF Consistent("socket", e) /\ NothingLeft(e, SocketApproves) THEN "pass" ELSE "fail"

DepsVerdict(e) ==
    IF e.status = "complete" /\ ~e.registryError /\ ValidConfig(DepsPolicy, Fields) /\ NothingLeft(e, DepsApproves)
    THEN "pass" ELSE "fail"

DocsVerdict(e) ==
    IF \/ e.status # "complete" \/ e.registryError \/ ~Markdownlint(e.outcome)
       \/ e.outcome = "lint errors" \/ ~NothingLeft(e, LinkApproves)
    THEN "fail"
    ELSE IF e.outcome = "lint warnings" THEN "warn" ELSE "pass"

DeadCodeVerdict(e) ==
    IF /\ e.status = "complete" /\ ~e.registryError /\ DOMAIN e.active = Ids(e.findings)
       /\ NothingLeft(e, JustificationApproves)
    THEN "pass" ELSE "fail"

PresetCommandsVerdict(e) ==
    IF /\ e.status = "complete" /\ ~e.registryError /\ DOMAIN e.active = Ids(e.findings)
       /\ NothingLeft(e, JustificationApproves)
    THEN "pass" ELSE "fail"

\* Only a registry that cannot be used fails: the review itself is advice.
CoderabbitVerdict(e) ==
    IF e.registryError \/ (e.status = "complete" /\ ~Consistent("coderabbit", e)) THEN "fail"
    ELSE IF e.status = "complete" /\ NothingLeft(e, CoderabbitApproves) THEN "pass" ELSE "warn"

Verdict(kind, e) ==
    CASE kind = "suppression"    -> SuppressionVerdict(e)
      [] kind = "network"        -> NetworkVerdict(e)
      [] kind = "socket"         -> SocketVerdict(e)
      [] kind = "deps"           -> DepsVerdict(e)
      [] kind = "docs"           -> DocsVerdict(e)
      [] kind = "deadCode"       -> DeadCodeVerdict(e)
      [] kind = "presetCommands" -> PresetCommandsVerdict(e)
      [] kind = "coderabbit"     -> CoderabbitVerdict(e)

=============================================================================
