------------------------- MODULE ExceptionRegistry -------------------------
(***************************************************************************)
(* Runs of a check that keeps a registry of exceptions: scan, load the     *)
(* registry (helpers/load-exception-registry.ts), reconcile it with the    *)
(* findings (helpers/reconcile-exceptions.ts), write it back               *)
(* (helpers/write-exception-registry.ts) and judge.  Nothing locks the     *)
(* file: other runs, and people who fill in a record, delete one or damage *)
(* the file, come between any two steps.                                   *)
(***************************************************************************)
EXTENDS Naturals, SharedFiles, ExceptionChecks

CONSTANTS
    Checkers,       \* runs of the check
    RegistryPath,
    InitialTrees,   \* of a kind: the findings there may be in the tree at first
    InitialFiles,   \* of a kind: the registries there may be at first
    Overlapping,    \* bound: the kinds that are run twice; the others run once
    MaxEdits        \* bound on what people do

VARIABLES
    kind,           \* the check
    tree,           \* the findings in the working tree
    checker,        \* a run's step and what it knows
    approved,       \* <<id, field>> that someone has filled in (history)
    edits

registryVars == <<kind, tree, checker, approved, edits>>

\* A registry file: entries [id, filled, shape] in the canonical form, edited
\* by hand, or behind a symbolic link.
Registry(form, entries) == [form |-> form, entries |-> entries]
Stub(id) == [id |-> id, filled |-> {}, shape |-> "version 1"]

--------------------------------------------------------------------------
\* The records in a file; an absent file has none.
Records(content) == IF content = Absent THEN {} ELSE content.entries

\* Known fields only, of the right types, an id of the registry's own.
IsSound(e) == e.shape \in {"version 1", "version 2"}

\* Every record is sound and no id is used twice.
IsValid(entries) ==
    /\ \A e \in entries : IsSound(e)
    /\ \A e1, e2 \in entries : e1.id = e2.id => e1 = e2

\* Records that match nothing are dropped.
ReconcileMutant(entries, ids) ==
    {e \in entries : e.id \in ids} \cup {Stub(id) : id \in ids \ {e.id : e \in entries}}

\* Records are kept as they are, and a finding without one gets a stub.
Reconcile(entries, ids) == entries \cup {Stub(id) : id \in ids \ {e.id : e \in entries}}

Stale(entries, ids) == {e \in entries : e.id \notin ids}

FilledOf(entries, id) == (CHOOSE e \in entries : e.id = id).filled

--------------------------------------------------------------------------
NoCheck == [at |-> "idle", outcome |-> None, status |-> None, findings |-> {}, seen |-> {},
          loaded |-> NoView, records |-> {}, registryError |-> FALSE, verdict |-> None]

RegistryInit ==
    /\ tree \in InitialTrees[kind]
    /\ checker = [u \in Checkers |-> NoCheck]
    /\ approved = UNION {{e.id} \X e.filled : e \in Records(disk[RegistryPath])}
    /\ edits = 0

Running(u) == checker[u].at \notin {"idle", "done"}

\* The tool runs first; a run that has no findings for it may not even look
\* at the registry.
Scan(u) ==
    /\ checker[u].at = "idle"
    /\ kind \in Overlapping \/ (\A v \in Checkers : checker[v].at = "idle")
    /\ \E outcome \in ToolOutcomes(kind) :
        LET status == Status(kind, outcome, tree)
        IN checker' = [checker EXCEPT ![u] = [NoCheck EXCEPT
                        !.at = IF status \in RunOf(kind).loads THEN "loading" ELSE "judging",
                        !.outcome = outcome, !.status = status, !.seen = tree,
                        !.findings = Scanned(outcome, status, tree)]]
    /\ UNCHANGED <<fileVars, kind, tree, approved, edits>>

Step(u, changed) ==
    /\ checker' = [checker EXCEPT ![u] = changed]
    /\ UNCHANGED <<kind, tree, approved, edits>>

MoveTo(u, at) == Step(u, [checker[u] EXCEPT !.at = at])

\* The check goes on to its verdict with an error and without records.
Fails(u) == Step(u, [checker[u] EXCEPT !.at = "judging", !.registryError = TRUE, !.records = {}, !.loaded = NoView])

\* A missing file is an empty registry; an invalid one is left alone.
Load(u) ==
    /\ checker[u].at = "loading"
    /\ Read(u, RegistryPath)
    /\ LET entries == Records(got'[u])
       IN IF ~IsValid(entries) THEN Fails(u)
          ELSE Step(u, [checker[u] EXCEPT !.loaded = got'[u], !.records = entries,
                            !.at = IF checker[u].status \in RunOf(kind).reconciles THEN "reconciling" ELSE "judging"])

\* Reconciling, then making the directory.
ReconcileRecords(u) ==
    /\ checker[u].at = "reconciling"
    /\ UNCHANGED fileVars
    /\ LET run == checker[u]
       IN \/ /\ Distinguishable(kind, run.findings)
             /\ Step(u, [run EXCEPT !.at = "probing", !.records = Reconcile(@, Ids(run.findings))])
          \/ Fails(u)

\* What is written back of the reconciled records.
ToPersist(u) ==
    LET run == checker[u]
        known == {e.id : e \in Records(run.loaded)}
    IN Registry("canonical", {e \in run.records : e.id \in known \/ WorthAStub(kind, e.id, run.findings)})

\* A registry behind a symbolic link is not replaced.
ProbeLink(u) ==
    /\ checker[u].at = "probing"
    /\ UNCHANGED fileVars
    /\ IF disk[RegistryPath] # Absent /\ disk[RegistryPath].form = "link" THEN Fails(u)
       ELSE MoveTo(u, "comparing")

\* A file that is up to date is not written.
Compare(u) ==
    /\ checker[u].at = "comparing"
    /\ \/ /\ Read(u, RegistryPath)
          /\ MoveTo(u, IF got'[u] = ToPersist(u) THEN "judging" ELSE "writing")
       \/ UNCHANGED fileVars /\ Fails(u)

OpenRegistry(u) ==
    /\ checker[u].at = "writing"
    /\ \/ OpenTemp(u, RegistryPath) /\ MoveTo(u, "filling")
       \/ UNCHANGED fileVars /\ Fails(u)

FillRegistry(u) ==
    /\ checker[u].at = "filling"
    /\ \/ FillTemp(u, ToPersist(u)) /\ MoveTo(u, "renaming")
       \/ UNCHANGED fileVars /\ Fails(u)

\* The temporary file is left behind when it cannot be renamed.
RenameRegistry(u) ==
    /\ checker[u].at = "renaming"
    /\ \/ Rename(u) /\ MoveTo(u, "judging")
       \/ UNCHANGED fileVars /\ Fails(u)

Evidence(u) ==
    LET run == checker[u]
        ids == Ids(run.findings)
    IN [registryError |-> run.registryError, status |-> run.status, outcome |-> run.outcome,
        findings |-> run.findings,
        active |-> [id \in {e.id : e \in run.records} \cap ids |-> FilledOf(run.records, id)],
        stale |-> Stale(run.records, ids)]

\* The verdict; what it rests on is kept only for a pass.
Judge(u) ==
    /\ checker[u].at = "judging"
    /\ LET verdict == Verdict(kind, Evidence(u))
           run == checker[u]
       IN Step(u, [NoCheck EXCEPT !.at = "done", !.verdict = verdict,
                    !.seen = IF verdict = "pass" THEN run.seen ELSE {},
                    !.loaded = IF verdict = "pass" THEN run.loaded ELSE NoView,
                    !.outcome = IF verdict = "pass" THEN run.outcome ELSE None])
    /\ UNCHANGED fileVars

KillChecker(u) ==
    /\ Running(u)
    /\ Step(u, [NoCheck EXCEPT !.at = "done"])
    /\ UNCHANGED fileVars

--------------------------------------------------------------------------
Edit ==
    /\ edits < MaxEdits
    /\ edits' = edits + 1
    /\ UNCHANGED <<kind, checker>>

\* A symbolic link is edited through.
Put(entries) ==
    LET form == IF disk[RegistryPath].form = "link" THEN "link" ELSE "edited"
    IN Place(RegistryPath, Registry(form, entries))

\* Someone fills in a record.
FillIn(e) ==
    /\ Edit
    /\ Put((Records(disk[RegistryPath]) \ {e}) \cup {[e EXCEPT !.filled = Full]})
    /\ approved' = approved \cup ({e.id} \X Full)
    /\ UNCHANGED tree

DeleteRecord(e) ==
    /\ Edit
    /\ Put(Records(disk[RegistryPath]) \ {e})
    /\ UNCHANGED <<approved, tree>>

\* Someone breaks a record, or copies one and fills the copy in.
DamageRecord(e) ==
    /\ Edit
    /\ \/ Put((Records(disk[RegistryPath]) \ {e}) \cup {[e EXCEPT !.shape = "unknown field"]})
       \/ e.filled # {} /\ Put(Records(disk[RegistryPath]) \cup {Stub(e.id)})
    /\ UNCHANGED <<approved, tree>>

ChangeTree ==
    /\ Edit
    /\ tree' \in InitialTrees[kind] /\ tree' # tree
    /\ UNCHANGED <<fileVars, approved>>

RegistryNext ==
    \/ \E u \in Checkers :
        \/ Scan(u) \/ Load(u) \/ ReconcileRecords(u) \/ ProbeLink(u) \/ Compare(u)
        \/ OpenRegistry(u) \/ FillRegistry(u) \/ RenameRegistry(u) \/ Judge(u) \/ KillChecker(u)
    \/ \E e \in Records(disk[RegistryPath]) : FillIn(e) \/ DeleteRecord(e) \/ DamageRecord(e)
    \/ ChangeTree

=============================================================================
