---------------------------- MODULE AffectedRun ----------------------------
(***************************************************************************)
(* repo-contract affected, from git to a merged mutation report: collect   *)
(* what git and the working tree say (affected/collect.ts), run the        *)
(* analysis (AffectedGraph), split the mutation targets over jobs that     *)
(* each run the command again (bin/affected-cli.mjs, affected/shard.ts),   *)
(* and merge the reports of the jobs (bin/merge-mutation-cli.mjs).         *)
(***************************************************************************)
EXTENDS AffectedRequirements

CONSTANTS
    NameOrder,  \* Files in the order of their names
    MaxShards,  \* the most shards a plan asks for
    MaxReports  \* bound on the reports the jobs leave behind

ASSUME RunAssumption ==
    /\ NameOrder \in Seq(Files) /\ Range(NameOrder) = Files
    /\ MaxShards \in Nat \ {0} /\ MaxReports \in Nat

Faults == {"none", "base", "listing", "tsconfig", "diff", "status", "untracked"}

\* A repository: tree and base are the modules of both sides, listed and atBase
\* the paths that exist there, unreadable and missing those whose content
\* cannot be had.  costs are the timing files that the jobs may be given; free
\* says that the source text may have any order.
Repo ==
    [free : BOOLEAN, tree : [Files -> Module], listed : SUBSET Files,
     unreadable : SUBSET Files,
     base : [Files -> Module], atBase : SUBSET Files,
     missing : SUBSET Files, changed : SUBSET Change, fault : Faults,
     costs : SUBSET UNION {[timed -> Nat] : timed \in SUBSET Files}]

\* Repos has repositories of this form; a timing file is checked as a function.
ASSUME ReposAssumption ==
    \A repo \in Repos :
        /\ repo.free \in BOOLEAN
        /\ {repo.tree, repo.base} \subseteq [Files -> Module]
        /\ UNION {repo.listed, repo.unreadable, repo.atBase, repo.missing} \subseteq Files
        /\ repo.changed \subseteq Change /\ repo.fault \in Faults
        /\ \A costs \in repo.costs :
              DOMAIN costs \subseteq Files /\ \A f \in DOMAIN costs : costs[f] \in Nat

\* What git tells of one working tree: a path of the diff that can be read now is
\* there now by some change, and had no module at the base unless a change says
\* that one was modified, deleted or renamed.
GitTells(repo) ==
    \A c \in repo.changed : \A p \in Files \cap PathsOf(c) :
        /\ p \in repo.listed \ repo.unreadable =>
              \E d \in repo.changed : d.path = p /\ d.kind # "deleted"
        /\ repo.base[p] # EmptyModule =>
              \E d \in repo.changed : d.renamedFrom = p \/ (d.path = p /\ HasBase(d))

ASSUME GitAssumption == \A repo \in Repos : GitTells(repo)

VARIABLES
    stage,      \* "collect", "analyse", "jobs" or "merged"
    plan,       \* the matrix of the last plan job
    reports,    \* the reports of the finished jobs, in the order they came in
    merged      \* the outcome of merge-mutation

runVars == <<graphVars, stage, plan, reports, merged>>

NoPlan == [total |-> 0, costs |-> None, targets |-> {}]
NotMerged == [ok |-> FALSE, files |-> {}]

--------------------------------------------------------------------------
(* computeAffectedFromGit.                                                 *)

world == call.repo

\* Modules that cannot be read are left out of the listing.
Readable == IF world.fault = "listing" THEN {} ELSE world.listed \ world.unreadable

\* git show is asked for every change that is not an addition.
BasesRead ==
    LET asked == {IF c.renamedFrom = None THEN c.path ELSE c.renamedFrom :
                    c \in {c \in world.changed : c.kind # "added"}}
    IN asked \cap (world.atBase \ world.missing)

\* Only names of modules git knew at the base can have been read.
Collect ==
    /\ stage = "collect"
    /\ stage' = "analyse"
    /\ call' = [repo |-> call.repo, supplied |-> Readable,
                baseSupplied |-> IF world.fault = "none" THEN BasesRead ELSE {},
                changed |-> IF world.fault = "none" THEN world.changed ELSE {},
                full |-> world.fault # "none"]
    /\ UNCHANGED <<pass, known, work, reached, result, plan, reports, merged>>

Analyse ==
    /\ stage = "analyse"
    /\ GraphNext
    /\ UNCHANGED <<stage, plan, reports, merged>>

--------------------------------------------------------------------------
(* planShards.                                                             *)

\* Costs are scaled by the number of recorded ones: the mean stays whole.
Weight(costs, targets, f) ==
    LET timed == DOMAIN costs \cap targets
    IN IF timed = {} THEN 1
       ELSE IF f \in timed THEN costs[f] * Cardinality(timed) ELSE SumFunctionOnSet(costs, timed)

\* Heaviest first, equal weights in the order of the names.
Position(f) == CHOOSE i \in DOMAIN NameOrder : NameOrder[i] = f
Precedes(weight, f, g) ==
    weight[f] > weight[g] \/ (weight[f] = weight[g] /\ Position(f) < Position(g))
Heaviest(weight, files) == CHOOSE f \in files : \A g \in files \ {f} : Precedes(weight, f, g)

\* One file onto the first of the lightest bins.
Place(bins, f, weight) ==
    LET lightest == CHOOSE i \in DOMAIN bins :
          \A j \in DOMAIN bins : bins[i].weight < bins[j].weight
                                 \/ (bins[i].weight = bins[j].weight /\ i <= j)
    IN [bins EXCEPT ![lightest].files = @ \cup {f}, ![lightest].weight = @ + weight]

ShardCountMutant(wanted, targets) ==
    IF wanted < Cardinality(targets) THEN wanted ELSE Cardinality(targets)

ShardCount(wanted, targets) ==
    LET n == IF wanted < Cardinality(targets) THEN wanted ELSE Cardinality(targets)
    IN IF n < 1 THEN 1 ELSE n

\* One round of the loop: left are the files that are in no bin yet.
PlaceHeaviest(weight, given) ==
    LET f == Heaviest(weight, given.left)
    IN [left |-> given.left \ {f}, bins |-> Place(given.bins, f, weight[f])]

PlanShards(targets, costs, wanted) ==
    LET weight == [f \in targets |-> Weight(costs, targets, f)]
        empty == [i \in 1..ShardCount(wanted, targets) |-> [files |-> {}, weight |-> 0]]
        given[k \in 0..Cardinality(targets)] ==
          IF k = 0 THEN [left |-> targets, bins |-> empty] ELSE PlaceHeaviest(weight, given[k - 1])
    IN given[Cardinality(targets)].bins

\* What a job with --shard i/n mutates; a plan of fewer shards leaves it none.
ShardOf(targets, costs, i, n) ==
    LET bins == PlanShards(targets, costs, n)
    IN IF i \in DOMAIN bins THEN bins[i].files ELSE {}

--------------------------------------------------------------------------
(* The jobs.                                                               *)

\* The plan job: --plan-shards with a fixed or a time-based count.
PlanJob ==
    /\ pass = "done" /\ stage \in {"analyse", "jobs"}
    /\ Len(reports) < MaxReports
    /\ \E wanted \in 1..MaxShards, costs \in world.costs :
          plan' = [total |-> ShardCount(wanted, result.targets), costs |-> costs,
                   targets |-> result.targets]
    /\ stage' = "jobs"
    /\ UNCHANGED <<graphVars, reports, merged>>

\* The targets a job may come to: what the plan job saw or, when its own git
\* fails, everything.
JobTargets == {result.targets, Mutable \cap Readable}

\* Shard i runs, maybe again, and its report is kept.  from is not part of it:
\* a report does not say what plan it is a share of.
ShardJob ==
    /\ stage = "jobs" /\ Len(reports) < MaxReports
    /\ \E i \in 1..plan.total, targets \in JobTargets, costs \in world.costs :
          reports' = Append(reports,
                       [shard |-> i, files |-> ShardOf(targets, costs, i, plan.total),
                        from |-> [plan EXCEPT !.costs = costs, !.targets = targets]])
    /\ UNCHANGED <<graphVars, stage, plan, merged>>

--------------------------------------------------------------------------
(* mergeMutationReports.                                                   *)

\* What the file given for a report turns out to be: a report, one of another
\* schema version, or nothing that has a files object.
Forms == {"report", "other", "broken"}

InRange(given, total) == \A i \in DOMAIN given : given[i].shard \in 1..total
NoneRepeated(given) ==
    \A i, j \in DOMAIN given : given[i].shard = given[j].shard => i = j
NoneMissingMutant(given, total) == given # <<>>

NoneMissing(given, total) == Len(given) = total
NoneShared(given) ==
    \A i, j \in DOMAIN given : i # j => given[i].files \cap given[j].files = {}

OneSchema(forms) == \E version \in {"report", "other"} : \A i \in DOMAIN forms : forms[i] = version

MergeMutationReports(given, forms, total) ==
    IF /\ InRange(given, total) /\ NoneRepeated(given) /\ OneSchema(forms)
       /\ NoneMissing(given, total) /\ NoneShared(given)
    THEN [ok |-> TRUE, files |-> UNION {r.files : r \in Range(given)}]
    ELSE [ok |-> FALSE, files |-> {}]

\* merge-mutation, at any time, with whatever reports there are.
Merge ==
    /\ stage = "jobs" /\ reports # <<>>
    /\ \E forms \in [DOMAIN reports -> Forms] :
          merged' = MergeMutationReports(reports, forms, plan.total)
    /\ stage' = "merged"
    /\ UNCHANGED <<graphVars, plan, reports>>

--------------------------------------------------------------------------
NoCall(repo) ==
    [repo |-> repo, supplied |-> {}, baseSupplied |-> {}, changed |-> {}, full |-> FALSE]

Init ==
    /\ stage = "collect"
    /\ call \in {NoCall(repo) : repo \in Repos}
    /\ GraphInit
    /\ plan = NoPlan /\ reports = <<>> /\ merged = NotMerged

Next == Collect \/ Analyse \/ PlanJob \/ ShardJob \/ Merge

\* The command is one promise chain: git, the reads and the analysis go on
\* until they are done.  Whether a CI job ever starts is not the program's.
Spec == Init /\ [][Next]_runVars /\ WF_runVars(Collect \/ Analyse)

--------------------------------------------------------------------------
(* Properties.                                                             *)

\* The types of the state: a queued fact is known, a result is there exactly
\* when the analysis is done, and a plan has at least one shard.
TypeOK ==
    /\ stage \in {"collect", "analyse", "jobs", "merged"}
    /\ GraphTypeOK
    /\ Len(reports) <= MaxReports
    /\ stage = "jobs" => plan.total \in 1..MaxShards

IsKnown(e, hops) == e \in DOMAIN known /\ known[e].hops <= hops
IsReached(f, hops) == f \in DOMAIN reached /\ reached[f].hops <= hops

\* The analysis was not told of a module that exists and did not change.
Blind == world.unreadable \ ChangedPaths # {}

\* Where the analysis does not follow a change: out of a module that counts as
\* changed in every export, through its export *; and out of a test that loads
\* code dynamically, to the modules that import it.
Imports(m) ==
    Range(m.stars) \cup Range(m.bare) \cup {b.from : b \in m.bindings} \cup {x.from : x \in m.exports}
StarGaps == {f \in Files : PassesOn(f) /\ AllFact(f) \in DOMAIN known}
TestGaps == {t \in ReadsAnything \cap Tests : \E g \in call.supplied : t \in Imports(Info(g))}

\* Modules that pass names on and do nothing else: nothing makes one of them count
\* as changed in every export.
PlainBarrels ==
    \A f \in Files : PassesOn(f) =>
        /\ Info(f).effects = <<>> /\ Info(f).bare = <<>>
        /\ f \notin OpaqueSources /\ AllFact(f) \notin ChangedFacts

\* Narrowing skips no test that the change reaches through the imports, the
\* exports and the top-level statements of the modules; a full result leaves
\* out no test that was read.  (computeAffected; blind runs are a hazard.)
NothingNeededIsSkipped ==
    (pass = "done" /\ ~Blind) =>
        LET chosen == {entry.test : entry \in result.tests}
        IN IF result.scope = "full" THEN chosen = Tests \cap call.supplied
           ELSE NeededTests \subseteq chosen

\* The mutation targets are the changed sources and those that read a change
\* directly, whatever roundabout way the worklist first came to them by.
MutationTargetsAreDirect ==
    (pass = "done" /\ result.scope = "affected") =>
        result.targets = Mutable \cap ((ChangedPaths \cap call.supplied) \cup DirectReaders)

\* When the analysis is done, every fact that follows from a known one is
\* known, and every fact and file is exactly as far from the change as the
\* fact it was last found by puts it, and no further than any other does:
\* nothing is left at a distance that a nearer way has made stale.
DistancesAreShortest ==
    (pass = "done" /\ result.scope = "affected") =>
        /\ \A m \in ChangedModules : \A e \in SeedFacts(m) : IsKnown(e, 0)
        /\ \A f \in OpaqueSources : IsKnown(AllFact(f), 1)
        /\ \A e \in DOMAIN known :
              /\ \A g \in Within(e) : IsKnown(g, known[e].hops)
              /\ \A g \in Across(e) :
                    IsKnown(g, known[e].hops + 1) /\ IsReached(g.file, known[e].hops + 1)
        /\ \A e \in DOMAIN known : known[e].cause \in DOMAIN known =>
              LET led == known[e].cause
              IN known[e].hops = known[led].hops + IF e \in Within(led) THEN 0 ELSE 1
        /\ \A f \in DOMAIN reached : reached[f].cause \in DOMAIN known =>
              LET led == reached[f].cause
              IN reached[f].hops = known[led].hops + 1 /\ \E g \in Across(led) : g.file = f

\* Every selected test is explained by a chain that does not turn back on
\* itself and ends at a file of the diff, or at a module that loads code
\* dynamically, however the facts on it were found again at a smaller distance.
ExplanationsReachTheChange ==
    (pass = "done" /\ result.scope = "affected") =>
        \A entry \in result.tests :
            LET keys == Explanation(entry)
                origin == keys[Len(keys)]
            IN \/ origin.kind = "changed" /\ \E c \in call.changed : origin.file \in PathsOf(c)
               \/ origin.kind = "opaque" /\ origin.file \in OpaqueFiles

\* A merge that succeeds holds exactly the targets of the list its reports are
\* shares of, when they are shares of one list, split by one set of timings over
\* as many jobs as the merge is told of: neither a lost nor a repeated shard
\* passes for a whole run.  Nothing in a report says which list that was: where
\* the jobs did not agree on one, or a report is left over from an earlier plan
\* of as many shards, the merge may pass without some target.
OneList(from) == from.total = plan.total /\ \A r \in Range(reports) : r.from = from

ShardsLoseNothing ==
    merged.ok => \A r \in Range(reports) : OneList(r.from) => merged.files = r.from.targets

\* The analysis always comes to an end, on import cycles too.
EveryRunConcludes == <>(pass = "done")

=============================================================================
