-------------------------- MODULE SharedDirectory --------------------------
(***************************************************************************)
(* The directory .repo-contract with both of its kinds of users: the runs  *)
(* that replay results and the keeper that tidies the cache, and the       *)
(* checks that keep a registry of exceptions.  The two never touch the     *)
(* same path, so a behaviour shows one of them, or one check, at work: the *)
(* scene.                                                                  *)
(***************************************************************************)
EXTENDS AffectedCache, ExceptionRegistry

CONSTANTS
    InitialEntries  \* what the cache may hold at first: functions from paths

--------------------------------------------------------------------------
\* The complete contents of a file: an entry of the cache, dated by the
\* clock, or a registry with records of findings that are or were there.
Entries == {Entry(world, time) : world \in Worlds, time \in 0..MaxTime}

RecordIds ==
    (UNION {Ids(findings) : findings \in UNION {InitialTrees[k] : k \in Kinds}})
    \cup {e.id : e \in UNION {Records(file) : file \in UNION {InitialFiles[k] : k \in Kinds}}}

RegistryRecords ==
    [id : RecordIds, filled : SUBSET Full, shape : {"version 1", "version 2", "unknown field", "bad method"}]

Registries == [form : {"canonical", "edited", "link"}, entries : SUBSET RegistryRecords]

Contents == Entries \cup Registries

ASSUME FileMarks ==
    /\ Partial \notin Contents \cup {Absent, NoView}
    /\ Absent \notin Contents /\ NoView \notin Contents \cup {Absent}
    /\ None \notin {"pass", "warn", "fail"}

\* A process is one run, or the keeper; each knows its paths.
ASSUME OneDirectory ==
    /\ RegistryPath \in Paths /\ \A world \in Worlds : EntryPath(world) \in Paths
    /\ Runs \cup Keepers \cup Checkers \subseteq Users /\ Runs \cap Keepers = {}
    /\ IsFiniteSet(Paths)

\* A computation is identified by its inputs and its tools.
ASSUME WorldsAssumption ==
    /\ MaxTime \in Nat /\ MaxEdits \in Nat
    /\ \A world \in Worlds : world = [check |-> world.check, inputs |-> world.inputs, tools |-> world.tools]
    /\ \A u \in Runs : \A call \in Calls[u] : call.world \in Worlds
    /\ \A limits \in Limits : limits.maxAge # Unlimited => limits.maxAge \in Nat
    /\ \A entries \in InitialEntries : \A path \in DOMAIN entries : entries[path] \in Contents

\* Only a command of a preset can be opaque: what the other scanners find
\* they can read.
ASSUME TreesAssumption ==
    /\ Full \subseteq Fields
    /\ \A k \in Kinds :
        /\ InitialFiles[k] \subseteq Registries \cup {Absent}
        /\ \A findings \in InitialTrees[k] :
            IsFiniteSet(findings) /\ (k # "presetCommands" => Governed(findings) = findings)

--------------------------------------------------------------------------

vars == <<fileVars, cacheVars, registryVars>>

CacheScene == "cache"

Init ==
    /\ kind \in Kinds \cup {CacheScene}
    /\ temps = {} /\ got = [u \in Users |-> NoView]
    /\ CacheInit
    /\ IF kind = CacheScene
       THEN /\ \E entries \in InitialEntries :
                disk = [path \in Paths |-> IF path \in DOMAIN entries THEN entries[path] ELSE Absent]
            /\ tree = {} /\ checker = [u \in Checkers |-> NoCheck] /\ approved = {} /\ edits = 0
       ELSE /\ \E file \in InitialFiles[kind] :
                disk = [path \in Paths |-> IF path = RegistryPath THEN file ELSE Absent]
            /\ RegistryInit

Next ==
    \/ kind = CacheScene /\ CacheNext /\ UNCHANGED registryVars
    \/ kind \in Kinds /\ RegistryNext /\ UNCHANGED cacheVars

Spec == Init /\ [][Next]_vars

--------------------------------------------------------------------------
\* Every variable has its type: no target ever holds a partial content.
TypeOK ==
    /\ disk \in [Paths -> Contents \cup {Absent}]
    /\ temps \subseteq [user : Users, path : Paths, content : Contents \cup {Partial}]
    /\ \A t1, t2 \in temps : t1.user = t2.user => t1 = t2
    /\ got \in [Users -> Contents \cup {Absent, NoView}]
    /\ now \in 0..MaxTime /\ edits \in 0..MaxEdits
    /\ \A u \in Runs : run[u].world \in Worlds \cup {NoWorld} /\ run[u].value \in Worlds \cup {NoWorld}
    /\ \A k \in Keepers : keeper[k].todo \subseteq Paths /\ DOMAIN keeper[k].read \subseteq Paths
    /\ kind \in Kinds \cup {CacheScene}
    /\ \A u \in Checkers : checker[u].verdict \in {None, "pass", "warn", "fail"} /\ checker[u].findings \subseteq checker[u].seen

\* What either user does is to replace whole contents and to look at whole
\* contents (file-cache-store.ts and write-exception-registry.ts promise it),
\* whatever fails or dies between creating a temporary file and renaming it.
Whole == INSTANCE AtomicFiles WITH content <- disk, view <- got
ImplementsAtomicFiles == Whole!Spec

\* A run that ends in a value ends in the one computed from the very inputs
\* and tools that it was called with, whatever was stored, misplaced or
\* damaged before; a release, or a run forced to be full, has not read or
\* written the cache for it, and does not stop early (cache.ts, scope.ts).
HitsAreGenuine ==
    \A u \in Runs :
        /\ run[u].at = "done" => run[u].value = run[u].world
        /\ run[u].at \notin {"idle", "failed"} /\ (IsRelease(run[u].call.env) \/ run[u].call.env.ciFull = "true") =>
            got[u] = NoView /\ TempOf(u) = {} /\ ~ResolveFailFast(run[u].call.args, run[u].call.env)

\* An entry that prune takes away though it is as prune read it is beyond the
\* limits: too old, or as old as any of maxEntries others that were read.
BeyondLimits(k, path) ==
    LET entry == keeper[k].read[path]
        limits == keeper[k].limits
        newer == {p \in DOMAIN keeper[k].read \ {path} :
                    IsConsistent(p, keeper[k].read[p]) /\ keeper[k].read[p].createdAt >= entry.createdAt}
    IN Expired(k, entry) \/ (limits.maxEntries # Unlimited /\ Cardinality(newer) >= limits.maxEntries)

PruneLosesNothing ==
    \A k \in Keepers : \A path \in (keeper[k].todo \ keeper'[k].todo) \cap DOMAIN keeper[k].read :
        keeper[k].at = "removing" /\ IsConsistent(path, disk[path]) /\ disk[path] = keeper[k].read[path] =>
            BeyondLimits(k, path)

\* A run of a check that replaces a registry which is as the run loaded it
\* keeps every record in it, word for word: the matching, the stale, those of
\* a tool that failed.
RewriteLosesNothing ==
    \A u \in Checkers :
        checker[u].at = "renaming" /\ checker'[u].at = "judging" /\ ~checker'[u].registryError
          /\ disk[RegistryPath] = checker[u].loaded =>
            Records(disk[RegistryPath]) \subseteq Records(disk'[RegistryPath])

\* Without a lock both can undo what another did meanwhile; they undo nothing
\* else.
OnlyRacesLose == [][PruneLosesNothing /\ RewriteLosesNothing]_vars

\* The policies a class of findings is under in a check, as a set.
Governing(check, class) ==
    LET config == PolicyConfig(check)
        configured == {config[group] : group \in DOMAIN config \cap {class.group}}
        all == UNION {group.rules : group \in configured}
        default == IF \E group \in configured : group.default # None
                   THEN (CHOOSE group \in configured : TRUE).default ELSE GlobalDefault(check)
        matching == {r \in all : r.pattern = class.category}
        globbed == {r \in all : Globs(r.pattern, class.category)}
        rules == IF class.category = Blanket THEN all ELSE IF matching # {} THEN matching ELSE globbed
    IN {r.policy : r \in rules} \cup (IF rules = {} \/ class.category = Blanket THEN {default} ELSE {})

Policies(check, f) ==
    IF check \in {"deadCode", "presetCommands"} THEN {Requiring({"justification"})}
    ELSE UNION {Governing(check, class) : class \in f.classes}

Filled(f) ==
    {field \in Fields : <<f.id, field>> \in approved} \cup (IF f.mark = "reasoned" THEN {"reason"} ELSE {})

\* Every field a policy asks for has been filled in by somebody, or stands in
\* the code.
IsReviewed(f) ==
    \A policy \in Policies(kind, f) : policy # Forbidden /\ policy.requirements \subseteq Filled(f)

\* What a pass of a check stands on.
StandsOnApproval(u) ==
    LET seen == checker[u].seen
    IN /\ checker[u].outcome = "done" \/ (checker[u].outcome = "no lockfile" /\ seen = {})
       /\ \A f \in seen : f.mark # "opaque" /\ (f.mark = "ok" \/ IsReviewed(f))
       /\ \A e \in Records(checker[u].loaded) : \E f \in seen : f.id = e.id
       /\ ~RunOf(kind).collapses => \A f, g \in seen : f.id = g.id => f = g

\* A check passes only if its tool finished, and everything it found in the
\* tree is under policies that forbid none of it and ask for nothing that
\* nobody has written; no record it loaded is left over, and no record stands
\* for two findings that a reader could tell apart.
NoVerdictWithoutApproval ==
    \A u \in Checkers : checker[u].verdict = "pass" => StandsOnApproval(u)

=============================================================================
