--------------------------- MODULE AffectedGraph ---------------------------
(***************************************************************************)
(* The affected analysis: affected/compute-affected.ts with the worklist   *)
(* of affected/worklist.ts and the chains of affected/explain.ts.  It      *)
(* diffs each changed module against its base, and spreads the names that  *)
(* differ through the import graph as facts (events), each at a number of  *)
(* hops (module boundaries crossed) from the change.  A module is what     *)
(* affected/analyze-module.ts reduces a file to.                           *)
(***************************************************************************)
EXTENDS Naturals, Sequences, FiniteSets, Functions

CONSTANTS
    Files,      \* the paths that name modules, at the base or now
    Others,     \* every other path
    Tests,      \* the test files
    Mutable,    \* the files that may be mutation targets
    Names,      \* the top-level names modules use
    Default,    \* the name "default", which export * never passes on
    Triggers,   \* the paths whose change makes every test run
    Ignored,    \* the paths that cannot influence a test
    Links,      \* the declared couplings, [when |-> path, run |-> tests]
    Repos,      \* the repositories considered
    Star,       \* what a namespace import binds
    Here,       \* the origin of a name a module declares itself
    None        \* no name, no base, no file

ASSUME GraphAssumption ==
    /\ Tests \subseteq Files /\ Mutable \subseteq Files \ Tests
    /\ IsFiniteSet(Files) /\ IsFiniteSet(Names)
    /\ Files \cap Others = {} /\ None \notin Files \cup Others \cup Names
    /\ Star \notin Names /\ Here \notin Files

\* A module's imports and exports name the module they resolve to: module
\* resolution is the compiler's.  A text stands for all the tokens it has.
Module ==
    [decls    : SUBSET [name : Names, text : Nat],
     refs     : SUBSET [name : Names, mentions : SUBSET Names],
     effects  : Seq([text : Nat, refs : SUBSET Names]),
     exports  : SUBSET [as : Names, from : Files \cup {Here}, name : Names \cup {Star}],
     stars    : Seq(Files),
     bindings : SUBSET [local : Names, from : Files, imported : Names \cup {Star}],
     bare     : Seq(Files),
     opaque   : BOOLEAN,
     parses   : BOOLEAN]

EmptyModule ==
    [decls |-> {}, refs |-> {}, effects |-> <<>>, exports |-> {}, stars |-> <<>>,
     bindings |-> {}, bare |-> <<>>, opaque |-> FALSE, parses |-> TRUE]

Kinds == {"added", "modified", "deleted", "renamed"}
Change == [path : Files \cup Others, kind : Kinds,
           renamedFrom : Files \cup Others \cup {None}]

\* What computeAffected is given: which modules of the working tree and of the
\* base could be read, the diff, and whether there is a reason to go full.
\* repo says what the modules hold: tree now and base before.
Input ==
    [repo : Repos, supplied : SUBSET Files, baseSupplied : SUBSET Files,
     changed : SUBSET Change, full : BOOLEAN]

Event == [kind : {"local", "export", "all", "any"}, file : Files,
          name : Names \cup {None}]
Origin == [kind : {"changed", "opaque"}, file : Files \cup Others, name : {None}]

LocalFact(f, n) == [kind |-> "local", file |-> f, name |-> n]
ExportFact(f, n) == [kind |-> "export", file |-> f, name |-> n]
AllFact(f) == [kind |-> "all", file |-> f, name |-> None]
AnyFact(f) == [kind |-> "any", file |-> f, name |-> None]
ChangedOrigin(f) == [kind |-> "changed", file |-> f, name |-> None]
OpaqueOrigin(f) == [kind |-> "opaque", file |-> f, name |-> None]

VARIABLES
    call,       \* the input of the computation, while it is at work
    pass,       \* "idle", "seeded", "widened" or "done"
    known,      \* per fact: its least hops so far and the fact that led to it
    work,       \* the queue: batches of facts, each queued by one step
    reached,    \* per affected file: its least hops and the fact that led to it
    result      \* what the computation returned

graphVars == <<call, pass, known, work, reached, result>>

NoResult == [scope |-> "none", tests |-> {}, targets |-> {}]

--------------------------------------------------------------------------
(* Placing the paths of the diff.                                          *)

PathsOf(c) == {c.path} \cup ({c.renamedFrom} \ {None})
IsLinked(c) == \E l \in Links : l.when \in PathsOf(c)

\* A path that is not a module is harmless when ignored or linked to tests.
PlacesNonModule(p, c) == IsLinked(c) \/ p \in Ignored

PlacesRenamedFrom(in, c) ==
    IF c.renamedFrom \in Files THEN c.renamedFrom \in in.baseSupplied
    ELSE PlacesNonModule(c.renamedFrom, c)

HasBase(c) == c.kind \in {"modified", "deleted"}

PlacesCurrent(in, c) ==
    IF c.path \in Files
    THEN /\ c.kind # "deleted" => c.path \in in.supplied
         /\ HasBase(c) => c.path \in in.baseSupplied
    ELSE PlacesNonModule(c.path, c)

Placed(in, c) ==
    /\ PathsOf(c) \cap Triggers = {}
    /\ c.renamedFrom # None => PlacesRenamedFrom(in, c)
    /\ PlacesCurrent(in, c)

\* A rename is taken for its new path only.
ModulesOfMutant(c) ==
    {[path |-> p, current |-> c.kind # "deleted",
      base |-> IF HasBase(c) THEN p ELSE None] : p \in {c.path} \cap Files}

\* The modules a placed change stands for: a rename also leaves a ghost.
ModulesOf(c) ==
    {[path |-> p, current |-> FALSE, base |-> p] :
        p \in {c.renamedFrom} \cap Files} \cup
    {[path |-> p, current |-> c.kind # "deleted",
      base |-> IF HasBase(c) THEN p ELSE None] : p \in {c.path} \cap Files}

ChangedModules == UNION {ModulesOf(c) : c \in call.changed}
LinkedChanges == {c \in call.changed : IsLinked(c)}

\* Every supplied module and every base of a changed one must parse.
AllParse(in) ==
    /\ \A f \in in.supplied : in.repo.tree[f].parses
    /\ \A c \in in.changed : \A m \in ModulesOf(c) :
          m.base # None => in.repo.base[m.base].parses

--------------------------------------------------------------------------
(* The import graph: the facts an importer learns when an export changes.  *)

Info(f) == IF f \in call.supplied THEN call.repo.tree[f] ELSE EmptyModule

BindEdges(f, n) == UNION
    {{LocalFact(g, b.local) : b \in {b \in Info(g).bindings : b.from = f /\ b.imported = n}}
     \cup {ExportFact(g, x.as) : x \in {x \in Info(g).exports : x.from = f /\ x.name = n}}
     : g \in call.supplied}

NsEdges(f) == UNION
    {{LocalFact(g, b.local) : b \in {b \in Info(g).bindings : b.from = f /\ b.imported = Star}}
     \cup {ExportFact(g, x.as) : x \in {x \in Info(g).exports : x.from = f /\ x.name = Star}}
     \cup {AllFact(g) : h \in {f} \cap Range(Info(g).bare)}
     : g \in call.supplied}

StarEdges(f) == {g \in call.supplied : f \in Range(Info(g).stars)}

--------------------------------------------------------------------------
(* The worklist.                                                           *)

\* A fact is queued again at the same distance.
FreshMutant(offer) ==
    offer.event \notin DOMAIN known \/ offer.hops <= known[offer.event].hops

\* A fact keeps the distance at which it was found first.
FirstOnlyMutant(offer) == offer.event \notin DOMAIN known

\* A fact is queued only if it is new, or nearer than it was known to be.
Fresh(offer) ==
    offer.event \notin DOMAIN known \/ offer.hops < known[offer.event].hops

\* The cause of a fact is overwritten even when it was known to be nearer.
EmitMutant(offers, rest) ==
    LET accepted == {o \in offers : Fresh(o)}
        events == {o.event : o \in offers}
        Offered(e) == CHOOSE o \in offers : o.event = e
    IN /\ known' = [e \in DOMAIN known \cup events |->
                      IF e \notin events THEN known[e]
                      ELSE [hops |-> IF Offered(e) \in accepted THEN Offered(e).hops
                                     ELSE known[e].hops,
                            cause |-> Offered(e).cause]]
       /\ work' = IF accepted = {} THEN rest
                  ELSE Append(rest, {[event |-> o.event, hops |-> o.hops] : o \in accepted})

\* Emit every offer of one step; rest is what the step leaves in the queue.
Emit(offers, rest) ==
    LET accepted == {o \in offers : Fresh(o)}
        events == {o.event : o \in accepted}
        Offered(e) == CHOOSE o \in accepted : o.event = e
    IN /\ known' = [e \in DOMAIN known \cup events |->
                      IF e \in events
                      THEN [hops |-> Offered(e).hops, cause |-> Offered(e).cause]
                      ELSE known[e]]
       /\ work' = IF accepted = {} THEN rest
                  ELSE Append(rest, {[event |-> o.event, hops |-> o.hops] : o \in accepted})

\* A file keeps the fact that reached it first.
AffectMutant(files, hops, cause) ==
    reached' = [f \in DOMAIN reached \cup files |->
                  IF f \in files \ DOMAIN reached THEN [hops |-> hops, cause |-> cause]
                  ELSE reached[f]]

\* A file keeps the nearest fact that reached it.
Affect(files, hops, cause) ==
    reached' = [f \in DOMAIN reached \cup files |->
                  IF f \in files /\ (f \in DOMAIN reached => hops < reached[f].hops)
                  THEN [hops |-> hops, cause |-> cause] ELSE reached[f]]

\* The oldest batch comes first.  Within it the order is that of the source
\* text: any order where a repository leaves it open, else one fixed order.
Oldest ==
    IF call.repo.free THEN Head(work) ELSE {CHOOSE item \in Head(work) : TRUE}

Rest(item) ==
    IF Head(work) = {item} THEN Tail(work)
    ELSE <<Head(work) \ {item}>> \o Tail(work)

Offers(events, hops, cause) ==
    {[event |-> e, hops |-> hops, cause |-> cause] : e \in events}

--------------------------------------------------------------------------
(* Seeding: the names that differ between a module and its base.           *)

Current(m) == IF m.current THEN Info(m.path) ELSE EmptyModule

\* One base per path, whichever of its changes it was read for.
BaseOf(p) ==
    IF \E m \in ChangedModules : m.path = p /\ m.base # None
    THEN call.repo.base[p] ELSE EmptyModule

\* What is not the same on both sides.
Differing(before, after) == (before \ after) \cup (after \ before)

Texts(effects) == [i \in DOMAIN effects |-> effects[i].text]

LoadsDiffer(was, is) ==
    \/ Texts(was.effects) # Texts(is.effects)
    \/ was.bare # is.bare
    \/ was.stars # is.stars

SeedFacts(m) ==
    LET was == BaseOf(m.path)
        is == Current(m)
    IN {LocalFact(m.path, d.name) : d \in Differing(was.decls, is.decls)}
       \cup {ExportFact(m.path, x.as) : x \in Differing(was.exports, is.exports)}
       \cup {AllFact(p) : p \in IF LoadsDiffer(was, is) THEN {m.path} ELSE {}}

\* seedFromDiff for every changed module.
Seed ==
    /\ Emit(UNION {Offers(SeedFacts(m), 0, ChangedOrigin(m.path)) : m \in ChangedModules}, <<>>)
    /\ reached' = [p \in {m.path : m \in {m \in ChangedModules : m.current}} |->
                     [hops |-> 0, cause |-> ChangedOrigin(p)]]

--------------------------------------------------------------------------
(* Spreading.                                                              *)

OnLocal(f, n) ==
    LET is == Info(f)
    IN {LocalFact(f, r.name) : r \in {r \in is.refs : n \in r.mentions}}
       \cup {AllFact(g) : g \in IF \E i \in DOMAIN is.effects : n \in is.effects[i].refs
                                THEN {f} ELSE {}}
       \cup {ExportFact(f, x.as) : x \in {x \in is.exports : x.from = Here /\ x.name = n}}

\* The importers of export n of f, by name or through an export *.
ExportFollows(f, n) ==
    BindEdges(f, n) \cup
    (IF n = Default THEN {} ELSE {ExportFact(g, n) : g \in StarEdges(f)})

\* The facts that the handler of e emits inside the same module...
Within(e) ==
    CASE e.kind = "local"  -> OnLocal(e.file, e.name)
      [] e.kind = "export" -> {AnyFact(e.file)}
      [] e.kind = "all"    -> {ExportFact(e.file, x.as) : x \in Info(e.file).exports}
                              \cup {AnyFact(e.file)}
      [] e.kind = "any"    -> {}

\* ...and those it follows into the modules that import it.
Across(e) ==
    CASE e.kind = "export" -> ExportFollows(e.file, e.name)
      [] e.kind = "any"    -> NsEdges(e.file)
      [] OTHER             -> {}

\* One item of drain: onLocal, onExport, onAll or onAny, with follow.
Spread ==
    \E item \in Oldest :
        LET e == item.event
        IN /\ Emit(Offers(Within(e), item.hops, e) \cup Offers(Across(e), item.hops + 1, e),
                   Rest(item))
           /\ Affect({g.file : g \in Across(e)}, item.hops + 1, e)

\* A source that loads code dynamically counts as changed in every export.
OpaqueFiles == {f \in call.supplied : Info(f).opaque}
OpaqueSources == IF ChangedModules \cup LinkedChanges = {} THEN {} ELSE OpaqueFiles \ Tests
OpaqueTests == IF ChangedModules \cup LinkedChanges = {} THEN {} ELSE OpaqueFiles \cap Tests

Widen == Emit(UNION {Offers({AllFact(f)}, 1, OpaqueOrigin(f)) : f \in OpaqueSources}, <<>>)

--------------------------------------------------------------------------
(* The result.                                                             *)

\* The tests a link couples to change c.
LinkedTests(c) ==
    Tests \cap call.supplied \cap UNION {l.run : l \in {l \in Links : l.when \in PathsOf(c)}}

\* Why a test is in the set: the first of these that applies.
TestCause(t) ==
    IF t \in OpaqueTests THEN OpaqueOrigin(t)
    ELSE IF t \in DOMAIN reached THEN reached[t].cause
    ELSE ChangedOrigin((CHOOSE c \in LinkedChanges : t \in LinkedTests(c)).path)

ChangedSources == {m.path : m \in {m \in ChangedModules : m.current}} \ Tests

Assembled ==
    LET tests == (DOMAIN reached \cap Tests) \cup OpaqueTests
                 \cup UNION {LinkedTests(c) : c \in LinkedChanges}
    IN [scope |-> "affected",
        tests |-> {[test |-> t, cause |-> TestCause(t)] : t \in tests},
        targets |-> ({f \in DOMAIN reached \ Tests : reached[f].hops = 1} \cup ChangedSources)
                    \cap Mutable]

FullResult ==
    [scope |-> "full",
     tests |-> {[test |-> t, cause |-> None] : t \in call.supplied \cap Tests},
     targets |-> call.supplied \cap Mutable]

--------------------------------------------------------------------------
(* computeAffected, one action per phase.                                  *)

GraphTypeOK ==
    /\ call \in Input
    /\ pass \in {"idle", "seeded", "widened", "done"}
    /\ DOMAIN known \subseteq Event
    /\ \A e \in DOMAIN known : known[e].hops \in Nat /\ known[e].cause \in Event \cup Origin
    /\ \A i \in DOMAIN work : work[i] # {} /\ {w.event : w \in work[i]} \subseteq DOMAIN known
    /\ DOMAIN reached \subseteq Files
    /\ (pass = "done") = (result # NoResult)

GraphInit ==
    /\ pass = "idle"
    /\ known = <<>>
    /\ work = <<>>
    /\ reached = <<>>
    /\ result = NoResult

NeedsFull(in) ==
    in.full \/ (\E c \in in.changed : ~Placed(in, c)) \/ ~AllParse(in)

GoFull ==
    /\ pass = "idle" /\ NeedsFull(call)
    /\ pass' = "done"
    /\ result' = FullResult
    /\ UNCHANGED <<call, known, work, reached>>

SeedChanges ==
    /\ pass = "idle" /\ ~NeedsFull(call)
    /\ pass' = "seeded"
    /\ Seed
    /\ UNCHANGED <<call, result>>

SpreadNext ==
    /\ pass \in {"seeded", "widened"} /\ work # <<>>
    /\ Spread
    /\ UNCHANGED <<call, pass, result>>

WidenForDynamicLoads ==
    /\ pass = "seeded" /\ work = <<>>
    /\ pass' = "widened"
    /\ Widen
    /\ UNCHANGED <<call, reached, result>>

Assemble ==
    /\ pass = "widened" /\ work = <<>>
    /\ pass' = "done"
    /\ result' = Assembled
    /\ UNCHANGED <<call, known, work, reached>>

GraphNext ==
    GoFull \/ SeedChanges \/ SpreadNext \/ WidenForDynamicLoads \/ Assemble

\* One step back along a chain of causes, unless its last fact has none or its
\* cause is on the chain already.
Follow(keys) ==
    LET last == keys[Len(keys)]
    IN IF last \in DOMAIN known /\ known[last].cause \notin Range(keys)
       THEN Append(keys, known[last].cause) ELSE keys

\* explainAffected: from a test back through the causes.
Explanation(entry) ==
    LET walk[k \in 0..Cardinality(DOMAIN known)] ==
          IF k = 0 THEN <<entry.cause>> ELSE Follow(walk[k - 1])
    IN walk[Cardinality(DOMAIN known)]

=============================================================================
