----------------------- MODULE AffectedRequirements -----------------------
(***************************************************************************)
(* What the affected analysis has to answer, stated without a worklist:    *)
(* which fact of a module reads which others, and the tests that a change  *)
(* reaches through that relation.  The module system defines the relation  *)
(* (an export is what it is bound to, a module runs what it imports); the  *)
(* architecture decision record 0021 adds that a changed top-level         *)
(* statement, bare import or export * counts as a change of every export.  *)
(***************************************************************************)
EXTENDS AffectedGraph

\* A fact of an imported module, as an import clause names it.
Imported(f, n) == IF n = Star THEN AnyFact(f) ELSE ExportFact(f, n)

\* The paths of the diff that name modules, and what they held and hold.
ChangedPaths == Files \cap UNION {PathsOf(c) : c \in call.changed}
Was(p) == IF p \in ChangedPaths THEN call.repo.base[p] ELSE EmptyModule

\* Whether a module passes names on, and whether it has a name or may pass it on.
PassesOn(f) == \E m \in {Info(f), Was(f)} : m.stars # <<>>
MayExport(f, n) == PassesOn(f) \/ \E m \in {Info(f), Was(f)} : \E x \in m.exports : x.as = n

\* The facts of the other modules, and of the same one, that fact e reads.
ReadsAcross(e) ==
    LET is == Info(e.file)
    IN CASE e.kind = "local"  ->
              {Imported(b.from, b.imported) : b \in {b \in is.bindings : b.local = e.name}}
         [] e.kind = "export" ->
              {Imported(x.from, x.name) : x \in {x \in is.exports : x.as = e.name /\ x.from # Here}}
              \cup {ExportFact(g, e.name) : g \in IF e.name = Default THEN {} ELSE Range(is.stars)}
         [] e.kind = "all"    -> {AnyFact(g) : g \in Range(is.bare)}
         [] e.kind = "any"    -> {}

ReadsWithin(e) ==
    LET is == Info(e.file)
        f == e.file
    IN CASE e.kind = "local"  ->
              {LocalFact(f, n) : n \in UNION {r.mentions : r \in {r \in is.refs : r.name = e.name}}}
         [] e.kind = "export" ->
              {LocalFact(f, x.name) : x \in {x \in is.exports : x.as = e.name /\ x.from = Here}}
              \cup {AllFact(g) : g \in IF MayExport(f, e.name) THEN {f} ELSE {}}
         [] e.kind = "all"    ->
              {LocalFact(f, n) : n \in UNION {effect.refs : effect \in Range(is.effects)}}
         [] e.kind = "any"    -> {ExportFact(f, n) : n \in Names} \cup {AllFact(f)}

Facts == [kind : {"local", "export"}, file : Files, name : Names]
         \cup [kind : {"all", "any"}, file : Files, name : {None}]

\* What makes the module at p another one.
Touched(p, was, is) ==
    {LocalFact(p, d.name) : d \in (was.decls \cup is.decls) \ (was.decls \cap is.decls)}
    \cup {ExportFact(p, x.as) : x \in (was.exports \cup is.exports) \ (was.exports \cap is.exports)}
    \cup {AllFact(f) : f \in IF <<Texts(was.effects), was.bare, was.stars>>
                                = <<Texts(is.effects), is.bare, is.stars>>
                             THEN {} ELSE {p}}

\* What is at a path of the diff: the module that is there now, and nothing where
\* the diff says that one went away, whatever lies there since.
Gone(p) == \E c \in call.changed : c.renamedFrom = p \/ (c.path = p /\ c.kind = "deleted")
After(p) == {Info(p)} \cup {m \in {EmptyModule} : Gone(p)}

\* What a change does to the modules before anything is followed.
ChangedFacts ==
    UNION {UNION {Touched(p, Was(p), is) : is \in After(p)} : p \in ChangedPaths}

\* The facts that read one of facts, directly or not, under a reading relation.
Pairs(Reads(_)) == UNION {{<<e, read>> : read \in Reads(e)} : e \in Facts}

WithReaders(facts, relation) == facts \cup {p[1] : p \in {p \in relation : p[2] \in facts}}
Readers(facts, relation) ==
    LET grow[s \in SUBSET Facts] ==
          IF WithReaders(s, relation) = s THEN s ELSE grow[WithReaders(s, relation)]
    IN grow[facts]

\* A module that loads code dynamically may read anything, once anything changed.
ReadsAnything == IF ChangedPaths = {} /\ LinkedChanges = {} THEN {} ELSE OpaqueFiles

NeededTests ==
    LET impacted == Readers(ChangedFacts \cup {AllFact(f) : f \in ReadsAnything},
                            Pairs(ReadsWithin) \cup Pairs(ReadsAcross))
        files == {e.file : e \in impacted} \cup ChangedPaths \cup ReadsAnything
    IN (Tests \cap call.supplied) \cap
       (files \cup UNION {l.run : l \in {l \in Links : \E c \in call.changed : l.when \in PathsOf(c)}})

\* The modules that read, directly, what a change alters.
DirectReaders ==
    LET altered == Readers(ChangedFacts, Pairs(ReadsWithin))
    IN {p[1].file : p \in {p \in Pairs(ReadsAcross) : p[2] \in altered}}

=============================================================================
