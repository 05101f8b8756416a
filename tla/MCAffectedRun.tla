--------------------------- MODULE MCAffectedRun ---------------------------
(***************************************************************************)
(* Small repositories for AffectedRun: a leaf A, two modules B and C, a    *)
(* test T and a bystander D.  A changes in one of several ways, B imports  *)
(* A, C imports B (or B and A), and T imports B, C or A, in every form.    *)
(***************************************************************************)
EXTENDS AffectedRun, SequencesExt

CONSTANTS
    A, B, C, D, T,              \* the modules
    lock, doc, data, asset,     \* the other paths: trigger, ignored, linked, unplaced
    h, u, x, y, l,              \* names
    default, star, here, none

MCFiles == {A, B, C, D, T}
MCOthers == {lock, doc, data, asset}
MCTests == {T}
MCMutable == {A, B, C, D}
MCNames == {h, u, x, y, l, default}
MCTriggers == {lock}
MCIgnored == {doc}
MCLinks == {[when |-> data, run |-> {T}]}
MCNameOrder == <<A, B, C, D, T>>

--------------------------------------------------------------------------
Decl(n, text) == [name |-> n, text |-> text]
Refs(n, names) == [name |-> n, mentions |-> names]
Own(as, n) == [as |-> as, from |-> here, name |-> n]
From(f, as, n) == [as |-> as, from |-> f, name |-> n]
Bind(f, local, n) == [local |-> local, from |-> f, imported |-> n]
Effect(text, refs) == [text |-> text, refs |-> refs]

\* y is computed from u, and u from h; a declaration mentions its own name.
LeafWith(hText, xText, effects) ==
    [EmptyModule EXCEPT
        !.decls = {Decl(h, hText), Decl(u, 1), Decl(y, 1), Decl(x, xText)},
        !.refs = {Refs(y, {y, u}), Refs(u, {u, h}), Refs(x, {x}), Refs(h, {h})},
        !.exports = {Own(x, x), Own(y, y), Own(default, y)},
        !.effects = effects]

Leaf == LeafWith(1, 1, <<>>)

\* How a module f is imported by one that exports x.
MiddleOf(kind, f) ==
    LET bound(n) == [EmptyModule EXCEPT !.bindings = {Bind(f, l, n)},
                        !.decls = {Decl(l, 1), Decl(x, 1)}, !.refs = {Refs(x, {x, l})},
                        !.exports = {Own(x, x)}]
    IN CASE kind = "named"    -> bound(x)
         [] kind = "default"  -> bound(default)
         [] kind = "space"    -> bound(star)
         [] kind = "unused"   -> [bound(x) EXCEPT !.refs = {Refs(x, {x})}]
         [] kind = "effect"   -> [bound(x) EXCEPT !.refs = {Refs(x, {x})}, !.effects = <<Effect(1, {l})>>]
         [] kind = "bare"     -> [bound(x) EXCEPT !.bindings = {}, !.refs = {Refs(x, {x})}, !.bare = <<f>>]
         [] kind = "reexport" -> [EmptyModule EXCEPT !.exports = {From(f, x, x)}]
         [] kind = "renamed"  -> [EmptyModule EXCEPT !.exports = {From(f, x, y)}]
         [] kind = "spaceAs"  -> [EmptyModule EXCEPT !.exports = {From(f, x, star)}]
         [] kind = "star"     -> [EmptyModule EXCEPT !.stars = <<f>>]
         [] kind = "none"     -> [bound(x) EXCEPT !.bindings = {}, !.refs = {Refs(x, {x})}]
         \* x of B and y of A: a second, nearer way to A
         [] kind = "both"     -> [bound(x) EXCEPT
                                     !.bindings = {Bind(f, l, x), Bind(A, u, y)},
                                     !.refs = {Refs(x, {x, l, u})}]
         \* B and C import each other
         [] kind = "cycle"    -> [bound(x) EXCEPT
                                     !.bindings = {Bind(f, l, x), Bind(C, u, x)},
                                     !.refs = {Refs(x, {x, l, u})}]

TestOf(kind, f) ==
    LET using(n) == [EmptyModule EXCEPT !.bindings = {Bind(f, l, n)},
                        !.decls = {Decl(l, 1)}, !.effects = <<Effect(1, {l})>>]
    IN CASE kind = "named"   -> using(x)
         [] kind = "other"   -> using(y)
         [] kind = "space"   -> using(star)
         [] kind = "bare"    -> [EmptyModule EXCEPT !.bare = <<f>>]
         [] kind = "dynamic" -> [EmptyModule EXCEPT !.opaque = TRUE]

Plain(n) ==
    [EmptyModule EXCEPT !.decls = {Decl(n, 1)}, !.refs = {Refs(n, {n})}, !.exports = {Own(n, n)}]

--------------------------------------------------------------------------
\* How A changed, and A before and after it.
Edit(kind, before, after) == [kind |-> kind, before |-> before, after |-> after]
Modified(before, after) == Edit("modified", before, after)

\* A helper; a helper and another export; a statement; one that uses a helper;
\* the target of an export; an export withdrawn; comments; a bare import; a
\* dynamic load; the file itself.
TwoNames == Modified(LeafWith(0, 0, <<>>), Leaf)
Edits ==
    <<Modified(LeafWith(0, 1, <<>>), Leaf),
      TwoNames,
      Modified(LeafWith(1, 1, <<Effect(0, {})>>), LeafWith(1, 1, <<Effect(1, {})>>)),
      Modified(LeafWith(0, 1, <<Effect(1, {h})>>), LeafWith(1, 1, <<Effect(1, {h})>>)),
      Modified([Leaf EXCEPT !.exports = {Own(x, y), Own(y, y)}],
               [Leaf EXCEPT !.exports = {Own(x, x), Own(y, y)}]),
      Modified(Leaf, [Leaf EXCEPT !.exports = @ \ {Own(x, x)}]),
      Modified(Leaf, Leaf),
      Modified(Leaf, [Leaf EXCEPT !.bare = <<D>>]),
      Modified(Leaf, [Leaf EXCEPT !.opaque = TRUE]),
      Edit("deleted", Leaf, EmptyModule),
      Edit("added", EmptyModule, Leaf)>>

Base ==
    [free |-> FALSE, tree |-> [f \in MCFiles |-> EmptyModule], listed |-> MCFiles, unreadable |-> {},
     base |-> [f \in MCFiles |-> EmptyModule], atBase |-> MCFiles, missing |-> {},
     changed |-> {}, fault |-> "none", costs |-> {}]

PathChange(p, kind) == [path |-> p, kind |-> kind, renamedFrom |-> none]
Rename(p, from) == [path |-> p, kind |-> "renamed", renamedFrom |-> from]

Tree(a, b, c, t) ==
    (A :> a) @@ (B :> b) @@ (C :> c) @@ (D :> Plain(x)) @@ (T :> t)

\* An edit of A under modules b, c and t.
Edited(edit, b, c, t) ==
    [Base EXCEPT
        !.tree = Tree(edit.after, b, c, t),
        !.listed = IF edit.kind = "deleted" THEN MCFiles \ {A} ELSE MCFiles,
        !.base = Tree(edit.before, b, c, t),
        !.atBase = IF edit.kind = "added" THEN MCFiles \ {A} ELSE MCFiles,
        !.changed = {PathChange(A, edit.kind)}]

ToA == <<"named", "default", "unused", "effect", "space", "reexport", "renamed",
         "spaceAs", "star", "bare">>

\* Each edit, under each import of A by B, of B by C, and of f by T.
Combined(edits, bs, cs, f, ts) ==
    FlattenSeq([e \in DOMAIN edits |->
        FlattenSeq([i \in DOMAIN bs |->
            FlattenSeq([j \in DOMAIN cs |->
                [k \in DOMAIN ts |->
                    Edited(edits[e], MiddleOf(bs[i], A), MiddleOf(cs[j], B), TestOf(ts[k], f))]])])])

EditRepos(edits) ==
    Combined(edits, ToA, <<"none">>, B, <<"named", "other", "space", "bare">>)
    \o Combined(edits, ToA, <<"named", "reexport", "star", "bare">>, C, <<"named">>)
    \o Combined(edits, <<"reexport", "cycle">>, <<"both">>, C, <<"named", "bare">>)

\* Two names of A changed, under an import of either kind.
Plainly(b) == Edited(TwoNames, MiddleOf(b, A), MiddleOf("both", B), TestOf("named", C))

\* In the rest, plain is such a repository, and what differs from it is said.
With(plain, path, kind) == [plain EXCEPT !.changed = {PathChange(path, kind)}]

\* A was D: its importers name one path or the other.
Moved(from) ==
    [Edited([TwoNames EXCEPT !.kind = "renamed"], MiddleOf("named", from),
            MiddleOf("star", B), TestOf("named", C))
        EXCEPT !.listed = MCFiles \ {D}, !.tree[D] = EmptyModule,
               !.atBase = MCFiles \ {A}, !.base[A] = EmptyModule, !.base[D] = Leaf,
               !.changed = {Rename(A, D)}]

\* Renames, also to a path importers do not know.
MovedRepos(froms) ==
    FlattenSeq([i \in DOMAIN froms |->
        LET Vary(moved) == <<moved, [moved EXCEPT !.missing = {D}]>> IN Vary(Moved(froms[i]))])

\* A barrel whose export * moved from D to C.
Barrels(ts) ==
    [i \in DOMAIN ts |->
        Edited(Modified([EmptyModule EXCEPT !.stars = <<D>>], [EmptyModule EXCEPT !.stars = <<C>>]),
               MiddleOf("none", A), MiddleOf("none", B), TestOf(ts[i], A))]

\* Reads that fail; files that do not parse; paths that are no modules; dynamic
\* loads; a file out of the index, but still in the working tree.
OddRepos(plain) ==
    <<[plain EXCEPT !.unreadable = {A}],
      [plain EXCEPT !.unreadable = {B}],
      [plain EXCEPT !.missing = {A}],
      [plain EXCEPT !.base[A].parses = FALSE],
      [plain EXCEPT !.tree[C].parses = FALSE],
      With(plain, lock, "modified"), With(plain, doc, "deleted"), With(plain, data, "modified"),
      With(plain, asset, "added"), With(plain, D, "modified"), With(plain, T, "modified"),
      [plain EXCEPT !.changed = {Rename(doc, data)}],
      [plain EXCEPT !.changed = {Rename(doc, lock)}],
      [plain EXCEPT !.changed = {}],
      [With(plain, D, "modified") EXCEPT !.tree[T].opaque = TRUE],
      [With(plain, D, "modified") EXCEPT !.tree[B].opaque = TRUE],
      [With(plain, doc, "added") EXCEPT !.tree[B].opaque = TRUE],
      [Edited(Edits[1], MiddleOf("named", A), MiddleOf("both", B), TestOf("named", C))
          EXCEPT !.changed = {PathChange(A, "deleted"), PathChange(A, "added")}]>>

FaultRepos(plain) ==
    LET faults == <<"base", "listing", "tsconfig", "diff", "status", "untracked">>
    IN [i \in 1..6 |-> [plain EXCEPT !.fault = faults[i]]]

\* Mutation testing split over jobs that may have different timings.
ShardRepos(plain) ==
    <<[plain EXCEPT !.costs = {<<>>, (A :> 2) @@ (B :> 1) @@ (C :> 1)}],
      [With(plain, data, "modified") EXCEPT !.costs = {<<>>}]>>

PlainRepos(plain) == OddRepos(plain) \o FaultRepos(plain) \o ShardRepos(plain)
FreeRepos(bs) == [i \in DOMAIN bs |-> [Plainly(bs[i]) EXCEPT !.free = TRUE]]

SoundRepos == Range(
    EditRepos(Edits) \o PlainRepos(Plainly("named")) \o FreeRepos(<<"named", "cycle">>)
    \o MovedRepos(<<A, D>>) \o Barrels(<<"space", "bare">>))

\* Barrels whose export * changed, under a test that binds a name of theirs.
StarRepos == Range(Barrels(<<"named", "other">>) \o OddRepos(Plainly("named")))

=============================================================================
