------------------------- MODULE MCSharedDirectory -------------------------
(***************************************************************************)
(* A small directory: two runs and a keeper over the results of three      *)
(* worlds, and two runs of each check over a handful of findings.          *)
(***************************************************************************)
EXTENDS SharedDirectory

CONSTANTS r1, r2, keep, c1, c2, registry, check, in1, in2, tool1, tool2

MCRuns == {r1, r2}
MCCheckers == {c1, c2}
MCUsers == {r1, r2, keep, c1, c2}
MCKeepers == {keep}

World(inputs, tools) == [check |-> check, inputs |-> inputs, tools |-> tools]
MCWorlds == {World(in1, tool1), World(in1, tool2), World(in2, tool1)}
MCPaths == {EntryPath(world) : world \in MCWorlds} \cup {registry}

--------------------------------------------------------------------------
Local == [ciFull |-> "unset", ci |-> "unset", failFast |-> "unset", tag |-> FALSE,
          event |-> "unset", scope |-> "unset", cache |-> "unset"]
Plain == [scope |-> <<>>, cache |-> "unset", failFast |-> <<>>]

Called(args, env, world) == [args |-> args, env |-> env, world |-> world]

\* Of one run: local, read-only in a pull request, a release asked to be
\* affected and to fail fast, a forced full run, a repeated option.  The other
\* is local and may have another version of a tool.
MCCalls == [u \in MCRuns |->
    LET w1 == World(in1, tool1)
        w2 == World(in1, tool2)
    IN IF u = r2 THEN {Called(Plain, Local, w1), Called(Plain, Local, w2)}
       ELSE {Called(Plain, Local, w1),
             Called([Plain EXCEPT !.cache = "read-only"], [Local EXCEPT !.event = "pull_request"], w1),
             Called([Plain EXCEPT !.scope = <<"affected">>, !.failFast = <<TRUE>>], [Local EXCEPT !.tag = TRUE], w1),
             Called(Plain, [Local EXCEPT !.ciFull = "true", !.cache = "rw"], w1),
             Called([Plain EXCEPT !.scope = <<"affected", "full">>], Local, w1)}]

Limit(maxAge, maxEntries) == [maxAge |-> maxAge, maxEntries |-> maxEntries]
MCLimits == {Limit(Unlimited, 1), Limit(0, Unlimited)}

\* Nothing; an old entry and a damaged file; an entry copied to another's path.
Damaged == Registry("edited", {})
MCInitialEntries ==
    LET w1 == World(in1, tool1)
        w2 == World(in1, tool2)
        w3 == World(in2, tool1)
    IN {<<>>,
        [path \in {EntryPath(w1), EntryPath(w3)} |-> IF path = EntryPath(w3) THEN Entry(w3, 0) ELSE Damaged],
        [path \in {EntryPath(w2)} |-> Entry(w1, 0)]}

--------------------------------------------------------------------------
Class(group, category) == [group |-> group, category |-> category]
Finding(id, place, classes, mark) == [id |-> id, place |-> place, classes |-> classes, mark |-> mark]
One(id, group, category) == Finding(id, 1, {Class(group, category)}, "plain")
Again(f) == [f EXCEPT !.place = 2]

MCGlobs(pattern, category) == pattern = "security/*" /\ category = "security/eval"

Every == One("every", "eslint", "*")
Console == Finding("console", 1, {Class("eslint", "no-console"), Class("eslint", "curly")}, "plain")
Mutation == Finding("mutation", 1, {Class("stryker", "StringLiteral")}, "reasoned")
Import == One("import", "network", "module-import")
Alert == One("alert", "socket", "low")
Shipped == Finding("shipped", 1, {Class("socket", "low"), Class("category", "supplyChainRisk")}, "plain")
Link == One("link", "links", "link")
Dead == Finding("dead", 1, {}, "plain")
Command == Finding("command", 1, {}, "plain")
Advice == One("advice", "coderabbit", "major")

MCTrees == [k \in Kinds |->
    CASE k = "suppression" -> {{}, {Every}, {One("eval", "eslint", "security/eval")}, {Console}, {Mutation}, {Mutation, Again(Mutation)}}
      [] k = "network" -> {{}, {Import}, {Import, Again(Import)}, {One("new", "network", "socket")}}
      [] k = "socket"  -> {{}, {Alert}, {Alert, Shipped}}
      [] k = "deps"    -> {{}, {One("dep", "deps", "high")}}
      [] k = "docs"    -> {{}, {Link}, {Link, [Again(Link) EXCEPT !.mark = "ok"]}, {[Link EXCEPT !.mark = "ok"]}}
      [] k = "deadCode" -> {{}, {Dead}, {Dead, Again(Dead)}}
      [] k = "presetCommands" -> {{}, {Command}, {Command, [Command EXCEPT !.id = "nonLiteral", !.mark = "opaque"]}}
      [] k = "coderabbit" -> {{}, {Advice}, {Advice, Again(Advice)}}]

\* No file, a stub, an approved record, one half filled in, one behind a link,
\* and a file that is not valid.
MCFiles == [k \in Kinds |->
    LET ids == UNION {Ids(t) : t \in MCTrees[k]}
        Approved(id) == [Stub(id) EXCEPT !.filled = Full, !.shape = "version 2"]
    IN {Absent} \cup
       UNION {{Registry("canonical", {Stub(id)}), Registry("canonical", {Approved(id)}), Registry("edited", {[Stub(id) EXCEPT !.filled = {"justification"}]}),
               Registry("link", {Approved(id)}), Registry("edited", {[Stub(id) EXCEPT !.shape = "bad method"]})} : id \in ids}]

=============================================================================
