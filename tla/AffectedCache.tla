--------------------------- MODULE AffectedCache ---------------------------
(***************************************************************************)
(* The computation cache (affected/cache.ts) over a directory              *)
(* (helpers/file-cache-store.ts).  Runs look a result up, compute it when  *)
(* there is none and store it; a keeper tidies the directory from the      *)
(* command line (bin/cache-cli.mjs) meanwhile.  A value is modelled by the *)
(* world it was computed from, so a replay of the wrong one shows.         *)
(***************************************************************************)
EXTENDS Naturals, SharedFiles, RunScope

CONSTANTS
    Runs, Keepers,  \* processes
    Worlds,         \* [check, inputs, tools]: all a result depends on
    Calls,          \* of a run: the [args, env, world] it may be called with
    Limits,         \* [maxAge, maxEntries] of prune; Unlimited where not given
    Unlimited,
    MaxTime         \* bound on the clock

VARIABLES
    now,
    run,            \* a run's step, call, world, and the value it ended with
    keeper          \* a keeper's step, limits, when it began, paths to read or remove, and what it read

cacheVars == <<now, run, keeper>>

NoWorld == [check |-> Absent, inputs |-> Absent, tools |-> Absent]

--------------------------------------------------------------------------
\* The tools are left out of the key.
CacheKeyMutant(world) == [format |-> 1, check |-> world.check, inputs |-> world.inputs]

\* A digest is modelled by what it is taken of.
CacheKey(world) == [format |-> 1, check |-> world.check, inputs |-> world.inputs, tools |-> world.tools]

EntryPath(world) == [check |-> world.check, key |-> CacheKey(world)]

Entry(world, time) ==
    [check |-> world.check, key |-> CacheKey(world), value |-> world, createdAt |-> time]

IsEntry(content) == content \notin {Absent, NoView, Partial} /\ "createdAt" \in DOMAIN content

\* What a path holds is the entry that it names.
IsConsistent(path, content) == IsEntry(content) /\ content.check = path.check /\ content.key = path.key

--------------------------------------------------------------------------
NoRun == [at |-> "idle", call |-> NoView, world |-> NoWorld, value |-> NoWorld, since |-> 0]
NotTidying == [at |-> "idle", limits |-> NoView, since |-> 0, todo |-> {}, read |-> [path \in {} |-> Absent]]

CacheInit ==
    /\ now = 0
    /\ run = [u \in Runs |-> NoRun]
    /\ keeper = [k \in Keepers |-> NotTidying]

ModeOf(u) == CacheMode(run[u].call.args, run[u].call.env)

Goto(u, at) == run' = [run EXCEPT ![u].at = at]

End(u, value) == run' = [run EXCEPT ![u].at = "done", ![u].value = value]
Throw(u) == run' = [run EXCEPT ![u] = [NoRun EXCEPT !.at = "failed"]]

\* A usage error ends the run before there is a cache.
Call(u) ==
    /\ run[u].at = "idle"
    /\ \E call \in Calls[u] :
        LET mode == CacheMode(call.args, call.env)
        IN run' = [run EXCEPT ![u] =
                    [at |-> CASE mode = Invalid -> "failed" [] mode = "off" -> "computing" [] OTHER -> "looking",
                     call |-> call, world |-> call.world, value |-> NoWorld, since |-> 0]]
    /\ UNCHANGED <<fileVars, now, keeper>>

\* Anything but the entry the path names is a miss, or corrupt.
Lookup(u) ==
    /\ run[u].at = "looking"
    /\ LET path == EntryPath(run[u].world)
       IN /\ Read(u, path)
          /\ IF IsConsistent(path, got'[u]) THEN End(u, got'[u].value) ELSE Goto(u, "computing")
    /\ UNCHANGED <<now, keeper>>

\* The caller computes the result and hands it to store, which dates it.
Compute(u) ==
    /\ run[u].at = "computing"
    /\ IF ModeOf(u) = "read-write"
       THEN run' = [run EXCEPT ![u].at = "writing", ![u].value = run[u].world, ![u].since = now]
       ELSE End(u, run[u].world)
    /\ UNCHANGED <<fileVars, now, keeper>>

\* A failed mkdir is thrown; so is, later, a failed writeFile.
OpenEntry(u) ==
    /\ run[u].at = "writing"
    /\ \/ OpenTemp(u, EntryPath(run[u].world)) /\ Goto(u, "filling")
       \/ Throw(u) /\ UNCHANGED fileVars
    /\ UNCHANGED <<now, keeper>>

FillEntry(u) ==
    /\ run[u].at = "filling"
    /\ \/ FillTemp(u, Entry(run[u].world, run[u].since)) /\ Goto(u, "renaming")
       \/ Goto(u, "removing") /\ UNCHANGED fileVars
    /\ UNCHANGED <<now, keeper>>

RenameEntry(u) ==
    /\ run[u].at = "renaming"
    /\ \/ Rename(u) /\ Goto(u, "done")
       \/ Goto(u, "removing") /\ UNCHANGED fileVars
    /\ UNCHANGED <<now, keeper>>

\* The temporary file goes; if another writer had the target open, what is
\* there now stands in for ours, and any other failure is thrown.
RemoveEntry(u) ==
    /\ run[u].at = "removing"
    /\ RemoveTemp(u)
    /\ Goto(u, "standing in") \/ Throw(u)
    /\ UNCHANGED <<now, keeper>>

StandIn(u) ==
    /\ run[u].at = "standing in"
    /\ Read(u, EntryPath(run[u].world))
    /\ IF got'[u] = Absent THEN Throw(u) ELSE End(u, run[u].value)
    /\ UNCHANGED <<now, keeper>>

\* A run that is killed leaves the directory as it is.
KillRun(u) ==
    /\ run[u].at \notin {"idle", "done", "failed"}
    /\ Throw(u)
    /\ UNCHANGED <<fileVars, now, keeper>>

--------------------------------------------------------------------------
\* prune reads the clock, then lists the directory; clear lists it.  An age is
\* in units of the clock.
Prune(k) ==
    /\ keeper[k].at = "idle"
    /\ \E limits \in Limits :
        keeper' = [keeper EXCEPT ![k] = [NotTidying EXCEPT !.at = "reading", !.limits = limits,
                                                           !.since = now, !.todo = Listing]]
    /\ UNCHANGED <<fileVars, now, run>>

Clear(k) ==
    /\ keeper[k].at = "idle"
    /\ keeper' = [keeper EXCEPT ![k] = [NotTidying EXCEPT !.at = "removing", !.todo = Listing]]
    /\ UNCHANGED <<fileVars, now, run>>

\* A path that is gone by now is passed over.
ReadOne(k) ==
    /\ keeper[k].at = "reading"
    /\ \E path \in keeper[k].todo :
        /\ Read(k, path)
        /\ keeper' = [keeper EXCEPT
                        ![k].todo = @ \ {path},
                        ![k].read = IF got'[k] = Absent THEN @
                                    ELSE [p \in DOMAIN @ \cup {path} |-> IF p = path THEN got'[k] ELSE @[p]]]
    /\ UNCHANGED <<now, run>>

\* The age of an entry when the keeper began, whatever is stored meanwhile.
Expired(k, entry) ==
    keeper[k].limits.maxAge # Unlimited /\ keeper[k].since > entry.createdAt + keeper[k].limits.maxAge

\* The oldest are kept.
NewestMutant(read, paths, limit) ==
    {kept \in SUBSET paths :
        /\ limit # Unlimited => Cardinality(kept) <= limit
        /\ kept # paths => limit # Unlimited /\ Cardinality(kept) = limit
        /\ \A p \in kept, q \in paths \ kept : read[p].createdAt <= read[q].createdAt}

\* The sets of the newest entries that may be kept: a tie goes either way.
Newest(read, paths, limit) ==
    {kept \in SUBSET paths :
        /\ limit # Unlimited => Cardinality(kept) <= limit
        /\ kept # paths => limit # Unlimited /\ Cardinality(kept) = limit
        /\ \A p \in kept, q \in paths \ kept : read[p].createdAt >= read[q].createdAt}

Choose(k) ==
    /\ keeper[k].at = "reading" /\ keeper[k].todo = {}
    /\ LET read == keeper[k].read
           sound == {p \in DOMAIN read : IsConsistent(p, read[p]) /\ ~Expired(k, read[p])}
       IN \E kept \in Newest(read, sound, keeper[k].limits.maxEntries) :
            keeper' = [keeper EXCEPT ![k].at = "removing", ![k].todo = DOMAIN read \ kept]
    /\ UNCHANGED <<fileVars, now, run>>

RemoveOne(k) ==
    /\ keeper[k].at = "removing"
    /\ \E path \in keeper[k].todo :
        /\ Remove(path)
        /\ keeper' = [keeper EXCEPT ![k] = IF keeper[k].todo = {path} THEN [NotTidying EXCEPT !.at = "done"]
                                           ELSE [keeper[k] EXCEPT !.todo = @ \ {path}]]
    /\ UNCHANGED <<now, run>>

Tick ==
    /\ now < MaxTime
    /\ now' = now + 1
    /\ UNCHANGED <<fileVars, run, keeper>>

CacheNext ==
    \/ \E u \in Runs :
        \/ Call(u) \/ Lookup(u) \/ Compute(u) \/ OpenEntry(u) \/ FillEntry(u)
        \/ RenameEntry(u) \/ RemoveEntry(u) \/ StandIn(u) \/ KillRun(u)
    \/ \E k \in Keepers : Prune(k) \/ Clear(k) \/ ReadOne(k) \/ Choose(k) \/ RemoveOne(k)
    \/ Tick

=============================================================================
