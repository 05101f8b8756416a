------------------------------ MODULE RunScope ------------------------------
(***************************************************************************)
(* How much a run validates, whether it may replay earlier results and     *)
(* whether it may stop early, decided from its arguments and environment   *)
(* (affected/scope.ts, affected/cache.ts, affected/fail-fast.ts).  A       *)
(* variable is modelled by the way the code reads it: scope.ts takes 1,    *)
(* true and yes ("true") for a set flag, fail-fast.ts takes on as well.    *)
(***************************************************************************)

EXTENDS Sequences

Flag == {"unset", "true", "on", "other"}

\* event is GITHUB_EVENT_NAME and tag says that GITHUB_REF names one.
Environment ==
    [ciFull : Flag, ci : Flag, failFast : Flag, tag : BOOLEAN,
     event : {"unset", "pull_request", "release", "push"},
     scope : {"unset", "auto", "affected", "full", "bogus"},
     cache : {"unset", "off", "ro", "rw", "bogus"}]

\* The command line: the values of its options in the order they are given.
Arguments ==
    [scope : {<<>>, <<"auto">>, <<"affected">>, <<"full">>, <<"bogus">>, <<"affected", "full">>},
     cache : {"unset", "off", "read-only", "read-write"},
     failFast : {<<>>, <<TRUE>>, <<FALSE>>, <<TRUE, FALSE>>}]

Invalid == "invalid"    \* the caller stops: a usage error, or a thrown one

--------------------------------------------------------------------------
\* Repeated, empty and unknown values are errors.
ParsedScope(args) ==
    IF args.scope = <<>> THEN "auto"
    ELSE IF Len(args.scope) # 1 \/ args.scope[1] = "bogus" THEN Invalid
    ELSE args.scope[1]

FromEnvironment(env) ==
    IF env.event # "unset"
    THEN IF env.event = "pull_request" THEN "affected" ELSE "full"
    ELSE IF env.ci = "true" THEN "full" ELSE "affected"

IsRelease(env) == env.event = "release" \/ env.tag

\* The command line is heard before the release.
ResolveScopeMutant(requested, env) ==
    CASE env.ciFull = "true"                   -> "full"
      [] requested \in {"affected", "full"}    -> requested
      [] IsRelease(env)                        -> "full"
      [] env.scope = "bogus"                   -> Invalid
      [] env.scope \in {"affected", "full"}    -> env.scope
      [] OTHER                                 -> FromEnvironment(env)

ResolveScope(requested, env) ==
    IF env.ciFull = "true" \/ IsRelease(env) THEN "full"
    ELSE IF requested # "auto" THEN requested
    ELSE IF env.scope = "bogus" THEN Invalid
    ELSE IF env.scope \in {"affected", "full"} THEN env.scope
    ELSE FromEnvironment(env)

ResolveCacheMode(scope, env, flag) ==
    IF scope = "full" THEN "off"
    ELSE IF flag # "unset" THEN flag
    ELSE CASE env.cache = "unset" -> "read-write"
           [] env.cache = "off"   -> "off"
           [] env.cache = "ro"    -> "read-only"
           [] env.cache = "rw"    -> "read-write"
           [] OTHER               -> Invalid

IsTruthy(flag) == flag \in {"true", "on"}

\* The last of the two options wins, and a release never fails fast.
ResolveFailFast(args, env) ==
    /\ ~IsTruthy(env.ciFull) /\ ~IsRelease(env)
    /\ IF args.failFast = <<>> THEN IsTruthy(env.failFast)
       ELSE args.failFast[Len(args.failFast)]

\* The composition a caller is shown: the mode of the cache it creates.
CacheMode(args, env) ==
    LET requested == ParsedScope(args)
        scope == ResolveScope(requested, env)
    IN IF Invalid \in {requested, scope} THEN Invalid
       ELSE ResolveCacheMode(scope, env, args.cache)

=============================================================================
