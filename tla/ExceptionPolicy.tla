-------------------------- MODULE ExceptionPolicy --------------------------
(***************************************************************************)
(* helpers/exception-policy.ts: which policy a classified finding falls    *)
(* under, and whether its exception record satisfies it.  A policy is      *)
(* forbidden, or an exception with the fields it requires; allowed is an   *)
(* exception that requires none.                                           *)
(***************************************************************************)
EXTENDS FiniteSets

CONSTANTS
    Fields,         \* the fields of a record a policy may require
    None,
    Blanket,        \* the category "*": every category of its group
    Globs(_, _)     \* pattern p, not literally category c, matches c as a glob

Forbidden == [mode |-> "forbidden", requirements |-> {}]
Requiring(fields) == [mode |-> "exception", requirements |-> fields]
Allowed == [mode |-> "allowed", requirements |-> {}]

\* rules are records [pattern, policy]; a group without a default has None.
\* A configuration is a function from the groups it has an entry for.

StricterOf(a, b) ==
    LET fields == a.requirements \cup b.requirements
    IN IF Forbidden \in {a, b} THEN Forbidden
       ELSE IF fields = {} THEN Allowed ELSE Requiring(fields)

\* What reducing the policies by StricterOf comes to: neither the order nor a
\* repetition of a policy matters.
Strictest(policies) ==
    LET fields == UNION {policy.requirements : policy \in policies}
    IN IF Forbidden \in policies THEN Forbidden
       ELSE IF fields = {} THEN Allowed ELSE Requiring(fields)

\* A blanket category falls through to the default.
ResolveExceptionPolicyMutant(class, config, globalDefault) ==
    IF class.group \notin DOMAIN config THEN globalDefault
    ELSE LET group == config[class.group]
             default == IF group.default = None THEN globalDefault ELSE group.default
             exact == {r \in group.rules : r.pattern = class.category}
             globbed == {r \in group.rules : Globs(r.pattern, class.category)}
         IN IF exact # {} THEN (CHOOSE r \in exact : TRUE).policy
            ELSE IF globbed # {} THEN Strictest({r.policy : r \in globbed})
            ELSE default

ResolveExceptionPolicy(class, config, globalDefault) ==
    IF class.group \notin DOMAIN config THEN globalDefault
    ELSE LET group == config[class.group]
             default == IF group.default = None THEN globalDefault ELSE group.default
             exact == {r \in group.rules : r.pattern = class.category}
             globbed == {r \in group.rules : Globs(r.pattern, class.category)}
         IN IF class.category = Blanket THEN Strictest({r.policy : r \in group.rules} \cup {default})
            ELSE IF exact # {} THEN (CHOOSE r \in exact : TRUE).policy
            ELSE IF globbed # {} THEN Strictest({r.policy : r \in globbed})
            ELSE default

\* filled are the fields of the record that are not blank.
EvaluateExceptionRecord(filled, classes, config, globalDefault) ==
    LET policy == Strictest({ResolveExceptionPolicy(c, config, globalDefault) : c \in classes})
    IN IF policy = Forbidden THEN "forbidden"
       ELSE IF policy.requirements \subseteq filled THEN "permitted" ELSE "insufficient"

--------------------------------------------------------------------------
\* A policy value is well formed: an exception requires something, and only
\* fields the registry knows.
ValidPolicy(policy, validRequirements) ==
    \/ policy.mode \in {"forbidden", "allowed"}
    \/ /\ policy.mode = "exception"
       /\ policy.requirements # {} /\ policy.requirements \subseteq validRequirements

\* "*" as a rule would look like a blanket policy and never act as one.
ValidConfig(config, validRequirements) ==
    \A g \in DOMAIN config :
        /\ config[g].default # None => ValidPolicy(config[g].default, validRequirements)
        /\ \A r \in config[g].rules :
            r.pattern # Blanket /\ ValidPolicy(r.policy, validRequirements)

=============================================================================
