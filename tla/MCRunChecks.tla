---------------------------- MODULE MCRunChecks ----------------------------
(***************************************************************************)
(* Every backward dependsOn graph over N checks, and each of them with the *)
(* first check naming the last one, which validation refuses; every choice *)
(* of isolated checks and, when fail-fast is on, of expensive ones.        *)
(* A dependsOn edge that an isolated check implies anyway is left out.     *)
(***************************************************************************)
EXTENDS RunChecks

MCGraphs ==
  {g \in [1 .. N -> SUBSET (1 .. N)] :
     g[1] \subseteq {N} /\ \A i \in 2 .. N : g[i] \subseteq 1 .. i - 1}

MCConfigs ==
  LET all == [dependsOn : MCGraphs,
              isolated : SUBSET (1 .. N),
              expensive : SUBSET (1 .. N),
              failFast : BOOLEAN,
              concurrency : 1 .. N]
  IN  {c \in all :
         /\ c.failFast \/ c.expensive = {}
         /\ \A i \in 1 .. N : \A d \in c.dependsOn[i] :
              d < i => i \notin c.isolated /\ d \notin c.isolated}
=============================================================================
