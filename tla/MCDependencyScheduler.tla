----------------------- MODULE MCDependencyScheduler -----------------------
(***************************************************************************)
(* The graphs of the scheduler's run: every graph that config validation   *)
(* admits (each item depends on earlier ones only), and each of these with *)
(* item 1 depending on anything besides, which closes cycles of every      *)
(* length and brings in self-loops and the out-of-range index N + 1.       *)
(***************************************************************************)
EXTENDS DependencyScheduler

MCGraphs ==
  {g \in [Items -> SUBSET (1 .. N + 1)] : \A i \in 2 .. N : g[i] \subseteq 1 .. i - 1}
=============================================================================
