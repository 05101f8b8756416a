---------------------------- MODULE MCSpawnCheck ----------------------------
(***************************************************************************)
(* The descendants a check may leave: in the passing run every kind that   *)
(* stays in the check's process group, and in another one a descendant     *)
(* that has left it.                                                       *)
(***************************************************************************)
EXTENDS SpawnCheck

MCGroupMembers == {"none", "quiet", "piped"}
=============================================================================
