-------------------------- MODULE MCModuleLifecycle --------------------------
(***************************************************************************)
(* ModuleLifecycle with three regions, each read/write or read-only: two   *)
(* of one kind and one of the other is the least that exercises both lists *)
(* and a list of more than one node.                                       *)
(***************************************************************************)
EXTENDS ModuleLifecycle, TLC

CONSTANTS r1, r2, r3

MCRegion == {r1, r2, r3}

Regions == Permutations(MCRegion)
=============================================================================
