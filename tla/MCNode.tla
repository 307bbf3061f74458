------------------------------- MODULE MCNode -------------------------------
(***************************************************************************)
(* One customer's device is on the node; two more keys may be issued, over *)
(* a pool of two addresses, by two requests at once.                       *)
(***************************************************************************)
EXTENDS Node, TLC

CONSTANTS k1, k2, k3

Alike == Permutations(Procs) \cup Permutations({k2, k3})
MCKeys  == {k1, k2, k3}
MCStart == {<<k1, 1>>}
=============================================================================
