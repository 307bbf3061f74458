------------------------------- MODULE MCApp -------------------------------
(* App with two devices of the first account, one of them there already. *)
EXTENDS App, TLC

CONSTANTS d1, d2, p1, p2

MCOwner == [d \in {d1, d2} |-> 1]
MCBefore == {d1}
MCSymmetry == Permutations({p1, p2})
============================================================================
