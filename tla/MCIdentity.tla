---------------------------- MODULE MCIdentity ----------------------------
(* Identity with one or two of everything. *)
EXTENDS Identity, TLC

CONSTANTS a1, a2, m1, c1, g1, t1, t2, i1, i2, r1, r2

MCMailOf == [g \in {g1} |-> m1]
MCSymmetry == Permutations({r1, r2}) \cup Permutations({t1, t2}) \cup Permutations({a1, a2})
              \cup Permutations({i1, i2})
============================================================================
