----------------------------- MODULE MCNotices ------------------------------
(* One customer with a mailbox, two runs of the job that may overlap; the    *)
(* rest of the instance is set in the configuration.                         *)
EXTENDS Notices, TLC

CONSTANTS j1, j2

MCSymmetry == Permutations({j1, j2})
============================================================================
