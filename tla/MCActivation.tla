---------------------------- MODULE MCActivation ----------------------------
(***************************************************************************)
(* Small instances of Activation.  u2 is a customer whose period runs, and *)
(* who brought u1.  u1 is new and may hold a trial device (t1).            *)
(***************************************************************************)
EXTENDS Activation, FiniteSetsExt, TLC

\* The web requests are interchangeable.
Requests == Permutations(Handlers)

MCBuyer    == [p \in Payments |-> IF p = "renewal" THEN "u2" ELSE "u1"]
MCReferrer == [p \in Payments |-> IF p = "first" /\ "u2" \in Users THEN "u2" ELSE None]
MCProvider == [p \in Payments |-> CASE p = "first"   -> "platega"
                                    [] p = "renewal" -> "heleket"
                                    [] OTHER         -> "manual"]
MCHeldBy   == [d \in Devices |-> CASE d = "t1" -> "u1"
                                   [] d = "d2" -> "u2"
                                   [] OTHER    -> None]

\* Nobody holds time that was neither paid for nor earned: the end of a period
\* is at most the activations and the applied rewards away from the present, in
\* whatever order stale sessions write it (provisioner.py 436-441, credit.py
\* 534-536).
TimeIsAccountedFor ==
    \A u \in Users :
        until[u] <= Later(now, FirstEnd)
            + PlanDays * MapThenSumSet(LAMBDA p : acts[p], {p \in Payments : Buyer[p] = u})
            + RewardDays * Cardinality({q \in Payments : Referrer[q] = u /\ rw[q] = "applied"})
=============================================================================
