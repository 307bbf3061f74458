----------------------------- MODULE MCDevices ------------------------------
(***************************************************************************)
(* One account, two locations.  It may be granted the large plan (two      *)
(* devices in each location here) and buy the small one (one device), in   *)
(* either order.  Two keys can be issued in Germany, one in the            *)
(* Netherlands.                                                            *)
(***************************************************************************)
EXTENDS Devices, TLC

CONSTANTS g1, g2, n1

Interchangeable == Permutations(Handlers) \cup Permutations({g1, g2})

MCBuyer   == [p \in Orders |-> "ann"]
MCPlanOf  == [p \in Orders |-> IF p = "gift" THEN "ext" ELSE "basic"]
MCPlaceOf == [d \in Devices |-> IF d \in {g1, g2} THEN "de" ELSE "nl"]
MCLimit   == [p \in Plans |-> IF p = "ext" THEN 2 ELSE 1]
=============================================================================
