------------------------------ MODULE MCLedger ------------------------------
(***************************************************************************)
(* ann came by a friend's link and holds old points; ben owns the code     *)
(* FRIEND.  SPRING is a campaign code with one use, for one day.            *)
(***************************************************************************)
EXTENDS Ledger, TLC

Handlers == Permutations(Workers)

MCBuyer    == [o \in Orders |-> IF o = "b1" THEN "ben" ELSE "ann"]
MCOwner    == [c \in Codes |-> IF c = "FRIEND" THEN "ben" ELSE None]
MCMaxUses  == [c \in Codes |-> IF c = "SPRING" THEN 1 ELSE 0]
MCCodeEnds == [c \in Codes |-> IF c = "SPRING" THEN 1 ELSE 2]
MCLinkCode == [u \in Users |-> IF u = "ann" THEN "FRIEND" ELSE None]
MCPoints   == [u \in Users |-> IF u = "ann" THEN 5 ELSE 0]
=============================================================================
