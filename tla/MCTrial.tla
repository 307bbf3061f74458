------------------------------ MODULE MCTrial -------------------------------
(***************************************************************************)
(* Three accounts: ann's i.petrov+x@googlemail.com and bob's               *)
(* ipetrov@gmail.com are one inbox, cy's is a throwaway.  One Telegram     *)
(* account moves between them.  One trial a day.                           *)
(***************************************************************************)
EXTENDS Trial, TLC

Interchangeable == Permutations(Handlers)

MCAliasOf == [d \in Domains |-> IF d = "googlemail" THEN "gmail" ELSE d]

MCEmailOf ==
    [u \in Users |->
        CASE u = "ann" -> [name |-> "ipetrov", dotted |-> TRUE, tagged |-> TRUE, domain |-> "googlemail"]
          [] u = "bob" -> [name |-> "ipetrov", dotted |-> FALSE, tagged |-> FALSE, domain |-> "gmail"]
          [] u = "cy"  -> [name |-> "cy", dotted |-> FALSE, tagged |-> FALSE, domain |-> "yopmail"]]
=============================================================================
