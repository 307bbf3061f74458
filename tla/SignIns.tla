------------------------------ MODULE SignIns ------------------------------
(***************************************************************************)
(* What a customer may rely on about the sign-ins of one portal, with the  *)
(* tables, tokens, limits and clocks hidden: a sign-in is begun, then      *)
(* opened or given up; an open one ends by itself (sign-out, expiry, too   *)
(* many phones); a password reset ends every open sign-in of the account   *)
(* at once, and marks the ones that are being opened at that moment, which *)
(* it cannot reach.  services/app_sessions.py: "a reset removes every      *)
(* session of the account".                                                *)
(***************************************************************************)
EXTENDS Naturals

CONSTANTS Accounts, Tokens

VARIABLES version,  \* version[a]: how many passwords the account has had
          begun,    \* sign-ins being opened
          open      \* sign-ins that work

vars == <<version, begun, open>>

(* A sign-in: the refresh token it hands out, the account, the password
   version it was verified under, and whether a reset overtook it. *)
SignIn == [token : Tokens, a : Accounts, asOf : Nat, late : BOOLEAN]

Overtaken(a, S) == {[s EXCEPT !.late = @ \/ s.a = a] : s \in S}

Init ==
    /\ version \in [Accounts -> {0}]
    /\ begun = {}
    /\ open = {}

Begin ==
    /\ \E t \in Tokens, a \in Accounts :
          /\ \A o \in begun \cup open : o.token # t
          /\ begun' = begun \cup {[token |-> t, a |-> a, asOf |-> version[a], late |-> FALSE]}
    /\ UNCHANGED <<version, open>>

(* The new sign-in may push out others of its account. *)
Open ==
    \E s \in begun : \E gone \in SUBSET {o \in open : o.a = s.a} :
        /\ begun' = begun \ {s}
        /\ open' = (open \ gone) \cup {s}
        /\ UNCHANGED version

GiveUp == \E s \in begun : begun' = begun \ {s} /\ UNCHANGED <<version, open>>

End == \E s \in open : open' = open \ {s} /\ UNCHANGED <<version, begun>>

(* The first password and every reset. *)
Reset ==
    \E a \in Accounts :
        /\ version' = [version EXCEPT ![a] = @ + 1]
        /\ open' = {s \in open : s.a # a}
        /\ begun' = Overtaken(a, begun)

Next == Begin \/ Open \/ GiveUp \/ End \/ Reset

Spec == Init /\ [][Next]_vars

TypeOK ==
    /\ version \in [Accounts -> Nat]
    /\ begun \subseteq SignIn
    /\ open \subseteq SignIn

(* A sign-in that works was verified under the account's present password,
   or was being opened while that password was set. *)
CurrentOrLate == \A s \in begun \cup open : s.asOf = version[s.a] \/ s.late
============================================================================
