------------------------------ MODULE Operator ------------------------------
(***************************************************************************)
(* How the portal reaches its operator: the watch over the monitor (Watch) *)
(* beside support through the customers' bot (pwa/api/telegram.py).  A     *)
(* customer's message is forwarded to the operator's chat, and a row ties  *)
(* the forwarded copy to the customer's chat, so that the operator's       *)
(* Telegram reply finds its way back.                                      *)
(*                                                                         *)
(* Commands, buttons and whatever carries no text are answered with a      *)
(* screen, and a connection file sent by mistake with a warning; only      *)
(* words go to the operator.                                               *)
(*                                                                         *)
(* Telegram repeats an update whose webhook call was not answered.  A call *)
(* that raises is answered all the same; only one that dies is not.        *)
(***************************************************************************)
EXTENDS Watch

CONSTANTS
    Messages,       \* what customers write
    Author,         \* [Messages -> chats]
    SupportLimit,   \* _SUPPORT_LIMIT
    MaxDeaths       \* bound: restarts of the portal

ASSUME OperatorAssumption == SupportLimit \in Nat /\ MaxDeaths \in Nat

VARIABLES
    kind,     \* what a message is
    update,   \* a message's update: unwritten, queued, forwarding, saving, handled
    told,     \* what the customer was answered
    seen,     \* _support_seen: how many of a chat's messages this hour, in memory
    desk,     \* copies of each message in the operator's chat (external)
    rows,     \* telegram_support: messages whose copy _admin_reply can answer
    deaths    \* restarts

supportVars == <<kind, update, told, seen, desk, rows, deaths>>
operatorVars == <<watchVars, supportVars>>

\* What handle tells apart.
MessageKinds == {"words", "file", "screen"}

ChatsOf == {Author[m] : m \in Messages}

SupportInit ==
    /\ kind \in [Messages -> MessageKinds]
    /\ update = [m \in Messages |-> "unwritten"]
    /\ told = [m \in Messages |-> "nothing"]
    /\ seen = [c \in ChatsOf |-> 0]
    /\ desk = [m \in Messages |-> 0]
    /\ rows = {} /\ deaths = 0

----------------------------------------------------------------------------
Write(m) ==
    /\ update[m] = "unwritten"
    /\ update' = [update EXCEPT ![m] = "queued"]
    /\ UNCHANGED <<kind, told, seen, desk, rows, deaths>>

(* handle: a screen of the menu, or the warning not to pass a file on.  The
   screens read; what the invitation and a /start with a token write belongs to
   modules Ledger and Identity. *)
AnsweredAtOnce(m) ==
    /\ update[m] = "queued" /\ kind[m] # "words"
    /\ update' = [update EXCEPT ![m] = "handled"]
    /\ told' = [told EXCEPT ![m] = kind[m]]
    /\ UNCHANGED <<kind, seen, desk, rows, deaths>>

(* handle, _to_support: counted, in one step with the question whether there
   is room, and handed to the Bot API; or refused. *)
SupportAllowed(c) == seen[c] < SupportLimit

ToSupport(m) ==
    LET c == Author[m] IN
    /\ update[m] = "queued" /\ kind[m] = "words"
    /\ IF SupportAllowed(c)
       THEN /\ seen' = [seen EXCEPT ![c] = @ + 1]
            /\ update' = [update EXCEPT ![m] = "forwarding"]
            /\ UNCHANGED told
       ELSE /\ told' = [told EXCEPT ![m] = "too_many"]
            /\ update' = [update EXCEPT ![m] = "handled"]
            /\ UNCHANGED seen
    /\ UNCHANGED <<kind, desk, rows, deaths>>

(* Mutated form: the customer is thanked before the row is there. *)
AfterForwardTold == "received"

AfterForward == "nothing"

(* telegram.send to the operator: the copy's id came back. *)
Forwarded(m) ==
    /\ update[m] = "forwarding"
    /\ desk' = [desk EXCEPT ![m] = @ + 1]
    /\ update' = [update EXCEPT ![m] = "saving"]
    /\ told' = [told EXCEPT ![m] = AfterForward]
    /\ UNCHANGED <<kind, seen, rows, deaths>>

(* No id: refused, or taken with the answer lost. *)
NotForwarded(m) ==
    /\ update[m] = "forwarding"
    /\ desk' \in {desk, [desk EXCEPT ![m] = @ + 1]}
    /\ update' = [update EXCEPT ![m] = "handled"]
    /\ told' = [told EXCEPT ![m] = "refused"]
    /\ UNCHANGED <<kind, seen, rows, deaths>>

(* The row is committed and the customer thanked. *)
RowSaved(m) ==
    /\ update[m] = "saving"
    /\ rows' = rows \cup {m}
    /\ update' = [update EXCEPT ![m] = "handled"]
    /\ told' = [told EXCEPT ![m] = "received"]
    /\ UNCHANGED <<kind, seen, desk, deaths>>

(* The commit raises: logged, and the update answered. *)
RowRefused(m) ==
    /\ update[m] = "saving"
    /\ update' = [update EXCEPT ![m] = "handled"]
    /\ UNCHANGED <<kind, told, seen, desk, rows, deaths>>

(* _admin_reply: the operator's reply to a copy goes to the chat of its row,
   and without a row to nobody.  It changes nothing here. *)
Answerable(m) == desk[m] > 0 /\ m \in rows

(* The portal restarts: what it was handling is delivered again, what it
   counted is forgotten. *)
PortalDies ==
    /\ deaths < MaxDeaths
    /\ deaths' = deaths + 1
    /\ update' = [m \in Messages |-> IF update[m] \in {"forwarding", "saving"} THEN "queued" ELSE update[m]]
    /\ seen' = [c \in ChatsOf |-> 0]
    /\ UNCHANGED <<kind, told, desk, rows>>

HourPasses ==
    /\ \E c \in ChatsOf : seen[c] > 0 /\ seen' = [seen EXCEPT ![c] = 0]
    /\ UNCHANGED <<kind, update, told, desk, rows, deaths>>

Handling(m) ==
    \/ AnsweredAtOnce(m)
    \/ ToSupport(m) \/ Forwarded(m) \/ NotForwarded(m) \/ RowSaved(m) \/ RowRefused(m)

SupportNext ==
    \/ \E m \in Messages : Write(m) \/ Handling(m)
    \/ PortalDies \/ HourPasses

----------------------------------------------------------------------------
OperatorInit == WatchInit /\ SupportInit

OperatorNext ==
    \/ WatchNext /\ UNCHANGED supportVars
    \/ SupportNext /\ UNCHANGED watchVars

OperatorSpec == OperatorInit /\ [][OperatorNext]_operatorVars /\ WatchFairness

----------------------------------------------------------------------------
(* What is checked. *)

(* A customer who was told "received" is one the operator can answer; the
   operator sees a message twice only after the portal died over it, and a
   connection file never (telegram.py 360 tells the customer so). *)
ReceivedCanBeAnswered ==
    \A m \in Messages :
        /\ told[m] = "received" => Answerable(m)
        /\ desk[m] <= IF kind[m] = "words" THEN 1 + deaths ELSE 0
============================================================================
