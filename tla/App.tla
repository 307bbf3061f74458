-------------------------------- MODULE App --------------------------------
(***************************************************************************)
(* The Android app of one phone: what it stores (session/Session.kt over   *)
(* storage/SecureStore.kt), the operations of the account's screens        *)
(* (state/AccountModel.kt), the switch (ui/main/Connection.kt), the tunnel *)
(* (tunnel/VpnTunnel.kt) and the sign-in (ui/App.kt, ui/AuthScreen.kt).    *)
(*                                                                         *)
(* An operation is a coroutine that runs blocking pieces (withContext(io)) *)
(* one after another on other threads: pc = "enter" is before a piece,     *)
(* every other pc is inside one.  Leaving a page cancels its coroutines:   *)
(* one that waits at "enter" is over, one inside a piece finishes the      *)
(* piece and writes what it writes.                                        *)
(*                                                                         *)
(* A sign-in is a number; it stands for its account, for its refresh token *)
(* and for the access tokens issued from it.  The portal answers a call as *)
(* it likes, except that a refresh token is accepted exactly while it is   *)
(* alive.  The device's name is left out, the id marks the selection.      *)
(***************************************************************************)
EXTENDS Naturals, FiniteSets

CONSTANTS Devices, NONE,
          Pages,         \* coroutines of the account's pages
          Owner,         \* Owner[d]: the sign-in whose account device d is on
          Before,        \* devices on the accounts from the start
          MAX_SIGNINS, MAX_OPS   \* bounds of the model

ASSUME AppAssumption ==
    /\ NONE \notin Devices
    /\ Pages \cap {"out", "switch"} = {}
    /\ MAX_SIGNINS \in Nat /\ MAX_OPS \in Nat
    /\ Owner \in [Devices -> 1..MAX_SIGNINS]
    /\ Before \subseteq Devices

Threads == Pages \cup {"out", "switch"}
SignIns == 0..MAX_SIGNINS     \* 0: no token

VARIABLES store,     \* SecureStore: token, refresh, conf, id
          tunnel,    \* the device whose key the tunnel runs on, or NONE
          signedIn,  \* App: which screen shows
          shown,     \* AccountUi.selected
          offered,   \* AccountUi.devices: the list on the screen
          cur,       \* the newest sign-in
          alive,     \* portal: refresh tokens it accepts
          devs,      \* portal: a device is "new", "on" its account or "off"; ids are not reused
          thr,       \* the operations under way
          ops,       \* operations started
          half,      \* "first" between the two writes of a sign-in; "cut" after a
                     \* kill there that left an older refresh token; "no"
          torn,      \* history: the session ended or began under a call in flight,
                     \* or was cut in half
          crossed    \* history: operations overlapped, one was cut short or the
                     \* tunnel refused

vars == <<store, tunnel, signedIn, shown, offered, cur, alive, devs, thr, ops, half, torn, crossed>>

Empty == [token |-> 0, refresh |-> 0, conf |-> NONE, id |-> NONE]
Idle == [op |-> "idle", stage |-> "none", pc |-> "none", tok |-> 0, dev |-> NONE,
         list |-> {}, had |-> NONE, orphan |-> FALSE, stale |-> FALSE]

Busy(t) == thr[t] # Idle
Others(t) == {u \in Threads \ {t} : Busy(u)}
Inside(t) == Busy(t) /\ thr[t].pc # "enter"

(* Session.selected(): the device this phone uses; storedConfig() is its conf. *)
Selected(s) == IF s.id # NONE /\ s.conf # NONE THEN s.id ELSE NONE
StoredConfig == IF Selected(store) # NONE THEN store.conf ELSE NONE

Init ==
    /\ store = Empty
    /\ tunnel = NONE /\ signedIn = FALSE /\ shown = NONE /\ offered = {}
    /\ cur = 0 /\ alive = {} /\ devs = [d \in Devices |-> IF d \in Before THEN "on" ELSE "new"]
    /\ thr = [t \in Threads |-> Idle]
    /\ ops = 0 /\ half = "no" /\ torn = FALSE /\ crossed = FALSE

At(t, op, stage, pc) == thr[t].op = op /\ thr[t].stage = stage /\ thr[t].pc = pc
Doing(op, stage, dev) == [Idle EXCEPT !.op = op, !.stage = stage, !.pc = "enter", !.dev = dev]

(* thr with t at q, and with the coroutines of the pages cut off. *)
To(t, q) == [thr EXCEPT ![t] = q]
Cut(f) == [t \in Threads |-> IF f[t] = Idle \/ f[t].pc = "enter" THEN Idle
                             ELSE [f[t] EXCEPT !.orphan = TRUE]]

(* The next piece of t's coroutine, or the end of a cancelled one. *)
Piece(t, stage) ==
    IF thr[t].orphan THEN Idle ELSE [thr[t] EXCEPT !.stage = stage, !.pc = "enter", !.tok = 0]
Load(t) == IF thr[t].orphan THEN Idle ELSE Doing("load", "profile", NONE)

Mark(t) == crossed' = (crossed \/ Others(t) # {})

----------------------------------------------------------------------------
(* Signing in and leaving. *)

(* AuthScreen.submit, Session.signIn: the portal accepted, the access token is
   stored ... *)
signIn ==
    /\ ~signedIn /\ half # "first" /\ cur < MAX_SIGNINS
    /\ cur' = cur + 1
    /\ alive' = alive \cup {cur + 1}
    /\ store' = [store EXCEPT !.token = cur + 1]
    /\ half' = "first"
    /\ torn' = (torn \/ \E t \in Threads : Busy(t))
    /\ UNCHANGED <<tunnel, signedIn, shown, offered, devs, thr, ops, crossed>>

(* Mutated form: without a new refresh token the one of an earlier session stays. *)
RefreshStoredKeeps == {cur, store.refresh}

(* The refresh token that came; when none came, the one there was is removed. *)
RefreshStored == {cur, 0}

(* ... and then the refresh token: a new session, a new model. *)
SignedIn ==
    /\ half = "first"
    /\ \E k \in RefreshStored : store' = [store EXCEPT !.refresh = k]
    /\ half' = "no"
    /\ signedIn' = TRUE /\ shown' = NONE /\ offered' = {}
    /\ UNCHANGED <<tunnel, cur, alive, devs, thr, ops, torn, crossed>>

(* The devices page opens over the main one, or closes. *)
TurnPage ==
    /\ signedIn /\ \E t \in Threads : Busy(t) /\ ~thr[t].orphan
    /\ thr' = Cut(thr)
    /\ crossed' = TRUE
    /\ UNCHANGED <<store, tunnel, signedIn, shown, offered, cur, alive, devs, ops, torn>>

(* The process ends and is started again: the store stays, the tunnel, which
   runs in it, does not. *)
Killed ==
    /\ thr' = [t \in Threads |-> Idle]
    /\ tunnel' = NONE /\ shown' = NONE /\ offered' = {}
    /\ signedIn' = (store.token # 0 \/ store.refresh # 0)
    /\ crossed' = (crossed \/ \E t \in Threads : Inside(t))
    /\ IF half = "first" /\ store.refresh # 0 THEN half' = "cut" /\ torn' = TRUE
       ELSE half' = (IF half = "cut" THEN "cut" ELSE "no") /\ torn' = torn
    /\ half = "first" \/ \E t \in Threads : Busy(t)
    /\ UNCHANGED <<store, cur, alive, devs, ops>>

----------------------------------------------------------------------------
(* Operations of the screens begin.  A page's work waits for the one before
   (busy); loading does not. *)

Working == \E t \in Pages : Busy(t) /\ thr[t].op \notin {"load", "idle"}

Begin(t, q) ==
    /\ signedIn /\ ops < MAX_OPS /\ ~Busy(t)
    /\ ops' = ops + 1
    /\ thr' = To(t, q)
    /\ UNCHANGED <<store, tunnel, signedIn, shown, offered, cur, alive, devs, torn>>

Start(t, q) == Begin(t, q) /\ UNCHANGED crossed

load(t) == Start(t, Doing("load", "profile", NONE))
use(t, d) == ~Working /\ d \in offered /\ Start(t, Doing("use", "select", d))
add(t, d) == ~Working /\ devs[d] = "new" /\ Start(t, Doing("add", "create", d))
(* Whether it is this phone's own is read from the screen, now: a load under
   way, as after an addition, may be about to show another. *)
delete(t, d) ==
    /\ ~Working /\ d \in offered
    /\ Begin(t, [Doing("delete", "remove", d) EXCEPT !.had = IF shown = d THEN d ELSE NONE])
    /\ Mark(t)
(* rename and resendConfirmation: a call, and a load when it succeeded. *)
rename(t) == ~Working /\ Start(t, Doing("ask", "ask", NONE))

signOut == Start("out", Doing("out", "out", NONE))
press == Start("switch", Doing("switch", IF tunnel = NONE THEN "conf" ELSE "stop", NONE))

----------------------------------------------------------------------------
(* Session.authorized, step by step. *)

Calls == {"profile", "list", "select", "create", "remove", "ask"}

(* VpnTunnel.down, which may fail; AppTunnel and the switch catch that, and the
   tunnel is whatever it is. *)
TurnedOff ==
    \/ tunnel' = NONE /\ UNCHANGED crossed
    \/ UNCHANGED tunnel /\ crossed' = TRUE

(* Entering a call: the stored token is read.  load() reads the selection
   first; delete() brings the tunnel of this phone's own device down first. *)
Enter(t) ==
    LET q == thr[t] IN
    /\ q.pc = "enter" /\ q.stage \in Calls
    /\ thr' = To(t, [q EXCEPT !.tok = store.token,
                              !.pc = IF store.token = 0 THEN "renew" ELSE "call",
                              !.had = IF q.stage = "profile" THEN Selected(store) ELSE @,
                              !.stale = FALSE])
    /\ shown' = IF q.stage = "profile" THEN Selected(store) ELSE shown
    /\ IF q.stage = "remove" /\ q.had # NONE THEN TurnedOff ELSE UNCHANGED <<tunnel, crossed>>
    /\ UNCHANGED <<store, signedIn, offered, cur, alive, devs, ops, torn>>

(* failed(Unauthorized): the app goes to sign-in. *)
Expired(t) ==
    /\ thr' = IF thr[t].orphan THEN To(t, Idle) ELSE Cut(To(t, Idle))
    /\ signedIn' = (signedIn /\ thr[t].orphan)
    /\ crossed' = (crossed \/ (~thr[t].orphan /\ Others(t) # {}))

(* 401: the stored token is dropped, whosever it is, and renewed once. *)
Refused(t) ==
    LET q == thr[t] IN
    /\ q.pc \in {"call", "recall"} /\ q.stage \in Calls
    /\ store' = [store EXCEPT !.token = 0]
    /\ IF q.pc = "call"
       THEN thr' = To(t, [q EXCEPT !.pc = "renew"]) /\ UNCHANGED <<signedIn, crossed>>
       ELSE Expired(t)
    /\ UNCHANGED <<tunnel, shown, offered, cur, alive, devs, ops, torn>>

(* renew(): the refresh token is read ... *)
RenewReads(t) ==
    LET q == thr[t] IN
    /\ q.pc = "renew"
    /\ IF store.refresh = 0 THEN Expired(t)
       ELSE /\ thr' = To(t, [q EXCEPT !.pc = "renewing", !.tok = store.refresh])
            /\ UNCHANGED <<signedIn, crossed>>
    /\ UNCHANGED <<store, tunnel, shown, offered, cur, alive, devs, ops, torn>>

(* ... and traded. *)
Renewed(t) ==
    LET q == thr[t] IN
    /\ q.pc = "renewing" /\ q.tok \in alive
    /\ store' = [store EXCEPT !.token = q.tok]
    /\ thr' = To(t, [q EXCEPT !.pc = "recall"])
    /\ UNCHANGED <<tunnel, signedIn, shown, offered, cur, alive, devs, ops, torn, crossed>>

RenewRefused(t) ==
    LET q == thr[t] IN
    /\ q.pc = "renewing" /\ q.tok \notin alive
    /\ store' = [store EXCEPT !.refresh = 0]
    /\ Expired(t)
    /\ UNCHANGED <<tunnel, shown, offered, cur, alive, devs, ops, torn>>

(* No answer, 5xx, 402, 429, 409: the operation ends with a message, and a
   list that did not come is off the screen. *)
Failed(t) ==
    /\ thr[t].pc \in {"call", "recall", "renewing"}
    /\ thr' = To(t, Idle)
    /\ offered' = IF thr[t].stage = "list" /\ ~thr[t].orphan THEN {} ELSE offered
    /\ UNCHANGED <<store, tunnel, signedIn, shown, cur, alive, devs, ops, torn, crossed>>

----------------------------------------------------------------------------
(* The portal's answers, and what the app does with them. *)

Answered(t, stage) == thr[t].pc \in {"call", "recall"} /\ thr[t].stage = stage
DevicesOf(k) == {d \in Devices : devs[d] = "on" /\ Owner[d] = k}

(* The profile: without access the list is not asked for. *)
ProfileCame(t) ==
    /\ Answered(t, "profile")
    /\ \/ thr' = To(t, Piece(t, "list")) /\ UNCHANGED offered
       \/ thr' = To(t, Idle) /\ offered' = IF thr[t].orphan THEN offered ELSE {}
    /\ UNCHANGED <<store, tunnel, signedIn, shown, cur, alive, devs, ops, torn, crossed>>

AskAnswered(t) ==
    /\ Answered(t, "ask")
    /\ thr' = To(t, Load(t))
    /\ UNCHANGED <<store, tunnel, signedIn, shown, offered, cur, alive, devs, ops, torn, crossed>>

(* devices(): the list as the portal had it. *)
ListCame(t) ==
    /\ Answered(t, "list")
    /\ thr' = To(t, [thr[t] EXCEPT !.pc = "listed", !.list = DevicesOf(thr[t].tok)])
    /\ UNCHANGED <<store, tunnel, signedIn, shown, offered, cur, alive, devs, ops, torn, crossed>>

(* The selection is not on the list: removed on the site. *)
Missing(t) == store.id # NONE /\ store.id \notin thr[t].list

(* Mutated form: whichever device is removed, this phone forgets its own. *)
IsOwnAny(t) == store.id # NONE

IsOwn(t) == store.id = thr[t].dev

(* forgetSelection, first half: the id. *)
ForgetId(t) ==
    LET q == thr[t] IN
    /\ \/ q.pc = "listed" /\ Missing(t)
       \/ q.pc = "removed" /\ IsOwn(t)
    /\ store' = [store EXCEPT !.id = NONE]
    /\ thr' = To(t, [q EXCEPT !.pc = "forget"])
    /\ Mark(t)
    /\ UNCHANGED <<tunnel, signedIn, shown, offered, cur, alive, devs, ops, torn>>

ListDone(t) == IF thr[t].stage = "list" THEN Piece(t, "after") ELSE Load(t)

(* After a removal the model shows what is left (refreshSelected). *)
ShownAfter(t, s) == IF thr[t].stage = "remove" /\ ~thr[t].orphan THEN Selected(s) ELSE shown

ForgetConf(t) ==
    LET left == [store EXCEPT !.conf = NONE] IN
    /\ thr[t].pc = "forget"
    /\ store' = left
    /\ thr' = To(t, ListDone(t))
    /\ shown' = ShownAfter(t, left)
    /\ Mark(t)
    /\ UNCHANGED <<tunnel, signedIn, offered, cur, alive, devs, ops, torn>>

NothingToForget(t) ==
    LET q == thr[t] IN
    /\ (q.pc = "listed" /\ ~Missing(t)) \/ (q.pc = "removed" /\ ~IsOwn(t))
    /\ thr' = To(t, ListDone(t))
    /\ shown' = ShownAfter(t, store)
    /\ UNCHANGED <<store, tunnel, signedIn, offered, cur, alive, devs, ops, torn, crossed>>

(* Mutated form: the tunnel is left alone. *)
AfterListNothing(t) == FALSE

(* load(), after the list: the selection there was is gone. *)
AfterListDown(t) == thr[t].had # NONE /\ Selected(store) = NONE

AfterList(t) ==
    LET q == thr[t] IN
    /\ q.stage = "after" /\ q.pc = "enter"
    /\ IF AfterListDown(t)
       THEN thr' = To(t, [q EXCEPT !.stage = "down"]) /\ UNCHANGED <<shown, offered>>
       ELSE thr' = To(t, Idle) /\ shown' = Selected(store) /\ offered' = q.list
    /\ UNCHANGED <<store, tunnel, signedIn, cur, alive, devs, ops, torn, crossed>>

(* The tunnel goes down after a list, which then shows, or by the switch. *)
Down(t) ==
    LET q == thr[t] IN
    /\ q.pc = "enter" /\ q.stage \in {"down", "stop"}
    /\ TurnedOff
    /\ thr' = To(t, Idle)
    /\ IF q.stage = "down" THEN shown' = NONE /\ offered' = q.list
       ELSE UNCHANGED <<shown, offered>>
    /\ UNCHANGED <<store, signedIn, cur, alive, devs, ops, torn>>

(* deleteDevice: 404 counts as done. *)
RemoveCame(t) ==
    /\ Answered(t, "remove")
    /\ devs' = [d \in Devices |-> IF d \in DevicesOf(thr[t].tok) \cap {thr[t].dev} THEN "off" ELSE devs[d]]
    /\ thr' = To(t, [thr[t] EXCEPT !.pc = "removed"])
    /\ UNCHANGED <<store, tunnel, signedIn, shown, offered, cur, alive, ops, torn, crossed>>

(* addDevice, startTrial: the portal made the device. *)
CreateCame(t) ==
    /\ Answered(t, "create") /\ Owner[thr[t].dev] = thr[t].tok /\ devs[thr[t].dev] = "new"
    /\ devs' = [devs EXCEPT ![thr[t].dev] = "on"]
    /\ thr' = To(t, Piece(t, "select"))
    /\ UNCHANGED <<store, tunnel, signedIn, shown, offered, cur, alive, ops, torn, crossed>>

(* select: the config came, or the device is not on this account (404). *)
ConfigCame(t) ==
    /\ Answered(t, "select") /\ thr[t].dev \in DevicesOf(thr[t].tok)
    /\ thr' = To(t, [thr[t] EXCEPT !.pc = "put"])
    /\ UNCHANGED <<store, tunnel, signedIn, shown, offered, cur, alive, devs, ops, torn, crossed>>

SelectGone(t) ==
    /\ Answered(t, "select") /\ thr[t].dev \notin DevicesOf(thr[t].tok)
    /\ thr' = To(t, Load(t))
    /\ UNCHANGED <<store, tunnel, signedIn, shown, offered, cur, alive, devs, ops, torn, crossed>>

PutConf(t) ==
    /\ thr[t].pc = "put"
    /\ store' = [store EXCEPT !.conf = thr[t].dev]
    /\ thr' = To(t, [thr[t] EXCEPT !.pc = "putid"])
    /\ Mark(t)
    /\ UNCHANGED <<tunnel, signedIn, shown, offered, cur, alive, devs, ops, torn>>

(* The id last.  A list asked for before this no longer speaks of it. *)
PutId(t) ==
    LET done == To(t, Piece(t, "follow")) IN
    /\ thr[t].pc = "putid"
    /\ store' = [store EXCEPT !.id = thr[t].dev]
    /\ thr' = [u \in Threads |-> IF u # t /\ Busy(u) THEN [done[u] EXCEPT !.stale = TRUE] ELSE done[u]]
    /\ Mark(t)
    /\ UNCHANGED <<tunnel, signedIn, shown, offered, cur, alive, devs, ops, torn>>

AfterWork(t) == IF thr[t].op = "add" THEN Load(t) ELSE Idle

(* followSelection: a running tunnel moves to the stored config. *)
Follow(t) ==
    LET q == thr[t] IN
    /\ q.stage = "follow" /\ q.pc = "enter"
    /\ shown' = IF q.op = "use" THEN Selected(store) ELSE shown
    /\ thr' = To(t, IF tunnel # NONE /\ StoredConfig # NONE
                    THEN [q EXCEPT !.pc = "upping", !.dev = StoredConfig] ELSE AfterWork(t))
    /\ UNCHANGED <<store, tunnel, signedIn, offered, cur, alive, devs, ops, torn, crossed>>

(* The switch: the stored config, then up. *)
ReadConf(t) ==
    /\ thr[t].stage = "conf" /\ thr[t].pc = "enter"
    /\ thr' = To(t, IF StoredConfig = NONE THEN Idle
                    ELSE [thr[t] EXCEPT !.pc = "upping", !.dev = StoredConfig])
    /\ UNCHANGED <<store, tunnel, signedIn, shown, offered, cur, alive, devs, ops, torn, crossed>>

(* VpnTunnel.up, which may fail and leave what was running. *)
Up(t) ==
    /\ thr[t].pc = "upping"
    /\ \/ tunnel' = thr[t].dev /\ Mark(t)
       \/ UNCHANGED tunnel /\ crossed' = TRUE
    /\ thr' = To(t, IF thr[t].orphan THEN Idle ELSE AfterWork(t))
    /\ UNCHANGED <<store, signedIn, shown, offered, cur, alive, devs, ops, torn>>

----------------------------------------------------------------------------
(* Signing out: tunnel, portal, store, screen; one piece throughout. *)

OutDown ==
    /\ At("out", "out", "out", "enter")
    /\ TurnedOff
    /\ thr' = To("out", [thr["out"] EXCEPT !.pc = "logout", !.tok = store.refresh])
    /\ UNCHANGED <<store, signedIn, shown, offered, cur, alive, devs, ops, torn>>

(* The portal is told, or could not be reached. *)
Logout ==
    /\ At("out", "out", "out", "logout")
    /\ alive' \in {alive, alive \ {thr["out"].tok}}
    /\ thr' = To("out", [thr["out"] EXCEPT !.pc = "clear"])
    /\ UNCHANGED <<store, tunnel, signedIn, shown, offered, cur, devs, ops, torn, crossed>>

Clear ==
    /\ At("out", "out", "out", "clear")
    /\ store' = Empty
    /\ half' = IF half = "cut" THEN "no" ELSE half
    /\ torn' = (torn \/ \E t \in Threads \ {"out"} : Inside(t))
    /\ crossed' = (crossed \/ Others("out") # {})
    /\ IF thr["out"].orphan THEN thr' = To("out", Idle) /\ UNCHANGED signedIn
       ELSE thr' = Cut(To("out", Idle)) /\ signedIn' = FALSE
    /\ UNCHANGED <<tunnel, shown, offered, cur, alive, devs, ops>>

----------------------------------------------------------------------------
(* Elsewhere: a reset or three unused months, the site, Android. *)

PortalDrops ==
    /\ \E k \in alive : alive' = alive \ {k}
    /\ UNCHANGED <<store, tunnel, signedIn, shown, offered, cur, devs, thr, ops, torn, crossed>>

SiteRemoves ==
    /\ \E d \in Devices : devs[d] = "on" /\ devs' = [devs EXCEPT ![d] = "off"]
    /\ UNCHANGED <<store, tunnel, signedIn, shown, offered, cur, alive, thr, ops, torn, crossed>>

(* onStateChange(DOWN) from outside the app. *)
onStateChange ==
    /\ tunnel # NONE /\ tunnel' = NONE
    /\ UNCHANGED <<store, signedIn, shown, offered, cur, alive, devs, thr, ops, torn, crossed>>

Operate ==
    \/ signOut \/ press \/ TurnPage
    \/ OutDown \/ Logout
    \/ PortalDrops \/ SiteRemoves \/ onStateChange
    \/ \E t \in Pages :
        \/ load(t) \/ rename(t)
        \/ \E d \in Devices : use(t, d) \/ add(t, d) \/ delete(t, d)
        \/ Enter(t) \/ Refused(t) \/ RenewReads(t) \/ Renewed(t) \/ RenewRefused(t) \/ Failed(t)
        \/ ProfileCame(t) \/ AskAnswered(t) \/ ListCame(t) \/ AfterList(t)
        \/ ForgetId(t) \/ ForgetConf(t) \/ NothingToForget(t)
        \/ RemoveCame(t) \/ CreateCame(t) \/ ConfigCame(t) \/ SelectGone(t)
        \/ PutConf(t) \/ PutId(t) \/ Follow(t)
    \/ \E t \in Threads : Down(t) \/ ReadConf(t) \/ Up(t)

Next ==
    \/ signIn \/ SignedIn \/ Killed \/ Clear
    \/ Operate /\ UNCHANGED half

Spec == Init /\ [][Next]_vars

----------------------------------------------------------------------------
(* What is checked. *)

(* The refresh token on the phone is of its newest sign-in, except between the
   two writes of a sign-in and after a kill there over an older one (a second
   401 leaves that stored, Session.kt 176).  The access token is too, unless the
   session was so cut or was wiped or replaced under a call still running: that
   call may write the old account's token afterwards. *)
TokensAreCurrent ==
    /\ half = "no" => store.refresh \in {0, cur}
    /\ torn \/ store.token \in {0, cur}

(* A selection whose device is still on the account is given up only by
   signing out, by a list asked for before the selection was made, or in a
   session that was torn. *)
ChosenIsKept ==
    [][\A d \in DevicesOf(cur) : store.id = d /\ store'.id = NONE =>
          \/ store' = Empty
          \/ torn
          \/ \E t \in Pages : thr[t] # thr'[t] /\ thr[t].pc = "listed" /\ thr[t].stale]_vars

(* With nothing under way the stored config is the selected device's and the
   tunnel is off or runs on it, unless operations overlapped, one was cut short
   or the tunnel refused.  (Session.select says more: "an interruption part-way
   leaves the previous selection readable, or none".  A process killed between
   the writes leaves the old id with the new config.) *)
TunnelOnSelected ==
    (\A t \in Threads : ~Busy(t)) /\ ~crossed =>
        /\ Selected(store) # NONE => store.conf = store.id
        /\ tunnel \in {NONE, Selected(store)}
============================================================================
