------------------------------ MODULE Devices -------------------------------
(***************************************************************************)
(* How many tunnels an account has: adding and deleting devices            *)
(* (pwa/api/config.py) beside orders and activations that change the plan  *)
(* (pwa/api/payment.py, services/provisioner.py) and the hourly sweep that *)
(* takes the tunnels of an ended period away (services/subscriptions.py).  *)
(*                                                                         *)
(* Every request reads the account's devices, waits for the entry node and *)
(* then commits; nothing locks the account meanwhile.  The sweep, another  *)
(* process, calls the node once per device and commits once, at its end.   *)
(* The history variables remember the three ways past the plan's limit,    *)
(* and the node calls after which nothing was written.                     *)
(*                                                                         *)
(* Between the requests the customer fetches the files of the devices, by  *)
(* the page or by a link for Telegram that is good for two minutes.        *)
(*                                                                         *)
(* Paid devices only; module Trial has the trial's.  users.peer_ip, a      *)
(* label no condition on devices depends on, is left out.                  *)
(***************************************************************************)
EXTENDS Integers, FiniteSets

CONSTANTS
    Users, Orders, Devices, Locations, Plans, Handlers,
    None,
    Buyer,         \* [Orders -> Users]
    PlanOf,        \* [Orders -> Plans]
    Manual,        \* orders opened by the admin's grant
    PlaceOf,       \* [Devices -> Locations]: the entry a key is registered on
    Limit,         \* [Plans -> Nat]: PLANS[...]["configs"]
    DefaultLimit,  \* of an account with no plan
    Germany,       \* locations.DEFAULT
    FirstListed,   \* the first of all_locations()
    Pausings,      \* values of LOCATIONS_PAUSED the operator deploys
    Linked,        \* bound: devices a download link is asked for
    MaxRestarts,   \* bound: restarts of the portal
    MaxLost        \* bound: calls time out and processes end until this many are lost

ASSUME DevicesAssumption ==
    /\ None \notin Users \cup Orders \cup Devices \cup Locations \cup Plans
    /\ IsFiniteSet(Devices)
    /\ Buyer \in [Orders -> Users] /\ PlanOf \in [Orders -> Plans]
    /\ Manual \subseteq Orders
    /\ PlaceOf \in [Devices -> Locations]
    /\ Limit \in [Plans -> Nat \ {0}] /\ DefaultLimit \in Nat \ {0}
    /\ {Germany, FirstListed} \subseteq Locations
    /\ Pausings \subseteq SUBSET Locations
    /\ Linked \subseteq Devices
    /\ MaxRestarts \in Nat /\ MaxLost \in Nat

VARIABLES
    plan,      \* users.plan
    sub,       \* users.is_subscribed
    covered,   \* subscribed_until lies ahead
    order,     \* payments.status
    owner,     \* configs.user_id, None while there is no row
    active,    \* configs.is_active
    peers,     \* the peers on the entries (external)
    paused,    \* LOCATIONS_PAUSED of the running portal
    restarts,  \* restarts so far, to bound them
    req,       \* the web requests
    sweep,     \* expire_due_subscriptions, run by cron
    link,      \* the device a download link is out for (bound: one at a time)
    met,       \* history: users two of whose requests overlapped
    late,      \* history: open orders during which the buyer added a device
    unfit,     \* history: users whose late or manual order was for too small a plan
    lost       \* history: devices whose node call has no row to show for it: it
               \* timed out, or its caller died or was restarted before the commit

rowVars  == <<plan, sub, covered, order, owner, active>>
histVars == <<met, late, unfit, lost>>
vars     == <<rowVars, peers, paused, restarts, req, sweep, link, histVars>>

-----------------------------------------------------------------------------
IdleRequest == [op |-> "idle", user |-> None, order |-> None,
                place |-> None, dev |-> None, sub |-> FALSE, at |-> "start"]

Request == [op    : {"idle", "add", "activate", "delete"},
            user  : Users \cup {None},
            order : Orders \cup {None},
            place : Locations \cup {None},
            dev   : Devices \cup {None},
            sub   : BOOLEAN,       \* is_subscribed, as loaded
            at    : {"start", "node", "commit"}]

\* The sweep: the users due and the one in hand, that user's devices still to
\* remove, whether all so far went, and the unwritten changes of its session.
Sweep == [pc      : {"idle", "next", "user"},
          due     : SUBSET Users,
          user    : Users \cup {None},
          todo    : SUBSET Devices,
          all     : BOOLEAN,
          gone    : SUBSET Devices,
          revoked : SUBSET Users]

IdleSweep == [pc |-> "idle", due |-> {}, user |-> None, todo |-> {}, all |-> TRUE,
              gone |-> {}, revoked |-> {}]

TypeOK ==
    /\ plan \in [Users -> Plans \cup {None}]
    /\ sub \in [Users -> BOOLEAN] /\ covered \in [Users -> BOOLEAN]
    /\ order \in [Orders -> {"none", "pending", "paid", "deleted"}]
    /\ owner \in [Devices -> Users \cup {None}]
    /\ active \in [Devices -> BOOLEAN]
    /\ peers \subseteq Devices
    /\ paused \subseteq Locations /\ restarts \in 0..MaxRestarts
    /\ req \in [Handlers -> Request]
    /\ sweep \in Sweep
    /\ met \subseteq Users /\ unfit \subseteq Users
    /\ late \subseteq Orders /\ lost \subseteq Devices
    /\ link \in Devices \cup {None}

-----------------------------------------------------------------------------
(* Queries                                                                 *)

Held(u)      == {d \in Devices : owner[d] = u /\ active[d]}
HeldAt(u, l) == {d \in Held(u) : PlaceOf[d] = l}

LimitOf(p) == IF p \in Plans THEN Limit[p] ELSE DefaultLimit

HasActiveSubscription(u) == sub[u] /\ covered[u]

\* add_config: room in this location.  (Names with an underscore are faulty
\* variants the properties are shown to catch.)
HasRoom_OneMore(u, l) == Cardinality(HeldAt(u, l)) <= LimitOf(plan[u])
HasRoom(u, l) == Cardinality(HeldAt(u, l)) < LimitOf(plan[u])

\* _open_order: the fullest location must fit the plan asked for.
Fits(u, p) == \A l \in Locations : Cardinality(HeldAt(u, l)) <= Limit[p]

\* recommended: the first location not paused, the first of all if every one
\* is.  There are two, so any other unpaused one is the next.
Recommended ==
    IF FirstListed \notin paused \/ Locations \subseteq paused THEN FirstListed
    ELSE CHOOSE l \in Locations : l \notin paused

DefaultForNew_Germany == Germany
DefaultForNew == IF Germany \notin paused THEN Germany ELSE Recommended

\* A key nobody has used: rows are never reused.
Fresh(d) == /\ owner[d] = None /\ d \notin peers \cup lost
            /\ \A h \in Handlers : req[h].dev # d

Idle(h) == req[h].op = "idle"

Init ==
    /\ plan = [u \in Users |-> None]
    /\ sub = [u \in Users |-> FALSE] /\ covered = [u \in Users |-> FALSE]
    /\ order = [p \in Orders |-> "none"]
    /\ owner = [d \in Devices |-> None] /\ active = [d \in Devices |-> FALSE]
    /\ peers = {} /\ paused = {} /\ restarts = 0
    /\ req = [h \in Handlers |-> IdleRequest]
    /\ sweep = IdleSweep
    /\ met = {} /\ late = {} /\ unfit = {} /\ lost = {}
    /\ link = None

-----------------------------------------------------------------------------
(* The start and the end of a request                                      *)

Begin(h, r) ==
    /\ Idle(h)
    /\ req' = [req EXCEPT ![h] = r]
    /\ met' = IF \E g \in Handlers : req[g].user = r.user THEN met \cup {r.user} ELSE met

End(h) == req' = [req EXCEPT ![h] = IdleRequest]

-----------------------------------------------------------------------------
(* Adding a device                                                         *)

\* add_config up to the node: a live subscription, a location that takes
\* devices, room.
AddConfig(h, u, l) ==
    /\ HasActiveSubscription(u)
    /\ l \notin paused
    /\ HasRoom(u, l)
    /\ Begin(h, [IdleRequest EXCEPT !.op = "add", !.user = u, !.place = l, !.at = "node"])
    /\ UNCHANGED <<rowVars, peers, paused, restarts, late, unfit, lost>>

\* issue_config: the entry took the peer.
IssueOk(h, d) ==
    /\ req[h].op \in {"add", "activate"} /\ req[h].at = "node"
    /\ Fresh(d) /\ PlaceOf[d] = req[h].place
    /\ peers' = peers \cup {d}
    /\ req' = [req EXCEPT ![h].dev = d, ![h].at = "commit"]
    /\ UNCHANGED <<rowVars, paused, restarts, histVars>>

\* A grant for which no device could be issued is dropped; an order stays.
AfterRefusal(p) == IF p \in Manual THEN [order EXCEPT ![p] = "deleted"] ELSE order

\* issue_config returns None.
IssueRefused(h) ==
    /\ req[h].op \in {"add", "activate"} /\ req[h].at = "node"
    /\ order' = AfterRefusal(req[h].order)
    /\ End(h)
    /\ UNCHANGED <<plan, sub, covered, owner, active, peers, paused, restarts, histVars>>

\* ssh runs into its timeout: subprocess raises, the request is a 500, and the
\* peer may be on the entry with no row.  A grant's row stays pending.
IssueTimesOut(h, d) ==
    /\ req[h].op \in {"add", "activate"} /\ req[h].at = "node"
    /\ Fresh(d) /\ PlaceOf[d] = req[h].place
    /\ peers' \in {peers, peers \cup {d}}
    /\ Cardinality(lost) < MaxLost
    /\ lost' = lost \cup {d}
    /\ End(h)
    /\ UNCHANGED <<rowVars, paused, restarts, met, late, unfit>>

\* add_config: the row is written.  The limit is not looked at again.
AddCommit(h) ==
    LET r == req[h] IN
    /\ r.op = "add" /\ r.at = "commit"
    /\ owner' = [owner EXCEPT ![r.dev] = r.user]
    /\ active' = [active EXCEPT ![r.dev] = TRUE]
    /\ late' = late \cup {p \in Orders : Buyer[p] = r.user /\ order[p] = "pending"}
    /\ End(h)
    /\ UNCHANGED <<plan, sub, covered, order, peers, paused, restarts, met, unfit, lost>>

-----------------------------------------------------------------------------
(* Deleting a device                                                       *)

DeleteConfig(h, d) ==
    /\ owner[d] # None /\ active[d]
    /\ Begin(h, [IdleRequest EXCEPT !.op = "delete", !.user = owner[d], !.dev = d, !.at = "node"])
    /\ UNCHANGED <<rowVars, peers, paused, restarts, late, unfit, lost>>

\* remove_peer_for: the wrapper removes a peer that is there ...
RemoveOk(h) ==
    /\ req[h].op = "delete" /\ req[h].at = "node"
    /\ req[h].dev \in peers
    /\ peers' = peers \ {req[h].dev}
    /\ req' = [req EXCEPT ![h].at = "commit"]
    /\ UNCHANGED <<rowVars, paused, restarts, histVars>>

\* ... and refuses one that is not, or fails: 503, the row stays active.
RemoveRefused(h) ==
    /\ req[h].op = "delete" /\ req[h].at = "node"
    /\ End(h)
    /\ UNCHANGED <<rowVars, peers, paused, restarts, histVars>>

RemoveTimesOut(h) ==
    /\ req[h].op = "delete" /\ req[h].at = "node"
    /\ peers' \in {peers, peers \ {req[h].dev}}
    /\ Cardinality(lost) < MaxLost
    /\ lost' = lost \cup {req[h].dev}
    /\ End(h)
    /\ UNCHANGED <<rowVars, paused, restarts, met, late, unfit>>

\* delete_config: only now is the slot free.
SlotFree_AtOnce(h) == req[h].at \in {"node", "commit"}
SlotFree(h) == req[h].at = "commit"

DeleteCommit(h) ==
    /\ req[h].op = "delete" /\ SlotFree(h)
    /\ active' = [active EXCEPT ![req[h].dev] = FALSE]
    /\ End(h)
    /\ UNCHANGED <<plan, sub, covered, order, owner, peers, paused, restarts, histVars>>

-----------------------------------------------------------------------------
(* Orders                                                                  *)

\* _open_order: a plan too small for the devices held is not sold.
OpenOrder(p) ==
    /\ p \notin Manual /\ order[p] = "none"
    /\ Fits(Buyer[p], PlanOf[p])
    /\ order' = [order EXCEPT ![p] = "pending"]
    /\ UNCHANGED <<plan, sub, covered, owner, active, peers, paused, restarts, req, histVars>>

\* What activate_payment writes to the user and the payment.  A flag that was set
\* when the user was loaded is not written: the sweep may have cleared it since.
Paid(p, loaded) ==
    LET u == Buyer[p] IN
    /\ plan' = [plan EXCEPT ![u] = PlanOf[p]]
    /\ sub' = [sub EXCEPT ![u] = @ \/ ~loaded]
    /\ covered' = [covered EXCEPT ![u] = TRUE]
    /\ order' = [order EXCEPT ![p] = "paid"]
    /\ unfit' = IF p \in Manual \cup late /\ ~Fits(u, PlanOf[p]) THEN unfit \cup {u} ELSE unfit \ {u}
    /\ late' = late \ {p}

\* The callbacks activate an order that is pending; a grant opens its own and
\* activates it in the same request, once.
Startable(p) == order[p] = IF p \in Manual THEN "none" ELSE "pending"

\* activate_payment of an account that holds a device: a renewal.  No call of
\* the node, so one step.
Renew(p) ==
    LET busy == \E h \in Handlers : req[h].user = Buyer[p] IN
    /\ Startable(p)
    /\ Held(Buyer[p]) # {}
    /\ Paid(p, sub[Buyer[p]])
    /\ met' = IF busy THEN met \cup {Buyer[p]} ELSE met
    /\ UNCHANGED <<owner, active, peers, paused, restarts, req, lost>>

\* activate_payment of an account that holds none: a device first.
FirstPurchase(h, p) ==
    LET u == Buyer[p] IN
    /\ Startable(p)
    /\ Held(u) = {}
    /\ order' = [order EXCEPT ![p] = "pending"]
    /\ Begin(h, [IdleRequest EXCEPT !.op = "activate", !.user = u, !.order = p,
                                    !.place = DefaultForNew, !.sub = sub[u], !.at = "node"])
    /\ UNCHANGED <<plan, sub, covered, owner, active, peers, paused, restarts, late, unfit, lost>>

FirstCommit(h) ==
    LET r == req[h] IN
    /\ r.op = "activate" /\ r.at = "commit"
    /\ Paid(r.order, r.sub)
    /\ owner' = [owner EXCEPT ![r.dev] = r.user]
    /\ active' = [active EXCEPT ![r.dev] = TRUE]
    /\ End(h)
    /\ UNCHANGED <<peers, paused, restarts, met, lost>>

-----------------------------------------------------------------------------
(* Time and restarts                                                       *)

PeriodEnds(u) ==
    /\ covered[u]
    /\ covered' = [covered EXCEPT ![u] = FALSE]
    /\ UNCHANGED <<plan, sub, order, owner, active, peers, paused, restarts, req, histVars>>

\* The operator changes LOCATIONS_PAUSED: a new portal process, the requests
\* under way are gone.
Restart(now) ==
    /\ restarts < MaxRestarts /\ Cardinality(lost) < MaxLost
    /\ restarts' = restarts + 1
    /\ paused' = now
    /\ lost' = lost \cup {req[h].dev : h \in {g \in Handlers : req[g].dev # None}}
    /\ req' = [h \in Handlers |-> IdleRequest]
    /\ UNCHANGED <<rowVars, peers, met, late, unfit>>

-----------------------------------------------------------------------------
(* The hourly sweep                                                        *)

\* expire_due_subscriptions: the users due, when there are any.
SweepStart ==
    LET due == {u \in Users : sub[u] /\ ~covered[u]} IN
    /\ sweep.pc = "idle"
    /\ due # {}
    /\ sweep' = [IdleSweep EXCEPT !.pc = "next", !.due = due]
    /\ UNCHANGED <<rowVars, peers, lost>>

\* The next of them: the active devices are read.  What the subscription is by
\* now is not.
SweepUser(u) ==
    /\ sweep.pc = "next" /\ u \in sweep.due
    /\ sweep' = [sweep EXCEPT !.pc = "user", !.user = u, !.todo = Held(u), !.all = TRUE]
    /\ UNCHANGED <<rowVars, peers, lost>>

\* remove_peer_for answers ok: the row is marked in the session, not written.
SweepRemoved(d) ==
    /\ sweep.pc = "user" /\ d \in sweep.todo
    /\ d \in peers
    /\ peers' = peers \ {d}
    /\ sweep' = [sweep EXCEPT !.todo = @ \ {d}, !.gone = @ \cup {d}]
    /\ UNCHANGED <<rowVars, lost>>

\* It refuses: the peer is not there, or the node fails.
SweepRefused(d) ==
    /\ sweep.pc = "user" /\ d \in sweep.todo
    /\ sweep' = [sweep EXCEPT !.todo = @ \ {d}, !.all = FALSE]
    /\ UNCHANGED <<rowVars, peers, lost>>

\* It times out, which nothing catches, or the process dies waiting for it: the
\* sweep ends and what it marked is never written.
SweepTimesOut(d) ==
    /\ sweep.pc = "user" /\ d \in sweep.todo
    /\ Cardinality(lost) < MaxLost
    /\ peers' \in {peers, peers \ {d}}
    /\ lost' = lost \cup sweep.gone \cup {d}
    /\ sweep' = IdleSweep
    /\ UNCHANGED rowVars

\* The process dies between two calls, or its commit fails.
SweepDies ==
    /\ sweep.pc # "idle"
    /\ Cardinality(lost) < MaxLost
    /\ lost' = lost \cup sweep.gone
    /\ sweep' = IdleSweep
    /\ UNCHANGED <<rowVars, peers>>

\* All devices of the user went: the flag falls.
SweepUserDone ==
    /\ sweep.pc = "user" /\ sweep.todo = {}
    /\ sweep' = [sweep EXCEPT !.pc = "next", !.due = @ \ {sweep.user}, !.user = None,
                              !.revoked = IF sweep.all THEN @ \cup {sweep.user} ELSE @]
    /\ UNCHANGED <<rowVars, peers, lost>>

\* The one commit.  (notify.ended has flushed the users' rows, and a payment that
\* comes meanwhile waits for it; it writes other columns, so the order of the two
\* commits makes no difference.)
SweepCommit ==
    /\ sweep.pc = "next" /\ sweep.due = {}
    /\ active' = [d \in Devices |-> active[d] /\ d \notin sweep.gone]
    /\ sub' = [u \in Users |-> sub[u] /\ u \notin sweep.revoked]
    /\ sweep' = IdleSweep
    /\ UNCHANGED <<plan, covered, order, owner, peers, lost>>

-----------------------------------------------------------------------------
(* The file of a device                                                    *)

\* config_raw, client_config (for the newest device) and config_download_link
\* answer with an active row of an account with access.
Fetchable(d) == owner[d] # None /\ active[d] /\ HasActiveSubscription(owner[d])

\* config_download: the token names the device and its end; the row and the
\* owner's access are looked up again.
LinkGood_Token(d) == link = d
LinkGood(d) == link = d /\ Fetchable(d)

\* render_config, _build_conf: the file, built from the row whether or not the
\* entry knows the key, names the entry of the row's own location.
FileOf(d) == [key |-> d, entry |-> PlaceOf[d]]

\* The entry that a file names has its key.
Connects(f) == f.key \in peers /\ PlaceOf[f.key] = f.entry

\* To hand a file out changes nothing, so these are states, not steps.
HandedOut(d) == Fetchable(d) \/ LinkGood(d)

\* config_download_link
DownloadLink(d) ==
    /\ Fetchable(d)
    /\ d \in Linked /\ link = None
    /\ link' = d
    /\ UNCHANGED <<rowVars, peers, paused, restarts, req, sweep, histVars>>

\* Its two minutes are over.
LinkEnds ==
    /\ link # None
    /\ link' = None
    /\ UNCHANGED <<rowVars, peers, paused, restarts, req, sweep, histVars>>

-----------------------------------------------------------------------------
RequestStep(h) ==
    \/ \E u \in Users, l \in Locations : AddConfig(h, u, l)
    \/ \E d \in Devices : IssueOk(h, d) \/ IssueTimesOut(h, d) \/ DeleteConfig(h, d)
    \/ \E p \in Orders : FirstPurchase(h, p)
    \/ IssueRefused(h) \/ AddCommit(h) \/ FirstCommit(h)
    \/ RemoveOk(h) \/ RemoveRefused(h) \/ RemoveTimesOut(h) \/ DeleteCommit(h)

AccountStep ==
    \/ \E h \in Handlers : RequestStep(h)
    \/ \E p \in Orders : OpenOrder(p) \/ Renew(p)
    \/ \E u \in Users : PeriodEnds(u)
    \/ \E now \in Pausings : Restart(now)

SweepStep ==
    \/ SweepStart \/ SweepUserDone \/ SweepCommit \/ SweepDies
    \/ \E u \in Users : SweepUser(u)
    \/ \E d \in Devices : SweepRemoved(d) \/ SweepRefused(d) \/ SweepTimesOut(d)

Next ==
    \/ AccountStep /\ UNCHANGED <<sweep, link>>
    \/ SweepStep /\ UNCHANGED <<paused, restarts, req, met, late, unfit, link>>
    \/ \E d \in Devices : DownloadLink(d)
    \/ LinkEnds

Spec == Init /\ [][Next]_vars

-----------------------------------------------------------------------------
(* Properties                                                              *)

\* The tunnels of an account that carry traffic in one location stay within
\* the limit of its plan.  The ways past it: two requests of the account at
\* once (add_config checks, waits for the node and does not check again), a
\* device added while an order for a smaller plan was open (the gate of
\* _open_order is not repeated at activation), and an admin's grant, which has
\* no gate.
WithinPlan ==
    \A u \in Users \ (met \cup unfit) : \A l \in Locations :
        Cardinality({d \in peers : owner[d] = u /\ PlaceOf[d] = l}) <= LimitOf(plan[u])

\* The node has confirmed and the row is about to be written.
Closing(d) ==
    \/ \E h \in Handlers : req[h].op = "delete" /\ req[h].dev = d /\ req[h].at = "commit"
    \/ d \in sweep.gone

\* Rows and entries agree: a peer with a row is active, so no tunnel outlives its
\* row, and an active row has its peer, except while a deletion or the sweep
\* under way is about to close it, and after a node call with no row to show for
\* it.  A sweep that a timeout ends loses all it has removed (subscriptions.py
\* 178): those rows stay active without a tunnel for good.
RowsMatchEntries ==
    \A d \in Devices :
        /\ d \in peers /\ owner[d] # None => active[d]
        /\ active[d] => d \in peers \/ Closing(d) \/ d \in lost

\* A paused location takes no new device: the only one that gets a row there
\* is the first device of a purchase while every location is paused
\* (recommended falls back to the first of the list).
PausedTakesNone ==
    [][\A d \in Devices : active'[d] /\ ~active[d] /\ PlaceOf[d] \in paused
                             => Locations \subseteq paused]_vars

\* A file the portal would hand out now has a tunnel behind it: what add_config
\* takes care of (config.py 218-220) and a link that outlives its device must
\* not undo.  The exceptions: a deletion about to be written, a renewal the sweep
\* under way does not see, and the calls with no row to show for them.
FilesWork ==
    \A d \in Devices : HandedOut(d) => Connects(FileOf(d)) \/ Closing(d) \/ d \in lost
=============================================================================
