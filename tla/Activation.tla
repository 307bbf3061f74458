----------------------------- MODULE Activation -----------------------------
(***************************************************************************)
(* From a gateway notification to paid time and a device, and back again   *)
(* when the time runs out.                                                 *)
(*                                                                         *)
(* Three kinds of process share the database and the entry node:           *)
(*   - web requests (pwa/api/payment.py, pwa/api/admin_grant.py), each an  *)
(*     asyncio task that keeps what it read across its awaits;             *)
(*   - the hourly cron process (pwa/expire_subscriptions.py), which keeps  *)
(*     one session, hence one unwritten set of changes, per sweep;         *)
(*   - the gateways, which report a status, repeat it and reorder it.      *)
(* Every await on the gateway or on the node is a step boundary.  A commit *)
(* is one step.  ORM semantics: an UPDATE writes the columns whose value   *)
(* differs from the one LOADED, as absolute values (db/base.py keeps       *)
(* objects usable, and stale, after a commit).                             *)
(***************************************************************************)
EXTENDS Integers, FiniteSets

CONSTANTS
    Users, Payments, Handlers, Devices,
    None,           \* no user, no payment, no device, no message
    TrialDevices,   \* the addresses of TRIAL_POOL: disjoint from CLIENT_POOL
    Buyer,          \* [Payments -> Users]
    Referrer,       \* [Payments -> Users \cup {None}], owner of the promo code
    Provider,       \* [Payments -> {"platega", "heleket", "manual"}]
    HeldBy,         \* [Devices -> Users \cup {None}], devices that exist at start
    PlanDays, RewardDays, Vesting,
    FirstEnd,       \* end of the periods and trials that run at start
    Faults,         \* which failures of the environment may happen
    MaxNow,         \* bound: the clock stops here
    MaxActs         \* bound: a payment is delivered until this many activations

AllFaults == {"fetch", "refuseAdd", "refuseDel", "timeout", "crash"}

ASSUME ConstantsAssumption ==
    /\ None \notin Users \cup Payments \cup Devices
    /\ IsFiniteSet(Payments)
    /\ TrialDevices \subseteq Devices
    /\ Buyer \in [Payments -> Users]
    /\ Referrer \in [Payments -> Users \cup {None}]
    /\ Provider \in [Payments -> {"platega", "heleket", "manual"}]
    /\ HeldBy \in [Devices -> Users \cup {None}]
    /\ PlanDays \in Nat \ {0} /\ RewardDays \in Nat \ {0} /\ Vesting \in Nat
    /\ FirstEnd \in Nat \ {0} /\ MaxNow \in Nat \ {0} /\ MaxActs \in Nat \ {0}
    /\ Faults \subseteq AllFaults
    /\ \A p \in Payments : Referrer[p] # Buyer[p]   \* credit.py: own_code

VARIABLES
    now,      \* the clock, in days; 0 stands for a NULL date
    sub,      \* users.is_subscribed
    until,    \* users.subscribed_until
    trial,    \* users.trial_until
    status,   \* payments.status
    rw, vest, \* referral_rewards, one per payment at most: state and vests_at
    owner,    \* configs.user_id, None while there is no row
    active,   \* configs.is_active
    peers,    \* the peers the entry node carries (external)
    gw,       \* what the gateway holds to be true of the order (external)
    owed,     \* gateway statuses not yet acknowledged with a 2xx (external)
    req,      \* the web requests
    sweep,    \* the cron process
    acts,     \* history: how often activate_payment committed for a payment
    met,      \* history: payments two requests worked on at the same time
    dropped   \* history: devices whose node change no process is left to record

dbVars  == <<sub, until, trial, status, rw, vest, owner, active>>
envVars == <<now, gw, owed>>
vars    == <<dbVars, envVars, peers, req, sweep, acts, met, dropped>>

-----------------------------------------------------------------------------
(* Types                                                                   *)

Statuses   == {"none", "pending", "error", "paid", "canceled",
               "chargebacked", "deleted"}
GwStatuses == {"none", "PENDING", "CONFIRMED", "SHORT", "CANCELED",
               "CHARGEBACKED"}

\* A web request: where it is, the payment row and message it works on, the
\* columns of the user row it loaded, the peer it issued, the trial devices
\* it has still to remove and the ones the node confirmed gone.
Request == [pc     : {"idle", "loaded", "issue", "commit", "status", "clean"},
            pay    : Payments \cup {None},
            msg    : GwStatuses,
            until  : Nat,
            sub    : BOOLEAN,
            dev    : Devices \cup {None},
            trials : SUBSET Devices,
            gone   : SUBSET Devices]

IdleRequest == [pc |-> "idle", pay |-> None, msg |-> "none", until |-> 0,
                sub |-> FALSE, dev |-> None, trials |-> {}, gone |-> {}]

\* The sweep: the rewards it read and the dates it read them against, the
\* users due and the one in hand, that user's devices still to remove, whether
\* all so far went, and the unwritten changes of its session.
Sweep == [pc      : {"idle", "rewards", "next", "user", "trials"},
          rewards : SUBSET Payments,
          until   : [Users -> Nat],
          due     : SUBSET Users,
          user    : Users \cup {None},
          todo    : SUBSET Devices,
          all     : BOOLEAN,
          gone    : SUBSET Devices,
          revoked : SUBSET Users]

IdleSweep == [pc |-> "idle", rewards |-> {}, until |-> [u \in Users |-> 0],
              due |-> {}, user |-> None, todo |-> {}, all |-> TRUE,
              gone |-> {}, revoked |-> {}]

TypeOK ==
    /\ now \in Nat
    /\ sub \in [Users -> BOOLEAN]
    /\ until \in [Users -> Nat]
    /\ trial \in [Users -> Nat]
    /\ status \in [Payments -> Statuses]
    /\ rw \in [Payments -> {"none", "earned", "applied"}]
    /\ vest \in [Payments -> Nat]
    /\ owner \in [Devices -> Users \cup {None}]
    /\ active \in [Devices -> BOOLEAN]
    /\ peers \subseteq Devices
    /\ gw \in [Payments -> GwStatuses]
    /\ owed \in [Payments -> SUBSET GwStatuses]
    /\ req \in [Handlers -> Request]
    /\ sweep \in Sweep
    /\ acts \in [Payments -> Nat]
    /\ met \subseteq Payments
    /\ dropped \subseteq Devices

-----------------------------------------------------------------------------
(* Queries                                                                 *)

PaidDevices(u)  == {d \in Devices \ TrialDevices : owner[d] = u /\ active[d]}
HeldTrials(u)   == {d \in TrialDevices : owner[d] = u /\ active[d]}
HeldDevices(u)  == {d \in Devices : owner[d] = u /\ active[d]}

\* An address and a key no row, no peer and no request uses.
Fresh(d) == /\ d \in Devices \ TrialDevices
            /\ owner[d] = None
            /\ d \notin peers
            /\ \A h \in Handlers : req[h].dev # d

Later(a, b) == IF a > b THEN a ELSE b

\* credit.apply_rewards_for: vested, unapplied rewards of a referrer.
DueRewards(u) == {q \in Payments : /\ Referrer[q] = u
                                   /\ rw[q] = "earned"
                                   /\ vest[q] <= now}

\* Notifications a gateway may send of an order: those not acknowledged yet,
\* and the current status again.  Heleket's first status may also come late;
\* of Platega's the body is not read, so a late one is like a repeated one.
Announced(p) == (owed[p] \cup {gw[p]}
                    \cup (IF Provider[p] = "heleket" /\ gw[p] # "none"
                          THEN {"PENDING"} ELSE {}))
                \ {"none"}

\* payment.py 193, 287: the early return that makes a repeat harmless.  (Names
\* with an underscore are faulty variants, which the properties below catch.)
AlreadyPaid_Never(p) == FALSE
AlreadyPaid(p) == status[p] = "paid"

\* payment.py 302-312: confirmed, and for the amount of the order.
Confirmed_AnyAmount(p) == gw[p] \in {"CONFIRMED", "SHORT"}
Confirmed(p) == gw[p] = "CONFIRMED"

\* payment.py 207: what a Heleket status other than paid leaves in the row.
StatusFor(m) == IF m = "PENDING" THEN "pending" ELSE "canceled"

\* payment.py 297-300: 502, so that the gateway comes back.
AckedOnFetchFailure_Yes == TRUE
AckedOnFetchFailure == FALSE

\* provisioner.py 371-382: the row issue_config adds to the session.
WithRow(d, u) == IF d = None THEN owner ELSE [owner EXCEPT ![d] = u]

\* credit.py 537: applied_at.
Applied_Unmarked(rewards) == rw
Applied(rewards) == [q \in Payments |-> IF q \in rewards THEN "applied" ELSE rw[q]]

\* subscriptions.py 155-167: a row is marked only once the node confirmed.
Marked_Always(d, ok) == {d}
Marked(d, ok) == IF ok THEN {d} ELSE {}

\* subscriptions.py 169-170: the flag goes when every device went.
Revoked(u, all) == IF all THEN {u} ELSE {}

\* subscriptions.py 78-88: devices of trials that ended.
EndedTrials_Unsubscribed ==
    {d \in TrialDevices : \E u \in Users :
        owner[d] = u /\ trial[u] # 0 /\ trial[u] <= now /\ ~sub[u]}
EndedTrials ==
    {d \in TrialDevices : \E u \in Users :
        owner[d] = u /\ trial[u] # 0 /\ trial[u] <= now}

Busy(h) == req[h].pc # "idle"

\* What a fault of the environment adds to the outcomes of a call.
May(fault) == fault \in Faults

-----------------------------------------------------------------------------
Init ==
    /\ now = 1
    /\ sub = [u \in Users |-> \E d \in Devices \ TrialDevices : HeldBy[d] = u]
    /\ until = [u \in Users |->
                  IF \E d \in Devices \ TrialDevices : HeldBy[d] = u
                  THEN FirstEnd ELSE 0]
    /\ trial = [u \in Users |->
                  IF \E d \in TrialDevices : HeldBy[d] = u
                  THEN FirstEnd ELSE 0]
    /\ status = [p \in Payments |-> "none"]
    /\ rw = [p \in Payments |-> "none"]
    /\ vest = [p \in Payments |-> 0]
    /\ owner = HeldBy
    /\ active = [d \in Devices |-> HeldBy[d] # None]
    /\ peers = {d \in Devices : HeldBy[d] # None}
    /\ gw = [p \in Payments |-> "none"]
    /\ owed = [p \in Payments |-> {}]
    /\ req = [h \in Handlers |-> IdleRequest]
    /\ sweep = IdleSweep
    /\ acts = [p \in Payments |-> 0]
    /\ met = {}
    /\ dropped = {}

-----------------------------------------------------------------------------
(* The clock and the gateways                                              *)

Tick == /\ now < MaxNow
        /\ now' = now + 1
        /\ UNCHANGED <<dbVars, gw, owed, peers, req, sweep, acts, met, dropped>>

\* The gateway opens an invoice, or fails and the row becomes "error".
InvoiceOpened(p) ==
    /\ status' = [status EXCEPT ![p] = "pending"]
    /\ gw' = [gw EXCEPT ![p] = "PENDING"]
InvoiceRefused(p) ==
    /\ May("fetch")
    /\ status' = [status EXCEPT ![p] = "error"]
    /\ UNCHANGED gw

\* create_payment / create_payment_platega: _open_order commits a pending row,
\* then the gateway is asked for an invoice.  (Pricing is module Ledger; the
\* device-count gate, module Devices.)
CreatePayment(p) ==
    /\ status[p] = "none"
    /\ Provider[p] # "manual"
    /\ InvoiceOpened(p) \/ InvoiceRefused(p)
    /\ UNCHANGED <<now, sub, until, trial, rw, vest, owner, active, owed, peers,
                   req, sweep, acts, met, dropped>>

\* The customer pays, pays another amount, gives up, or takes the money back.
GatewayMoves(p) ==
    /\ \E g \in GwStatuses :
         /\ <<gw[p], g>> \in {<<"PENDING", "CONFIRMED">>, <<"PENDING", "CANCELED">>}
               \cup (IF Provider[p] = "platega"
                     THEN {<<"PENDING", "SHORT">>, <<"CONFIRMED", "CHARGEBACKED">>}
                     ELSE {})
         /\ gw' = [gw EXCEPT ![p] = g]
         /\ owed' = [owed EXCEPT ![p] = @ \cup {g}]
    /\ UNCHANGED <<dbVars, now, peers, req, sweep, acts, met, dropped>>

-----------------------------------------------------------------------------
(* A request                                                               *)

\* The request ends.  acked: a 2xx went out, so the gateway stops repeating
\* the message; otherwise (502, an exception, a crash) it is owed as before.
End(h, acked) ==
    /\ req' = [req EXCEPT ![h] = IdleRequest]
    /\ owed' = IF acked /\ req[h].pay # None
               THEN [owed EXCEPT ![req[h].pay] = @ \ {req[h].msg}]
               ELSE owed

\* activate_payment up to its first await: the user row as loaded, the devices
\* held, and whether a device has to be issued first.
StartActivation(h, p, m) ==
    LET u == Buyer[p] IN
    req' = [req EXCEPT ![h] =
              [pc     |-> IF PaidDevices(u) = {} THEN "issue" ELSE "commit",
               pay    |-> p,
               msg    |-> m,
               until  |-> until[u],
               sub    |-> sub[u],
               dev    |-> None,
               trials |-> HeldTrials(u),
               gone   |-> {}]]

\* Two requests have the same payment in hand.
NoteMeeting(h, p) ==
    met' = IF \E k \in Handlers \ {h} : req[k].pay = p THEN met \cup {p} ELSE met

\* platega_callback up to fetch_status.  A row already "paid" ends the request
\* with a 2xx and no other effect.
PlategaCallback(h, p, m) ==
    /\ ~Busy(h)
    /\ Provider[p] = "platega"
    /\ m \in Announced(p)
    /\ \/ /\ AlreadyPaid(p)
          /\ owed' = [owed EXCEPT ![p] = @ \ {m}]
          /\ UNCHANGED <<req, met>>
       \/ /\ ~AlreadyPaid(p)
          /\ acts[p] < MaxActs
          /\ req' = [req EXCEPT ![h] = [IdleRequest EXCEPT !.pc = "loaded",
                                                           !.pay = p,
                                                           !.msg = m]]
          /\ NoteMeeting(h, p)
          /\ UNCHANGED owed
    /\ UNCHANGED <<dbVars, now, gw, peers, sweep, acts, dropped>>

\* fetch_status answers and the rest of platega_callback runs: the callback
\* was only a nudge, what counts is the state the gateway reports now.
FetchStatus(h) ==
    LET p == req[h].pay IN
    /\ req[h].pc = "loaded"
    /\ \/ /\ Confirmed(p)
          /\ StartActivation(h, p, req[h].msg)
          /\ UNCHANGED <<status, owed>>
       \/ /\ ~Confirmed(p)
          /\ gw[p] \notin {"CHARGEBACKED", "CANCELED"}
          /\ End(h, TRUE)
          /\ UNCHANGED status
       \/ /\ gw[p] = "CHARGEBACKED"
          /\ status' = [status EXCEPT ![p] = "chargebacked"]
          /\ End(h, TRUE)
       \/ /\ gw[p] = "CANCELED"
          /\ status' = [status EXCEPT ![p] = "canceled"]
          /\ End(h, TRUE)
    /\ UNCHANGED <<sub, until, trial, rw, vest, owner, active, now, gw, peers,
                   sweep, acts, met, dropped>>

\* fetch_status raises or returns None: 502, the gateway will retry.
FetchFails(h) ==
    /\ May("fetch")
    /\ req[h].pc = "loaded"
    /\ End(h, AckedOnFetchFailure)
    /\ UNCHANGED <<dbVars, now, gw, peers, sweep, acts, met, dropped>>

\* payment_webhook (Heleket): the signed body is the status.
HeleketWebhook(h, p, m) ==
    /\ ~Busy(h)
    /\ Provider[p] = "heleket"
    /\ m \in Announced(p)
    /\ \/ /\ AlreadyPaid(p)
          /\ owed' = [owed EXCEPT ![p] = @ \ {m}]
          /\ UNCHANGED <<req, met>>
       \/ /\ ~AlreadyPaid(p)
          /\ m = "CONFIRMED"
          /\ acts[p] < MaxActs
          /\ StartActivation(h, p, m)
          /\ NoteMeeting(h, p)
          /\ UNCHANGED owed
       \/ /\ ~AlreadyPaid(p)
          /\ m # "CONFIRMED"
          /\ req' = [req EXCEPT ![h] = [IdleRequest EXCEPT !.pc = "status",
                                                           !.pay = p,
                                                           !.msg = m]]
          /\ NoteMeeting(h, p)
          /\ UNCHANGED owed
    /\ UNCHANGED <<dbVars, now, gw, peers, sweep, acts, dropped>>

\* payment_webhook: payment.status = status; commit.
WriteStatus(h) ==
    /\ req[h].pc = "status"
    /\ status' = [status EXCEPT ![req[h].pay] = StatusFor(req[h].msg)]
    /\ End(h, TRUE)
    /\ UNCHANGED <<sub, until, trial, rw, vest, owner, active, now, gw, peers,
                   sweep, acts, met, dropped>>

\* admin_grant.grant: the user row is read, a pending row is committed, and
\* activate_payment starts.
Grant(h, p) ==
    /\ ~Busy(h)
    /\ Provider[p] = "manual"
    /\ status[p] = "none"
    /\ status' = [status EXCEPT ![p] = "pending"]
    /\ StartActivation(h, p, "none")
    /\ UNCHANGED <<sub, until, trial, rw, vest, owner, active, now, gw, owed,
                   peers, sweep, acts, met, dropped>>

-----------------------------------------------------------------------------
(* activate_payment                                                        *)

\* issue_config over SSH: the node takes the peer.
IssueOk(h) ==
    /\ req[h].pc = "issue"
    /\ \E d \in Devices :
         /\ Fresh(d)
         /\ peers' = peers \cup {d}
         /\ req' = [req EXCEPT ![h] = [req[h] EXCEPT !.dev = d, !.pc = "commit"]]
    /\ UNCHANGED <<dbVars, envVars, sweep, acts, met, dropped>>

\* issue_config returns None (the wrapper refused, or no address is left):
\* activate_payment returns False.  A gateway is answered 2xx and the payment
\* stays pending; an admin grant deletes its row.
IssueRefused(h) ==
    /\ May("refuseAdd")
    /\ req[h].pc = "issue"
    /\ status' = IF Provider[req[h].pay] = "manual"
                 THEN [status EXCEPT ![req[h].pay] = "deleted"]
                 ELSE status
    /\ End(h, TRUE)
    /\ UNCHANGED <<sub, until, trial, rw, vest, owner, active, now, gw, peers,
                   sweep, acts, met, dropped>>

\* subprocess.run times out: the exception leaves issue_config, activate_payment
\* and the handler (500).  The node may have taken the peer before that.
IssueTimesOut(h) ==
    /\ May("timeout")
    /\ req[h].pc = "issue"
    /\ \/ UNCHANGED <<peers, dropped>>
       \/ \E d \in Devices : /\ Fresh(d)
                             /\ peers' = peers \cup {d}
                             /\ dropped' = dropped \cup {d}
    /\ End(h, FALSE)
    /\ UNCHANGED <<dbVars, now, gw, sweep, acts, met>>

\* The transaction: config row, subscription, payment, referral reward of the
\* referrer, rewards this buyer was waiting for, end of the trial.
Commit(h) ==
    LET r == req[h]
        p == r.pay
        u == Buyer[p]
        due == DueRewards(u)
        earns == rw[p] = "none" /\ Provider[p] # "manual" /\ Referrer[p] # None
    IN
    /\ r.pc = "commit"
    /\ owner' = WithRow(r.dev, u)
    /\ active' = IF r.dev = None THEN active ELSE [active EXCEPT ![r.dev] = TRUE]
    /\ sub' = IF r.sub THEN sub ELSE [sub EXCEPT ![u] = TRUE]
    /\ until' = [until EXCEPT ![u] = Later(now, r.until) + PlanDays
                                     + RewardDays * Cardinality(due)]
    /\ status' = [status EXCEPT ![p] = "paid"]
    /\ rw' = IF earns THEN [Applied(due) EXCEPT ![p] = "earned"] ELSE Applied(due)
    /\ vest' = IF earns THEN [vest EXCEPT ![p] = now + Vesting] ELSE vest
    /\ trial' = IF trial[u] > now THEN [trial EXCEPT ![u] = now] ELSE trial
    /\ acts' = [acts EXCEPT ![p] = @ + 1]
    /\ IF r.trials = {}
       THEN End(h, TRUE)
       ELSE /\ req' = [req EXCEPT ![h] = [req[h] EXCEPT !.dev = None, !.pc = "clean"]]
            /\ UNCHANGED owed
    /\ UNCHANGED <<now, gw, peers, sweep, met, dropped>>

\* After the commit each trial peer is taken off the node, best effort: a
\* refusal and an exception are logged and the row is left for the sweep.
CleanTrial(h, d) ==
    /\ req[h].pc = "clean"
    /\ d \in req[h].trials
    /\ \/ /\ d \in peers
          /\ peers' = peers \ {d}
          /\ req' = [req EXCEPT ![h] = [req[h] EXCEPT !.trials = @ \ {d}, !.gone = @ \cup {d}]]
          /\ UNCHANGED dropped
       \/ /\ d \notin peers \/ May("refuseDel") \/ May("timeout")
          /\ req' = [req EXCEPT ![h] = [req[h] EXCEPT !.trials = @ \ {d}]]
          /\ UNCHANGED <<peers, dropped>>
       \/ /\ May("timeout")
          /\ d \in peers
          /\ peers' = peers \ {d}
          /\ dropped' = dropped \cup {d}
          /\ req' = [req EXCEPT ![h] = [req[h] EXCEPT !.trials = @ \ {d}]]
    /\ UNCHANGED <<dbVars, envVars, sweep, acts, met>>

\* The second commit of activate_payment, then the answer.
CleanCommit(h) ==
    /\ req[h].pc = "clean"
    /\ req[h].trials = {}
    /\ active' = [d \in Devices |-> active[d] /\ d \notin req[h].gone]
    /\ End(h, TRUE)
    /\ UNCHANGED <<sub, until, trial, status, rw, vest, owner, now, gw, peers,
                   sweep, acts, met, dropped>>

\* The web process dies: every request with it, and what their sessions held.
WebCrash ==
    /\ May("crash")
    /\ \E h \in Handlers : Busy(h)
    /\ dropped' = dropped \cup (UNION {req[h].gone : h \in Handlers})
                          \cup ({req[h].dev : h \in Handlers} \ {None})
    /\ req' = [h \in Handlers |-> IdleRequest]
    /\ UNCHANGED <<dbVars, envVars, peers, sweep, acts, met>>

-----------------------------------------------------------------------------
(* The hourly sweep                                                        *)

\* apply_due_rewards: the vested rewards and their owners are read; a lapsed
\* owner's rewards wait.
SweepStart ==
    /\ sweep.pc = "idle"
    /\ sweep' = [IdleSweep EXCEPT
                   !.pc = "rewards",
                   !.until = until,
                   !.rewards = UNION {DueRewards(u) :
                                  u \in {v \in Users : sub[v] /\ until[v] > now}}]
    /\ UNCHANGED <<dbVars, envVars, peers, req, acts, met, dropped>>

\* ... and committed; then expire_due_subscriptions asks who is due.
SweepRewards ==
    LET mine(u) == {q \in sweep.rewards : Referrer[q] = u}
    IN
    /\ sweep.pc = "rewards"
    /\ until' = [u \in Users |->
                   IF mine(u) = {} THEN until[u]
                   ELSE sweep.until[u] + RewardDays * Cardinality(mine(u))]
    /\ rw' = Applied(sweep.rewards)
    /\ sweep' = [IdleSweep EXCEPT
                   !.pc = "next",
                   !.due = {u \in Users : sub[u] /\ until'[u] # 0 /\ until'[u] < now}]
    /\ UNCHANGED <<sub, trial, status, vest, owner, active, envVars, peers, req,
                   acts, met, dropped>>

\* The next due user: the active devices, of either kind, are read.
SweepUser(u) ==
    /\ sweep.pc = "next"
    /\ u \in sweep.due
    /\ sweep' = [sweep EXCEPT !.pc = "user", !.user = u, !.all = TRUE,
                              !.todo = HeldDevices(u)]
    /\ UNCHANGED <<dbVars, envVars, peers, req, acts, met, dropped>>

\* remove_peer_for answers ok.
SweepRemoved(d) ==
    /\ sweep.pc \in {"user", "trials"}
    /\ d \in sweep.todo
    /\ d \in peers
    /\ peers' = peers \ {d}
    /\ sweep' = [sweep EXCEPT !.todo = @ \ {d}, !.gone = @ \cup Marked(d, TRUE)]
    /\ UNCHANGED <<dbVars, envVars, req, acts, met, dropped>>

\* pwa-del-peer refuses: the node is out of reach, or the peer is not there.
SweepRefused(d) ==
    /\ sweep.pc \in {"user", "trials"}
    /\ d \in sweep.todo
    /\ d \notin peers \/ May("refuseDel")
    /\ sweep' = [sweep EXCEPT !.todo = @ \ {d}, !.all = FALSE,
                              !.gone = @ \cup Marked(d, FALSE)]
    /\ UNCHANGED <<dbVars, envVars, peers, req, acts, met, dropped>>

\* The call times out: subprocess.TimeoutExpired is caught nowhere in the
\* sweep, so the process ends and its session is never committed.
SweepTimesOut(d) ==
    /\ May("timeout")
    /\ sweep.pc \in {"user", "trials"}
    /\ d \in sweep.todo
    /\ \/ peers' = peers
       \/ peers' = peers \ {d}
    /\ dropped' = dropped \cup sweep.gone \cup (peers \ peers')
    /\ sweep' = IdleSweep
    /\ UNCHANGED <<dbVars, envVars, req, acts, met>>

\* All of a user's devices are dealt with.
SweepUserDone ==
    /\ sweep.pc = "user"
    /\ sweep.todo = {}
    /\ sweep' = [sweep EXCEPT
                   !.pc = "next",
                   !.due = @ \ {sweep.user},
                   !.user = None,
                   !.revoked = @ \cup Revoked(sweep.user, sweep.all)]
    /\ UNCHANGED <<dbVars, envVars, peers, req, acts, met, dropped>>

\* The one commit of expire_due_subscriptions; then expire_due_trials reads
\* the devices of ended trials.
SweepCommit ==
    /\ sweep.pc = "next"
    /\ sweep.due = {}
    /\ active' = [d \in Devices |-> active[d] /\ d \notin sweep.gone]
    /\ sub' = [u \in Users |-> sub[u] /\ u \notin sweep.revoked]
    /\ sweep' = [IdleSweep EXCEPT
                   !.pc = "trials",
                   !.todo = {d \in EndedTrials : active'[d]}]
    /\ UNCHANGED <<until, trial, status, rw, vest, owner, envVars, peers, req,
                   acts, met, dropped>>

\* The commit of expire_due_trials; the sweep ends.
SweepTrialsCommit ==
    /\ sweep.pc = "trials"
    /\ sweep.todo = {}
    /\ active' = [d \in Devices |-> active[d] /\ d \notin sweep.gone]
    /\ sweep' = IdleSweep
    /\ UNCHANGED <<sub, until, trial, status, rw, vest, owner, envVars, peers,
                   req, acts, met, dropped>>

\* The cron process dies.
SweepCrash ==
    /\ May("crash")
    /\ sweep.pc # "idle"
    /\ dropped' = dropped \cup sweep.gone
    /\ sweep' = IdleSweep
    /\ UNCHANGED <<dbVars, envVars, peers, req, acts, met>>

-----------------------------------------------------------------------------
RequestStep(h) ==
    \/ FetchStatus(h) \/ FetchFails(h) \/ WriteStatus(h)
    \/ IssueOk(h) \/ IssueRefused(h) \/ IssueTimesOut(h)
    \/ Commit(h) \/ CleanCommit(h)
    \/ \E d \in Devices : CleanTrial(h, d)

SweepStep ==
    \/ SweepStart \/ SweepRewards \/ SweepUserDone
    \/ SweepCommit \/ SweepTrialsCommit
    \/ \E u \in Users : SweepUser(u)
    \/ \E d \in Devices : SweepRemoved(d) \/ SweepRefused(d) \/ SweepTimesOut(d)

Notify(h, p) ==
    \/ Grant(h, p)
    \/ \E m \in GwStatuses : PlategaCallback(h, p, m) \/ HeleketWebhook(h, p, m)

Next ==
    \/ Tick
    \/ \E p \in Payments : CreatePayment(p) \/ GatewayMoves(p)
    \/ \E h \in Handlers, p \in Payments : Notify(h, p)
    \/ \E h \in Handlers : RequestStep(h)
    \/ WebCrash
    \/ SweepStep
    \/ SweepCrash

Spec == Init /\ [][Next]_vars

\* What the environment and the schedulers owe: the event loop runs every
\* request, cron starts a sweep every hour and runs it, a notification that was
\* not answered 2xx is sent again, and a gateway or a node that fails does not
\* fail for ever.
Fairness ==
    /\ \A h \in Handlers :
         /\ WF_vars(RequestStep(h))
         /\ SF_vars(FetchStatus(h))
         /\ SF_vars(IssueOk(h))
    /\ \A p \in Payments :
         WF_vars(\E h \in Handlers : \E m \in owed[p] :
                    PlategaCallback(h, p, m) \/ HeleketWebhook(h, p, m))
    /\ WF_vars(SweepStep)
    /\ \A d \in Devices : SF_vars(SweepRemoved(d))

FairSpec == Spec /\ Fairness

-----------------------------------------------------------------------------
(* Safety                                                                  *)

\* Time is granted only for money the gateway holds to be paid in full, however
\* notifications are repeated, delayed or reordered (payment.py 290-312: "the
\* callback is only a nudge").  A grant from the admin panel needs no money.
ActivatedOnlyIfConfirmed ==
    \A p \in Payments :
        acts[p] > 0 /\ Provider[p] # "manual" => gw[p] \in {"CONFIRMED", "CHARGEBACKED"}

\* A payment is activated once, as long as no two requests had it in hand at
\* the same time (payment.py 193, 287: a payment already marked paid is left
\* alone).  Two that overlap both pass the check, and both activate.
OnceIfNeverMet ==
    \A p \in Payments \ met : acts[p] <= 1

\* A row marked revoked has no peer on the node: it would keep carrying traffic
\* and nobody would look for it (subscriptions.py 119-123).
RevokedIsOff ==
    \A d \in Devices : owner[d] # None /\ ~active[d] => d \notin peers

\* The node carries what the active rows say, but for the changes some process
\* still has to write down and those whose process has died or thrown.
NodeMatchesRows ==
    \A d \in Devices :
        /\ d \in peers => \/ owner[d] # None /\ active[d]
                          \/ \E h \in Handlers : req[h].dev = d
                          \/ d \in dropped
        /\ active[d] => \/ d \in peers
                        \/ d \in sweep.gone
                        \/ \E h \in Handlers : d \in req[h].gone
                        \/ d \in dropped

\* No request holds a peer another request or a row holds: two customers would
\* share one key (issue_config, Fresh).
PeersHeldOnce ==
    \A h \in Handlers : req[h].dev # None =>
        /\ owner[req[h].dev] = None
        /\ req[h].dev \in peers
        /\ \A k \in Handlers \ {h} : req[k].dev # req[h].dev

\* Rows and node agree, through every refusal, timeout and crash.
NodeAndRowsAgree == RevokedIsOff /\ NodeMatchesRows /\ PeersHeldOnce

-----------------------------------------------------------------------------
(* The inductive invariants behind the safety properties (ActivationProofs) *)

Settled == {"CONFIRMED", "CHARGEBACKED"}

\* A request that runs has a payment row in hand, one that exists, and holds an
\* issued peer only while it has still to commit it; a sweep that removes
\* devices has their owner in hand.
RequestInv ==
    /\ \A h \in Handlers :
         /\ (req[h].pc # "idle") <=> (req[h].pay # None)
         /\ req[h].pay # None => status[req[h].pay] # "none"
         /\ req[h].dev # None => req[h].pc = "commit"
    /\ \A p \in Payments : gw[p] # "none" => status[p] # "none"
    /\ \A p \in Payments : owed[p] # {} => gw[p] # "none"
    /\ sweep.pc = "user" => sweep.user # None

\* Confirmation travels: from the gateway to an unacknowledged message, to the
\* request that read it, to the activation.
ConfirmedInv ==
    /\ ActivatedOnlyIfConfirmed
    /\ \A p \in Payments : "CONFIRMED" \in owed[p] => gw[p] \in Settled
    /\ \A h \in Handlers :
         req[h].pc \in {"issue", "commit"} /\ Provider[req[h].pay] # "manual"
            => gw[req[h].pay] \in Settled

\* A payment no two requests met on: one request at most has it in hand, and
\* once activated it stays "paid" and only the clean-up is left to do.
OnceInv ==
    \A p \in Payments \ met :
        /\ acts[p] <= 1
        /\ acts[p] = 1 => /\ status[p] = "paid"
                          /\ \A h \in Handlers : req[h].pay = p => req[h].pc = "clean"
        /\ \A h, k \in Handlers : req[h].pay = p /\ req[k].pay = p => h = k

\* Devices some process is removing belong to a row, hence are never issued
\* again; those confirmed gone are off the node.
RemovalInv ==
    /\ \A d \in Devices : active[d] => owner[d] # None
    /\ \A d \in sweep.todo \cup sweep.gone : owner[d] # None
    /\ sweep.gone \cap peers = {}
    /\ \A h \in Handlers :
         /\ \A d \in req[h].trials \cup req[h].gone : owner[d] # None
         /\ req[h].gone \cap peers = {}
         /\ req[h].gone # {} => req[h].pc = "clean"
    /\ sweep.gone # {} => sweep.pc \notin {"idle", "rewards"}

NodeInv == RemovalInv /\ PeersHeldOnce /\ RevokedIsOff /\ NodeMatchesRows

IInv == TypeOK /\ RequestInv /\ ConfirmedInv /\ OnceInv /\ NodeInv

-----------------------------------------------------------------------------
(* Liveness                                                                *)

\* Money the gateway confirmed becomes paid time: a failed status check is a
\* 502 and the gateway comes back (payment.py 294-300).  Needs a node that does
\* not refuse the first device, for a refusal is answered 2xx and left to a
\* human (provisioner.py 428-433).
ConfirmedIsSettled ==
    \A p \in Payments :
        gw[p] = "CONFIRMED" ~> (status[p] = "paid" \/ gw[p] = "CHARGEBACKED")

\* A period that ends is revoked or renewed, although removals fail now and
\* then: "the next run tries again" (subscriptions.py 120-121).
EndedIsRevoked ==
    \A u \in Users : (sub[u] /\ until[u] < now) ~> (~sub[u] \/ until[u] >= now)

\* The device of a trial that ended, by its date or by a purchase, leaves the
\* node (subscriptions.py 69-76, provisioner.py 478-498).
EndedTrialIsOff ==
    \A d \in TrialDevices, u \in Users :
        (owner[d] = u /\ trial[u] # 0 /\ trial[u] <= now) ~> d \notin peers

\* What ended, a paid period or a trial, is taken off in the end.
EndedIsOff == EndedIsRevoked /\ EndedTrialIsOff

-----------------------------------------------------------------------------
(* What the code's comments and tests claim, and the code does not keep    *)

\* subscriptions.py 113: the sweep revokes the subscriptions "whose paid period
\* has ended", those only.
RevokesOnlyEnded ==
    [][\A u \in Users : sub[u] /\ ~sub'[u] => until[u] < now]_vars
=============================================================================
