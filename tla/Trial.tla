------------------------------- MODULE Trial --------------------------------
(***************************************************************************)
(* The free trial: who gets one, once (pwa/api/trial.py,                   *)
(* pwa/services/trial.py), beside purchases, which end it, and beside      *)
(* linking Telegram and confirming the mailbox, which open the way to it.  *)
(*                                                                         *)
(* start_trial has two parts.  It looks at the account and the grants,     *)
(* then flushes its grant, an INSERT and an UPDATE of the users row that   *)
(* stay uncommitted, and locked, while the entry node adds the peer.  Other *)
(* transactions do not see the grant but wait at its unique keys and at    *)
(* the users row until it is committed or rolled back.                     *)
(***************************************************************************)
EXTENDS Integers, FiniteSets

CONSTANTS
    Users, Telegrams, Handlers,
    Names,      \* local parts of addresses, without dots and +tag
    Domains,
    None,
    EmailOf,    \* users.email, lower-cased, or None
    AliasOf,    \* _ALIASES: the domain a domain stands for
    Dotless,    \* _DOTLESS: domains that ignore dots in the local part
    Disposable, \* DISPOSABLE_DOMAINS and their subdomains
    Cap,        \* TRIAL_DAILY_CAP
    Window,     \* the ceiling's rolling day, in ticks of the clock
    Days,       \* TRIAL_DAYS, in ticks
    Buyers,     \* bound: the accounts that buy, once each
    MaxNow      \* bound: the clock stops here

ASSUME TrialAssumption ==
    /\ None \notin Users \cup Telegrams
    /\ IsFiniteSet(Users)
    /\ AliasOf \in [Domains -> Domains]
    /\ Dotless \subseteq Domains /\ Disposable \subseteq Domains
    /\ Buyers \subseteq Users
    /\ Cap \in Nat /\ Window \in Nat /\ Days \in Nat \ {0} /\ MaxNow \in Nat

\* An address: its local part may be spelled with dots and carry a +tag.
Address == [name : Names, dotted : BOOLEAN, tagged : BOOLEAN, domain : Domains]

ASSUME EmailAssumption == EmailOf \in [Users -> Address \cup {None}]

VARIABLES
    now,       \* the clock; 0 stands for a NULL date
    verified,  \* users with email_verified_at
    tg,        \* users.telegram_id
    paid,      \* users with subscribed_until: a purchase or a grant happened
    until,     \* users.trial_until
    grants,    \* trial_grants, committed
    issued,    \* trial devices ever given a row, per user
    on,        \* those still active
    req,       \* the web requests
    met        \* history: users whose trial and purchase overlapped

accountVars == <<verified, tg, paid>>
vars == <<now, accountVars, until, grants, issued, on, req, met>>

-----------------------------------------------------------------------------
\* `raced' is history: another trial was being started at the time of the look.
Grant == [user : Users, mail : Address \cup {None},
          tg : Telegrams \cup {None}, at : Nat, raced : BOOLEAN]

\* What a request holds: the grant it is about to write (a trial) or the
\* columns it loaded (a purchase: trial_until and the trial devices held).
Request == [op : {"idle", "trial", "pay"},
            at : {"looked", "node", "commit", "clean"},
            user : Users \cup {None}, mail : Address \cup {None},
            tg : Telegrams \cup {None}, day : Nat, raced : BOOLEAN,
            until : Nat, held : Nat]

IdleRequest == [op |-> "idle", at |-> "looked", user |-> None, mail |-> None,
                tg |-> None, day |-> 0, raced |-> FALSE, until |-> 0, held |-> 0]

TypeOK ==
    /\ now \in 1..(MaxNow + 1)
    /\ verified \subseteq Users /\ paid \subseteq Users /\ met \subseteq Users
    /\ tg \in [Users -> Telegrams \cup {None}]
    /\ until \in [Users -> Nat]
    /\ grants \subseteq Grant
    /\ issued \in [Users -> Nat] /\ on \in [Users -> Nat]
    /\ req \in [Handlers -> Request]

-----------------------------------------------------------------------------
(* Queries                                                                 *)

Idle(h) == req[h].op = "idle"

\* verified: a confirmed mailbox or a linked Telegram account.
Verified(u) == u \in verified \/ tg[u] # None

\* One spelling for an inbox.  The alias is resolved before the dots are looked
\* at, so a dotless domain's alias is dotless too.
NormaliseEmail(a) ==
    [a EXCEPT !.domain = AliasOf[a.domain], !.tagged = FALSE,
              !.dotted = @ /\ AliasOf[a.domain] \notin Dotless]

\* is_disposable looks at the domain as it is written.
IsDisposable(a) == a.domain \in Disposable

\* start_trial: the mailbox counts once it is confirmed.
Confirmed(u) == EmailOf[u] # None /\ u \in verified
Norm(u) == IF Confirmed(u) THEN NormaliseEmail(EmailOf[u]) ELSE None

\* Two grants one unique key of trial_grants keeps apart; NULLs differ.
Same(a, b) == a # None /\ a = b
Clash(g, k) == g.user = k.user \/ Same(g.mail, k.mail) \/ Same(g.tg, k.tg)

Had(u) == \E g \in grants : Same(g.mail, Norm(u)) \/ Same(g.tg, tg[u])

\* The rolling day of the ceiling.
Today == {g \in grants : g.at >= now - Window}

\* (Names with an underscore are faulty variants, which the properties catch.)
RoomToday_OneMore == Cardinality(Today) <= Cap
RoomToday == Cardinality(Today) < Cap

\* start_trial: neither a trial nor a paid period before.
NeverHad(u) == until[u] = 0 /\ u \notin paid

\* The grant a request has flushed and not yet committed.
Flushed(h) == req[h].op = "trial" /\ req[h].at \in {"node", "commit"}
Locked(u)  == \E h \in Handlers : Flushed(h) /\ req[h].user = u

GrantOf(h) == [user |-> req[h].user, mail |-> req[h].mail, tg |-> req[h].tg,
               at |-> req[h].day, raced |-> req[h].raced]

Init ==
    /\ now = 1
    /\ verified = {} /\ paid = {} /\ met = {} /\ grants = {}
    /\ tg = [u \in Users |-> None]
    /\ until = [u \in Users |-> 0]
    /\ issued = [u \in Users |-> 0] /\ on = [u \in Users |-> 0]
    /\ req = [h \in Handlers |-> IdleRequest]

-----------------------------------------------------------------------------
(* The account                                                             *)

\* verify_email, mark_verified.
VerifyEmail(u) ==
    /\ EmailOf[u] # None /\ u \notin verified /\ ~Locked(u)
    /\ verified' = verified \cup {u}
    /\ UNCHANGED <<now, tg, paid, until, grants, issued, on, req, met>>

\* _link, tg_link_webapp: a Telegram account tied to another account moves.
Link(u, t) ==
    /\ tg[u] # t
    /\ \A v \in Users : v = u \/ tg[v] = t => ~Locked(v)
    /\ tg' = [v \in Users |-> IF v = u THEN t ELSE IF tg[v] = t THEN None ELSE tg[v]]
    /\ UNCHANGED <<now, verified, paid, until, grants, issued, on, req, met>>

\* tg_unlink.
Unlink(u) ==
    /\ tg[u] # None /\ ~Locked(u)
    /\ tg' = [tg EXCEPT ![u] = None]
    /\ UNCHANGED <<now, verified, paid, until, grants, issued, on, req, met>>

-----------------------------------------------------------------------------
(* start_trial                                                             *)

Begin(h, r) ==
    /\ Idle(h)
    /\ req' = [req EXCEPT ![h] = r]
    /\ met' = IF \E g \in Handlers : req[g].user = r.user THEN met \cup {r.user} ELSE met

End(h) == req' = [req EXCEPT ![h] = IdleRequest]

\* The checks, in a transaction that started now.
TrialLook(h, u) ==
    /\ Verified(u)
    /\ NeverHad(u)
    /\ ~(Confirmed(u) /\ IsDisposable(EmailOf[u]))
    /\ ~Had(u)
    /\ RoomToday
    /\ Begin(h, [IdleRequest EXCEPT
                    !.op = "trial", !.user = u, !.mail = Norm(u), !.tg = tg[u],
                    !.day = now, !.raced = \E g \in Handlers : req[g].op = "trial"])
    /\ UNCHANGED <<now, accountVars, until, grants, issued, on>>

\* flush: waits for a grant that clashes and is not yet committed, then fails
\* (409) on one that is, or holds the keys.
TrialFlush(h) ==
    /\ req[h].op = "trial" /\ req[h].at = "looked"
    /\ \A g \in Handlers \ {h} : Flushed(g) => ~Clash(GrantOf(g), GrantOf(h))
    /\ IF \E k \in grants : Clash(k, GrantOf(h))
       THEN End(h)
       ELSE req' = [req EXCEPT ![h].at = "node", ![h].until = now + Days]
    /\ UNCHANGED <<now, accountVars, until, grants, issued, on, met>>

\* The entry has the peer, in the trial pool.
TrialIssued(h) ==
    /\ req[h].op = "trial" /\ req[h].at = "node"
    /\ req' = [req EXCEPT ![h].at = "commit"]
    /\ UNCHANGED <<now, accountVars, until, grants, issued, on, met>>

\* issue_config returned None or raised: rollback, the grant goes too.
AfterRollback_Kept(h) == grants \cup {GrantOf(h)}
AfterRollback(h) == grants

TrialNotIssued(h) ==
    /\ req[h].op = "trial" /\ req[h].at = "node"
    /\ grants' = AfterRollback(h)
    /\ End(h)
    /\ UNCHANGED <<now, accountVars, until, issued, on, met>>

TrialCommit(h) ==
    LET u == req[h].user IN
    /\ req[h].op = "trial" /\ req[h].at = "commit"
    /\ grants' = grants \cup {GrantOf(h)}
    /\ until' = [until EXCEPT ![u] = req[h].until]
    /\ issued' = [issued EXCEPT ![u] = @ + 1]
    /\ on' = [on EXCEPT ![u] = @ + 1]
    /\ End(h)
    /\ UNCHANGED <<now, accountVars, met>>

-----------------------------------------------------------------------------
(* A purchase                                                              *)

\* activate_payment: the user and the devices held are read, then the entry
\* adds the paid device.
PayLook(h, u) ==
    /\ u \in Buyers \ paid
    /\ Begin(h, [IdleRequest EXCEPT !.op = "pay", !.at = "node", !.user = u,
                                    !.until = until[u], !.held = on[u]])
    /\ UNCHANGED <<now, accountVars, until, grants, issued, on>>

PayFails(h) ==
    /\ req[h].op = "pay" /\ req[h].at = "node"
    /\ End(h)
    /\ UNCHANGED <<now, accountVars, until, grants, issued, on, met>>

\* The purchase closes the trial it loaded.
Closed_Left(h) == until
Closed(h) == IF req[h].until > now THEN [until EXCEPT ![req[h].user] = now] ELSE until

PayCommit(h) ==
    /\ req[h].op = "pay" /\ req[h].at = "node" /\ ~Locked(req[h].user)
    /\ paid' = paid \cup {req[h].user}
    /\ until' = Closed(h)
    /\ IF req[h].held = 0 THEN End(h) ELSE req' = [req EXCEPT ![h].at = "clean"]
    /\ UNCHANGED <<now, verified, tg, grants, issued, on, met>>

\* _remove_peer_from_bridge: a peer the sweep took before is refused.
Removes(u, ok) == ok /\ on[u] > 0

\* The trial peers it found are taken off the entry, if the entry does so.
PayClean(h, ok) ==
    LET u == req[h].user IN
    /\ req[h].op = "pay" /\ req[h].at = "clean"
    /\ on' = IF Removes(u, ok) THEN [on EXCEPT ![u] = @ - 1] ELSE on
    /\ End(h)
    /\ UNCHANGED <<now, accountVars, until, grants, issued, met>>

-----------------------------------------------------------------------------
(* The sweep, the clock, the death of the portal                           *)

\* expire_due_trials: an ended trial's device goes once the entry confirms.
ExpireTrial(u) ==
    /\ until[u] # 0 /\ until[u] <= now /\ on[u] > 0
    /\ on' = [on EXCEPT ![u] = @ - 1]
    /\ UNCHANGED <<now, accountVars, until, grants, issued, req, met>>

Tick ==
    /\ now <= MaxNow
    /\ now' = now + 1
    /\ UNCHANGED <<accountVars, until, grants, issued, on, req, met>>

Crash ==
    /\ \E h \in Handlers : ~Idle(h)
    /\ req' = [h \in Handlers |-> IdleRequest]
    /\ UNCHANGED <<now, accountVars, until, grants, issued, on, met>>

-----------------------------------------------------------------------------
Next ==
    \/ \E u \in Users : VerifyEmail(u) \/ Unlink(u) \/ ExpireTrial(u)
    \/ \E u \in Users, t \in Telegrams : Link(u, t)
    \/ \E h \in Handlers :
        \/ \E u \in Users : TrialLook(h, u) \/ PayLook(h, u)
        \/ TrialFlush(h) \/ TrialIssued(h) \/ TrialNotIssued(h) \/ TrialCommit(h)
        \/ PayFails(h) \/ PayCommit(h)
        \/ \E ok \in BOOLEAN : PayClean(h, ok)
    \/ Tick \/ Crash

Spec == Init /\ [][Next]_vars

-----------------------------------------------------------------------------
(* Properties                                                              *)

\* Two addresses one inbox receives: the tag does not matter, nor the domain's
\* alias, nor dots where the domain ignores them.
SameInbox(a, b) ==
    LET d == AliasOf[a.domain] IN
    /\ a.name = b.name
    /\ d = AliasOf[b.domain]
    /\ a.dotted = b.dotted \/ d \in Dotless

\* One trial for an account, an inbox and a Telegram account, for good,
\* whatever is linked, moved or started at the same time: no two grants are for
\* one account, one Telegram account or two spellings of one confirmed inbox,
\* and no account was given two trial devices.
OneTrialEach ==
    /\ \A g, k \in grants :
           g # k => /\ g.user # k.user /\ ~Same(g.tg, k.tg)
                    /\ g.mail # None /\ k.mail # None
                         => ~SameInbox(EmailOf[g.user], EmailOf[k.user])
    /\ \A u \in Users : issued[u] <= 1

\* A trial is spent if and only if a device was given for it: a refusal of the
\* node rolls the grant and the date back with it.
SpentIffIssued ==
    \A u \in Users :
        /\ issued[u] = Cardinality({g \in grants : g.user = u})
        /\ issued[u] = 0 <=> until[u] = 0

\* One trial each, for one device each.
OneTrialOneDevice == OneTrialEach /\ SpentIffIssued

\* The daily ceiling is passed only by requests under way together: the grants
\* whose check ran while no other trial was being started keep within it.
CapUnlessRaced == Cardinality({g \in Today : ~g.raced}) <= Cap

\* No trial runs beside a paid period: the purchase closes it, and who has paid
\* is not given one, unless the two requests of the account overlapped.
NoTrialBesidePaid == \A u \in paid \ met : until[u] <= now
=============================================================================
