------------------------------ MODULE Identity ------------------------------
(***************************************************************************)
(* Who a customer is to the portal: registration, sign-in with a password, *)
(* Google or Telegram, the app's long-lived sign-ins, the confirmation of  *)
(* a mailbox, the password reset and the link to a Telegram chat           *)
(* (api/auth.py, register.py, email_verify.py, password_reset.py,          *)
(* google_auth.py, telegram.py; services/app_sessions.py; auth/jwt.py).    *)
(*                                                                         *)
(* A handler that writes reads its rows first and commits later; other     *)
(* requests run in between.  A request in flight keeps the row as it was   *)
(* LOADED and the row it WANTED; its commit writes the columns in which    *)
(* the two differ (SQLAlchemy's unit of work) over whatever the table      *)
(* holds by then, and fails as a whole when a unique column would clash.   *)
(*                                                                         *)
(* is_active is written nowhere in the code and stays TRUE: the "Account   *)
(* disabled" answers are left out.  Of the limiters the one on failed      *)
(* sign-ins is kept, the only one that is checked and recorded in two      *)
(* steps.                                                                  *)
(***************************************************************************)
EXTENDS Integers, FiniteSets, FiniteSetsExt, RateLimit

CONSTANTS Accounts,       \* usernames
          Mails, Chats, Googles,
          Sources,        \* the addresses sign-ins come from (resolve_source_ip)
          MailOf,         \* MailOf[g]: the address Google vouches for
          Tokens,         \* refresh tokens
          Reqs,           \* requests served at once
          NONE,
          MAX_SESSIONS,   \* app_sessions.MAX_SESSIONS_PER_USER
          SESSION_LIFE, ACCESS_LIFE, VERIFY_LIFE, RESET_LIFE, LINK_LIFE,
          MAX_TIME, MAX_PW, MAX_LINKS, MAX_CALLS   \* bounds of the model

(* A row of users has mail, pw, verified, sub (google_sub), chat (telegram_id)
   and the three one-time links; NULL is NONE or NoLink.  pw counts the
   passwords somebody knows: 0 for an account created with a random one (Google,
   Telegram).  A row of app_sessions has, for the refinement below, asOf and
   late: the password version it was verified under, and whether a reset
   overtook it. *)
Link == [n : Nat, exp : Nat]
Row == [mail : Mails \cup {NONE}, pw : 0..MAX_PW, verified : BOOLEAN,
        sub : Googles \cup {NONE}, chat : Chats \cup {NONE},
        vlink : Link, rlink : Link, tlink : Link]
Session == [token : Tokens, a : Accounts, asOf : 0..MAX_PW, late : BOOLEAN, used : Nat, exp : Nat]

(* Requests in flight: one that writes a row, a sign-in that opens a session as
   well, a password being verified, a refresh token being traded. *)
Writing == [op : {"save", "unlink", "reset"}, a : Accounts, loaded : Row \cup {NONE}, wanted : Row,
            other : Accounts \cup {NONE}, n : Nat, met : BOOLEAN]
Opening == [op : {"signin"}, a : Accounts, loaded : Row \cup {NONE}, wanted : Row,
            other : Accounts \cup {NONE}, n : Nat, met : BOOLEAN,
            token : Tokens \cup {NONE}, stale : SUBSET Session, asOf : 0..MAX_PW, late : BOOLEAN]
Checking == [op : {"check"}, a : Accounts, ip : Sources, typed : 0..MAX_PW, remember : BOOLEAN]
Renewing == [op : {"refresh"}, s : Session, at : Nat]
Request == Writing \cup Opening \cup Checking \cup Renewing

ASSUME IdentityAssumption ==
    /\ NONE \notin Accounts \cup Mails \cup Chats \cup Googles \cup Tokens
    /\ NONE \notin Row /\ NONE \notin Request
    /\ MailOf \in [Googles -> Mails]
    /\ MAX_PW \in Nat \ {0}
    /\ {MAX_SESSIONS, SESSION_LIFE, ACCESS_LIFE, VERIFY_LIFE, RESET_LIFE, LINK_LIFE,
        MAX_TIME, MAX_LINKS, MAX_CALLS} \subseteq Nat

VARIABLES user,      \* the users table; NONE where the username is free
          session,   \* the app_sessions table
          req,       \* requests in flight
          calls,     \* requests served so far
          now,
          fails,     \* LOGIN_FAILS: times of the failed sign-ins, per address and username
          links,     \* how many one-time links were issued (their serial numbers)
          access,    \* access[a][v]: until when an access token issued under
                     \* password version v is accepted (v = LATE: overtaken)
          replaced,  \* history: when password version v was replaced
          dead,      \* history: links used, replaced by a newer one, or unlinked
          revived    \* history: a dead link was accepted by a request alone

vars == <<user, session, req, calls, now, fails, links, access, replaced, dead, revived>>

LATE == MAX_PW + 1
Stamps == 0..LATE
NoLink == [n |-> 0, exp |-> 0]

TypeOK ==
    /\ user \in [Accounts -> Row \cup {NONE}]
    /\ session \subseteq Session
    /\ req \in [Reqs -> Request \cup {NONE}]
    /\ calls \in Nat /\ now \in Nat /\ links \in Nat
    /\ access \in [Accounts -> [Stamps -> Int]]
    /\ replaced \in [Accounts -> [0..MAX_PW -> Int]]
    /\ dead \subseteq Nat /\ revived \in BOOLEAN

Known == {a \in Accounts : user[a] # NONE}
Version(a) == IF user[a] = NONE THEN 0 ELSE user[a].pw
ByMail(m) == {a \in Known : user[a].mail = m}
BySub(g) == {a \in Known : user[a].sub = g}
UserByChat(c) == {a \in Known : user[a].chat = c}
SessionsOf(a) == {s \in session : s.a = a}

(* One-time links: a fresh serial number stands for the random token. *)
CanIssue == links < MAX_LINKS
Fresh(life) == [n |-> links + 1, exp |-> now + life]

Init ==
    /\ user = [a \in Accounts |-> NONE]
    /\ session = {}
    /\ req = [r \in Reqs |-> NONE]
    /\ calls = 0
    /\ now = 0
    /\ fails = [k \in Sources \X Accounts |-> <<>>]
    /\ links = 0
    /\ access = [a \in Accounts |-> [v \in Stamps |-> -1]]
    /\ replaced = [a \in Accounts |-> [v \in 0..MAX_PW |-> -1]]
    /\ dead = {}
    /\ revived = FALSE

----------------------------------------------------------------------------
(* Requests in flight. *)

(* A request that will write row `wanted` over `loaded`; `other` is an
   account it will take the chat from, `n` the link it was made with. *)
Write(op, a, loaded, wanted, other, n) ==
    [op |-> op, a |-> a, loaded |-> loaded, wanted |-> wanted,
     other |-> other, n |-> n, met |-> FALSE]

(* A sign-in on its way to an app session: the token it will hand out (NONE
   without "remember me") and the sessions open_session decided to drop. *)
SignIn(w, token, stale) ==
    [op |-> "signin", a |-> w.a, loaded |-> w.loaded, wanted |-> w.wanted,
     other |-> NONE, n |-> 0, met |-> FALSE, token |-> token, stale |-> stale,
     asOf |-> Version(w.a), late |-> FALSE]

IsWrite(q) == q # NONE /\ q.op \notin {"check", "refresh"}
SigningIn == {r \in Reqs : IsWrite(req[r]) /\ req[r].op = "signin"}
Trading == {r \in Reqs : req[r] # NONE /\ req[r].op = "refresh"}

(* A new refresh token is none that anybody still holds, or is about to drop. *)
TokensInUse ==
    {s.token : s \in session}
    \cup {req[r].s.token : r \in Trading}
    \cup UNION {{req[r].token} \cup {d.token : d \in req[r].stale} : r \in SigningIn}

(* open_session's choice: expired rows go, then all but the most recently
   used MAX_SESSIONS - 1.  Ties are broken either way. *)
StaleSets(a) ==
    LET expired == {s \in SessionsOf(a) : s.exp < now}
        rest == SessionsOf(a) \ expired
        over == Cardinality(rest) - (MAX_SESSIONS - 1)
    IN {expired \cup drop : drop \in
          {D \in SUBSET rest :
             /\ Cardinality(D) = IF over > 0 THEN over ELSE 0
             /\ \A d \in D, k \in rest \ D : d.used <= k.used}}

Begin(r, q) ==
    /\ req[r] = NONE /\ calls < MAX_CALLS
    /\ req' = [req EXCEPT ![r] = q]
    /\ calls' = calls + 1

(* Grant(a, v): an access token, good for ACCESS_LIFE (create_token). *)
Grant(a, v) == [access EXCEPT ![a][v] = now + ACCESS_LIFE]
Stamp(q) == IF q.late THEN LATE ELSE q.asOf

(* require_auth: the token is signed and not expired; nothing else is looked at. *)
require_auth(a) == \E v \in Stamps : access[a][v] >= now

----------------------------------------------------------------------------
(* Commit: changed columns over the present row. *)

Flush(q, cur) == [f \in DOMAIN cur |-> IF q.wanted[f] # q.loaded[f] THEN q.wanted[f] ELSE cur[f]]

Saved(q) ==
    LET own == [user EXCEPT ![q.a] = IF q.loaded = NONE THEN q.wanted ELSE Flush(q, user[q.a])]
    IN IF q.other = NONE THEN own ELSE [own EXCEPT ![q.other].chat = NONE]

(* username, email, google_sub and telegram_id are unique columns. *)
Unique(q) ==
    LET t == Saved(q) IN
    /\ q.loaded = NONE => user[q.a] = NONE
    /\ \A a, b \in {x \in Accounts : t[x] # NONE} : a # b =>
          /\ t[a].mail # t[b].mail \/ t[a].mail = NONE
          /\ t[a].sub # t[b].sub \/ t[a].sub = NONE
          /\ t[a].chat # t[b].chat \/ t[a].chat = NONE

(* A password somebody knows is set: a reset, or a registration. *)
SetsPassword(q) == q.op = "reset" \/ (q.loaded = NONE /\ q.wanted.pw # 0)

(* The requests left in flight, the ones on the same rows marked as met, the
   sign-ins a new password overtakes as late. *)
Left(r, q) ==
    [x \in Reqs |->
        IF x = r THEN NONE
        ELSE IF ~IsWrite(req[x]) THEN req[x]
        ELSE LET p == req[x]
                 p1 == IF {p.a, p.other} \cap ({q.a, q.other} \ {NONE}) # {}
                       THEN [p EXCEPT !.met = TRUE] ELSE p
             IN IF SetsPassword(q) /\ p.op = "signin" /\ p.a = q.a THEN [p1 EXCEPT !.late = TRUE] ELSE p1]

LinksIn(row) == IF row = NONE THEN {} ELSE {row.vlink.n, row.rlink.n, row.tlink.n} \ {0}
Buried(q) == dead \cup (LinksIn(user[q.a]) \ LinksIn(Saved(q)[q.a])) \cup ({q.n} \ {0})
Revives(q) == revived \/ (q.n \in dead /\ ~q.met)

Done(r) == req' = [req EXCEPT ![r] = NONE]
Rollback(r) ==
    /\ Done(r)
    /\ UNCHANGED <<calls, user, session, now, fails, links, access, replaced, dead, revived>>

----------------------------------------------------------------------------
(* The mailbox. *)

(* register: username and address free, a confirmation link issued. *)
register(r, a, m) ==
    /\ a \notin Known /\ ByMail(m) = {} /\ CanIssue
    /\ Begin(r, Write("save", a, NONE,
                      [mail |-> m, pw |-> 1, verified |-> FALSE, sub |-> NONE, chat |-> NONE,
                       vlink |-> Fresh(VERIFY_LIFE), rlink |-> NoLink, tlink |-> NoLink], NONE, 0))
    /\ links' = links + 1
    /\ UNCHANGED <<user, session, now, fails, access, replaced, dead, revived>>

resend_verification(r, a) ==
    /\ a \in Known /\ require_auth(a) /\ CanIssue
    /\ ~user[a].verified /\ user[a].mail # NONE
    /\ Begin(r, Write("save", a, user[a], [user[a] EXCEPT !.vlink = Fresh(VERIFY_LIFE)], NONE, 0))
    /\ links' = links + 1
    /\ UNCHANGED <<user, session, now, fails, access, replaced, dead, revived>>

mark_verified(row) == [row EXCEPT !.verified = TRUE, !.vlink = NoLink]

verify_email(r, a) ==
    /\ a \in Known /\ user[a].vlink.n # 0 /\ now <= user[a].vlink.exp
    /\ Begin(r, Write("save", a, user[a], mark_verified(user[a]), NONE, user[a].vlink.n))
    /\ UNCHANGED <<user, session, now, fails, links, access, replaced, dead, revived>>

----------------------------------------------------------------------------
(* The password reset. *)

forgot_password(r, m) ==
    /\ CanIssue
    /\ \E a \in ByMail(m) :
          Begin(r, Write("save", a, user[a], [user[a] EXCEPT !.rlink = Fresh(RESET_LIFE)], NONE, 0))
    /\ links' = links + 1
    /\ UNCHANGED <<user, session, now, fails, access, replaced, dead, revived>>

(* Mutated form: the link survives its use. *)
ResetRowKeepsLink(row) ==
    [(IF row.verified THEN row ELSE mark_verified(row)) EXCEPT !.pw = @ + 1]

ResetRow(row) ==
    [(IF row.verified THEN row ELSE mark_verified(row)) EXCEPT !.pw = @ + 1, !.rlink = NoLink]

(* reset_password with a live link; with an expired one the link is cleared. *)
reset_password(r, a) ==
    /\ a \in Known /\ user[a].rlink.n # 0
    /\ IF now > user[a].rlink.exp
       THEN Begin(r, Write("save", a, user[a], [user[a] EXCEPT !.rlink = NoLink], NONE, 0))
       ELSE /\ user[a].pw < MAX_PW
            /\ Begin(r, Write("reset", a, user[a], ResetRow(user[a]), NONE, user[a].rlink.n))
    /\ UNCHANGED <<user, session, now, fails, links, access, replaced, dead, revived>>

(* Mutated form of close_all: only the sessions past their expiry go. *)
CloseExpired(a) == {s \in session : s.a # a \/ s.exp >= now}

close_all(a) == {s \in session : s.a # a}

(* The commit of a reset.  Each one sets a password of its own, so two that
   overlap count as two. *)
ResetSave(r) ==
    LET q == req[r] IN
    /\ q # NONE /\ q.op = "reset"
    /\ user[q.a].pw < MAX_PW
    /\ user' = [Saved(q) EXCEPT ![q.a].pw = user[q.a].pw + 1]
    /\ session' = close_all(q.a)
    /\ req' = Left(r, q)
    /\ replaced' = [replaced EXCEPT ![q.a][user[q.a].pw] = now]
    /\ dead' = Buried(q)
    /\ revived' = Revives(q)
    /\ UNCHANGED <<calls, now, fails, links, access>>

----------------------------------------------------------------------------
(* Signing in with a password. *)

(* What is typed is the present password or (0) a wrong one.  The limiter is
   asked before the handler's first await... *)
login(r, a, ip, typed, remember) ==
    /\ MayAct(fails[<<ip, a>>], now)
    /\ Begin(r, [op |-> "check", a |-> a, ip |-> ip, typed |-> typed, remember |-> remember])
    /\ UNCHANGED <<user, session, now, fails, links, access, replaced, dead, revived>>

(* verify_password: version 0 is the random password nobody can type. *)
Matches(q) == q.a \in Known /\ q.typed # 0 /\ user[q.a].pw = q.typed

(* ... and told of a failure after it. *)
LoginRefused(r) ==
    LET q == req[r] IN
    /\ q # NONE /\ q.op = "check"
    /\ ~Matches(q)
    /\ fails' = [fails EXCEPT ![<<q.ip, q.a>>] = Add(@, now)]
    /\ Done(r)
    /\ UNCHANGED <<calls, user, session, now, links, access, replaced, dead, revived>>

LoginVerified(r) ==
    LET q == req[r]
        a == q.a
    IN
    /\ q # NONE /\ q.op = "check"
    /\ Matches(q)
    /\ access' = Grant(a, user[a].pw)
    /\ IF q.remember
       THEN \E t \in Tokens \ TokensInUse, stale \in StaleSets(a) :
              req' = [req EXCEPT ![r] = SignIn(Write("signin", a, user[a], user[a], NONE, 0), t, stale)]
       ELSE Done(r)
    /\ UNCHANGED <<calls, user, session, now, fails, links, replaced, dead, revived>>

(* The commit of a sign-in, by password or Google.  Its own access token is
   older for a password (LoginVerified), new for Google (_signed_in). *)
SignInSave(r) ==
    LET q == req[r]
        new == IF q.token = NONE THEN {}
               ELSE {[token |-> q.token, a |-> q.a, asOf |-> q.asOf, late |-> q.late,
                      used |-> now, exp |-> now + SESSION_LIFE]}
        gone == {s \in session : s.token \in {d.token : d \in q.stale}}
    IN
    /\ q # NONE /\ q.op = "signin" /\ Unique(q)
    /\ user' = Saved(q)
    /\ session' = (session \ gone) \cup new
    /\ access' = Grant(q.a, Stamp(q))
    /\ req' = Left(r, q)
    /\ UNCHANGED <<calls, now, fails, links, replaced, dead, revived>>

----------------------------------------------------------------------------
(* The app's sign-in: trading the refresh token, signing out. *)

(* use_session, as refresh calls it, up to its commit. *)
refresh(r, s) ==
    /\ s \in session
    /\ Begin(r, [op |-> "refresh", s |-> s, at |-> now])
    /\ UNCHANGED <<user, session, now, fails, links, access, replaced, dead, revived>>

(* The row read, if it is still there at the commit. *)
RowOf(q) == {s \in session : s.token = q.s.token}

Lapsed(q) == q.s.exp <= q.at

(* Mutated form: the UPDATE that matched no row goes unnoticed. *)
GrantsBlindly(q) == ~Lapsed(q)

(* An UPDATE of a row that went meanwhile fails, and nothing is granted. *)
RefreshGrants(q) == RowOf(q) # {} /\ ~Lapsed(q)

(* An expired row is deleted, a live one moved ahead. *)
RefreshSave(r) ==
    LET q == req[r] IN
    /\ q # NONE /\ q.op = "refresh"
    /\ Done(r)
    /\ session' = (session \ RowOf(q)) \cup
                     {[s EXCEPT !.used = q.at, !.exp = q.at + SESSION_LIFE] :
                         s \in IF Lapsed(q) THEN {} ELSE RowOf(q)}
    /\ access' = IF RefreshGrants(q) THEN Grant(q.s.a, Stamp(q.s)) ELSE access
    /\ UNCHANGED <<calls, user, now, fails, links, replaced, dead, revived>>

logout(s) ==
    /\ s \in session
    /\ session' = session \ {s}
    /\ UNCHANGED <<calls, user, req, now, fails, links, access, replaced, dead, revived>>

----------------------------------------------------------------------------
(* Signing in with Google. *)

(* The address in an ID token that Google signed for this site and confirms. *)
verify_id_token(g) == MailOf[g]

(* Mutated form: an address nobody confirmed is enough. *)
GoogleMayTieAny(a) == TRUE

(* The account that has Google's address is signed in to only if its
   address was confirmed; "email_unconfirmed" otherwise. *)
GoogleMayTie(a) == user[a].verified

GoogleRow(a, g) == [user[a] EXCEPT !.sub = IF @ = NONE THEN g ELSE @]

NewGoogle(g) ==
    [mail |-> verify_id_token(g), pw |-> 0, verified |-> TRUE, sub |-> g, chat |-> NONE,
     vlink |-> NoLink, rlink |-> NoLink, tlink |-> NoLink]

(* Where a sign-in with Google g ends up: the account tied to g, else the one
   with its address, else a new one under a free username. *)
GoogleTargets(g) ==
    IF BySub(g) # {} THEN {[a |-> a, loaded |-> user[a], wanted |-> user[a]] : a \in BySub(g)}
    ELSE IF ByMail(verify_id_token(g)) # {}
    THEN {[a |-> a, loaded |-> user[a], wanted |-> GoogleRow(a, g)] :
            a \in {b \in ByMail(verify_id_token(g)) : GoogleMayTie(b)}}
    ELSE {[a |-> a, loaded |-> NONE, wanted |-> NewGoogle(g)] : a \in Accounts \ Known}

google_sign_in(r, g, remember) ==
    /\ \E w \in GoogleTargets(g) :
         IF remember
         THEN \E t \in Tokens \ TokensInUse, stale \in StaleSets(w.a) : Begin(r, SignIn(w, t, stale))
         ELSE Begin(r, SignIn(w, NONE, {}))
    /\ UNCHANGED <<user, session, now, fails, links, access, replaced, dead, revived>>

----------------------------------------------------------------------------
(* Telegram. *)

tg_link(r, a) ==
    /\ a \in Known /\ require_auth(a) /\ CanIssue
    /\ Begin(r, Write("save", a, user[a], [user[a] EXCEPT !.tlink = Fresh(LINK_LIFE)], NONE, 0))
    /\ links' = links + 1
    /\ UNCHANGED <<user, session, now, fails, access, replaced, dead, revived>>

tg_unlink(r, a) ==
    /\ a \in Known /\ require_auth(a)
    /\ Begin(r, Write("unlink", a, user[a], [user[a] EXCEPT !.chat = NONE, !.tlink = NoLink], NONE, 0))
    /\ UNCHANGED <<user, session, now, fails, links, access, replaced, dead, revived>>

(* The account the chat moves away from. *)
OtherOf(a, c) ==
    IF \E b \in UserByChat(c) : b # a THEN CHOOSE b \in UserByChat(c) : b # a ELSE NONE

(* Mutated form: the chat is taken from the other account and given to none. *)
TiedToNone(row, c) == [row EXCEPT !.tlink = NoLink]

Tied(row, c) == [row EXCEPT !.chat = c, !.tlink = NoLink]

(* _link in the code: /start with a link's token, from chat c. *)
link(r, a, c) ==
    /\ a \in Known /\ user[a].tlink.n # 0 /\ now <= user[a].tlink.exp
    /\ Begin(r, Write("save", a, user[a], Tied(user[a], c), OtherOf(a, c), user[a].tlink.n))
    /\ UNCHANGED <<user, session, now, fails, links, access, replaced, dead, revived>>

(* tg_link_webapp: signed in with the password inside Telegram. *)
tg_link_webapp(r, a, c) ==
    /\ a \in Known /\ require_auth(a)
    /\ Begin(r, Write("save", a, user[a], Tied(user[a], c), OtherOf(a, c), 0))
    /\ UNCHANGED <<user, session, now, fails, links, access, replaced, dead, revived>>

tg_login(c) ==
    /\ \E a \in UserByChat(c) : access' = Grant(a, user[a].pw)
    /\ UNCHANGED <<calls, user, session, req, now, fails, links, replaced, dead, revived>>

(* tg_register grants its access token with its commit, as Google does. *)
tg_register(r, a, c) ==
    /\ UserByChat(c) = {} /\ a \notin Known
    /\ Begin(r, SignIn([a |-> a, loaded |-> NONE,
                        wanted |-> [mail |-> NONE, pw |-> 0, verified |-> FALSE, sub |-> NONE, chat |-> c,
                                    vlink |-> NoLink, rlink |-> NoLink, tlink |-> NoLink]], NONE, {}))
    /\ UNCHANGED <<user, session, now, fails, links, access, replaced, dead, revived>>

----------------------------------------------------------------------------

Save(r) ==
    LET q == req[r] IN
    /\ q # NONE /\ q.op \in {"save", "unlink"} /\ Unique(q)
    /\ user' = Saved(q)
    /\ req' = Left(r, q)
    /\ dead' = Buried(q)
    /\ revived' = Revives(q)
    /\ UNCHANGED <<calls, session, now, fails, links, access, replaced>>

(* An IntegrityError, or a username taken meanwhile: nothing is written. *)
Clash(r) ==
    /\ IsWrite(req[r]) /\ req[r].op # "reset" /\ ~Unique(req[r])
    /\ Rollback(r)

Tick ==
    /\ now < MAX_TIME
    /\ now' = now + 1
    /\ UNCHANGED <<calls, user, session, req, fails, links, access, replaced, dead, revived>>

Next ==
    \/ Tick
    \/ \E s \in session : logout(s)
    \/ \E c \in Chats : tg_login(c)
    \/ \E r \in Reqs :
        \/ \E a \in Accounts, m \in Mails : register(r, a, m)
        \/ \E m \in Mails : forgot_password(r, m)
        \/ \E a \in Accounts :
            \/ resend_verification(r, a) \/ verify_email(r, a)
            \/ reset_password(r, a)
            \/ tg_link(r, a) \/ tg_unlink(r, a)
            \/ \E c \in Chats : link(r, a, c) \/ tg_link_webapp(r, a, c) \/ tg_register(r, a, c)
            \/ \E ip \in Sources, typed \in {0, Version(a)}, remember \in BOOLEAN :
                  login(r, a, ip, typed, remember)
        \/ \E g \in Googles, remember \in BOOLEAN : google_sign_in(r, g, remember)
        \/ \E s \in session : refresh(r, s)
        \/ LoginRefused(r) \/ LoginVerified(r)
        \/ SignInSave(r) \/ RefreshSave(r) \/ ResetSave(r) \/ Save(r) \/ Clash(r)

Spec == Init /\ [][Next]_vars

----------------------------------------------------------------------------
(* What is checked. *)

(* The portal's sign-ins are those of SignIns: begun when the password (or
   Google) was verified, open while their row exists. *)
Ticket(s) == [token |-> s.token, a |-> s.a, asOf |-> s.asOf, late |-> s.late]
BegunSignIns == {Ticket(req[r]) : r \in {x \in SigningIn : req[x].token # NONE}}
OpenSignIns == {Ticket(s) : s \in session}

Promise == INSTANCE SignIns WITH
    version <- [a \in Accounts |-> Version(a)], begun <- BegunSignIns, open <- OpenSignIns

KeepsPromise == Promise!Spec

(* An access token handed out under a password that was since replaced is
   refused ACCESS_LIFE after the reset at the latest, unless the sign-in
   behind it was being opened during the reset. *)
CutOffAfterReset ==
    \A a \in Accounts : \A v \in 0..MAX_PW :
        v < Version(a) => access[a][v] <= replaced[a][v] + ACCESS_LIFE

(* "single-use", "any earlier one stops working": a link that was used, that
   a newer one replaced or that an unlink cancelled is not accepted again by
   a request nothing overlapped. *)
LinksWorkOnce == ~revived

(* Google's account is tied to, and signs in to, the account whose confirmed
   address is its own. *)
GoogleTiedToItsMailbox ==
    \A a \in Known : user[a].sub # NONE => user[a].verified /\ user[a].mail = MailOf[user[a].sub]

(* A chat tied to an account leaves it for another account, or because the
   account unlinked or took another chat, or through requests that met. *)
ChatMoves ==
    [][\A a \in Known : user[a].chat # NONE /\ user'[a].chat = NONE =>
          \/ \E b \in Accounts : user'[b] # NONE /\ user'[b].chat = user[a].chat
          \/ \E r \in Reqs : /\ IsWrite(req[r]) /\ req'[r] = NONE
                             /\ req[r].op = "unlink" \/ req[r].met]_vars

(* Failed sign-ins to one account from one address within a window pass the
   limit by the ones that were in flight when it was reached and by no more; and
   a refused customer who waits as told is let in, unless they did pass it.  On
   an account alone there is no limit: the failures of other addresses are not
   to lock its owner out (ratelimit.py 98-102). *)
FailsWithinLimit ==
    \A k \in Sources \X Accounts :
        /\ Len(Prune(fails[k], now)) <= LIMIT + Cardinality(Reqs) - 1
        /\ LET w == RetryAfter(fails[k], now) IN
           Len(Prune(fails[k], now)) <= LIMIT => RetryAfter(fails[k], now + w) = 0
============================================================================
