----------------------------- MODULE TrialProofs ----------------------------
(***************************************************************************)
(* One trial each, for any number of accounts, mailboxes, Telegram         *)
(* accounts and requests.  A grant that is flushed and not committed is in *)
(* no table anybody can read; what keeps a second one out are the keys it  *)
(* locks.  KeysInv says so: the grants flushed and the grants committed    *)
(* never share a key, so that a commit adds one that clashes with nothing. *)
(***************************************************************************)
EXTENDS Trial, FiniteSetTheorems, TLAPS

\* A grant and a request name their account's inbox, or none.
InboxOf(mail, u) == mail # None => EmailOf[u] # None /\ mail = NormaliseEmail(EmailOf[u])
InboxInv ==
    /\ \A g \in grants : InboxOf(g.mail, g.user)
    /\ \A h \in Handlers : req[h].op = "trial" => InboxOf(req[h].mail, req[h].user)

\* The day's grants whose check ran alone.
Unraced == {g \in Today : ~g.raced}

AskedAlone(h) == req[h].op = "trial" /\ ~req[h].raced

\* The ceiling: of the requests whose check ran alone one at most is under way,
\* and while it is there is room for its grant.
CapInv ==
    /\ IsFiniteSet(grants)
    /\ \A h, i \in Handlers :
           AskedAlone(h) /\ AskedAlone(i) => h = i
    /\ \A h \in Handlers : AskedAlone(h) => Cardinality(Unraced) < Cap
    /\ Cardinality(Unraced) <= Cap

\* No key is held twice among the grants committed and flushed.
KeysInv ==
    /\ \A g, k \in grants : g # k => ~Clash(g, k)
    /\ \A h \in Handlers : Flushed(h) => \A k \in grants : ~Clash(k, GrantOf(h))
    /\ \A h, i \in Handlers : h # i /\ Flushed(h) /\ Flushed(i) => ~Clash(GrantOf(h), GrantOf(i))

\* A running request has its account; a purchase that loaded a trial's date
\* still finds one.
RequestInv ==
    \A h \in Handlers :
        /\ req[h].op # "idle" => req[h].user \in Users
        /\ Flushed(h) => req[h].until # 0
        /\ req[h].op = "pay" /\ req[h].until # 0 => until[req[h].user] # 0

\* Grant, device and end date come together.
SpentInv ==
    \A u \in Users :
        /\ issued[u] = IF \E g \in grants : g.user = u THEN 1 ELSE 0
        /\ until[u] # 0 <=> issued[u] # 0

\* An account no two of whose requests met: one request at most, a trial only
\* before the purchase, and a purchase that knows the trial's date.
AloneInv ==
    \A u \in Users \ met :
        /\ \A h, i \in Handlers : req[h].user = u /\ req[i].user = u => h = i
        /\ \A h \in Handlers : req[h].user = u /\ req[h].op = "trial" => u \notin paid
        /\ \A h \in Handlers : req[h].user = u /\ req[h].op = "pay" /\ req[h].at = "node"
                                 => req[h].until = until[u]
        /\ u \in paid => until[u] <= now

-----------------------------------------------------------------------------
\* Two grants clash in either order.
LEMMA ClashSymmetric == ASSUME NEW g, NEW k, Clash(g, k) PROVE Clash(k, g)
  BY DEF Clash, Same

\* An idle request is well formed.
LEMMA IdleIsRequest ==
  /\ IdleRequest \in Request
  /\ IdleRequest.op = "idle"
  /\ IdleRequest.until = 0
  BY DEF IdleRequest, Request

\* normalise_email makes an address out of an address ...
LEMMA NormIsAddress == ASSUME NEW u \in Users PROVE Norm(u) \in Address \cup {None}
  <1>1. \A a \in Address : NormaliseEmail(a) \in Address
    BY TrialAssumption DEF NormaliseEmail, Address
  <1> QED BY <1>1, EmailAssumption DEF Norm, Confirmed

\* ... and the same one out of two spellings of an inbox.
LEMMA OneInboxOneName ==
  ASSUME NEW a \in Address, NEW b \in Address, SameInbox(a, b)
  PROVE  NormaliseEmail(a) = NormaliseEmail(b)
  BY DEF SameInbox, NormaliseEmail, Address

\* Every step keeps the types.
LEMMA TypeStep == ASSUME TypeOK, RequestInv, [Next]_vars PROVE TypeOK'
  <1> USE TrialAssumption DEF TypeOK
  <1>1. ASSUME NEW u \in Users, VerifyEmail(u) PROVE TypeOK'
    BY <1>1 DEF VerifyEmail
  <1>2. ASSUME NEW u \in Users, NEW t \in Telegrams, Link(u, t) PROVE TypeOK'
    BY <1>2 DEF Link
  <1>3. ASSUME NEW u \in Users, Unlink(u) PROVE TypeOK'
    BY <1>3 DEF Unlink
  <1>4. ASSUME NEW u \in Users, ExpireTrial(u) PROVE TypeOK'
    BY <1>4 DEF ExpireTrial, accountVars
  <1>5. ASSUME NEW h \in Handlers, NEW u \in Users, TrialLook(h, u) PROVE TypeOK'
    <2> DEFINE raced == \E g \in Handlers : req[g].op = "trial"
    <2>1. Norm(u) \in Address \cup {None} /\ tg[u] \in Telegrams \cup {None} /\ now \in Nat
      BY NormIsAddress
    <2>2. raced \in BOOLEAN
      OBVIOUS
    <2>3. [IdleRequest EXCEPT !.op = "trial", !.user = u, !.mail = Norm(u), !.tg = tg[u],
                              !.day = now, !.raced = raced] \in Request
      <3> HIDE DEF raced
      <3> QED BY <2>1, <2>2 DEF IdleRequest, Request
    <2> QED BY <1>5, <2>3 DEF TrialLook, Begin, accountVars
  <1>6. ASSUME NEW h \in Handlers, NEW u \in Users, PayLook(h, u) PROVE TypeOK'
    <2>1. [IdleRequest EXCEPT !.op = "pay", !.at = "node", !.user = u,
                              !.until = until[u], !.held = on[u]] \in Request
      BY DEF IdleRequest, Request
    <2> QED BY <1>6, <2>1 DEF PayLook, Begin, accountVars
  <1>7. ASSUME NEW h \in Handlers, TrialFlush(h) PROVE TypeOK'
    <2>1. [req[h] EXCEPT !.at = "node", !.until = now + Days] \in Request
      <3>1. now + Days \in Nat
        OBVIOUS
      <3>2. \A r \in Request, n \in Nat : [r EXCEPT !.at = "node", !.until = n] \in Request
        BY Zenon DEF Request
      <3> QED BY <3>1, <3>2
    <2>2. req' \in [Handlers -> Request]
      BY <1>7, <2>1, IdleIsRequest DEF TrialFlush, End
    <2> QED BY <1>7, <2>2 DEF TrialFlush, accountVars
  <1>8. ASSUME NEW h \in Handlers, TrialIssued(h) PROVE TypeOK'
    <2>1. [req[h] EXCEPT !.at = "commit"] \in Request
      BY DEF Request
    <2> QED BY <1>8, <2>1 DEF TrialIssued, accountVars
  <1>9. ASSUME NEW h \in Handlers, TrialNotIssued(h) PROVE TypeOK'
    BY <1>9, IdleIsRequest DEF TrialNotIssued, AfterRollback, End, accountVars
  <1>10. ASSUME NEW h \in Handlers, TrialCommit(h) PROVE TypeOK'
    <2>1. req[h].user \in Users /\ req[h].until \in Nat
      BY <1>10 DEF TrialCommit, RequestInv, Request
    <2>2. GrantOf(h) \in Grant
      BY <2>1 DEF GrantOf, Grant, Request
    <2> QED BY <1>10, <2>1, <2>2, IdleIsRequest DEF TrialCommit, End, accountVars
  <1>11. ASSUME NEW h \in Handlers, PayFails(h) PROVE TypeOK'
    BY <1>11, IdleIsRequest DEF PayFails, End, accountVars
  <1>12. ASSUME NEW h \in Handlers, PayCommit(h) PROVE TypeOK'
    <2>1. req[h].user \in Users
      BY <1>12 DEF PayCommit, RequestInv
    <2>2. [req[h] EXCEPT !.at = "clean"] \in Request
      BY DEF Request
    <2>3. req' \in [Handlers -> Request]
      BY <1>12, <2>2, IdleIsRequest DEF PayCommit, End
    <2>4. until' \in [Users -> Nat]
      BY <1>12, <2>1 DEF PayCommit, Closed
    <2> QED BY <1>12, <2>1, <2>3, <2>4 DEF PayCommit
  <1>13. ASSUME NEW h \in Handlers, NEW ok \in BOOLEAN, PayClean(h, ok) PROVE TypeOK'
    <2>1. req[h].user \in Users
      BY <1>13 DEF PayClean, RequestInv
    <2> QED BY <1>13, <2>1, IdleIsRequest DEF PayClean, Removes, End, accountVars
  <1>14. CASE Tick
    BY <1>14 DEF Tick, accountVars
  <1>15. CASE Crash
    BY <1>15, IdleIsRequest DEF Crash, accountVars
  <1>16. CASE UNCHANGED vars
    BY <1>16 DEF vars, accountVars
  <1> QED
    BY <1>1, <1>2, <1>3, <1>4, <1>5, <1>6, <1>7, <1>8, <1>9, <1>10, <1>11, <1>12,
       <1>13, <1>14, <1>15, <1>16 DEF Next

\* What a request holds stays true of the tables.
LEMMA RequestStep == ASSUME TypeOK, RequestInv, [Next]_vars PROVE RequestInv'
  <1> USE TrialAssumption DEF TypeOK
  <1>1. ASSUME NEW u \in Users,
               VerifyEmail(u) \/ Unlink(u) \/ ExpireTrial(u)
                 \/ (\E t \in Telegrams : Link(u, t))
        PROVE RequestInv'
    BY <1>1 DEF RequestInv, Flushed, VerifyEmail, Unlink, ExpireTrial, Link
  <1>2. ASSUME NEW h \in Handlers, NEW u \in Users, TrialLook(h, u) PROVE RequestInv'
    <2>1. req' = [req EXCEPT ![h] = req'[h]] /\ until' = until
      BY <1>2 DEF TrialLook, Begin
    <2>2. req'[h].op = "trial" /\ req'[h].user = u /\ req'[h].at = "looked"
      BY <1>2 DEF TrialLook, Begin, IdleRequest
    <2> QED BY <2>1, <2>2 DEF RequestInv, Flushed
  <1>3. ASSUME NEW h \in Handlers, NEW u \in Users, PayLook(h, u) PROVE RequestInv'
    <2>1. req' = [req EXCEPT ![h] = req'[h]] /\ until' = until
      BY <1>3 DEF PayLook, Begin
    <2>2. req'[h].op = "pay" /\ req'[h].user = u /\ req'[h].until = until[u]
      BY <1>3 DEF PayLook, Begin, IdleRequest
    <2> QED BY <2>1, <2>2 DEF RequestInv, Flushed
  <1>4. ASSUME NEW h \in Handlers, TrialFlush(h) \/ TrialIssued(h) \/ TrialNotIssued(h)
        PROVE RequestInv'
    <2>1. req' = [req EXCEPT ![h] = req'[h]] /\ until' = until
      BY <1>4 DEF TrialFlush, TrialIssued, TrialNotIssued, End
    <2>2. \/ req'[h] = IdleRequest
          \/ /\ req'[h].op = "trial" /\ req'[h].user = req[h].user
             /\ req'[h].until = now + Days \/ (Flushed(h) /\ req'[h].until = req[h].until)
      BY <1>4 DEF TrialFlush, TrialIssued, TrialNotIssued, End, Request, Flushed
    <2>3. req[h].op = "trial"
      BY <1>4 DEF TrialFlush, TrialIssued, TrialNotIssued
    <2> QED BY <2>1, <2>2, <2>3, IdleIsRequest DEF RequestInv, Flushed
  <1>5. ASSUME NEW h \in Handlers, TrialCommit(h) PROVE RequestInv'
    <2>1. req' = [req EXCEPT ![h] = IdleRequest]
      BY <1>5 DEF TrialCommit, End
    <2>2. until' = [until EXCEPT ![req[h].user] = req[h].until] /\ req[h].until # 0
      BY <1>5 DEF TrialCommit, RequestInv, Flushed
    <2> QED BY <2>1, <2>2, IdleIsRequest DEF RequestInv, Flushed
  <1>6. ASSUME NEW h \in Handlers, PayCommit(h) PROVE RequestInv'
    <2>1. req' = [req EXCEPT ![h] = req'[h]]
      BY <1>6 DEF PayCommit, End
    <2>2. \/ req'[h] = IdleRequest
          \/ req'[h].op = "pay" /\ req'[h].user = req[h].user /\ req'[h].until = req[h].until
      BY <1>6 DEF PayCommit, End, Request
    <2>3. /\ until' \in [Users -> Nat]
          /\ \A u \in Users : until[u] # 0 => until'[u] # 0
      BY <1>6 DEF PayCommit, Closed, RequestInv
    <2>4. req[h].op = "pay"
      BY <1>6 DEF PayCommit
    <2> QED BY <2>1, <2>2, <2>3, <2>4, IdleIsRequest DEF RequestInv, Flushed
  <1>7. ASSUME NEW h \in Handlers,
               PayFails(h) \/ (\E ok \in BOOLEAN : PayClean(h, ok))
        PROVE RequestInv'
    <2>1. req' = [req EXCEPT ![h] = IdleRequest] /\ until' = until
      BY <1>7 DEF PayFails, PayClean, End
    <2> QED BY <2>1, IdleIsRequest DEF RequestInv, Flushed
  <1>8. CASE Tick \/ Crash \/ UNCHANGED vars
    BY <1>8, IdleIsRequest DEF Tick, Crash, vars, RequestInv, Flushed
  <1> QED
    BY <1>1, <1>2, <1>3, <1>4, <1>5, <1>6, <1>7, <1>8 DEF Next

\* A step that commits no grant and flushes none keeps the keys apart.
LEMMA KeysFrame ==
  ASSUME TypeOK, KeysInv, grants' = grants,
         \A i \in Handlers : Flushed(i)' => Flushed(i) /\ GrantOf(i)' = GrantOf(i)
  PROVE  KeysInv'
  BY DEF KeysInv, Clash, Same

\* A flush takes keys nobody holds; a commit turns them into a grant.
LEMMA KeysStep == ASSUME TypeOK, RequestInv, KeysInv, [Next]_vars PROVE KeysInv'
  <1> USE DEF TypeOK
  <1>1. ASSUME NEW h \in Handlers, TrialFlush(h), req'[h].at = "node" PROVE KeysInv'
    <2>1. /\ \A i \in Handlers : GrantOf(i)' = GrantOf(i)
          /\ \A i \in Handlers \ {h} : Flushed(i)' = Flushed(i)
      <3>1. CASE \E k \in grants : Clash(k, GrantOf(h))
        BY <1>1, <3>1 DEF TrialFlush, End, IdleRequest
      <3>2. CASE ~\E k \in grants : Clash(k, GrantOf(h))
        <4>1. req' = [req EXCEPT ![h].at = "node", ![h].until = now + Days]
          BY <1>1, <3>2 DEF TrialFlush
        <4> QED BY <4>1 DEF GrantOf, Flushed, Request
      <3> QED BY <3>1, <3>2
    <2>2. ~\E k \in grants : Clash(k, GrantOf(h))
      BY <1>1 DEF TrialFlush, End, IdleRequest
    <2>3. grants' = grants
      BY <1>1 DEF TrialFlush
    <2>4. \A i \in Handlers \ {h} : Flushed(i) => ~Clash(GrantOf(i), GrantOf(h))
      BY <1>1 DEF TrialFlush
    <2>5. \A i \in Handlers \ {h} : Flushed(i) => ~Clash(GrantOf(h), GrantOf(i))
      BY <2>4, ClashSymmetric
    <2>6. ASSUME NEW i \in Handlers, Flushed(i)', NEW k \in grants'
          PROVE  ~Clash(k, GrantOf(i)')
      BY <2>1, <2>2, <2>3, <2>6 DEF KeysInv
    <2>7. ASSUME NEW i \in Handlers, NEW j \in Handlers, i # j, Flushed(i)', Flushed(j)'
          PROVE  ~Clash(GrantOf(i)', GrantOf(j)')
      BY <2>1, <2>4, <2>5, <2>7 DEF KeysInv
    <2> QED BY <2>3, <2>6, <2>7 DEF KeysInv, Clash, Same
  <1>2. ASSUME NEW h \in Handlers, TrialCommit(h) PROVE KeysInv'
    <2>1. Flushed(h) /\ grants' = grants \cup {GrantOf(h)}
      BY <1>2 DEF TrialCommit, Flushed
    <2>2. /\ ~Flushed(h)'
          /\ \A i \in Handlers \ {h} : Flushed(i)' = Flushed(i) /\ GrantOf(i)' = GrantOf(i)
      BY <1>2 DEF TrialCommit, End, IdleRequest, Flushed, GrantOf
    <2>3. \A g, k \in grants' : g # k => ~Clash(g, k)
      BY <2>1, ClashSymmetric DEF KeysInv
    <2>4. ASSUME NEW i \in Handlers, Flushed(i)', NEW k \in grants'
          PROVE  ~Clash(k, GrantOf(i)')
      BY <2>1, <2>2, <2>4 DEF KeysInv
    <2>5. ASSUME NEW i \in Handlers, NEW j \in Handlers, i # j, Flushed(i)', Flushed(j)'
          PROVE  ~Clash(GrantOf(i)', GrantOf(j)')
      BY <2>2, <2>5 DEF KeysInv
    <2> QED BY <2>3, <2>4, <2>5 DEF KeysInv, Clash, Same
  <1>3. ASSUME NEW h \in Handlers,
               \/ TrialFlush(h) /\ req'[h].at # "node"
               \/ TrialIssued(h) \/ TrialNotIssued(h)
        PROVE KeysInv'
    <2>1. grants' = grants
      BY <1>3 DEF TrialFlush, TrialIssued, TrialNotIssued, AfterRollback
    <2>2. \A i \in Handlers : Flushed(i)' => Flushed(i) /\ GrantOf(i)' = GrantOf(i)
      <3>1. CASE TrialIssued(h)
        <4>1. req' = [req EXCEPT ![h].at = "commit"] /\ Flushed(h)
          BY <3>1 DEF TrialIssued, Flushed
        <4> QED BY <4>1 DEF Flushed, GrantOf, Request
      <3>2. CASE req' = [req EXCEPT ![h] = IdleRequest]
        BY <3>2 DEF Flushed, GrantOf, IdleRequest
      <3>3. TrialIssued(h) \/ req' = [req EXCEPT ![h] = IdleRequest]
        BY <1>3 DEF TrialFlush, TrialNotIssued, End, Request
      <3> QED BY <3>1, <3>2, <3>3
    <2> QED BY <2>1, <2>2, KeysFrame
  <1>4. ASSUME NEW h \in Handlers, NEW u \in Users, TrialLook(h, u) \/ PayLook(h, u)
        PROVE KeysInv'
    <2>1. grants' = grants /\ req' = [req EXCEPT ![h] = req'[h]]
      BY <1>4 DEF TrialLook, PayLook, Begin
    <2>2. req'[h].op = "pay" \/ req'[h].at = "looked"
      <3>1. TrialLook(h, u) => req'[h].at = "looked"
        BY DEF TrialLook, Begin, IdleRequest
      <3>2. PayLook(h, u) => req'[h].op = "pay"
        BY DEF PayLook, Begin, IdleRequest
      <3> QED BY <1>4, <3>1, <3>2
    <2>3. \A i \in Handlers : Flushed(i)' => Flushed(i) /\ GrantOf(i)' = GrantOf(i)
      BY <2>1, <2>2 DEF Flushed, GrantOf
    <2> QED BY <2>1, <2>3, KeysFrame
  <1>5. ASSUME NEW h \in Handlers,
               PayFails(h) \/ PayCommit(h) \/ (\E ok \in BOOLEAN : PayClean(h, ok))
        PROVE KeysInv'
    <2>1. grants' = grants /\ req' = [req EXCEPT ![h] = req'[h]]
      BY <1>5 DEF PayFails, PayCommit, PayClean, End
    <2>2. req'[h].op \in {"pay", "idle"}
      BY <1>5 DEF PayFails, PayCommit, PayClean, End, IdleRequest, Request
    <2>3. \A i \in Handlers : Flushed(i)' => Flushed(i) /\ GrantOf(i)' = GrantOf(i)
      BY <2>1, <2>2 DEF Flushed, GrantOf
    <2> QED BY <2>1, <2>3, KeysFrame
  <1>6. CASE Crash
    <2>1. \A i \in Handlers : Flushed(i)' => Flushed(i) /\ GrantOf(i)' = GrantOf(i)
      BY <1>6 DEF Crash, Flushed, IdleRequest
    <2> QED BY <1>6, <2>1, KeysFrame DEF Crash
  <1>7. ASSUME grants' = grants, req' = req PROVE KeysInv'
    BY <1>7, KeysFrame DEF Flushed, GrantOf
  <1>8. CASE \/ Tick \/ UNCHANGED vars
             \/ \E u \in Users : VerifyEmail(u) \/ Unlink(u) \/ ExpireTrial(u)
             \/ \E u \in Users, t \in Telegrams : Link(u, t)
    BY <1>7, <1>8 DEF Tick, vars, VerifyEmail, Unlink, ExpireTrial, Link
  <1> QED
    BY <1>1, <1>2, <1>3, <1>4, <1>5, <1>6, <1>8 DEF Next

\* A commit writes grant, device and date; nothing takes one of them back.
LEMMA SpentStep ==
  ASSUME TypeOK, RequestInv, KeysInv, SpentInv, [Next]_vars PROVE SpentInv'
  <1> USE TrialAssumption DEF TypeOK
  <1>1. ASSUME NEW h \in Handlers, TrialCommit(h) PROVE SpentInv'
    <2> DEFINE u == req[h].user
    <2>1. Flushed(h) /\ u \in Users /\ req[h].until # 0
      BY <1>1 DEF TrialCommit, Flushed, RequestInv
    <2>2. grants' = grants \cup {GrantOf(h)} /\ GrantOf(h).user = u
      BY <1>1 DEF TrialCommit, GrantOf
    <2>3. ~\E g \in grants : g.user = u
      BY <2>1, <2>2 DEF KeysInv, Clash
    <2>4. /\ issued' = [issued EXCEPT ![u] = @ + 1]
          /\ until' = [until EXCEPT ![u] = req[h].until]
      BY <1>1 DEF TrialCommit
    <2>5. issued'[u] = 1 /\ until'[u] # 0
      BY <2>1, <2>3, <2>4 DEF SpentInv
    <2>6. \A v \in Users \ {u} : /\ issued'[v] = issued[v] /\ until'[v] = until[v]
                                 /\ (\E g \in grants' : g.user = v) <=> (\E g \in grants : g.user = v)
      BY <2>2, <2>4
    <2> HIDE DEF u
    <2> QED BY <2>2, <2>5, <2>6 DEF SpentInv
  <1>2. ASSUME NEW h \in Handlers, PayCommit(h) PROVE SpentInv'
    <2>1. req[h].user \in Users /\ req[h].until \in Nat
      BY <1>2 DEF PayCommit, RequestInv, Request
    <2>2. req[h].until # 0 => until[req[h].user] # 0
      BY <1>2 DEF PayCommit, RequestInv
    <2>3. \A u \in Users : until'[u] # 0 <=> until[u] # 0
      BY <1>2, <2>1, <2>2 DEF PayCommit, Closed
    <2> QED BY <1>2, <2>3 DEF PayCommit, SpentInv
  <1>3. ASSUME grants' = grants, issued' = issued, until' = until PROVE SpentInv'
    BY <1>3 DEF SpentInv
  <1>4. CASE \/ Tick \/ Crash \/ UNCHANGED vars
             \/ \E u \in Users : VerifyEmail(u) \/ Unlink(u) \/ ExpireTrial(u)
             \/ \E u \in Users, t \in Telegrams : Link(u, t)
    BY <1>3, <1>4 DEF Tick, Crash, vars, VerifyEmail, Unlink, ExpireTrial, Link
  <1>5. ASSUME NEW h \in Handlers,
               \/ \E u \in Users : TrialLook(h, u) \/ PayLook(h, u)
               \/ TrialFlush(h) \/ TrialIssued(h) \/ TrialNotIssued(h) \/ PayFails(h)
               \/ \E ok \in BOOLEAN : PayClean(h, ok)
        PROVE SpentInv'
    BY <1>3, <1>5 DEF TrialLook, PayLook, TrialFlush, TrialIssued, TrialNotIssued,
                      AfterRollback, PayFails, PayClean
  <1> QED
    BY <1>1, <1>2, <1>4, <1>5 DEF Next

\* A request ends and writes nothing that AloneInv is about.
LEMMA AloneEnd ==
  ASSUME TypeOK, AloneInv, NEW h \in Handlers, End(h),
         met' = met, paid' = paid, until' = until, now' = now
  PROVE  AloneInv'
  BY TrialAssumption DEF TypeOK, AloneInv, End, IdleRequest

\* Without a meeting a request finds the account as it left it.
LEMMA AloneStep == ASSUME TypeOK, RequestInv, AloneInv, [Next]_vars PROVE AloneInv'
  <1> USE TrialAssumption DEF TypeOK
  <1>1. ASSUME NEW h \in Handlers, NEW u \in Users, TrialLook(h, u) PROVE AloneInv'
    <2>1. /\ req' = [req EXCEPT ![h] = req'[h]] /\ req[h].op = "idle"
          /\ paid' = paid /\ until' = until /\ now' = now
      BY <1>1 DEF TrialLook, Begin, Idle, accountVars
    <2>2. req'[h].user = u /\ req'[h].op = "trial" /\ u \notin paid
      BY <1>1 DEF TrialLook, Begin, IdleRequest, NeverHad
    <2>3. met' = IF \E g \in Handlers : req[g].user = u THEN met \cup {u} ELSE met
      BY <1>1 DEF TrialLook, Begin, IdleRequest
    <2> QED BY <2>1, <2>2, <2>3 DEF AloneInv
  <1>2. ASSUME NEW h \in Handlers, NEW u \in Users, PayLook(h, u) PROVE AloneInv'
    <2>1. /\ req' = [req EXCEPT ![h] = req'[h]] /\ req[h].op = "idle"
          /\ paid' = paid /\ until' = until /\ now' = now
      BY <1>2 DEF PayLook, Begin, Idle, accountVars
    <2>2. req'[h].user = u /\ req'[h].op = "pay" /\ req'[h].until = until[u]
      BY <1>2 DEF PayLook, Begin, IdleRequest
    <2>3. met' = IF \E g \in Handlers : req[g].user = u THEN met \cup {u} ELSE met
      BY <1>2 DEF PayLook, Begin, IdleRequest
    <2> QED BY <2>1, <2>2, <2>3 DEF AloneInv
  <1>3. ASSUME NEW h \in Handlers, TrialFlush(h) \/ TrialIssued(h) \/ TrialNotIssued(h)
        PROVE AloneInv'
    <2>1. /\ met' = met /\ paid' = paid /\ until' = until /\ now' = now
          /\ req[h].op = "trial"
      BY <1>3 DEF TrialFlush, TrialIssued, TrialNotIssued, accountVars
    <2>2. CASE End(h)
      BY <2>1, <2>2, AloneEnd
    <2>3. CASE ~End(h)
      <3>1. /\ req' = [req EXCEPT ![h] = req'[h]]
            /\ req'[h].op = "trial" /\ req'[h].user = req[h].user
        BY <1>3, <2>3 DEF TrialFlush, TrialIssued, TrialNotIssued, Request
      <3> QED BY <2>1, <3>1 DEF AloneInv
    <2> QED BY <2>2, <2>3
  <1>4. ASSUME NEW h \in Handlers, TrialCommit(h) PROVE AloneInv'
    <2>1. req[h].op = "trial" /\ req[h].user \in Users
      BY <1>4 DEF TrialCommit, RequestInv
    <2>2. /\ met' = met /\ paid' = paid /\ now' = now
          /\ until' = [until EXCEPT ![req[h].user] = req[h].until]
          /\ req' = [req EXCEPT ![h] = IdleRequest]
      BY <1>4 DEF TrialCommit, End, accountVars
    <2> QED BY <2>1, <2>2 DEF AloneInv, IdleRequest
  <1>5. ASSUME NEW h \in Handlers, PayCommit(h) PROVE AloneInv'
    <2>1. /\ req[h].op = "pay" /\ req[h].at = "node"
          /\ req[h].user \in Users /\ req[h].until \in Nat
      BY <1>5 DEF PayCommit, RequestInv, Request
    <2>2. met' = met /\ now' = now /\ paid' = paid \cup {req[h].user} /\ until' = Closed(h)
      BY <1>5 DEF PayCommit
    <2>3. /\ req' = [req EXCEPT ![h] = req'[h]]
          /\ req'[h].user \in {None, req[h].user}
          /\ req'[h].op # "trial" /\ (req'[h].op = "pay" => req'[h].at = "clean")
      BY <1>5 DEF PayCommit, End, IdleRequest, Request
    <2>4. \A u \in Users \ {req[h].user} : until'[u] = until[u]
      BY <2>1, <2>2 DEF Closed
    <2>5. req[h].user \notin met => until'[req[h].user] <= now
      BY <2>1, <2>2 DEF Closed, AloneInv
    <2> QED BY <2>1, <2>2, <2>3, <2>4, <2>5 DEF AloneInv
  <1>6. ASSUME NEW h \in Handlers,
               PayFails(h) \/ (\E ok \in BOOLEAN : PayClean(h, ok))
        PROVE AloneInv'
    BY <1>6, AloneEnd DEF PayFails, PayClean, accountVars
  <1>7. CASE Crash
    BY <1>7 DEF Crash, AloneInv, IdleRequest, accountVars
  <1>8. CASE Tick
    BY <1>8 DEF Tick, AloneInv, accountVars
  <1>9. CASE \/ UNCHANGED vars
             \/ \E u \in Users : VerifyEmail(u) \/ Unlink(u) \/ ExpireTrial(u)
             \/ \E u \in Users, t \in Telegrams : Link(u, t)
    <2>1. met' = met /\ paid' = paid /\ until' = until /\ now' = now /\ req' = req
      BY <1>9 DEF vars, accountVars, VerifyEmail, Unlink, ExpireTrial, Link
    <2> QED BY <2>1 DEF AloneInv
  <1> QED
    BY <1>1, <1>2, <1>3, <1>4, <1>5, <1>6, <1>7, <1>8, <1>9 DEF Next

-----------------------------------------------------------------------------
\* Grants are for the inbox of their account.
LEMMA InboxStep == ASSUME TypeOK, RequestInv, InboxInv, [Next]_vars PROVE InboxInv'
  <1> USE DEF TypeOK
  <1>1. ASSUME NEW h \in Handlers, NEW u \in Users, TrialLook(h, u) PROVE InboxInv'
    <2>1. req' = [req EXCEPT ![h] = req'[h]] /\ grants' = grants
      BY <1>1 DEF TrialLook, Begin
    <2>2. req'[h].user = u /\ req'[h].mail = Norm(u)
      BY <1>1 DEF TrialLook, Begin, IdleRequest
    <2>3. InboxOf(Norm(u), u)
      BY DEF Norm, Confirmed, InboxOf
    <2> QED BY <2>1, <2>2, <2>3 DEF InboxInv
  <1>2. ASSUME NEW h \in Handlers, TrialCommit(h) PROVE InboxInv'
    <2>1. /\ grants' = grants \cup {GrantOf(h)}
          /\ req' = [req EXCEPT ![h] = IdleRequest]
      BY <1>2 DEF TrialCommit, End
    <2>2. InboxOf(GrantOf(h).mail, GrantOf(h).user)
      BY <1>2 DEF TrialCommit, InboxInv, GrantOf
    <2> QED BY <2>1, <2>2, IdleIsRequest DEF InboxInv
  <1>3. ASSUME NEW h \in Handlers,
               \/ TrialFlush(h) \/ TrialIssued(h) \/ TrialNotIssued(h)
               \/ PayFails(h) \/ PayCommit(h)
               \/ \E u \in Users : PayLook(h, u)
               \/ \E ok \in BOOLEAN : PayClean(h, ok)
        PROVE InboxInv'
    <2>1. grants' = grants /\ req' = [req EXCEPT ![h] = req'[h]]
      BY <1>3 DEF TrialFlush, TrialIssued, TrialNotIssued, AfterRollback, PayFails,
                  PayCommit, PayLook, PayClean, Begin, End
    <2>2. \/ req'[h].op # "trial"
          \/ req[h].op = "trial" /\ req'[h].mail = req[h].mail /\ req'[h].user = req[h].user
      <3>1. CASE TrialFlush(h) \/ TrialIssued(h)
        BY <3>1 DEF TrialFlush, TrialIssued, End, IdleRequest, Request
      <3>2. CASE TrialNotIssued(h) \/ PayFails(h) \/ (\E ok \in BOOLEAN : PayClean(h, ok))
        BY <3>2 DEF TrialNotIssued, PayFails, PayClean, End, IdleRequest
      <3>3. CASE PayCommit(h)
        BY <3>3 DEF PayCommit, End, IdleRequest, Request
      <3>4. CASE \E u \in Users : PayLook(h, u)
        BY <3>4 DEF PayLook, Begin, IdleRequest
      <3> QED BY <1>3, <3>1, <3>2, <3>3, <3>4
    <2> QED BY <2>1, <2>2 DEF InboxInv
  <1>4. CASE Crash
    BY <1>4, IdleIsRequest DEF Crash, InboxInv
  <1>5. CASE \/ UNCHANGED vars \/ Tick
             \/ \E u \in Users : VerifyEmail(u) \/ Unlink(u) \/ ExpireTrial(u)
             \/ \E u \in Users, t \in Telegrams : Link(u, t)
    <2>1. grants' = grants /\ req' = req
      BY <1>5 DEF vars, Tick, VerifyEmail, Unlink, ExpireTrial, Link
    <2> QED BY <2>1 DEF InboxInv
  <1> QED BY <1>1, <1>2, <1>3, <1>4, <1>5 DEF Next

-----------------------------------------------------------------------------
\* While no grant is added the day's grants can only become fewer.
LEMMA UnracedShrinks ==
  ASSUME TypeOK, TypeOK', IsFiniteSet(grants), grants' = grants, now' \in {now, now + 1}
  PROVE  Cardinality(Unraced') <= Cardinality(Unraced)
  <1>1. Unraced' \subseteq Unraced
    BY TrialAssumption DEF Unraced, Today, TypeOK, Grant
  <1>2. IsFiniteSet(Unraced)
    BY FS_Subset DEF Unraced, Today
  <1> QED BY <1>1, <1>2, FS_Subset

\* The numbers of the day's grants are numbers.
LEMMA UnracedIsCounted ==
  ASSUME IsFiniteSet(grants)
  PROVE  /\ IsFiniteSet(Today) /\ IsFiniteSet(Unraced)
         /\ Cardinality(Unraced) \in Nat /\ Cardinality(Today) \in Nat
         /\ Cardinality(Unraced) <= Cardinality(Today)
  <1>1. IsFiniteSet(Today) /\ IsFiniteSet(Unraced) /\ Unraced \subseteq Today
    BY FS_Subset DEF Unraced, Today
  <1> QED BY <1>1, FS_Subset, FS_CardinalityType

\* No step passes the ceiling but those that raced for it.
LEMMA CapStep == ASSUME TypeOK, TypeOK', CapInv, [Next]_vars PROVE CapInv'
  <1> USE TrialAssumption DEF TypeOK
  <1>0. IsFiniteSet(grants) /\ Cardinality(Unraced) \in Nat
    BY UnracedIsCounted DEF CapInv
  <1>1. ASSUME NEW h \in Handlers, NEW u \in Users, TrialLook(h, u) PROVE CapInv'
    <2>1. req' = [req EXCEPT ![h] = req'[h]] /\ grants' = grants /\ now' = now
      BY <1>1 DEF TrialLook, Begin
    <2>2. /\ req'[h].op = "trial"
          /\ ~req'[h].raced => \A i \in Handlers : req[i].op # "trial"
      BY <1>1 DEF TrialLook, Begin, IdleRequest
    <2>3. Unraced' = Unraced
      BY <2>1 DEF Unraced, Today
    <2>4. Cardinality(Unraced) < Cap
      BY <1>0, <1>1, UnracedIsCounted DEF TrialLook, RoomToday
    <2> QED BY <1>0, <2>1, <2>2, <2>3, <2>4 DEF CapInv, AskedAlone
  <1>2. ASSUME NEW h \in Handlers, TrialCommit(h) PROVE CapInv'
    <2>1. /\ grants' = grants \cup {GrantOf(h)} /\ now' = now
          /\ req' = [req EXCEPT ![h] = IdleRequest]
          /\ req[h].op = "trial"
      BY <1>2 DEF TrialCommit, End
    <2>2. IsFiniteSet(grants')
      BY <1>0, <2>1, FS_AddElement
    <2>3. CASE req[h].raced
      <3>1. Unraced' = Unraced
        BY <2>1, <2>3 DEF Unraced, Today, GrantOf
      <3> QED BY <2>1, <2>2, <3>1, IdleIsRequest DEF CapInv, AskedAlone
    <2>4. CASE ~req[h].raced
      <3>1. \A i \in Handlers : ~AskedAlone(i)'
        BY <2>1, <2>4, IdleIsRequest DEF CapInv, AskedAlone
      <3>2. Cardinality(Unraced) < Cap
        BY <2>1, <2>4 DEF CapInv, AskedAlone
      <3>3. Unraced' \subseteq Unraced \cup {GrantOf(h)}
        BY <2>1 DEF Unraced, Today
      <3>4. /\ IsFiniteSet(Unraced \cup {GrantOf(h)})
            /\ Cardinality(Unraced \cup {GrantOf(h)}) <= Cardinality(Unraced) + 1
        <4>1. IsFiniteSet(Unraced)
          BY <1>0, UnracedIsCounted
        <4>2. /\ IsFiniteSet(Unraced \cup {GrantOf(h)})
              /\ \/ Cardinality(Unraced \cup {GrantOf(h)}) = Cardinality(Unraced)
                 \/ Cardinality(Unraced \cup {GrantOf(h)}) = Cardinality(Unraced) + 1
          BY <4>1, FS_AddElement, Zenon
        <4> QED BY <1>0, <4>2
      <3>5. /\ Cardinality(Unraced') <= Cardinality(Unraced \cup {GrantOf(h)})
            /\ Cardinality(Unraced') \in Nat /\ Cardinality(Unraced \cup {GrantOf(h)}) \in Nat
        BY <3>3, <3>4, FS_Subset, FS_CardinalityType
      <3>6. Cardinality(Unraced') <= Cap
        BY <1>0, <3>2, <3>4, <3>5
      <3> QED BY <2>2, <3>1, <3>6 DEF CapInv
    <2> QED BY <2>3, <2>4
  <1>3. ASSUME NEW h \in Handlers,
               \/ TrialFlush(h) \/ TrialIssued(h) \/ TrialNotIssued(h)
               \/ PayFails(h) \/ PayCommit(h)
               \/ \E u \in Users : PayLook(h, u)
               \/ \E ok \in BOOLEAN : PayClean(h, ok)
        PROVE CapInv'
    <2>1. grants' = grants /\ now' = now /\ req' = [req EXCEPT ![h] = req'[h]]
      BY <1>3 DEF TrialFlush, TrialIssued, TrialNotIssued, AfterRollback, PayFails,
                  PayCommit, PayLook, PayClean, Begin, End
    <2>2. \/ req'[h].op # "trial"
          \/ req[h].op = "trial" /\ req'[h].raced = req[h].raced
      <3>1. CASE TrialFlush(h) \/ TrialIssued(h)
        BY <3>1 DEF TrialFlush, TrialIssued, End, IdleRequest, Request
      <3>2. CASE TrialNotIssued(h) \/ PayFails(h) \/ (\E ok \in BOOLEAN : PayClean(h, ok))
        BY <3>2 DEF TrialNotIssued, PayFails, PayClean, End, IdleRequest
      <3>3. CASE PayCommit(h)
        BY <3>3 DEF PayCommit, End, IdleRequest, Request
      <3>4. CASE \E u \in Users : PayLook(h, u)
        BY <3>4 DEF PayLook, Begin, IdleRequest
      <3> QED BY <1>3, <3>1, <3>2, <3>3, <3>4
    <2>3. Unraced' = Unraced
      BY <2>1 DEF Unraced, Today
    <2> QED BY <2>1, <2>2, <2>3 DEF CapInv, AskedAlone
  <1>4. CASE Crash
    <2>1. Unraced' = Unraced /\ grants' = grants
      BY <1>4 DEF Crash, Unraced, Today
    <2> QED BY <1>4, <2>1, IdleIsRequest DEF Crash, CapInv, AskedAlone
  <1>5. CASE \/ UNCHANGED vars \/ Tick
             \/ \E u \in Users : VerifyEmail(u) \/ Unlink(u) \/ ExpireTrial(u)
             \/ \E u \in Users, t \in Telegrams : Link(u, t)
    <2>1. grants' = grants /\ req' = req /\ now' \in {now, now + 1}
      BY <1>5 DEF vars, Tick, VerifyEmail, Unlink, ExpireTrial, Link
    <2>2. Cardinality(Unraced') <= Cardinality(Unraced) /\ Cardinality(Unraced') \in Nat
      <3>1. IsFiniteSet(Unraced')
        BY <1>0, <2>1, FS_Subset DEF Unraced, Today
      <3> QED BY <1>0, <2>1, <3>1, UnracedShrinks, FS_CardinalityType
    <2> QED BY <1>0, <2>1, <2>2 DEF CapInv, AskedAlone
  <1> QED BY <1>1, <1>2, <1>3, <1>4, <1>5 DEF Next

-----------------------------------------------------------------------------
\* The inductive invariant.
IInv ==
    /\ TypeOK /\ RequestInv /\ KeysInv /\ SpentInv
    /\ AloneInv /\ InboxInv /\ CapInv

\* The invariant holds at first ...
LEMMA InitIInv == Init => IInv
  <1> SUFFICES ASSUME Init PROVE IInv
    OBVIOUS
  <1>1. TypeOK
    BY TrialAssumption, IdleIsRequest DEF Init, TypeOK
  <1>2. RequestInv /\ KeysInv
    BY IdleIsRequest DEF Init, RequestInv, KeysInv, Flushed
  <1>3. SpentInv /\ AloneInv
    BY TrialAssumption DEF Init, SpentInv, AloneInv, IdleRequest
  <1>4. InboxInv
    BY IdleIsRequest DEF Init, InboxInv
  <1>5. CapInv
    <2>1. Unraced = {} /\ grants = {}
      BY DEF Init, Unraced, Today
    <2> QED BY <2>1, TrialAssumption, FS_EmptySet, IdleIsRequest DEF Init, CapInv, AskedAlone
  <1> QED BY <1>1, <1>2, <1>3, <1>4, <1>5 DEF IInv

\* ... and through every step.
LEMMA IInvStep == IInv /\ [Next]_vars => IInv'
  BY TypeStep, RequestStep, KeysStep, SpentStep, AloneStep, InboxStep, CapStep DEF IInv

\* Every variable of the trial keeps its type, through every interleaving of
\* start_trial, purchases, the sweep and crashes.
THEOREM TrialTypes == Spec => []TypeOK
  <1>1. IInv => TypeOK
    BY DEF IInv
  <1> QED BY <1>1, InitIInv, IInvStep, PTL DEF Spec

\* One trial for an account, a mailbox and a Telegram account, whatever moves
\* between accounts and whatever runs at the same time: the unique keys of
\* trial_grants and the flush before the node call are enough.
THEOREM OneTrial == Spec => []OneTrialEach
  <1>1. IInv => OneTrialEach
    <2> SUFFICES ASSUME IInv PROVE OneTrialEach
      OBVIOUS
    <2>1. ASSUME NEW g \in grants, NEW k \in grants, g # k
          PROVE  /\ g.user # k.user /\ ~Same(g.tg, k.tg)
                 /\ g.mail # None /\ k.mail # None
                      => ~SameInbox(EmailOf[g.user], EmailOf[k.user])
      <3>1. ~Clash(g, k) /\ g.user \in Users /\ k.user \in Users
        BY <2>1 DEF IInv, KeysInv, TypeOK, Grant
      <3>2. ASSUME g.mail # None, k.mail # None, SameInbox(EmailOf[g.user], EmailOf[k.user])
            PROVE  FALSE
        <4>1. /\ g.mail = NormaliseEmail(EmailOf[g.user])
              /\ k.mail = NormaliseEmail(EmailOf[k.user])
          BY <3>2 DEF IInv, InboxInv, InboxOf
        <4>2. EmailOf[g.user] \in Address /\ EmailOf[k.user] \in Address
          BY <3>1, <3>2, EmailAssumption DEF IInv, InboxInv, InboxOf
        <4> QED BY <3>1, <3>2, <4>1, <4>2, OneInboxOneName DEF Clash, Same
      <3> QED BY <3>1, <3>2 DEF Clash
    <2>2. \A u \in Users : issued[u] <= 1
      BY DEF IInv, SpentInv
    <2> QED BY <2>1, <2>2 DEF OneTrialEach
  <1> QED BY <1>1, InitIInv, IInvStep, PTL DEF Spec

\* A trial is spent exactly when a device was given for it: grant, row and end
\* date are committed together and rolled back together.
THEOREM SpentForADevice == Spec => []SpentIffIssued
  <1>1. IInv => SpentIffIssued
    <2> SUFFICES ASSUME IInv, NEW u \in Users
                 PROVE  /\ issued[u] = Cardinality({g \in grants : g.user = u})
                        /\ issued[u] = 0 <=> until[u] = 0
      BY DEF SpentIffIssued
    <2>1. issued[u] = 0 <=> until[u] = 0
      BY DEF IInv, SpentInv
    <2>2. CASE \E g \in grants : g.user = u
      <3>1. PICK g \in grants : g.user = u
        BY <2>2
      <3>2. {k \in grants : k.user = u} = {g}
        BY <3>1 DEF IInv, KeysInv, Clash
      <3> QED BY <2>1, <2>2, <3>2, FS_Singleton DEF IInv, SpentInv
    <2>3. CASE ~\E g \in grants : g.user = u
      <3>1. {k \in grants : k.user = u} = {}
        BY <2>3
      <3> QED BY <2>1, <2>3, <3>1, FS_EmptySet DEF IInv, SpentInv
    <2> QED BY <2>2, <2>3
  <1> QED BY <1>1, InitIInv, IInvStep, PTL DEF Spec

\* The daily ceiling holds for every grant whose check ran alone, for any Cap:
\* only requests under way together pass it.
THEOREM CeilingUnlessRaced == Spec => []CapUnlessRaced
  <1>1. IInv => CapUnlessRaced
    BY DEF IInv, CapInv, Unraced, CapUnlessRaced
  <1> QED BY <1>1, InitIInv, IInvStep, PTL DEF Spec

\* No trial beside a paid period, unless the trial and the purchase of the
\* account overlapped: activate_payment closes the trial it loaded, and
\* start_trial turns away who has paid.
THEOREM NoTrialAfterPaying == Spec => []NoTrialBesidePaid
  <1>1. IInv => NoTrialBesidePaid
    BY DEF IInv, TypeOK, AloneInv, NoTrialBesidePaid
  <1> QED BY <1>1, InitIInv, IInvStep, PTL DEF Spec

\* One trial each and one device for it: both promises of start_trial at once.
THEOREM OneTrialForOneDevice == Spec => []OneTrialOneDevice
  BY OneTrial, SpentForADevice, PTL DEF OneTrialOneDevice
=============================================================================
