--------------------------- MODULE IdentityProofs ---------------------------
(***************************************************************************)
(* What holds of Identity for any number of accounts, requests and links:  *)
(* that Google is tied to its own mailbox, that a reset cuts the old       *)
(* password off, that links work once, that a chat is not lost, and that   *)
(* the portal's sign-ins are those of SignIns.                             *)
(*                                                                         *)
(* Every handler but the commits does the same thing to the tables:        *)
(* nothing.  Steps reduces Next to a request that begins, moves on or is   *)
(* dropped (Moves), a commit (Commits), a refresh (RefreshSave) and the    *)
(* three steps without a request; each part of the invariant is then       *)
(* proved over those six.  The parts relate the rows a request in flight   *)
(* loaded and wants to the rows its commit will find.                      *)
(***************************************************************************)
EXTENDS Identity, TLAPS

-----------------------------------------------------------------------------
(* The inductive invariant.                                                *)

\* The columns that hold one-time links.
Cols == {"vlink", "rlink", "tlink"}

GoogleOK(row) == row.sub # NONE => row.verified /\ row.mail = MailOf[row.sub]

\* A request that creates a row.
NewRow(q) ==
    /\ q.op \in {"save", "signin"} /\ q.other = NONE
    /\ GoogleOK(q.wanted)
    /\ q.wanted.pw = IF q.op = "save" THEN 1 ELSE 0

\* A request that changes the row it loaded: the address stays, a confirmation is
\* never taken back, and Google is tied to a confirmed address of its own.
OldRow(q) ==
    /\ user[q.a] # NONE
    /\ q.wanted.mail = q.loaded.mail /\ user[q.a].mail = q.loaded.mail
    /\ q.loaded.verified => q.wanted.verified /\ user[q.a].verified
    /\ q.wanted.sub # q.loaded.sub => q.loaded.verified /\ q.loaded.mail = MailOf[q.wanted.sub]
    /\ q.op # "reset" => q.wanted.pw = q.loaded.pw
    /\ q.op = "reset" => q.other = NONE /\ q.wanted.chat = q.loaded.chat

FitsRow(q) ==
    /\ q.loaded = NONE => NewRow(q)
    /\ q.loaded # NONE => OldRow(q)
    /\ q.other # NONE => user[q.other] # NONE /\ q.other # q.a

RowInv == \A r \in Reqs : IsWrite(req[r]) => FitsRow(req[r])

MailInv == RowInv /\ GoogleTiedToItsMailbox

\* A refresh token is handed out once.
TokenInv ==
    /\ \A s, t \in session : s.token = t.token => s = t
    /\ \A x, y \in SigningIn : x # y /\ req[x].token # NONE => req[x].token # req[y].token
    /\ \A x \in SigningIn, s \in session : s.token # req[x].token
    /\ \A r \in Trading :
          /\ \A s \in session : s.token = req[r].s.token => Ticket(s) = Ticket(req[r].s)
          /\ \A x \in SigningIn : req[x].token # req[r].s.token
    /\ \A x \in SigningIn : req[x].token = NONE => req[x].stale = {}
    /\ \A x \in SigningIn : \A d \in req[x].stale :
          /\ \A s \in session : s.token = d.token => s.a = req[x].a
          /\ \A y \in SigningIn : req[y].token # d.token

\* A session, and a sign-in on its way to one, was verified under the present
\* password or is marked late.
CurrentInv ==
    /\ \A s \in session : user[s.a] # NONE /\ (s.late \/ s.asOf = Version(s.a))
    /\ \A x \in SigningIn : req[x].late \/ req[x].asOf = Version(req[x].a)

\* An access token lasts ACCESS_LIFE from its grant, and none is older than its
\* account.
AccessInv ==
    /\ \A a \in Accounts, v \in Stamps : access[a][v] <= now + ACCESS_LIFE
    /\ \A a \in Accounts : user[a] = NONE => \A v \in Stamps : access[a][v] = -1
    /\ \A a \in Accounts, v \in 0..MAX_PW : replaced[a][v] >= -1
    /\ CutOffAfterReset

\* Where link n is: in a row, in a request's copies of one, about to be written.
InRow(n, a, f) == user[a] # NONE /\ user[a][f].n = n
InReq(n, r, f) == /\ IsWrite(req[r])
                  /\ \/ req[r].loaded # NONE /\ req[r].loaded[f].n = n
                     \/ req[r].wanted[f].n = n
At(n, a, f) == InRow(n, a, f) \/ \E r \in Reqs : InReq(n, r, f) /\ req[r].a = a
Pending(n, r, f) == /\ IsWrite(req[r])
                    /\ req[r].wanted[f].n = n
                    /\ req[r].loaded = NONE \/ req[r].loaded[f] # req[r].wanted[f]

\* A link has one place: a column of one account.
OnePlace ==
    \A n \in Nat \ {0} : \A a, b \in Accounts : \A f, g \in Cols :
        At(n, a, f) /\ At(n, b, g) => a = b /\ f = g
Issued == \A n \in Nat \ {0} : \A a \in Accounts, f \in Cols : At(n, a, f) => n <= links
DeadIssued == \A n \in dead : n \in Nat \ {0} /\ n <= links
DeadGone == \A n \in dead : \A a \in Accounts, f \in Cols : ~InRow(n, a, f)
\* A link about to be written is nowhere else.
PendingNew ==
    \A n \in Nat \ {0} : \A r \in Reqs, f \in Cols : Pending(n, r, f) =>
        /\ n \notin dead
        /\ \A a \in Accounts, g \in Cols : ~InRow(n, a, g)
        /\ \A x \in Reqs \ {r}, g \in Cols : ~InReq(n, x, g)
\* A request made with a link clears it, and finds it in place unless another
\* request came between.
ClearsLink ==
    \A r \in Reqs : IsWrite(req[r]) /\ req[r].n # 0 =>
        /\ req[r].loaded # NONE
        /\ \E f \in Cols : /\ req[r].loaded[f].n = req[r].n
                           /\ req[r].wanted[f] = NoLink
                           /\ ~req[r].met => InRow(req[r].n, req[r].a, f)

LinkInv == OnePlace /\ Issued /\ DeadIssued /\ DeadGone /\ PendingNew /\ ClearsLink /\ LinksWorkOnce

\* A chat belongs to one account; a request that takes it from another account
\* gives it to its own, and only an unlink leaves an account without.
ChatInv ==
    /\ \A a, b \in Known : a # b => user[a].chat # user[b].chat \/ user[a].chat = NONE
    /\ \A r \in Reqs : IsWrite(req[r]) /\ req[r].other # NONE =>
          /\ req[r].loaded # NONE
          /\ req[r].wanted.chat # NONE /\ req[r].wanted.chat # req[r].loaded.chat
          /\ ~req[r].met => user[req[r].other].chat = req[r].wanted.chat
    /\ \A r \in Reqs : /\ IsWrite(req[r]) /\ req[r].loaded # NONE
                       /\ req[r].wanted.chat = NONE /\ req[r].loaded.chat # NONE
                       => req[r].op = "unlink"

-----------------------------------------------------------------------------
(* Requests.                                                               *)

Writes == Writing \cup Opening

LEMMA Kinds ==
  ASSUME NEW q \in Request
  PROVE  /\ q # NONE
         /\ IsWrite(q) <=> q \in Writes
         /\ q.op = "signin" <=> q \in Opening
         /\ q.op = "refresh" <=> q \in Renewing
         /\ q.op = "check" <=> q \in Checking
  BY IdentityAssumption DEF Request, Writes, Writing, Opening, Checking, Renewing, IsWrite

LEMMA Fields ==
  ASSUME NEW q \in Writes
  PROVE  /\ q \in Request /\ q # NONE
         /\ q.a \in Accounts /\ q.wanted \in Row /\ q.wanted # NONE /\ q.n \in Nat
         /\ q.loaded \in Row \cup {NONE} /\ q.other \in Accounts \cup {NONE}
         /\ q.met \in BOOLEAN
         /\ q.op \in {"save", "unlink", "reset", "signin"}
         /\ q \in Opening => /\ q.token \in Tokens \cup {NONE} /\ q.stale \subseteq Session
                             /\ q.asOf \in 0..MAX_PW /\ q.late \in BOOLEAN
  BY IdentityAssumption DEF Request, Writes, Writing, Opening

LEMMA NothingIsNoWrite == ~IsWrite(NONE)
  BY DEF IsWrite

LEMMA RowTypes ==
  ASSUME NEW row \in Row
  PROVE  /\ row # NONE
         /\ row.mail \in Mails \cup {NONE} /\ row.pw \in 0..MAX_PW /\ row.verified \in BOOLEAN
         /\ row.sub \in Googles \cup {NONE} /\ row.chat \in Chats \cup {NONE}
         /\ row.vlink \in Link /\ row.rlink \in Link /\ row.tlink \in Link
         /\ \A f \in Cols : row[f] \in Link
  BY IdentityAssumption DEF Row, Cols

LEMMA LinkColumns ==
  ASSUME NEW row \in Row
  PROVE  \A n : n \in LinksIn(row) <=> n # 0 /\ \E f \in Cols : row[f].n = n
  BY RowTypes DEF LinksIn, Cols, Row

\* What a commit leaves of the other requests.
Overlap(p, q) == {p.a, p.other} \cap ({q.a, q.other} \ {NONE}) # {}

LEMMA LeftAlone ==
  ASSUME TypeOK, NEW r \in Reqs, NEW x \in Reqs, NEW q, NEW p, p = req[x], IsWrite(p), x # r
  PROVE  LET p1 == Left(r, q)[x] IN
         /\ p1 \in Writes /\ IsWrite(p1)
         /\ p1.op = p.op /\ p1.a = p.a /\ p1.loaded = p.loaded /\ p1.wanted = p.wanted
         /\ p1.other = p.other /\ p1.n = p.n
         /\ p1.met = (p.met \/ Overlap(p, q))
         /\ p \in Opening =>
              /\ p1 \in Opening
              /\ p1.token = p.token /\ p1.stale = p.stale /\ p1.asOf = p.asOf
              /\ p1.late = (p.late \/ (SetsPassword(q) /\ p.a = q.a))
  <1> DEFINE p0 == IF Overlap(p, q) THEN [p EXCEPT !.met = TRUE] ELSE p
             p1 == IF SetsPassword(q) /\ p.op = "signin" /\ p.a = q.a THEN [p0 EXCEPT !.late = TRUE] ELSE p0
  <1>1. Left(r, q)[x] = p1
    BY DEF Left, Overlap
  <1>2. p \in Writes
    <2>1. p \in Request
      BY NothingIsNoWrite DEF TypeOK
    <2> QED BY <2>1, Kinds
  <1>3. CASE p \in Writing
    <2>1. p0 \in Writing /\ p0.op = p.op /\ p0.a = p.a /\ p0.loaded = p.loaded /\ p0.wanted = p.wanted
          /\ p0.other = p.other /\ p0.n = p.n /\ p0.met = (p.met \/ Overlap(p, q))
      BY <1>3 DEF Writing
    <2>2. p.op # "signin" /\ p \notin Opening
      BY <1>3 DEF Writing, Opening
    <2>3. p1 = p0
      BY <2>2
    <2>4. p0 \in Writes /\ IsWrite(p0)
      BY <2>1, Fields, Kinds DEF Writes
    <2> QED BY <1>1, <2>1, <2>2, <2>3, <2>4
  <1>4. CASE p \in Opening
    <2>1. p0 \in Opening /\ p0.op = p.op /\ p0.a = p.a /\ p0.loaded = p.loaded /\ p0.wanted = p.wanted
          /\ p0.other = p.other /\ p0.n = p.n /\ p0.met = (p.met \/ Overlap(p, q))
          /\ p0.token = p.token /\ p0.stale = p.stale /\ p0.asOf = p.asOf /\ p0.late = p.late
      BY <1>4 DEF Opening
    <2>2. p.op = "signin" /\ p.late \in BOOLEAN
      BY <1>4 DEF Opening
    <2>3. /\ p1 \in Opening /\ p1.op = p0.op /\ p1.a = p0.a /\ p1.loaded = p0.loaded /\ p1.wanted = p0.wanted
          /\ p1.other = p0.other /\ p1.n = p0.n /\ p1.met = p0.met
          /\ p1.token = p0.token /\ p1.stale = p0.stale /\ p1.asOf = p0.asOf
          /\ p1.late = (p0.late \/ (SetsPassword(q) /\ p.a = q.a))
      BY <2>1, <2>2 DEF Opening
    <2>4. p1 \in Writes /\ IsWrite(p1)
      BY <2>3, Fields, Kinds DEF Writes
    <2> HIDE DEF p0, p1
    <2> QED BY <1>1, <2>1, <2>2, <2>3, <2>4
  <1> QED BY <1>2, <1>3, <1>4 DEF Writes

LEMMA LeftRest ==
  ASSUME NEW r \in Reqs, NEW q
  PROVE  /\ Left(r, q)[r] = NONE
         /\ \A x \in Reqs : x # r /\ ~IsWrite(req[x]) => Left(r, q)[x] = req[x]
         /\ DOMAIN Left(r, q) = Reqs
  BY DEF Left

LEMMA LeftTypes ==
  ASSUME TypeOK, NEW r \in Reqs, NEW q
  PROVE  /\ Left(r, q) \in [Reqs -> Request \cup {NONE}]
         /\ \A x \in Reqs : IsWrite(Left(r, q)[x]) <=> x # r /\ IsWrite(req[x])
  <1>1. Left(r, q) = [x \in Reqs |-> Left(r, q)[x]]
    BY DEF Left
  <1>2. ASSUME NEW x \in Reqs
        PROVE /\ Left(r, q)[x] \in Request \cup {NONE}
              /\ IsWrite(Left(r, q)[x]) <=> x # r /\ IsWrite(req[x])
    <2>1. CASE x = r
      BY <2>1, LeftRest, NothingIsNoWrite
    <2>2. CASE x # r /\ ~IsWrite(req[x])
      BY <2>2, LeftRest DEF TypeOK
    <2>3. CASE x # r /\ IsWrite(req[x])
      BY <2>3, LeftAlone, Fields
    <2> QED BY <2>1, <2>2, <2>3
  <1> QED BY <1>1, <1>2

-----------------------------------------------------------------------------
(* Commits.                                                                *)

Commits(r) == SignInSave(r) \/ ResetSave(r) \/ Save(r)

LEMMA FlushColumns ==
  ASSUME NEW q \in Writes, q.loaded # NONE, NEW cur \in Row
  PROVE  /\ Flush(q, cur) \in Row
         /\ Flush(q, cur).mail = IF q.wanted.mail # q.loaded.mail THEN q.wanted.mail ELSE cur.mail
         /\ Flush(q, cur).pw = IF q.wanted.pw # q.loaded.pw THEN q.wanted.pw ELSE cur.pw
         /\ Flush(q, cur).verified = IF q.wanted.verified # q.loaded.verified THEN q.wanted.verified ELSE cur.verified
         /\ Flush(q, cur).sub = IF q.wanted.sub # q.loaded.sub THEN q.wanted.sub ELSE cur.sub
         /\ Flush(q, cur).chat = IF q.wanted.chat # q.loaded.chat THEN q.wanted.chat ELSE cur.chat
         /\ \A f \in Cols : Flush(q, cur)[f] = IF q.wanted[f] # q.loaded[f] THEN q.wanted[f] ELSE cur[f]
  <1>1. q.wanted \in Row /\ q.loaded \in Row
    BY Fields
  <1> QED BY <1>1 DEF Flush, Row, Cols

LEMMA SavedRows ==
  ASSUME TypeOK, NEW q \in Writes, FitsRow(q)
  PROVE  /\ Saved(q) \in [Accounts -> Row \cup {NONE}]
         /\ q.loaded = NONE => Saved(q)[q.a] = q.wanted
         /\ q.loaded # NONE => user[q.a] \in Row /\ Saved(q)[q.a] = Flush(q, user[q.a])
         /\ q.other # NONE => /\ q.other # q.a /\ user[q.other] \in Row
                              /\ Saved(q)[q.other] = [user[q.other] EXCEPT !.chat = NONE]
         /\ \A a \in Accounts : a # q.a /\ a # q.other => Saved(q)[a] = user[a]
  <1> DEFINE new == IF q.loaded = NONE THEN q.wanted ELSE Flush(q, user[q.a])
             own == [user EXCEPT ![q.a] = new]
  <1>1. /\ q.a \in Accounts /\ q.wanted \in Row /\ q.other \in Accounts \cup {NONE}
        /\ user \in [Accounts -> Row \cup {NONE}]
    BY Fields DEF TypeOK
  <1>2. q.loaded # NONE => user[q.a] \in Row
    BY <1>1 DEF FitsRow, OldRow
  <1>3. new \in Row
    BY <1>1, <1>2, FlushColumns
  <1>4. Saved(q) = IF q.other = NONE THEN own ELSE [own EXCEPT ![q.other] = [own[q.other] EXCEPT !.chat = NONE]]
    BY DEF Saved
  <1>5. q.other # NONE => q.other # q.a /\ user[q.other] \in Row /\ q.other \in Accounts
    BY <1>1 DEF FitsRow
  <1>6. ASSUME NEW row \in Row PROVE [row EXCEPT !.chat = NONE] \in Row
    BY DEF Row
  <1>7. own \in [Accounts -> Row \cup {NONE}] /\ own[q.a] = new
        /\ \A a \in Accounts : a # q.a => own[a] = user[a]
    BY <1>1, <1>3
  <1> HIDE DEF own
  <1>8. q.other # NONE => own[q.other] = user[q.other] /\ [own[q.other] EXCEPT !.chat = NONE] \in Row
    BY <1>5, <1>6, <1>7
  <1>9. CASE q.other = NONE
    BY <1>1, <1>2, <1>4, <1>7, <1>9
  <1>10. CASE q.other # NONE
    BY <1>1, <1>2, <1>4, <1>5, <1>7, <1>8, <1>10
  <1> QED BY <1>9, <1>10

LEMMA CommitRequest ==
  ASSUME TypeOK, RowInv, NEW r \in Reqs, Commits(r), NEW q, q = req[r]
  PROVE  /\ q \in Writes /\ IsWrite(q) /\ FitsRow(q)
         /\ q.loaded = NONE => user[q.a] = NONE
         /\ q.op = "reset" => ResetSave(r)
         /\ q.op = "signin" => SignInSave(r)
         /\ q.op \in {"save", "unlink"} => Save(r)
         /\ req' = Left(r, q)
  <1>1. q \in Request /\ IsWrite(q) /\ req' = Left(r, q)
    BY DEF TypeOK, Commits, SignInSave, ResetSave, Save, IsWrite
  <1>2. q \in Writes /\ FitsRow(q)
    BY <1>1, Kinds DEF RowInv
  <1>3. /\ q.op = "reset" => ResetSave(r)
        /\ q.op = "signin" => SignInSave(r)
        /\ q.op \in {"save", "unlink"} => Save(r)
    BY DEF Commits, SignInSave, ResetSave, Save
  <1>4. q.loaded = NONE => user[q.a] = NONE
    <2>1. q.op = "reset" => q.loaded # NONE
      BY <1>2 DEF FitsRow, NewRow
    <2> QED BY <1>2, <2>1 DEF Commits, SignInSave, ResetSave, Save, Unique
  <1> QED BY <1>1, <1>2, <1>3, <1>4

LEMMA CommitRows ==
  ASSUME TypeOK, RowInv, NEW r \in Reqs, Commits(r), NEW q, q = req[r]
  PROVE  /\ user' \in [Accounts -> Row \cup {NONE}] /\ user'[q.a] \in Row
         /\ q.loaded # NONE => user[q.a] \in Row
         /\ user'[q.a].mail = IF q.loaded = NONE THEN q.wanted.mail ELSE user[q.a].mail
         /\ user'[q.a].verified = IF q.loaded = NONE \/ q.wanted.verified # q.loaded.verified
                                  THEN q.wanted.verified ELSE user[q.a].verified
         /\ user'[q.a].sub = IF q.loaded = NONE \/ q.wanted.sub # q.loaded.sub
                             THEN q.wanted.sub ELSE user[q.a].sub
         /\ user'[q.a].chat = IF q.loaded = NONE \/ q.wanted.chat # q.loaded.chat
                              THEN q.wanted.chat ELSE user[q.a].chat
         /\ \A f \in Cols : user'[q.a][f] = IF q.loaded = NONE \/ q.wanted[f] # q.loaded[f]
                                            THEN q.wanted[f] ELSE user[q.a][f]
         /\ user'[q.a].pw = Version(q.a) + (IF SetsPassword(q) THEN 1 ELSE 0)
         /\ \A a \in Accounts \ {q.a} :
              \/ user'[a] = user[a]
              \/ a = q.other /\ user[a] \in Row /\ user'[a] = [user[a] EXCEPT !.chat = NONE]
  <1>1. /\ q \in Writes /\ FitsRow(q) /\ q.a \in Accounts /\ q.wanted \in Row
        /\ q.loaded = NONE => user[q.a] = NONE
        /\ q.other \in Accounts \cup {NONE} /\ q.loaded \in Row \cup {NONE}
    BY CommitRequest, Fields
  <1> DEFINE t == Saved(q)
  <1>2. /\ t \in [Accounts -> Row \cup {NONE}]
        /\ q.loaded = NONE => t[q.a] = q.wanted
        /\ q.loaded # NONE => user[q.a] \in Row /\ t[q.a] = Flush(q, user[q.a])
        /\ q.other # NONE => /\ q.other # q.a /\ user[q.other] \in Row
                             /\ t[q.other] = [user[q.other] EXCEPT !.chat = NONE]
        /\ \A a \in Accounts : a # q.a /\ a # q.other => t[a] = user[a]
    BY <1>1, SavedRows
  <1> HIDE DEF t
  <1>3. /\ t[q.a] \in Row
        /\ t[q.a].mail = IF q.loaded = NONE THEN q.wanted.mail ELSE user[q.a].mail
        /\ t[q.a].verified = IF q.loaded = NONE \/ q.wanted.verified # q.loaded.verified
                                  THEN q.wanted.verified ELSE user[q.a].verified
        /\ t[q.a].sub = IF q.loaded = NONE \/ q.wanted.sub # q.loaded.sub
                             THEN q.wanted.sub ELSE user[q.a].sub
        /\ t[q.a].chat = IF q.loaded = NONE \/ q.wanted.chat # q.loaded.chat
                              THEN q.wanted.chat ELSE user[q.a].chat
        /\ \A f \in Cols : t[q.a][f] = IF q.loaded = NONE \/ q.wanted[f] # q.loaded[f]
                                            THEN q.wanted[f] ELSE user[q.a][f]
        /\ t[q.a].pw = IF q.loaded = NONE \/ q.wanted.pw # q.loaded.pw THEN q.wanted.pw ELSE user[q.a].pw
    <2>1. CASE q.loaded = NONE
      BY <1>1, <1>2, <2>1
    <2>2. CASE q.loaded # NONE
      <3>1. q.wanted.mail = q.loaded.mail
        BY <1>1, <2>2 DEF FitsRow, OldRow
      <3> QED BY <1>1, <1>2, <2>2, <3>1, FlushColumns
    <2> QED BY <2>1, <2>2
  <1>4. \A a \in Accounts \ {q.a} :
              \/ t[a] = user[a]
              \/ a = q.other /\ user[a] \in Row /\ t[a] = [user[a] EXCEPT !.chat = NONE]
    BY <1>1, <1>2, IdentityAssumption
  <1>5. CASE q.op = "reset"
    <2>1. user[q.a].pw < MAX_PW /\ user' = [t EXCEPT ![q.a] = [t[q.a] EXCEPT !.pw = user[q.a].pw + 1]]
      <3>1. ResetSave(r)
        BY <1>5, CommitRequest
      <3>2. user[q.a].pw < MAX_PW /\ user' = [Saved(q) EXCEPT ![q.a].pw = user[q.a].pw + 1]
        BY <3>1 DEF ResetSave
      <3> QED BY <3>2 DEF t
    <2>2. q.loaded # NONE /\ user[q.a] \in Row /\ Version(q.a) = user[q.a].pw /\ SetsPassword(q)
      BY <1>1, <1>2, <1>5, RowTypes DEF FitsRow, NewRow, Version, SetsPassword
    <2>3. user[q.a].pw + 1 \in 0..MAX_PW
      BY <2>1, <2>2, RowTypes, IdentityAssumption
    <2>4. ASSUME NEW row \in Row, NEW v \in 0..MAX_PW
          PROVE  LET w == [row EXCEPT !.pw = v] IN
                 /\ w \in Row /\ w.pw = v /\ w.mail = row.mail /\ w.verified = row.verified
                 /\ w.sub = row.sub /\ w.chat = row.chat /\ \A f \in Cols : w[f] = row[f]
      BY DEF Row, Cols
    <2> DEFINE w == [t[q.a] EXCEPT !.pw = user[q.a].pw + 1]
    <2>5. /\ w \in Row /\ w.pw = user[q.a].pw + 1 /\ w.mail = t[q.a].mail /\ w.verified = t[q.a].verified
          /\ w.sub = t[q.a].sub /\ w.chat = t[q.a].chat /\ \A f \in Cols : w[f] = t[q.a][f]
      BY <1>3, <2>3, <2>4
    <2>6. user' = [t EXCEPT ![q.a] = w]
      BY <2>1
    <2> HIDE DEF w
    <2>7. user' \in [Accounts -> Row \cup {NONE}] /\ user'[q.a] = w /\ \A a \in Accounts \ {q.a} : user'[a] = t[a]
      BY <1>1, <1>2, <2>5, <2>6
    <2> QED BY <1>2, <1>3, <1>4, <2>2, <2>5, <2>7, SMTT(20)
  <1>6. CASE q.op # "reset"
    <2>1. user' = t
      BY <1>1, <1>6, CommitRequest, Fields DEF Save, SignInSave, t
    <2>2. t[q.a].pw = Version(q.a) + (IF SetsPassword(q) THEN 1 ELSE 0)
      <3>1. CASE q.loaded = NONE
        <4>1. Version(q.a) = 0 /\ (SetsPassword(q) <=> q.wanted.pw # 0) /\ q.wanted.pw \in {0, 1}
          BY <1>1, <1>6, <3>1 DEF Version, SetsPassword, FitsRow, NewRow
        <4>2. t[q.a].pw = q.wanted.pw
          BY <1>3, <3>1
        <4> QED BY <4>1, <4>2
      <3>2. CASE q.loaded # NONE
        <4>1. q.wanted.pw = q.loaded.pw /\ ~SetsPassword(q) /\ user[q.a] \in Row
          BY <1>1, <1>2, <1>6, <3>2 DEF SetsPassword, FitsRow, OldRow
        <4>2. Version(q.a) = user[q.a].pw /\ user[q.a].pw \in Nat
          BY <4>1, RowTypes, IdentityAssumption DEF Version
        <4> QED BY <1>3, <3>2, <4>1, <4>2
      <3> QED BY <3>1, <3>2
    <2> QED BY <1>2, <1>3, <1>4, <2>1, <2>2
  <1> QED BY <1>5, <1>6

-----------------------------------------------------------------------------
(* Requests that begin.                                                    *)

\* A request that begins has loaded the row as it is.  It keeps, empties or
\* renews links, one of them at most with a new number.
NewWrite(q) ==
    /\ q \in Writes /\ q.loaded = user[q.a] /\ ~q.met
    /\ FitsRow(q)
    /\ \E f \in Cols :
          /\ \A g \in Cols \ {f} : q.wanted[g] = NoLink \/ (q.loaded # NONE /\ q.wanted[g] = q.loaded[g])
          /\ \/ q.wanted[f] = NoLink \/ (q.loaded # NONE /\ q.wanted[f] = q.loaded[f])
             \/ q.wanted[f].n = links + 1 /\ links' = links + 1
    /\ q.n # 0 => q.loaded # NONE /\ \E f \in Cols : q.loaded[f].n = q.n /\ q.wanted[f] = NoLink
    /\ q.other # NONE => /\ q.loaded # NONE /\ q.wanted.chat # NONE
                         /\ user[q.other].chat = q.wanted.chat
    /\ q.loaded # NONE /\ q.wanted.chat = NONE /\ q.loaded.chat # NONE => q.op = "unlink"
    /\ q \in Opening =>
          /\ q.asOf = Version(q.a) /\ ~q.late /\ q.token \notin TokensInUse \ {NONE}
          /\ q.stale \subseteq SessionsOf(q.a) /\ (q.token = NONE => q.stale = {})

\* A request begins, goes on without a commit, or ends without one.
Moves(r, q) ==
    /\ q \in Request \cup {NONE}
    /\ req' = [req EXCEPT ![r] = q]
    /\ q # NONE => ~IsWrite(req[r])
    /\ IsWrite(q) => NewWrite(q)
    /\ q # NONE /\ q.op = "refresh" => q.s \in session
    /\ links' \in {links, links + 1} /\ calls' \in {calls, calls + 1}
    /\ access' = access \/ \E a \in Known : access' = Grant(a, Version(a))
    /\ UNCHANGED <<user, session, now, replaced, dead, revived>>

LEMMA WritingIsWrite == \A q \in Writing : q \in Writes /\ q \notin Opening /\ q \in Request /\ q # NONE
  BY IdentityAssumption DEF Writing, Opening, Request, Writes

LEMMA SignInFields ==
  ASSUME TypeOK, NEW w, w.a \in Accounts, w.loaded \in Row \cup {NONE}, w.wanted \in Row,
         NEW token \in Tokens \cup {NONE}, NEW stale \in SUBSET Session
  PROVE  LET q == SignIn(w, token, stale) IN
         /\ q \in Opening /\ q \in Writes /\ q \in Request /\ q # NONE /\ q.op = "signin" /\ q.a = w.a
         /\ q.loaded = w.loaded /\ q.wanted = w.wanted /\ q.other = NONE /\ q.n = 0 /\ ~q.met
         /\ q.token = token /\ q.stale = stale /\ q.asOf = Version(w.a) /\ ~q.late
  <1>1. Version(w.a) \in 0..MAX_PW
    BY RowTypes, IdentityAssumption DEF TypeOK, Version
  <1>2. LET q == SignIn(w, token, stale) IN
         /\ q \in Opening /\ q.op = "signin" /\ q.a = w.a
         /\ q.loaded = w.loaded /\ q.wanted = w.wanted /\ q.other = NONE /\ q.n = 0 /\ ~q.met
         /\ q.token = token /\ q.stale = stale /\ q.asOf = Version(w.a) /\ ~q.late
    BY <1>1 DEF SignIn, Opening
  <1>3. \A q \in Opening : q \in Request /\ q # NONE /\ q \in Writes
    BY IdentityAssumption DEF Opening, Request, Writes
  <1> QED BY <1>2, <1>3

LEMMA FreshLink ==
  ASSUME TypeOK, NEW life \in Nat
  PROVE  Fresh(life) \in Link /\ Fresh(life).n = links + 1 /\ NoLink \in Link /\ NoLink.n = 0
  BY DEF TypeOK, Fresh, Link, NoLink

\* A request about one link of an account and nothing else.
Relinks(r, op, a, wanted, f, n) ==
    /\ a \in Known /\ wanted \in Row /\ f \in Cols /\ n \in Nat /\ op \in {"save", "unlink"}
    /\ Begin(r, Write(op, a, user[a], wanted, NONE, n))
    /\ wanted.mail = user[a].mail /\ wanted.pw = user[a].pw /\ wanted.sub = user[a].sub
    /\ user[a].verified => wanted.verified
    /\ wanted.chat = user[a].chat \/ op = "unlink"
    /\ \A g \in Cols \ {f} : wanted[g] = user[a][g]
    /\ wanted[f] = NoLink \/ (wanted[f].n = links + 1 /\ links' = links + 1)
    /\ n # 0 => user[a][f].n = n /\ wanted[f] = NoLink
    /\ links' \in {links, links + 1}
    /\ UNCHANGED <<user, session, now, access, replaced, dead, revived>>

LEMMA RelinkMoves ==
  ASSUME TypeOK, NEW r \in Reqs, NEW op, NEW a, NEW wanted, NEW f, NEW n, Relinks(r, op, a, wanted, f, n)
  PROVE  \E q : Moves(r, q)
  <1> USE DEF Relinks
  <1> DEFINE q == Write(op, a, user[a], wanted, NONE, n)
  <1>1. a \in Accounts /\ user[a] \in Row /\ user[a] # NONE
    BY DEF Known, TypeOK
  <1>2. /\ q \in Writes /\ q \notin Opening /\ q \in Request /\ q # NONE /\ q.op = op /\ q.a = a
        /\ q.loaded = user[a] /\ q.wanted = wanted /\ q.other = NONE /\ q.n = n /\ ~q.met
    <2>1. q \in Writing
      BY <1>1 DEF Write, Writing
    <2>2. /\ q.op = op /\ q.a = a
          /\ q.loaded = user[a] /\ q.wanted = wanted /\ q.other = NONE /\ q.n = n /\ ~q.met
      BY DEF Write
    <2> HIDE DEF q
    <2> QED BY <2>1, <2>2, WritingIsWrite
  <1>3. req[r] = NONE /\ req' = [req EXCEPT ![r] = q] /\ calls' = calls + 1
    BY DEF Begin
  <1> HIDE DEF q
  <1>4. FitsRow(q)
    BY <1>1, <1>2 DEF FitsRow, OldRow
  <1>5. NewWrite(q)
    <2>1. /\ \A g \in Cols \ {f} : q.wanted[g] = NoLink \/ (q.loaded # NONE /\ q.wanted[g] = q.loaded[g])
          /\ \/ q.wanted[f] = NoLink \/ (q.loaded # NONE /\ q.wanted[f] = q.loaded[f])
             \/ q.wanted[f].n = links + 1 /\ links' = links + 1
      BY <1>1, <1>2
    <2>2. q.n # 0 => q.loaded # NONE /\ \E g \in Cols : q.loaded[g].n = q.n /\ q.wanted[g] = NoLink
      BY <1>1, <1>2
    <2> QED BY <1>1, <1>2, <1>4, <2>1, <2>2 DEF NewWrite
  <1>6. Moves(r, q)
    BY <1>2, <1>3, <1>5, NothingIsNoWrite DEF Moves
  <1> QED BY <1>6

LEMMA KnownRow == ASSUME TypeOK, NEW a \in Known PROVE a \in Accounts /\ user[a] \in Row /\ user[a] # NONE
  BY DEF Known, TypeOK

LEMMA LinkRequests ==
  ASSUME TypeOK, NEW r \in Reqs, NEW a,
         \/ resend_verification(r, a) \/ verify_email(r, a) \/ \E m \in Mails : forgot_password(r, m)
         \/ tg_link(r, a) \/ tg_unlink(r, a)
         \/ reset_password(r, a) /\ now > user[a].rlink.exp
  PROVE  \E q : Moves(r, q)
  <1> USE IdentityAssumption, FreshLink
  <1>0. links \in Nat
    BY DEF TypeOK
  <1>1. CASE resend_verification(r, a)
    <2> DEFINE w == [user[a] EXCEPT !.vlink = Fresh(VERIFY_LIFE)]
    <2>1. a \in Known /\ user[a] \in Row
      BY <1>1, KnownRow DEF resend_verification
    <2>2. /\ w \in Row /\ w.mail = user[a].mail /\ w.pw = user[a].pw /\ w.sub = user[a].sub
          /\ w.verified = user[a].verified /\ w.chat = user[a].chat /\ w["vlink"].n = links + 1
          /\ \A g \in Cols \ {"vlink"} : w[g] = user[a][g]
      BY <2>1 DEF Row, Cols
    <2>3. /\ Begin(r, Write("save", a, user[a], w, NONE, 0)) /\ links' = links + 1
          /\ UNCHANGED <<user, session, now, access, replaced, dead, revived>>
      BY <1>1 DEF resend_verification
    <2> HIDE DEF w
    <2>5. Relinks(r, "save", a, w, "vlink", 0)
      BY <1>0, <2>1, <2>2, <2>3, KnownRow DEF Relinks, Cols
    <2> QED BY <2>5, RelinkMoves

  <1>2. CASE verify_email(r, a)
    <2> DEFINE w == mark_verified(user[a])
    <2>1. a \in Known /\ user[a] \in Row
      BY <1>2, KnownRow DEF verify_email
    <2>2. /\ w \in Row /\ w.mail = user[a].mail /\ w.pw = user[a].pw /\ w.sub = user[a].sub
          /\ (user[a].verified => w.verified) /\ w.chat = user[a].chat /\ w["vlink"] = NoLink
          /\ \A g \in Cols \ {"vlink"} : w[g] = user[a][g]
      BY <2>1 DEF Row, Cols, mark_verified
    <2>3. /\ Begin(r, Write("save", a, user[a], w, NONE, user[a].vlink.n)) /\ links' = links
          /\ UNCHANGED <<user, session, now, access, replaced, dead, revived>>
      BY <1>2 DEF verify_email
    <2>4. user[a].vlink.n \in Nat /\ user[a].vlink.n = user[a]["vlink"].n
      BY <2>1 DEF Row, Link
    <2> HIDE DEF w
    <2>5. Relinks(r, "save", a, w, "vlink", user[a].vlink.n)
      BY <1>0, <2>1, <2>2, <2>3, <2>4, KnownRow DEF Relinks, Cols
    <2> QED BY <2>5, RelinkMoves
  <1>3. CASE \E m \in Mails : forgot_password(r, m)
    <2>0. PICK b \in Known :
             Begin(r, Write("save", b, user[b], [user[b] EXCEPT !.rlink = Fresh(RESET_LIFE)], NONE, 0))
      BY <1>3 DEF forgot_password, ByMail
    <2> DEFINE w == [user[b] EXCEPT !.rlink = Fresh(RESET_LIFE)]
    <2>1. b \in Known /\ user[b] \in Row
      BY <1>3, <2>0, KnownRow DEF forgot_password
    <2>2. /\ w \in Row /\ w.mail = user[b].mail /\ w.pw = user[b].pw /\ w.sub = user[b].sub
          /\ (user[b].verified => w.verified) /\ w.chat = user[b].chat /\ w["rlink"].n = links + 1
          /\ \A g \in Cols \ {"rlink"} : w[g] = user[b][g]
      BY <2>1 DEF Row, Cols
    <2>3. /\ Begin(r, Write("save", b, user[b], w, NONE, 0)) /\ links' = links + 1
          /\ UNCHANGED <<user, session, now, access, replaced, dead, revived>>
      BY <1>3, <2>0 DEF forgot_password
    <2> HIDE DEF w
    <2>5. Relinks(r, "save", b, w, "rlink", 0)
      BY <1>0, <2>1, <2>2, <2>3, KnownRow DEF Relinks, Cols
    <2> QED BY <2>5, RelinkMoves
  <1>4. CASE tg_link(r, a)
    <2> DEFINE w == [user[a] EXCEPT !.tlink = Fresh(LINK_LIFE)]
    <2>1. a \in Known /\ user[a] \in Row
      BY <1>4, KnownRow DEF tg_link
    <2>2. /\ w \in Row /\ w.mail = user[a].mail /\ w.pw = user[a].pw /\ w.sub = user[a].sub
          /\ (user[a].verified => w.verified) /\ w.chat = user[a].chat /\ w["tlink"].n = links + 1
          /\ \A g \in Cols \ {"tlink"} : w[g] = user[a][g]
      BY <2>1 DEF Row, Cols
    <2>3. /\ Begin(r, Write("save", a, user[a], w, NONE, 0)) /\ links' = links + 1
          /\ UNCHANGED <<user, session, now, access, replaced, dead, revived>>
      BY <1>4 DEF tg_link
    <2> HIDE DEF w
    <2>5. Relinks(r, "save", a, w, "tlink", 0)
      BY <1>0, <2>1, <2>2, <2>3, KnownRow DEF Relinks, Cols
    <2> QED BY <2>5, RelinkMoves
  <1>5. CASE tg_unlink(r, a)
    <2> DEFINE w == [user[a] EXCEPT !.chat = NONE, !.tlink = NoLink]
    <2>1. a \in Known /\ user[a] \in Row
      BY <1>5, KnownRow DEF tg_unlink
    <2>2. /\ w \in Row /\ w.mail = user[a].mail /\ w.pw = user[a].pw /\ w.sub = user[a].sub
          /\ (user[a].verified => w.verified) /\ w.chat = NONE /\ w["tlink"] = NoLink
          /\ \A g \in Cols \ {"tlink"} : w[g] = user[a][g]
      BY <2>1 DEF Row, Cols
    <2>3. /\ Begin(r, Write("unlink", a, user[a], w, NONE, 0)) /\ links' = links
          /\ UNCHANGED <<user, session, now, access, replaced, dead, revived>>
      BY <1>5 DEF tg_unlink
    <2> HIDE DEF w
    <2>5. Relinks(r, "unlink", a, w, "tlink", 0)
      BY <1>0, <2>1, <2>2, <2>3, KnownRow DEF Relinks, Cols
    <2> QED BY <2>5, RelinkMoves
  <1>6. CASE reset_password(r, a) /\ now > user[a].rlink.exp
    <2> DEFINE w == [user[a] EXCEPT !.rlink = NoLink]
    <2>1. a \in Known /\ user[a] \in Row
      BY <1>6, KnownRow DEF reset_password
    <2>2. /\ w \in Row /\ w.mail = user[a].mail /\ w.pw = user[a].pw /\ w.sub = user[a].sub
          /\ (user[a].verified => w.verified) /\ w.chat = user[a].chat /\ w["rlink"] = NoLink
          /\ \A g \in Cols \ {"rlink"} : w[g] = user[a][g]
      BY <2>1 DEF Row, Cols
    <2>3. /\ Begin(r, Write("save", a, user[a], w, NONE, 0)) /\ links' = links
          /\ UNCHANGED <<user, session, now, access, replaced, dead, revived>>
      BY <1>6 DEF reset_password
    <2> HIDE DEF w
    <2>5. Relinks(r, "save", a, w, "rlink", 0)
      BY <1>0, <2>1, <2>2, <2>3, KnownRow DEF Relinks, Cols
    <2> QED BY <2>5, RelinkMoves
  <1> QED BY <1>1, <1>2, <1>3, <1>4, <1>5, <1>6

\* Every request that writes one row begins with a Write.
LEMMA WriteMoves ==
  ASSUME TypeOK, NEW r \in Reqs, NEW op \in {"save", "unlink", "reset"}, NEW a \in Accounts, NEW wanted \in Row,
         NEW other \in Accounts \cup {NONE}, NEW n \in Nat,
         Begin(r, Write(op, a, user[a], wanted, other, n)),
         \A q \in Writes : /\ q.op = op /\ q.a = a /\ q.loaded = user[a] /\ q.wanted = wanted
                           /\ q.other = other /\ q.n = n /\ ~q.met /\ q \notin Opening
                           => NewWrite(q),
         links' \in {links, links + 1},
         UNCHANGED <<user, session, now, access, replaced, dead, revived>>
  PROVE  \E q : Moves(r, q)
  <1> DEFINE q == Write(op, a, user[a], wanted, other, n)
  <1>1. user[a] \in Row \cup {NONE}
    BY DEF TypeOK
  <1>2. q \in Writing
    BY <1>1 DEF Write, Writing
  <1>3. /\ q.op = op /\ q.a = a
        /\ q.loaded = user[a] /\ q.wanted = wanted /\ q.other = other /\ q.n = n /\ ~q.met
    BY DEF Write
  <1>4. req[r] = NONE /\ req' = [req EXCEPT ![r] = q] /\ calls' = calls + 1
    BY DEF Begin
  <1> HIDE DEF q
  <1>5. q \in Writes /\ q \notin Opening /\ q \in Request /\ q # NONE
    BY <1>2, WritingIsWrite
  <1>6. NewWrite(q)
    BY <1>3, <1>5
  <1>7. q.op # "refresh"
    BY <1>3
  <1>8. Moves(r, q)
    BY <1>4, <1>5, <1>6, <1>7, NothingIsNoWrite DEF Moves
  <1> QED BY <1>8

LEMMA ResetMoves ==
  ASSUME TypeOK, NEW r \in Reqs, NEW a \in Accounts, reset_password(r, a), ~(now > user[a].rlink.exp)
  PROVE  \E q : Moves(r, q)
  <1> DEFINE w == ResetRow(user[a])
  <1>1. /\ user[a] \in Row /\ user[a] # NONE /\ user[a].rlink.n # 0 /\ user[a].pw < MAX_PW
        /\ Begin(r, Write("reset", a, user[a], w, NONE, user[a].rlink.n)) /\ links' = links
        /\ UNCHANGED <<user, session, now, access, replaced, dead, revived>>
    BY KnownRow DEF reset_password
  <1>2. user[a].pw + 1 \in 0..MAX_PW /\ user[a].rlink.n \in Nat
    BY <1>1, RowTypes, IdentityAssumption DEF Link
  <1>3. /\ w \in Row /\ w.mail = user[a].mail /\ w.sub = user[a].sub /\ w.verified
        /\ w.chat = user[a].chat /\ w["rlink"] = NoLink /\ w["tlink"] = user[a]["tlink"]
        /\ w["vlink"] = NoLink \/ w["vlink"] = user[a]["vlink"]
    BY <1>1, <1>2, FreshLink DEF ResetRow, mark_verified, Row
  <1> HIDE DEF w
  <1>4. ASSUME NEW q \in Writes, q.op = "reset", q.a = a, q.loaded = user[a], q.wanted = w, q.other = NONE,
               q.n = user[a].rlink.n, ~q.met, q \notin Opening
        PROVE  NewWrite(q)
    <2>1. FitsRow(q)
      BY <1>1, <1>3, <1>4 DEF FitsRow, OldRow
    <2>2. \A g \in Cols : q.wanted[g] = NoLink \/ (q.loaded # NONE /\ q.wanted[g] = q.loaded[g])
      BY <1>1, <1>3, <1>4 DEF Cols
    <2>3. q.loaded # NONE /\ \E f \in Cols : q.loaded[f].n = q.n /\ q.wanted[f] = NoLink
      BY <1>1, <1>3, <1>4 DEF Cols, Row
    <2>4. "rlink" \in Cols
      BY DEF Cols
    <2> QED BY <1>1, <1>3, <1>4, <2>1, <2>2, <2>3, <2>4 DEF NewWrite
  <1> QED BY <1>1, <1>2, <1>3, <1>4, WriteMoves

LEMMA RegisterMoves ==
  ASSUME TypeOK, NEW r \in Reqs, NEW a \in Accounts, NEW m \in Mails, register(r, a, m)
  PROVE  \E q : Moves(r, q)
  <1> DEFINE w == [mail |-> m, pw |-> 1, verified |-> FALSE, sub |-> NONE, chat |-> NONE,
                   vlink |-> Fresh(VERIFY_LIFE), rlink |-> NoLink, tlink |-> NoLink]
  <1>1. /\ user[a] = NONE
        /\ Begin(r, Write("save", a, user[a], w, NONE, 0)) /\ links' = links + 1
        /\ UNCHANGED <<user, session, now, access, replaced, dead, revived>>
    BY DEF register, Known
  <1>2. VERIFY_LIFE \in Nat /\ 1 \in 0..MAX_PW
    BY IdentityAssumption
  <1>3. /\ w \in Row /\ w.pw = 1 /\ w.sub = NONE
        /\ w["vlink"].n = links + 1 /\ w["rlink"] = NoLink /\ w["tlink"] = NoLink
    BY <1>2, FreshLink DEF Row
  <1> HIDE DEF w
  <1>4. ASSUME NEW q \in Writes, q.op = "save", q.a = a, q.loaded = user[a], q.wanted = w, q.other = NONE,
               q.n = 0, ~q.met, q \notin Opening
        PROVE  NewWrite(q)
    <2>1. FitsRow(q)
      BY <1>1, <1>3, <1>4 DEF FitsRow, NewRow, GoogleOK
    <2>2. /\ \A g \in Cols \ {"vlink"} : q.wanted[g] = NoLink
          /\ q.wanted["vlink"].n = links + 1 /\ links' = links + 1 /\ "vlink" \in Cols
      BY <1>1, <1>3, <1>4 DEF Cols
    <2> QED BY <1>1, <1>4, <2>1, <2>2 DEF NewWrite
  <1> QED BY <1>1, <1>3, <1>4, WriteMoves

LEMMA ChatMovesOn ==
  ASSUME TypeOK, NEW r \in Reqs, NEW a \in Accounts, NEW c \in Chats, link(r, a, c) \/ tg_link_webapp(r, a, c)
  PROVE  \E q : Moves(r, q)
  <1> DEFINE w == Tied(user[a], c)
             b == OtherOf(a, c)
  <1>1. PICK n \in Nat :
        /\ user[a] \in Row /\ user[a] # NONE /\ (n # 0 => user[a].tlink.n = n)
        /\ Begin(r, Write("save", a, user[a], w, b, n)) /\ links' = links
        /\ UNCHANGED <<user, session, now, access, replaced, dead, revived>>
    <2>1. user[a] \in Row /\ user[a] # NONE /\ user[a].tlink.n \in Nat
      BY KnownRow, RowTypes DEF link, tg_link_webapp, Link
    <2>2. CASE link(r, a, c)
      BY <2>1, <2>2 DEF link
    <2>3. CASE tg_link_webapp(r, a, c)
      <3>1. 0 \in Nat
        OBVIOUS
      <3> QED BY <2>1, <2>3, <3>1 DEF tg_link_webapp
    <2> QED BY <2>2, <2>3
  <1>2. /\ w \in Row /\ w.mail = user[a].mail /\ w.sub = user[a].sub /\ w.verified = user[a].verified
        /\ w.pw = user[a].pw /\ w.chat = c
        /\ w["tlink"] = NoLink /\ w["rlink"] = user[a]["rlink"] /\ w["vlink"] = user[a]["vlink"]
    BY <1>1, FreshLink DEF Tied, Row
  <1>3. b = NONE \/ (b \in UserByChat(c) /\ b # a)
    BY DEF OtherOf
  <1>4. b # NONE => b \in Accounts /\ b # a /\ user[b] # NONE /\ user[b].chat = c
    BY <1>3, KnownRow DEF UserByChat
  <1>5. c # NONE
    BY IdentityAssumption
  <1> HIDE DEF w, b
  <1>6. ASSUME NEW q \in Writes, q.op = "save", q.a = a, q.loaded = user[a], q.wanted = w, q.other = b,
               q.n = n, ~q.met, q \notin Opening
        PROVE  NewWrite(q)
    <2>1. FitsRow(q)
      BY <1>1, <1>2, <1>4, <1>6 DEF FitsRow, OldRow
    <2>2. \A g \in Cols : q.wanted[g] = NoLink \/ (q.loaded # NONE /\ q.wanted[g] = q.loaded[g])
      BY <1>1, <1>2, <1>6 DEF Cols
    <2>3. q.n # 0 => q.loaded # NONE /\ \E f \in Cols : q.loaded[f].n = q.n /\ q.wanted[f] = NoLink
      BY <1>1, <1>2, <1>6 DEF Cols, Row
    <2>4. "tlink" \in Cols
      BY DEF Cols
    <2> QED BY <1>1, <1>2, <1>4, <1>5, <1>6, <2>1, <2>2, <2>3, <2>4 DEF NewWrite
  <1> QED BY <1>1, <1>2, <1>4, <1>6, WriteMoves

LEMMA StaleAreSessions ==
  ASSUME TypeOK, NEW a, NEW S \in StaleSets(a)
  PROVE  S \subseteq SessionsOf(a) /\ S \in SUBSET Session
  <1>1. S \subseteq SessionsOf(a)
    BY DEF StaleSets
  <1> QED BY <1>1 DEF SessionsOf, TypeOK

\* Whom a sign-in is for: an account as it is, perhaps to be tied to Google, or a
\* new one.
Target(w) ==
    /\ w.a \in Accounts /\ w.loaded = user[w.a] /\ w.wanted \in Row
    /\ w.loaded = NONE => w.wanted.pw = 0 /\ GoogleOK(w.wanted) /\ \A f \in Cols : w.wanted[f] = NoLink
    /\ w.loaded # NONE => /\ w.wanted.mail = w.loaded.mail /\ w.wanted.pw = w.loaded.pw
                          /\ w.wanted.verified = w.loaded.verified /\ w.wanted.chat = w.loaded.chat
                          /\ \A f \in Cols : w.wanted[f] = w.loaded[f]
                          /\ w.wanted.sub # w.loaded.sub =>
                               w.loaded.verified /\ w.loaded.mail = MailOf[w.wanted.sub]

LEMMA SignInMoves ==
  ASSUME TypeOK, NEW r \in Reqs, ~IsWrite(req[r]),
         NEW w, Target(w),
         NEW token \in Tokens \cup {NONE}, token \notin TokensInUse \ {NONE},
         NEW stale \in SUBSET Session, stale \subseteq SessionsOf(w.a), token = NONE => stale = {},
         req' = [req EXCEPT ![r] = SignIn(w, token, stale)], links' = links, calls' \in {calls, calls + 1},
         access' = access \/ \E a \in Known : access' = Grant(a, Version(a)),
         UNCHANGED <<user, session, now, replaced, dead, revived>>
  PROVE  \E q : Moves(r, q)
  <1> USE DEF Target
  <1> DEFINE q == SignIn(w, token, stale)
  <1>1. w.loaded \in Row \cup {NONE}
    BY DEF TypeOK
  <1>2. /\ q \in Opening /\ q \in Writes /\ q \in Request /\ q # NONE /\ q.op = "signin" /\ q.a = w.a
        /\ q.loaded = w.loaded /\ q.wanted = w.wanted /\ q.other = NONE /\ q.n = 0 /\ ~q.met
        /\ q.token = token /\ q.stale = stale /\ q.asOf = Version(w.a) /\ ~q.late
    BY <1>1, SignInFields
  <1>3. req' = [req EXCEPT ![r] = q]
    OBVIOUS
  <1> HIDE DEF q
  <1>4. FitsRow(q)
    BY <1>2 DEF FitsRow, NewRow, OldRow
  <1>5. \A g \in Cols : q.wanted[g] = NoLink \/ (q.loaded # NONE /\ q.wanted[g] = q.loaded[g])
    BY <1>2
  <1>6. "vlink" \in Cols
    BY DEF Cols
  <1>7. q.loaded # NONE => q.wanted.chat = q.loaded.chat
    BY <1>2
  <1>8. NewWrite(q)
    BY <1>2, <1>4, <1>5, <1>6, <1>7 DEF NewWrite
  <1>9. Moves(r, q)
    BY <1>2, <1>3, <1>8 DEF Moves
  <1> QED BY <1>9

LEMMA TelegramSignUpMoves ==
  ASSUME TypeOK, NEW r \in Reqs, NEW a \in Accounts, NEW c \in Chats, tg_register(r, a, c)
  PROVE  \E q : Moves(r, q)
  <1> DEFINE row == [mail |-> NONE, pw |-> 0, verified |-> FALSE, sub |-> NONE, chat |-> c,
                     vlink |-> NoLink, rlink |-> NoLink, tlink |-> NoLink]
             w == [a |-> a, loaded |-> NONE, wanted |-> row]
  <1>1. user[a] = NONE /\ req[r] = NONE /\ req' = [req EXCEPT ![r] = SignIn(w, NONE, {})] /\ links' = links
        /\ calls' = calls + 1 /\ UNCHANGED <<user, session, now, access, replaced, dead, revived>>
    BY DEF tg_register, Known, Begin
  <1>2. row \in Row /\ row.pw = 0 /\ GoogleOK(row) /\ \A f \in Cols : row[f] = NoLink
    BY IdentityAssumption DEF Row, NoLink, Link, Cols, GoogleOK
  <1>3. w.a = a /\ w.loaded = NONE /\ w.wanted = row
    OBVIOUS
  <1> HIDE DEF row, w
  <1>4. Target(w)
    BY <1>1, <1>2, <1>3 DEF Target
  <1>5. /\ ~IsWrite(req[r]) /\ NONE \in Tokens \cup {NONE} /\ NONE \notin TokensInUse \ {NONE}
        /\ {} \in SUBSET Session /\ {} \subseteq SessionsOf(w.a)
    BY <1>1, NothingIsNoWrite
  <1> QED BY <1>1, <1>4, <1>5, SignInMoves

LEMMA GoogleTargetRows ==
  ASSUME TypeOK, NEW g \in Googles, NEW w \in GoogleTargets(g)
  PROVE  Target(w)
  <1> USE DEF Target
  <1>1. CASE \E a \in BySub(g) : w = [a |-> a, loaded |-> user[a], wanted |-> user[a]]
    BY <1>1, KnownRow DEF BySub
  <1>2. CASE \E a \in ByMail(verify_id_token(g)) :
                GoogleMayTie(a) /\ w = [a |-> a, loaded |-> user[a], wanted |-> GoogleRow(a, g)]
    <2>1. PICK a \in ByMail(verify_id_token(g)) :
                GoogleMayTie(a) /\ w = [a |-> a, loaded |-> user[a], wanted |-> GoogleRow(a, g)]
      BY <1>2
    <2>2. a \in Accounts /\ user[a] \in Row /\ user[a] # NONE /\ user[a].mail = MailOf[g] /\ user[a].verified
      BY <2>1, KnownRow DEF ByMail, verify_id_token, GoogleMayTie
    <2> DEFINE row == GoogleRow(a, g)
    <2>3. /\ row \in Row /\ row.mail = user[a].mail /\ row.pw = user[a].pw
          /\ row.verified = user[a].verified /\ row.chat = user[a].chat
          /\ \A f \in Cols : row[f] = user[a][f]
          /\ row.sub # user[a].sub => row.sub = g
      BY <2>2 DEF GoogleRow, Row, Cols
    <2> HIDE DEF row
    <2>4. w.a = a /\ w.loaded = user[a] /\ w.wanted = row
      BY <2>1 DEF row
    <2> QED BY <2>2, <2>3, <2>4
  <1>3. CASE \E a \in Accounts \ Known : w = [a |-> a, loaded |-> NONE, wanted |-> NewGoogle(g)]
    <2>1. PICK a \in Accounts \ Known : w = [a |-> a, loaded |-> NONE, wanted |-> NewGoogle(g)]
      BY <1>3
    <2> DEFINE row == NewGoogle(g)
    <2>2. MailOf[g] \in Mails
      BY IdentityAssumption
    <2>3. row \in Row /\ row.pw = 0 /\ GoogleOK(row) /\ \A f \in Cols : row[f] = NoLink
      BY <2>2, IdentityAssumption DEF NewGoogle, verify_id_token, Row, NoLink, Link, Cols, GoogleOK
    <2> HIDE DEF row
    <2>4. w.a = a /\ w.loaded = NONE /\ w.wanted = row /\ user[a] = NONE
      BY <2>1 DEF row, Known
    <2> QED BY <2>3, <2>4
  <1> QED BY <1>1, <1>2, <1>3 DEF GoogleTargets

LEMMA GoogleMoves ==
  ASSUME TypeOK, NEW r \in Reqs, NEW g \in Googles, NEW remember \in BOOLEAN, google_sign_in(r, g, remember)
  PROVE  \E q : Moves(r, q)
  <1>1. PICK w \in GoogleTargets(g) :
          \/ \E t \in Tokens \ TokensInUse, stale \in StaleSets(w.a) : Begin(r, SignIn(w, t, stale))
          \/ Begin(r, SignIn(w, NONE, {}))
    BY DEF google_sign_in
  <1>2. PICK t \in Tokens \cup {NONE}, stale \in SUBSET Session :
          /\ t \notin TokensInUse \ {NONE} /\ stale \subseteq SessionsOf(w.a) /\ (t = NONE => stale = {})
          /\ Begin(r, SignIn(w, t, stale))
    <2>1. CASE \E t \in Tokens \ TokensInUse, stale \in StaleSets(w.a) : Begin(r, SignIn(w, t, stale))
      BY <2>1, StaleAreSessions, IdentityAssumption
    <2>2. CASE Begin(r, SignIn(w, NONE, {}))
      BY <2>2
    <2> QED BY <1>1, <2>1, <2>2
  <1>3. /\ req[r] = NONE /\ req' = [req EXCEPT ![r] = SignIn(w, t, stale)] /\ calls' = calls + 1
        /\ links' = links /\ UNCHANGED <<user, session, now, access, replaced, dead, revived>>
    BY <1>2 DEF Begin, google_sign_in
  <1>4. Target(w)
    BY GoogleTargetRows
  <1> QED BY <1>2, <1>3, <1>4, NothingIsNoWrite, SignInMoves

\* A password was right: the customer is let in, and a sign-in begins if the app
\* asked for one.
LEMMA VerifiedMoves ==
  ASSUME TypeOK, NEW r \in Reqs, LoginVerified(r)
  PROVE  \E q : Moves(r, q)
  <1> DEFINE a == req[r].a
             w == Write("signin", a, user[a], user[a], NONE, 0)
  <1>1. /\ a \in Known /\ ~IsWrite(req[r]) /\ access' = Grant(a, user[a].pw) /\ user[a].pw = Version(a)
        /\ links' = links /\ calls' = calls /\ UNCHANGED <<user, session, now, replaced, dead, revived>>
    BY DEF LoginVerified, Matches, IsWrite, Version, Known
  <1>2. a \in Accounts /\ user[a] \in Row /\ user[a] # NONE
    BY <1>1, KnownRow
  <1>3. access' = access \/ \E b \in Known : access' = Grant(b, Version(b))
    BY <1>1
  <1>4. CASE \E t \in Tokens \ TokensInUse, stale \in StaleSets(a) : req' = [req EXCEPT ![r] = SignIn(w, t, stale)]
    <2>1. PICK t \in Tokens \ TokensInUse, stale \in StaleSets(a) : req' = [req EXCEPT ![r] = SignIn(w, t, stale)]
      BY <1>4
    <2>2. w.a = a /\ w.loaded = user[a] /\ w.wanted = user[a]
      BY DEF Write
    <2> HIDE DEF w
    <2>3. Target(w)
      BY <1>2, <2>2 DEF Target
    <2>4. stale \subseteq SessionsOf(w.a) /\ stale \in SUBSET Session /\ t # NONE /\ t \in Tokens \cup {NONE}
      BY <2>1, <2>2, StaleAreSessions, IdentityAssumption
    <2> HIDE DEF a
    <2> QED BY <1>1, <1>3, <2>1, <2>3, <2>4, SignInMoves
  <1>5. CASE req' = [req EXCEPT ![r] = NONE]
    BY <1>1, <1>3, <1>5, NothingIsNoWrite DEF Moves
  <1> QED BY <1>4, <1>5 DEF LoginVerified, Done

\* Requests that write no row, and those that end without writing one.
LEMMA OtherMoves ==
  ASSUME TypeOK, NEW r \in Reqs,
         \/ \E a \in Accounts : \E ip \in Sources, typed \in {0, Version(a)}, remember \in BOOLEAN :
               login(r, a, ip, typed, remember)
         \/ \E s \in session : refresh(r, s)
         \/ LoginRefused(r) \/ Clash(r)
  PROVE  \E q : Moves(r, q)
  <1>1. ASSUME NEW a \in Accounts, NEW ip \in Sources, NEW typed \in {0, Version(a)}, NEW remember \in BOOLEAN,
               login(r, a, ip, typed, remember)
        PROVE  \E q : Moves(r, q)
    <2> DEFINE q == [op |-> "check", a |-> a, ip |-> ip, typed |-> typed, remember |-> remember]
    <2>1. typed \in 0..MAX_PW
      BY RowTypes, IdentityAssumption DEF TypeOK, Version
    <2>2. q \in Checking /\ q.op = "check"
      BY <2>1 DEF Checking
    <2>3. /\ req[r] = NONE /\ req' = [req EXCEPT ![r] = q] /\ calls' = calls + 1 /\ links' = links
          /\ UNCHANGED <<user, session, now, access, replaced, dead, revived>>
      BY <1>1 DEF login, Begin
    <2> HIDE DEF q
    <2>4. q \in Request /\ ~IsWrite(q)
      BY <2>2 DEF Request, IsWrite
    <2>5. Moves(r, q)
      BY <2>2, <2>3, <2>4, NothingIsNoWrite DEF Moves
    <2> QED BY <2>5
  <1>2. ASSUME NEW s \in session, refresh(r, s)
        PROVE  \E q : Moves(r, q)
    <2> DEFINE q == [op |-> "refresh", s |-> s, at |-> now]
    <2>2. q \in Renewing /\ q.op = "refresh" /\ q.s = s
      BY DEF Renewing, TypeOK
    <2>3. /\ req[r] = NONE /\ req' = [req EXCEPT ![r] = q] /\ calls' = calls + 1 /\ links' = links
          /\ UNCHANGED <<user, session, now, access, replaced, dead, revived>>
      BY <1>2 DEF refresh, Begin
    <2> HIDE DEF q
    <2>4. q \in Request /\ ~IsWrite(q)
      BY <2>2 DEF Request, IsWrite
    <2>5. Moves(r, q)
      BY <2>2, <2>3, <2>4, NothingIsNoWrite DEF Moves
    <2> QED BY <2>5
  <1>3. ASSUME LoginRefused(r) \/ Clash(r)
        PROVE  Moves(r, NONE)
    BY <1>3, NothingIsNoWrite DEF Moves, LoginRefused, Clash, Rollback, Done
  <1> QED BY <1>1, <1>2, <1>3

\* The steps of the portal.
LEMMA Steps ==
  ASSUME TypeOK, Next
  PROVE  \/ Tick
         \/ \E s \in session : logout(s)
         \/ \E c \in Chats : tg_login(c)
         \/ \E r \in Reqs : Commits(r) \/ RefreshSave(r) \/ \E q : Moves(r, q)
  <1>1. ASSUME NEW r \in Reqs, NEW a \in Accounts
        PROVE  /\ \A m \in Mails : register(r, a, m) => \E q : Moves(r, q)
               /\ resend_verification(r, a) \/ verify_email(r, a) \/ reset_password(r, a)
                  \/ tg_link(r, a) \/ tg_unlink(r, a) => \E q : Moves(r, q)
               /\ \A c \in Chats : link(r, a, c) \/ tg_link_webapp(r, a, c) \/ tg_register(r, a, c)
                                   => \E q : Moves(r, q)
    BY LinkRequests, ResetMoves, RegisterMoves, ChatMovesOn, TelegramSignUpMoves
  <1>2. ASSUME NEW r \in Reqs, NEW m \in Mails, forgot_password(r, m)
        PROVE  \E q : Moves(r, q)
    BY <1>2, LinkRequests
  <1> QED BY <1>1, <1>2, GoogleMoves, VerifiedMoves, OtherMoves DEF Next, Commits

-----------------------------------------------------------------------------
(* Types.                                                                  *)

LEMMA LifeTypes ==
  /\ {MAX_SESSIONS, SESSION_LIFE, ACCESS_LIFE, VERIFY_LIFE, RESET_LIFE, LINK_LIFE, MAX_TIME, MAX_PW} \subseteq Nat
  /\ MAX_PW >= 1 /\ LATE \in Nat /\ LATE > MAX_PW /\ 0..MAX_PW \subseteq Stamps /\ LATE \in Stamps
  BY IdentityAssumption DEF LATE, Stamps

LEMMA VersionType == ASSUME TypeOK, NEW a \in Accounts PROVE Version(a) \in 0..MAX_PW
  BY RowTypes, IdentityAssumption DEF TypeOK, Version

LEMMA GrantType ==
  ASSUME TypeOK, NEW a \in Accounts, NEW v \in Stamps
  PROVE  /\ Grant(a, v) \in [Accounts -> [Stamps -> Int]]
         /\ Grant(a, v)[a][v] = now + ACCESS_LIFE
         /\ \A b \in Accounts, w \in Stamps : b # a \/ w # v => Grant(a, v)[b][w] = access[b][w]
  BY LifeTypes DEF TypeOK, Grant

\* What the commit of a sign-in does to the sessions.
NewSession(q) == [token |-> q.token, a |-> q.a, asOf |-> q.asOf, late |-> q.late,
                  used |-> now, exp |-> now + SESSION_LIFE]
Dropped(q) == {s \in session : s.token \in {d.token : d \in q.stale}}

LEMMA SignInCommit ==
  ASSUME TypeOK, NEW r \in Reqs, SignInSave(r), NEW q, q = req[r]
  PROVE  /\ q \in Opening /\ Stamp(q) \in Stamps
         /\ session' = (session \ Dropped(q)) \cup (IF q.token = NONE THEN {} ELSE {NewSession(q)})
         /\ q.token # NONE => /\ NewSession(q) \in Session
                              /\ NewSession(q).token = q.token /\ NewSession(q).a = q.a
                              /\ NewSession(q).asOf = q.asOf /\ NewSession(q).late = q.late
         /\ access' = Grant(q.a, Stamp(q))
  <1>1. q \in Request /\ q.op = "signin"
    BY DEF SignInSave, TypeOK
  <1>2. q \in Opening
    BY <1>1, Kinds
  <1>3. /\ q.a \in Accounts /\ q.asOf \in 0..MAX_PW /\ q.late \in BOOLEAN /\ q.token \in Tokens \cup {NONE}
    BY <1>2 DEF Opening
  <1>4. Stamp(q) \in Stamps
    BY <1>3, LifeTypes DEF Stamp
  <1>5. now + SESSION_LIFE \in Nat /\ now \in Nat
    BY LifeTypes DEF TypeOK
  <1>6. q.token # NONE => /\ NewSession(q) \in Session
                          /\ NewSession(q).token = q.token /\ NewSession(q).a = q.a
                          /\ NewSession(q).asOf = q.asOf /\ NewSession(q).late = q.late
    BY <1>3, <1>5 DEF NewSession, Session
  <1>7. /\ session' = (session \ Dropped(q)) \cup (IF q.token = NONE THEN {} ELSE {NewSession(q)})
        /\ access' = Grant(q.a, Stamp(q))
    BY DEF SignInSave, NewSession, Dropped
  <1> QED BY <1>2, <1>4, <1>6, <1>7

\* A renewed session has its sign-in's token, account and password.
Moved(q, s) == [s EXCEPT !.used = q.at, !.exp = q.at + SESSION_LIFE]

LEMMA MovedSession ==
  ASSUME NEW q \in Renewing, NEW s \in Session
  PROVE  /\ Moved(q, s) \in Session /\ Moved(q, s).token = s.token /\ Moved(q, s).a = s.a
         /\ Moved(q, s).asOf = s.asOf /\ Moved(q, s).late = s.late
  <1>1. q.at \in Nat /\ q.at + SESSION_LIFE \in Nat
    BY LifeTypes DEF Renewing
  <1> QED BY <1>1 DEF Moved, Session

LEMMA RefreshCommit ==
  ASSUME TypeOK, NEW r \in Reqs, RefreshSave(r), NEW q, q = req[r]
  PROVE  /\ q \in Renewing /\ q.s \in Session
         /\ ~IsWrite(q) /\ req' = [req EXCEPT ![r] = NONE]
         /\ session' \subseteq Session
         /\ \/ session' = session \ RowOf(q)
            \/ session' = (session \ RowOf(q)) \cup {Moved(q, s) : s \in RowOf(q)}
         /\ \/ access' = access
            \/ RowOf(q) # {} /\ access' = Grant(q.s.a, Stamp(q.s))
         /\ UNCHANGED <<user, now, links, calls, replaced, dead, revived>>
  <1>1. q \in Renewing
    BY Kinds DEF RefreshSave, TypeOK
  <1>2. q.s \in Session /\ q.op = "refresh"
    BY <1>1 DEF Renewing
  <1>3. \/ session' = session \ RowOf(q)
        \/ session' = (session \ RowOf(q)) \cup {Moved(q, s) : s \in RowOf(q)}
    BY DEF RefreshSave, Moved
  <1>4. session' \subseteq Session
    BY <1>1, <1>3, MovedSession DEF TypeOK, RowOf
  <1>5. /\ \/ access' = access
           \/ RowOf(q) # {} /\ access' = Grant(q.s.a, Stamp(q.s))
        /\ req' = [req EXCEPT ![r] = NONE]
        /\ UNCHANGED <<user, now, links, calls, replaced, dead, revived>>
    BY DEF RefreshSave, RefreshGrants, Done
  <1> QED BY <1>1, <1>2, <1>3, <1>4, <1>5 DEF IsWrite

LEMMA TypeStep ==
  ASSUME TypeOK, RowInv, [Next]_vars
  PROVE  TypeOK'
  <1> USE DEF TypeOK
  <1>1. CASE Tick
    BY <1>1 DEF Tick
  <1>2. CASE \E s \in session : logout(s)
    BY <1>2 DEF logout
  <1>3. CASE \E c \in Chats : tg_login(c)
    <2>1. PICK a \in Known : access' = Grant(a, user[a].pw)
      BY <1>3 DEF tg_login, UserByChat
    <2>2. a \in Accounts /\ user[a].pw \in Stamps
      BY <2>1, KnownRow, RowTypes, LifeTypes
    <2>3. access' \in [Accounts -> [Stamps -> Int]]
      BY <2>1, <2>2, GrantType
    <2> QED BY <1>3, <2>3 DEF tg_login
  <1>4. ASSUME NEW r \in Reqs, NEW q, Moves(r, q) PROVE TypeOK'
    <2>1. access' \in [Accounts -> [Stamps -> Int]]
      <3>1. ASSUME NEW a \in Known PROVE Grant(a, Version(a)) \in [Accounts -> [Stamps -> Int]]
        BY KnownRow, VersionType, GrantType, LifeTypes
      <3> QED BY <1>4, <3>1 DEF Moves
    <2>2. req' \in [Reqs -> Request \cup {NONE}]
      BY <1>4 DEF Moves
    <2> QED BY <1>4, <2>1, <2>2 DEF Moves
  <1>5. ASSUME NEW r \in Reqs, RefreshSave(r) PROVE TypeOK'
    <2> DEFINE q == req[r]
    <2>1. q.s \in Session /\ q.s.a \in Accounts /\ Stamp(q.s) \in Stamps
      <3>1. q.s \in Session
        BY <1>5, RefreshCommit
      <3>2. q.s.a \in Accounts /\ q.s.asOf \in 0..MAX_PW /\ q.s.late \in BOOLEAN
        BY <3>1 DEF Session
      <3> QED BY <3>1, <3>2, LifeTypes DEF Stamp
    <2>2. Grant(q.s.a, Stamp(q.s)) \in [Accounts -> [Stamps -> Int]]
      BY <2>1, GrantType
    <2>3. /\ req' = [req EXCEPT ![r] = NONE] /\ session' \subseteq Session
          /\ access' = access \/ access' = Grant(q.s.a, Stamp(q.s))
          /\ UNCHANGED <<user, now, links, calls, replaced, dead, revived>>
      BY <1>5, RefreshCommit
    <2> QED BY <2>2, <2>3
  <1>6. ASSUME NEW r \in Reqs, Commits(r) PROVE TypeOK'
    <2> DEFINE q == req[r]
    <2>1. /\ q \in Writes /\ user' \in [Accounts -> Row \cup {NONE}] /\ req' = Left(r, q) /\ q.a \in Accounts
      BY <1>6, CommitRows, CommitRequest, Fields
    <2>2. req' \in [Reqs -> Request \cup {NONE}]
      BY <2>1, LeftTypes
    <2>3. CASE SignInSave(r)
      <3>1. access' \in [Accounts -> [Stamps -> Int]] /\ session' \subseteq Session
        <4>1. /\ access' = Grant(q.a, Stamp(q)) /\ Stamp(q) \in Stamps
              /\ session' \subseteq session \cup {NewSession(q)}
              /\ q.token # NONE => NewSession(q) \in Session
              /\ q.token = NONE => session' \subseteq session
          BY <2>3, SignInCommit
        <4> QED BY <2>1, <4>1, GrantType
      <3> QED BY <2>1, <2>2, <2>3, <3>1 DEF SignInSave
    <2>4. ASSUME dead' = Buried(q), revived' = Revives(q)
          PROVE  dead' \subseteq Nat /\ revived' \in BOOLEAN
      <3>1. \A row \in Row \cup {NONE} : LinksIn(row) \subseteq Nat
        BY DEF LinksIn, Row, Link
      <3>2. LinksIn(user[q.a]) \subseteq Nat /\ q.n \in Nat
        BY <2>1, <3>1, Fields
      <3> QED BY <2>4, <3>2 DEF Buried, Revives
    <2>5. CASE Save(r)
      BY <2>1, <2>2, <2>4, <2>5 DEF Save
    <2>6. CASE ResetSave(r)
      <3>1. replaced' \in [Accounts -> [0..MAX_PW -> Int]]
        <4>1. replaced' = [replaced EXCEPT ![q.a][user[q.a].pw] = now] /\ now \in Int
          BY <2>6 DEF ResetSave
        <4> QED BY <2>1, <4>1
      <3>2. session' \subseteq Session
        <4>1. session' = close_all(q.a)
          BY <2>6 DEF ResetSave
        <4> QED BY <4>1 DEF close_all
      <3> QED BY <2>1, <2>2, <2>4, <2>6, <3>1, <3>2 DEF ResetSave
    <2> QED BY <1>6, <2>3, <2>5, <2>6 DEF Commits
  <1>7. CASE UNCHANGED vars
    BY <1>7 DEF vars
  <1> QED BY <1>1, <1>2, <1>3, <1>4, <1>5, <1>6, <1>7, Steps

-----------------------------------------------------------------------------
(* Mailboxes and Google.                                                   *)

\* A commit takes no row away, changes no address and takes back no confirmation.
LEMMA RowsStay ==
  ASSUME TypeOK, RowInv, NEW r \in Reqs, Commits(r), NEW a \in Accounts, user[a] # NONE
  PROVE  /\ user'[a] \in Row /\ user'[a] # NONE /\ user[a] \in Row
         /\ user'[a].mail = user[a].mail
         /\ user[a].verified => user'[a].verified
         /\ a # req[r].a => user'[a].sub = user[a].sub
  <1> DEFINE q == req[r]
  <1>0. user[a] \in Row
    BY DEF TypeOK
  <1>1. CASE a = q.a
    <2>1. q.loaded # NONE /\ FitsRow(q) /\ q \in Writes
      BY <1>1, CommitRequest
    <2>2. q.loaded.verified => q.wanted.verified
      BY <2>1 DEF FitsRow, OldRow
    <2>3. q.loaded.verified \in BOOLEAN /\ q.wanted.verified \in BOOLEAN /\ user[a].verified \in BOOLEAN
      BY <1>0, <2>1, Fields, RowTypes
    <2>4. /\ user'[a] \in Row /\ user'[a].mail = user[a].mail
          /\ user'[a].verified = IF q.wanted.verified # q.loaded.verified
                                 THEN q.wanted.verified ELSE user[a].verified
      BY <1>1, <2>1, CommitRows
    <2>5. user[a].verified => user'[a].verified
      BY <2>2, <2>3, <2>4
    <2> QED BY <1>0, <1>1, <2>4, <2>5, RowTypes
  <1>2. CASE a # q.a
    <2>1. user'[a] = user[a] \/ user'[a] = [user[a] EXCEPT !.chat = NONE]
      BY <1>2, CommitRows
    <2>2. LET w == [user[a] EXCEPT !.chat = NONE] IN
            w \in Row /\ w.mail = user[a].mail /\ w.verified = user[a].verified /\ w.sub = user[a].sub
      BY <1>0 DEF Row
    <2> QED BY <1>0, <2>1, <2>2, RowTypes
  <1> QED BY <1>1, <1>2

\* What a request wants of the rows, with the request fixed.
LEMMA FitsRowNow ==
  ASSUME NEW x \in Reqs, NEW p, req'[x] = p, IsWrite(p) => FitsRow(p)'
  PROVE  IsWrite(req[x])' => FitsRow(req[x])'
  BY DEF IsWrite, FitsRow, NewRow, OldRow, GoogleOK

LEMMA RowStep ==
  ASSUME TypeOK, RowInv, [Next]_vars
  PROVE  RowInv'
  <1>1. CASE UNCHANGED <<user, req>>
    BY <1>1 DEF RowInv, IsWrite, FitsRow, NewRow, OldRow, GoogleOK
  <1>2. ASSUME NEW r \in Reqs, NEW q, user' = user, req' = [req EXCEPT ![r] = q], IsWrite(q) => FitsRow(q)
        PROVE  RowInv'
    <2> SUFFICES ASSUME NEW x \in Reqs PROVE IsWrite(req[x])' => FitsRow(req[x])'
      BY DEF RowInv
    <2>1. PICK p : p = req'[x]
      OBVIOUS
    <2>2. IsWrite(p) => FitsRow(p)
      BY <1>2, <2>1 DEF RowInv, TypeOK
    <2>3. FitsRow(p) => FitsRow(p)'
      BY <1>2 DEF FitsRow, NewRow, OldRow
    <2> QED BY <2>1, <2>2, <2>3, FitsRowNow
  <1>3. ASSUME NEW r \in Reqs, NEW q, Moves(r, q) PROVE RowInv'
    BY <1>2, <1>3 DEF Moves, NewWrite
  <1>4. ASSUME NEW r \in Reqs, RefreshSave(r) PROVE RowInv'
    BY <1>2, <1>4, RefreshCommit, NothingIsNoWrite
  <1>5. ASSUME NEW r \in Reqs, Commits(r) PROVE RowInv'
    <2> SUFFICES ASSUME NEW x \in Reqs PROVE IsWrite(req[x])' => FitsRow(req[x])'
      BY DEF RowInv
    <2>0. PICK p1 : p1 = req'[x]
      OBVIOUS
    <2> SUFFICES ASSUME IsWrite(p1) PROVE FitsRow(p1)'
      BY <2>0, FitsRowNow
    <2> DEFINE p == req[x]
    <2>1. req' = Left(r, req[r]) /\ x # r /\ IsWrite(p)
      BY <1>5, <2>0, CommitRequest, LeftTypes
    <2>2. /\ p1.op = p.op /\ p1.a = p.a /\ p1.loaded = p.loaded /\ p1.wanted = p.wanted /\ p1.other = p.other
          /\ p1 \in Writes
      BY <2>0, <2>1, LeftAlone
    <2>3. FitsRow(p) /\ p1.a \in Accounts /\ p1.other \in Accounts \cup {NONE}
      BY <2>1, <2>2, Fields DEF RowInv
    <2> HIDE DEF p
    <2>4. FitsRow(p1)
      BY <2>2, <2>3 DEF FitsRow, NewRow, OldRow
    <2>5. p1.loaded # NONE => OldRow(p1)'
      <3> SUFFICES ASSUME p1.loaded # NONE PROVE OldRow(p1)'
        OBVIOUS
      <3>1. OldRow(p1)
        BY <2>4 DEF FitsRow
      <3>2. user[p1.a] # NONE
        BY <3>1 DEF OldRow
      <3>3. /\ user'[p1.a] # NONE /\ user'[p1.a].mail = user[p1.a].mail
            /\ user[p1.a].verified => user'[p1.a].verified
        BY <1>5, <2>3, <3>2, RowsStay
      <3> QED BY <3>1, <3>3 DEF OldRow
    <2>6. p1.other # NONE => user'[p1.other] # NONE /\ p1.other # p1.a
      BY <1>5, <2>3, <2>4, RowsStay DEF FitsRow
    <2>7. p1.loaded = NONE => NewRow(p1)
      BY <2>4 DEF FitsRow
    <2> QED BY <2>5, <2>6, <2>7 DEF FitsRow, NewRow, GoogleOK
  <1> QED BY <1>1, <1>3, <1>4, <1>5, Steps DEF Tick, logout, tg_login, vars

LEMMA GoogleStep ==
  ASSUME TypeOK, RowInv, GoogleTiedToItsMailbox, [Next]_vars
  PROVE  GoogleTiedToItsMailbox'
  <1>1. CASE user' = user
    BY <1>1 DEF GoogleTiedToItsMailbox, Known
  <1>2. ASSUME NEW r \in Reqs, Commits(r) PROVE GoogleTiedToItsMailbox'
    <2> DEFINE q == req[r]
    <2> SUFFICES ASSUME NEW a \in Accounts, user'[a] # NONE, user'[a].sub # NONE
                 PROVE  user'[a].verified /\ user'[a].mail = MailOf[user'[a].sub]
      BY DEF GoogleTiedToItsMailbox, Known
    <2>0. q \in Writes /\ FitsRow(q) /\ (q.loaded = NONE => user[q.a] = NONE)
      BY <1>2, CommitRequest
    <2>1. CASE user[a] # NONE /\ user'[a].sub = user[a].sub
      BY <1>2, <2>1, RowsStay DEF GoogleTiedToItsMailbox, Known
    <2>2. CASE a = q.a /\ q.loaded = NONE
      <3>1. GoogleOK(q.wanted)
        BY <2>0, <2>2 DEF FitsRow, NewRow
      <3>2. user'[a].sub = q.wanted.sub /\ user'[a].mail = q.wanted.mail /\ user'[a].verified = q.wanted.verified
        BY <1>2, <2>2, CommitRows
      <3> QED BY <3>1, <3>2 DEF GoogleOK
    <2>3. CASE a = q.a /\ q.loaded # NONE /\ user'[a].sub # user[a].sub
      <3>1. q.wanted.sub # q.loaded.sub /\ user'[a].sub = q.wanted.sub
        BY <1>2, <2>3, CommitRows
      <3>2. q.loaded.verified /\ q.loaded.mail = MailOf[q.wanted.sub] /\ user[a] # NONE
            /\ user[a].mail = q.loaded.mail /\ user[a].verified
        BY <2>0, <2>3, <3>1 DEF FitsRow, OldRow
      <3> QED BY <1>2, <3>1, <3>2, RowsStay
    <2>4. a # q.a => user[a] # NONE /\ user'[a].sub = user[a].sub
      <3>1. a # q.a => user'[a] = user[a] \/ user[a] \in Row
        BY <1>2, CommitRows, ZenonT(40)
      <3>2. a # q.a => user[a] # NONE
        BY <3>1, RowTypes
      <3> QED BY <1>2, <3>2, RowsStay
    <2>5. a = q.a /\ q.loaded # NONE => user[a] # NONE
      BY <2>0 DEF FitsRow, OldRow
    <2> QED BY <2>1, <2>2, <2>3, <2>4, <2>5
  <1>3. (\E r \in Reqs : Commits(r)) \/ user' = user
    BY Steps DEF Tick, logout, tg_login, Moves, RefreshSave, vars
  <1> QED BY <1>1, <1>2, <1>3

-----------------------------------------------------------------------------
(* Sign-ins and their tokens.                                              *)

LEMMA SigningTypes ==
  ASSUME TypeOK, NEW x \in SigningIn
  PROVE  /\ x \in Reqs /\ req[x] \in Opening /\ req[x].a \in Accounts /\ req[x].token \in Tokens \cup {NONE}
         /\ req[x].stale \subseteq Session /\ req[x].asOf \in 0..MAX_PW /\ req[x].late \in BOOLEAN
  <1>1. x \in Reqs /\ req[x] \in Opening
    BY Kinds DEF SigningIn, IsWrite, TypeOK
  <1> QED BY <1>1 DEF Opening

LEMMA CommitLeaves ==
  ASSUME TypeOK, RowInv, NEW r \in Reqs, Commits(r)
  PROVE  /\ SigningIn' = SigningIn \ {r}
         /\ \A x \in SigningIn \ {r} :
              /\ req'[x].token = req[x].token /\ req'[x].stale = req[x].stale
              /\ req'[x].asOf = req[x].asOf /\ req'[x].a = req[x].a
              /\ req'[x].late = (req[x].late \/ (SetsPassword(req[r]) /\ req[x].a = req[r].a))
         /\ \A x \in Trading' : x \in Trading /\ req'[x] = req[x]
  <1>1. req' = Left(r, req[r])
    BY CommitRequest
  <1>2. ASSUME NEW x \in Reqs, x # r, IsWrite(req[x])
        PROVE  /\ x \in SigningIn' <=> x \in SigningIn
               /\ x \notin Trading'
    <2>1. req'[x].op = req[x].op /\ IsWrite(req'[x])
      BY <1>1, <1>2, LeftAlone
    <2> QED BY <1>2, <2>1 DEF SigningIn, Trading, IsWrite
  <1>3. ASSUME NEW x \in SigningIn \ {r}
        PROVE  /\ req'[x].token = req[x].token /\ req'[x].stale = req[x].stale
               /\ req'[x].asOf = req[x].asOf /\ req'[x].a = req[x].a
               /\ req'[x].late = (req[x].late \/ (SetsPassword(req[r]) /\ req[x].a = req[r].a))
    <2>1. x \in Reqs /\ x # r /\ IsWrite(req[x]) /\ req[x] \in Opening
      BY SigningTypes DEF SigningIn
    <2> QED BY <1>1, <2>1, LeftAlone
  <1>4. \A x \in Reqs : x # r /\ ~IsWrite(req[x]) => req'[x] = req[x]
    BY <1>1, LeftRest
  <1>5. req'[r] = NONE
    BY <1>1, LeftRest
  <1>6. SigningIn' = SigningIn \ {r}
    BY <1>2, <1>4, <1>5, NothingIsNoWrite DEF SigningIn, IsWrite
  <1>7. \A x \in Trading' : x \in Trading /\ req'[x] = req[x]
    BY <1>2, <1>4, <1>5 DEF Trading
  <1> QED BY <1>3, <1>6, <1>7

LEMMA MoveLeaves ==
  ASSUME TypeOK, NEW r \in Reqs, NEW q, Moves(r, q)
  PROVE  /\ \A x \in Reqs \ {r} : req'[x] = req[x]
         /\ req'[r] = q
         /\ SigningIn' = (SigningIn \ {r}) \cup (IF q \in Opening THEN {r} ELSE {})
         /\ q \in Opening => r \notin SigningIn /\ NewWrite(q)
         /\ \A x \in Trading' : \/ x # r /\ x \in Trading /\ req'[x] = req[x]
                                \/ x = r /\ req'[x].s \in session
  <1>1. (\A x \in Reqs \ {r} : req'[x] = req[x]) /\ req'[r] = q
    BY DEF Moves, TypeOK
  <1>2. q \in Opening <=> IsWrite(q) /\ q.op = "signin"
    <2>1. CASE q = NONE
      BY <2>1, NothingIsNoWrite, IdentityAssumption DEF Request
    <2>2. CASE q \in Request
      BY <2>2, Kinds DEF Writes
    <2> QED BY <2>1, <2>2 DEF Moves
  <1>3. SigningIn' = (SigningIn \ {r}) \cup (IF q \in Opening THEN {r} ELSE {})
    BY <1>1, <1>2 DEF SigningIn, IsWrite
  <1>4. q \in Opening => r \notin SigningIn /\ NewWrite(q)
    BY <1>2 DEF SigningIn, Moves, IsWrite
  <1>5. \A x \in Trading' : \/ x # r /\ x \in Trading /\ req'[x] = req[x]
                            \/ x = r /\ req'[x].s \in session
    BY <1>1 DEF Trading, Moves
  <1> QED BY <1>1, <1>3, <1>4, <1>5

\* A token not in use is in no hands.
LEMMA UnusedToken ==
  ASSUME TypeOK, NEW t \in Tokens \cup {NONE}, t \notin TokensInUse \ {NONE}
  PROVE  /\ \A s \in session : s.token # t
         /\ \A x \in SigningIn : t # NONE => req[x].token # t
         /\ \A x \in SigningIn : \A d \in req[x].stale : d.token # t
         /\ \A x \in Trading : req[x].s.token # t
  <1>1. \A s \in Session : s.token \in Tokens /\ s.token # NONE
    BY IdentityAssumption DEF Session
  <1>2. \A s \in session : s.token # t
    BY <1>1 DEF TokensInUse, TypeOK
  <1>3. ASSUME NEW x \in SigningIn
        PROVE  req[x].token \in TokensInUse /\ \A d \in req[x].stale : d.token \in TokensInUse
    <2> DEFINE H(y) == {req[y].token} \cup {d.token : d \in req[y].stale}
               U == {H(y) : y \in SigningIn}
    <2>1. H(x) \in U
      OBVIOUS
    <2>2. UNION U \subseteq TokensInUse
      BY DEF TokensInUse
    <2>3. H(x) \subseteq UNION U
      BY <2>1
    <2>4. req[x].token \in H(x) /\ \A d \in req[x].stale : d.token \in H(x)
      OBVIOUS
    <2> HIDE DEF H, U
    <2> QED BY <2>2, <2>3, <2>4
  <1>4. ASSUME NEW x \in SigningIn
        PROVE  (t # NONE => req[x].token # t) /\ \A d \in req[x].stale : d.token # t
    BY <1>1, <1>3, SigningTypes
  <1>5. ASSUME NEW x \in Trading PROVE req[x].s.token # t
    <2>1. req[x].s \in Session
      BY <1>5, Kinds DEF Trading, TypeOK, Renewing
    <2> DEFINE V == {req[y].s.token : y \in Trading}
    <2>3. V \subseteq TokensInUse
      BY DEF TokensInUse
    <2>4. req[x].s.token \in V
      OBVIOUS
    <2> HIDE DEF V
    <2> QED BY <1>1, <2>1, <2>3, <2>4
  <1> QED BY <1>2, <1>4, <1>5

LEMMA TicketFields ==
  \A s, t : Ticket(s) = Ticket(t) <=> s.token = t.token /\ s.a = t.a /\ s.asOf = t.asOf /\ s.late = t.late
  BY DEF Ticket

\* Steps that hand out no token.
LEMMA TokenKeeps ==
  ASSUME TokenInv,
         \A s \in session' : \E o \in session : Ticket(s) = Ticket(o),
         \A s, t \in session' : s.token = t.token => s = t,
         SigningIn' \subseteq SigningIn,
         \A x \in SigningIn' : /\ req'[x].token = req[x].token /\ req'[x].stale = req[x].stale
                               /\ req'[x].a = req[x].a,
         \A x \in Trading' : (x \in Trading /\ req'[x] = req[x]) \/ req'[x].s \in session
  PROVE  TokenInv'
  <1>1. \A x, y \in SigningIn' : x # y /\ req'[x].token # NONE => req'[x].token # req'[y].token
    BY DEF TokenInv
  <1>2. \A x \in SigningIn', s \in session' : s.token # req'[x].token
    BY TicketFields DEF TokenInv
  <1>3. ASSUME NEW x \in Trading'
        PROVE  /\ \A s \in session' : s.token = req'[x].s.token => Ticket(s) = Ticket(req'[x].s)
               /\ \A y \in SigningIn' : req'[y].token # req'[x].s.token
    <2>1. CASE x \in Trading /\ req'[x] = req[x]
      <3>1. /\ \A s \in session : s.token = req'[x].s.token => Ticket(s) = Ticket(req'[x].s)
            /\ \A y \in SigningIn : req[y].token # req'[x].s.token
        BY <2>1 DEF TokenInv
      <3>2. ASSUME NEW s \in session', s.token = req'[x].s.token PROVE Ticket(s) = Ticket(req'[x].s)
        <4>1. PICK o \in session : Ticket(s) = Ticket(o)
          OBVIOUS
        <4>2. o.token = s.token
          BY <4>1, TicketFields
        <4> QED BY <3>1, <3>2, <4>1, <4>2
      <3> QED BY <3>1, <3>2
    <2>2. CASE req'[x].s \in session
      <3>1. ASSUME NEW s \in session', s.token = req'[x].s.token PROVE Ticket(s) = Ticket(req'[x].s)
        <4>1. PICK o \in session : Ticket(s) = Ticket(o)
          OBVIOUS
        <4>2. o.token = s.token
          BY <4>1, TicketFields
        <4>3. o = req'[x].s
          BY <2>2, <3>1, <4>2 DEF TokenInv
        <4> QED BY <4>1, <4>3
      <3>2. \A y \in SigningIn' : req'[y].token # req'[x].s.token
        BY <2>2 DEF TokenInv
      <3> QED BY <3>1, <3>2
    <2> QED BY <2>1, <2>2
  <1>4. \A x \in SigningIn' : req'[x].token = NONE => req'[x].stale = {}
    BY DEF TokenInv
  <1>5. \A x \in SigningIn' : \A d \in req'[x].stale :
          /\ \A s \in session' : s.token = d.token => s.a = req'[x].a
          /\ \A y \in SigningIn' : req'[y].token # d.token
    BY TicketFields DEF TokenInv
  <1>6. \A x \in Trading' : \A s \in session' : s.token = req'[x].s.token => Ticket(s) = Ticket(req[x].s)'
    BY <1>3 DEF Ticket
  <1> QED BY <1>1, <1>2, <1>3, <1>4, <1>5, <1>6 DEF TokenInv, Ticket

LEMMA TokenStep ==
  ASSUME TypeOK, RowInv, TokenInv, [Next]_vars
  PROVE  TokenInv'
  <1>0. \A s, t \in session : s.token = t.token => s = t
    BY DEF TokenInv
  <1>1. CASE session' \subseteq session /\ req' = req
    BY <1>0, <1>1, TokenKeeps DEF SigningIn, Trading, IsWrite
  <1>2. ASSUME NEW r \in Reqs, NEW q, Moves(r, q) PROVE TokenInv'
    <2>0. session' = session
      BY <1>2 DEF Moves
    <2>1. CASE q \notin Opening
      <3>1. SigningIn' \subseteq SigningIn \ {r} /\ \A x \in SigningIn' : req'[x] = req[x]
        BY <1>2, <2>1, MoveLeaves DEF SigningIn
      <3>2. \A x \in Trading' : (x \in Trading /\ req'[x] = req[x]) \/ req'[x].s \in session
        BY <1>2, MoveLeaves
      <3> QED BY <1>0, <2>0, <3>1, <3>2, TokenKeeps
    <2>2. CASE q \in Opening
      <3> DEFINE t == q.token
      <3>1. /\ NewWrite(q) /\ r \notin SigningIn /\ SigningIn' = SigningIn \cup {r} /\ req'[r] = q
            /\ \A x \in SigningIn : x # r /\ req'[x] = req[x]
            /\ \A x \in Trading' : x \in Trading /\ req'[x] = req[x]
        <4>1. r \notin Trading'
          BY <1>2, <2>2, MoveLeaves DEF Trading, Opening
        <4> QED BY <1>2, <2>2, <4>1, MoveLeaves DEF SigningIn
      <3>2. /\ t \in Tokens \cup {NONE} /\ t \notin TokensInUse \ {NONE}
            /\ q.stale \subseteq session /\ (t = NONE => q.stale = {})
            /\ \A d \in q.stale : d.a = q.a
        BY <2>2, <3>1 DEF NewWrite, Opening, SessionsOf
      <3>3. /\ \A s \in session : s.token # t
            /\ \A x \in SigningIn : t # NONE => req[x].token # t
            /\ \A x \in SigningIn : \A d \in req[x].stale : d.token # t
            /\ \A x \in Trading : req[x].s.token # t
        BY <3>2, UnusedToken
      <3> HIDE DEF t
      <3>4. \A x, y \in SigningIn' : x # y /\ req'[x].token # NONE => req'[x].token # req'[y].token
        BY <3>1, <3>3 DEF TokenInv, t
      <3>5. \A x \in SigningIn', s \in session' : s.token # req'[x].token
        BY <2>0, <3>1, <3>3 DEF TokenInv, t
      <3>6. ASSUME NEW x \in Trading'
            PROVE  /\ \A s \in session' : s.token = req'[x].s.token => Ticket(s) = Ticket(req[x].s)'
                   /\ \A y \in SigningIn' : req'[y].token # req'[x].s.token
        BY <2>0, <3>1, <3>3 DEF TokenInv, t, Ticket
      <3>7. \A x \in SigningIn' : req'[x].token = NONE => req'[x].stale = {}
        BY <3>1, <3>2 DEF TokenInv, t
      <3>8. ASSUME NEW x \in SigningIn', NEW d \in req'[x].stale
            PROVE  /\ \A s \in session' : s.token = d.token => s.a = req'[x].a
                   /\ \A y \in SigningIn' : req'[y].token # d.token
        <4>1. CASE x = r
          <5>1. d \in session /\ d.a = q.a /\ req'[x].a = q.a
            BY <3>1, <3>2, <3>8, <4>1
          <5>2. \A s \in session' : s.token = d.token => s.a = req'[x].a
            BY <1>0, <2>0, <5>1
          <5>3. \A y \in SigningIn' : req'[y].token # d.token
            BY <3>1, <3>3, <5>1 DEF TokenInv, t
          <5> QED BY <5>2, <5>3
        <4>2. CASE x # r
          BY <2>0, <3>1, <3>3, <3>8, <4>2 DEF TokenInv, t
        <4> QED BY <4>1, <4>2
      <3> QED BY <1>0, <2>0, <3>4, <3>5, <3>6, <3>7, <3>8 DEF TokenInv, Ticket
    <2> QED BY <2>1, <2>2
  <1>3. ASSUME NEW r \in Reqs, RefreshSave(r) PROVE TokenInv'
    <2> DEFINE q == req[r]
    <2>1. /\ q \in Renewing /\ ~IsWrite(q) /\ req' = [req EXCEPT ![r] = NONE]
          /\ \/ session' = session \ RowOf(q)
             \/ session' = (session \ RowOf(q)) \cup {Moved(q, s) : s \in RowOf(q)}
      BY <1>3, RefreshCommit
    <2>2. SigningIn' = SigningIn /\ Trading' = Trading \ {r} /\ \A x \in Reqs \ {r} : req'[x] = req[x]
      BY <2>1, NothingIsNoWrite DEF SigningIn, Trading, IsWrite, TypeOK
    <2>3. \A x \in SigningIn : x # r /\ req'[x] = req[x]
      BY <2>1, <2>2 DEF SigningIn
    <2>4. ASSUME NEW s \in session'
          PROVE  \E o \in session : Ticket(s) = Ticket(o) /\ (s = o \/ (o \in RowOf(q) /\ s = Moved(q, o)))
      <3>1. s \in session \/ \E o \in RowOf(q) : s = Moved(q, o)
        BY <2>1
      <3>2. \A o \in RowOf(q) : o \in session /\ o \in Session
        BY DEF RowOf, TypeOK
      <3> QED BY <2>1, <3>1, <3>2, MovedSession, TicketFields
    <2>5. \A s \in session' : s \in session => s \notin RowOf(q) \/ \E o \in RowOf(q) : s = Moved(q, o)
      BY <2>1
    <2>6. ASSUME NEW s \in session', NEW t \in session', s.token = t.token PROVE s = t
      <3>1. PICK o \in session : Ticket(s) = Ticket(o) /\ (s = o \/ (o \in RowOf(q) /\ s = Moved(q, o)))
        BY <2>4
      <3>2. PICK p \in session : Ticket(t) = Ticket(p) /\ (t = p \/ (p \in RowOf(q) /\ t = Moved(q, p)))
        BY <2>4
      <3>3. o = p
        BY <1>0, <2>6, <3>1, <3>2, TicketFields
      <3>4. CASE o \notin RowOf(q)
        BY <3>1, <3>2, <3>3, <3>4
      <3>5. CASE o \in RowOf(q)
        <4>1. ASSUME NEW u \in session', u = o \/ u = Moved(q, o), Ticket(u) = Ticket(o) PROVE u = Moved(q, o)
          <5>1. CASE u = o
            <6>1. PICK k \in RowOf(q) : u = Moved(q, k)
              BY <2>5, <3>5, <5>1
            <6>2. k \in session /\ k \in Session
              BY DEF RowOf, TypeOK
            <6>3. k.token = o.token
              BY <2>1, <5>1, <6>1, <6>2, MovedSession
            <6>4. k = o
              BY <1>0, <6>2, <6>3
            <6> QED BY <6>1, <6>4
          <5> QED BY <4>1, <5>1
        <4> QED BY <3>1, <3>2, <3>3, <4>1
      <3> QED BY <3>4, <3>5
    <2> HIDE DEF q
    <2> QED BY <2>2, <2>3, <2>4, <2>6, TokenKeeps DEF Trading
  <1>4. ASSUME NEW r \in Reqs, Commits(r), session' \subseteq session PROVE TokenInv'
    <2>1. /\ SigningIn' = SigningIn \ {r}
          /\ \A x \in SigningIn \ {r} : /\ req'[x].token = req[x].token /\ req'[x].stale = req[x].stale
                                        /\ req'[x].a = req[x].a
          /\ \A x \in Trading' : x \in Trading /\ req'[x] = req[x]
      BY <1>4, CommitLeaves
    <2> QED BY <1>0, <1>4, <2>1, TokenKeeps
  <1>5. ASSUME NEW r \in Reqs, SignInSave(r), req[r].token # NONE PROVE TokenInv'
    <2> DEFINE q == req[r]
               n == NewSession(q)
    <2>1. /\ SigningIn' = SigningIn \ {r}
          /\ \A x \in SigningIn \ {r} : /\ req'[x].token = req[x].token /\ req'[x].stale = req[x].stale
                                        /\ req'[x].a = req[x].a
          /\ \A x \in Trading' : x \in Trading /\ req'[x] = req[x]
      BY <1>5, CommitLeaves DEF Commits
    <2>2. /\ session' \subseteq session \cup {n} /\ n.token = q.token /\ n.a = q.a
      BY <1>5, SignInCommit
    <2>3. r \in SigningIn
      BY <1>5 DEF SigningIn, SignInSave, IsWrite
    <2>4. /\ \A s \in session : s.token # q.token
          /\ \A x \in SigningIn \ {r} : req[x].token # q.token
          /\ \A x \in Trading : req[x].s.token # q.token
          /\ \A x \in SigningIn : \A d \in req[x].stale : d.token # q.token
      BY <1>5, <2>3 DEF TokenInv
    <2> HIDE DEF n, q
    <2>5. \A s, t \in session' : s.token = t.token => s = t
      BY <1>0, <2>2, <2>4
    <2>6. \A x, y \in SigningIn' : x # y /\ req'[x].token # NONE => req'[x].token # req'[y].token
      BY <2>1 DEF TokenInv
    <2>7. \A x \in SigningIn', s \in session' : s.token # req'[x].token
      BY <2>1, <2>2, <2>4 DEF TokenInv
    <2>8. ASSUME NEW x \in Trading'
          PROVE  /\ \A s \in session' : s.token = req'[x].s.token => Ticket(s) = Ticket(req[x].s)'
                 /\ \A y \in SigningIn' : req'[y].token # req'[x].s.token
      BY <2>1, <2>2, <2>4 DEF TokenInv, Ticket
    <2>9. \A x \in SigningIn' : req'[x].token = NONE => req'[x].stale = {}
      BY <2>1 DEF TokenInv
    <2>10. ASSUME NEW x \in SigningIn', NEW d \in req'[x].stale
           PROVE  /\ \A s \in session' : s.token = d.token => s.a = req'[x].a
                  /\ \A y \in SigningIn' : req'[y].token # d.token
      BY <2>1, <2>2, <2>4, <2>10 DEF TokenInv
    <2> QED BY <2>5, <2>6, <2>7, <2>8, <2>9, <2>10 DEF TokenInv, Ticket
  <1>6. ASSUME NEW r \in Reqs, Commits(r) PROVE TokenInv'
    <2>1. CASE SignInSave(r) /\ req[r].token # NONE
      BY <1>5, <2>1
    <2>2. CASE SignInSave(r) /\ req[r].token = NONE
      <3>1. session' \subseteq session
        BY <2>2, SignInCommit
      <3> QED BY <1>4, <1>6, <3>1
    <2>3. CASE ResetSave(r) \/ Save(r)
      <3>1. session' \subseteq session
        BY <2>3 DEF ResetSave, Save, close_all
      <3> QED BY <1>4, <1>6, <3>1
    <2> QED BY <1>6, <2>1, <2>2, <2>3 DEF Commits
  <1> QED BY <1>1, <1>2, <1>3, <1>6, Steps DEF Tick, logout, tg_login, vars

LEMMA VersionAfter ==
  ASSUME TypeOK, RowInv, NEW r \in Reqs, Commits(r), NEW a \in Accounts
  PROVE  Version(a)' = Version(a) + (IF a = req[r].a /\ SetsPassword(req[r]) THEN 1 ELSE 0)
  <1> DEFINE q == req[r]
  <1>0. Version(a) \in Nat
    BY VersionType, IdentityAssumption
  <1>1. CASE a = q.a
    <2>1. user'[a] \in Row /\ user'[a].pw = Version(a) + (IF SetsPassword(q) THEN 1 ELSE 0)
      BY <1>1, CommitRows
    <2>2. Version(a)' = user'[a].pw
      BY <2>1, RowTypes DEF Version
    <2> QED BY <1>1, <2>1, <2>2
  <1>2. CASE a # q.a
    <2>1. user'[a] = user[a] \/ (user[a] \in Row /\ user'[a] = [user[a] EXCEPT !.chat = NONE])
      BY <1>2, CommitRows
    <2>2. user[a] \in Row => [user[a] EXCEPT !.chat = NONE] \in Row /\ [user[a] EXCEPT !.chat = NONE].pw = user[a].pw
      BY DEF Row
    <2>3. Version(a)' = Version(a)
      BY <2>1, <2>2, RowTypes DEF Version
    <2> QED BY <1>0, <1>2, <2>3
  <1> QED BY <1>1, <1>2

LEMMA CurrentStep ==
  ASSUME TypeOK, RowInv, CurrentInv, [Next]_vars
  PROVE  CurrentInv'
  <1>1. CASE session' \subseteq session /\ user' = user /\ req' = req
    BY <1>1 DEF CurrentInv, SigningIn, IsWrite, Version
  <1>2. ASSUME NEW r \in Reqs, NEW q, Moves(r, q) PROVE CurrentInv'
    <2>1. session' = session /\ user' = user
      BY <1>2 DEF Moves
    <2>2. ASSUME NEW x \in SigningIn' PROVE req'[x].late \/ req'[x].asOf = Version(req'[x].a)
      <3>1. CASE x # r
        BY <1>2, <2>2, <3>1, MoveLeaves DEF CurrentInv, SigningIn
      <3>2. CASE x = r
        <4>1. q \in Opening /\ NewWrite(q) /\ req'[x] = q
          BY <1>2, <2>2, <3>2, MoveLeaves
        <4> QED BY <4>1 DEF NewWrite
      <3> QED BY <3>1, <3>2
    <2> QED BY <2>1, <2>2 DEF CurrentInv, Version
  <1>3. ASSUME NEW r \in Reqs, RefreshSave(r) PROVE CurrentInv'
    <2> DEFINE q == req[r]
    <2>1. /\ q \in Renewing /\ ~IsWrite(q) /\ req' = [req EXCEPT ![r] = NONE] /\ user' = user
          /\ \/ session' = session \ RowOf(q)
             \/ session' = (session \ RowOf(q)) \cup {Moved(q, s) : s \in RowOf(q)}
      BY <1>3, RefreshCommit
    <2>2. \A x \in SigningIn' : x \in SigningIn /\ req'[x] = req[x]
      BY <2>1, NothingIsNoWrite DEF SigningIn, IsWrite, TypeOK
    <2>3. ASSUME NEW s \in session' PROVE \E o \in session : s.a = o.a /\ s.late = o.late /\ s.asOf = o.asOf
      <3>1. s \in session \/ \E o \in RowOf(q) : s = Moved(q, o)
        BY <2>1
      <3>2. \A o \in RowOf(q) : o \in session /\ o \in Session
        BY DEF RowOf, TypeOK
      <3> QED BY <2>1, <3>1, <3>2, MovedSession
    <2> HIDE DEF q
    <2> QED BY <2>1, <2>2, <2>3 DEF CurrentInv, Version
  <1>4. ASSUME NEW r \in Reqs, Commits(r) PROVE CurrentInv'
    <2> DEFINE q == req[r]
    <2>1. /\ q \in Writes /\ q.a \in Accounts /\ FitsRow(q) /\ (q.loaded = NONE => user[q.a] = NONE)
      BY <1>4, CommitRequest, Fields
    <2>2. \A a \in Accounts : Version(a)' = Version(a) + (IF a = q.a /\ SetsPassword(q) THEN 1 ELSE 0)
      BY <1>4, VersionAfter
    <2>3. \A a \in Accounts : Version(a) \in Nat
      BY VersionType, IdentityAssumption
    <2>4. ASSUME NEW x \in SigningIn' PROVE req'[x].late \/ req'[x].asOf = Version(req[x].a)'
      <3>1. /\ x \in SigningIn \ {r} /\ req'[x].asOf = req[x].asOf /\ req'[x].a = req[x].a
            /\ req'[x].late = (req[x].late \/ (SetsPassword(q) /\ req[x].a = q.a))
        BY <1>4, CommitLeaves
      <3>2. req[x].a \in Accounts /\ req[x].late \in BOOLEAN
        BY <3>1, SigningTypes
      <3>3. req[x].late \/ req[x].asOf = Version(req[x].a)
        BY <3>1 DEF CurrentInv
      <3>4. SetsPassword(q) \in BOOLEAN
        BY DEF SetsPassword
      <3>5. CASE SetsPassword(q) /\ req[x].a = q.a
        BY <3>1, <3>5
      <3>6. CASE ~(SetsPassword(q) /\ req[x].a = q.a)
        <4>1. PICK b \in Accounts : b = req[x].a
          BY <3>2
        <4>2. Version(req[x].a)' = Version(b)' /\ Version(req[x].a) = Version(b)
          BY <3>1, <4>1 DEF Version
        <4>3. Version(b)' = Version(b)
          BY <2>2, <2>3, <3>6, <4>1
        <4> QED BY <3>1, <3>3, <3>6, <4>2, <4>3
      <3> QED BY <3>5, <3>6
    <2>5. ASSUME NEW s \in session', s \in session
          PROVE  user'[s.a] # NONE /\ (s.late \/ s.asOf = Version(s.a)')
      <3>1. s.a \in Accounts /\ user[s.a] # NONE /\ (s.late \/ s.asOf = Version(s.a))
        BY <2>5 DEF CurrentInv, TypeOK, Session
      <3>2. user'[s.a] # NONE
        BY <1>4, <3>1, RowsStay
      <3>3. s.a # q.a \/ ~SetsPassword(q)
        <4>1. CASE ResetSave(r)
          <5>1. session' = close_all(q.a)
            BY <4>1 DEF ResetSave
          <5> QED BY <2>5, <5>1 DEF close_all
        <4>2. CASE Save(r) \/ SignInSave(r)
          <5>1. q.op # "reset"
            BY <4>2 DEF Save, SignInSave
          <5> QED BY <2>1, <3>1, <5>1 DEF SetsPassword
        <4> QED BY <1>4, <4>1, <4>2 DEF Commits
      <3> QED BY <2>2, <2>3, <3>1, <3>2, <3>3
    <2>6. ASSUME NEW s \in session', s \notin session
          PROVE  user'[s.a] # NONE /\ (s.late \/ s.asOf = Version(s.a)')
      <3>1. SignInSave(r)
        BY <1>4, <2>6 DEF Commits, Save, ResetSave, close_all
      <3>2. q \in Opening /\ s.a = q.a /\ s.asOf = q.asOf /\ s.late = q.late
        BY <2>6, <3>1, SignInCommit
      <3>3. q.late \/ q.asOf = Version(q.a)
        BY <3>1 DEF CurrentInv, SigningIn, SignInSave, IsWrite
      <3>4. ~SetsPassword(q)
        <4>1. q.op = "signin"
          BY <3>1 DEF SignInSave
        <4> QED BY <2>1, <4>1 DEF SetsPassword, FitsRow, NewRow
      <3>5. user'[q.a] # NONE
        BY <1>4, CommitRows, RowTypes
      <3> QED BY <2>1, <2>2, <2>3, <3>2, <3>3, <3>4, <3>5
    <2>7. \A s \in session' : user'[s.a] # NONE /\ (s.late \/ s.asOf = Version(s.a)')
      BY <2>5, <2>6
    <2> HIDE DEF q
    <2> QED BY <2>4, <2>7 DEF CurrentInv
  <1> QED BY <1>1, <1>2, <1>3, <1>4, Steps DEF Tick, logout, tg_login, vars

-----------------------------------------------------------------------------
(* Access tokens.                                                          *)

\* A token granted for the present password, or in the name of a sign-in that a
\* reset overtook.
LEMMA GrantKeeps ==
  ASSUME TypeOK, AccessInv, NEW a \in Accounts, NEW v \in Stamps, v = Version(a) \/ v = LATE,
         access' = Grant(a, v), UNCHANGED <<now, replaced>>, user'[a] # NONE,
         \A b \in Accounts : Version(b)' = Version(b) /\ (user[b] # NONE => user'[b] # NONE)
  PROVE  AccessInv'
  <1>2. /\ access'[a][v] = now + ACCESS_LIFE
        /\ \A b \in Accounts, w \in Stamps : b # a \/ w # v => access'[b][w] = access[b][w]
    BY GrantType
  <1>3. now + ACCESS_LIFE \in Nat
    BY LifeTypes DEF TypeOK
  <1>4. \A b \in Accounts, w \in Stamps : access'[b][w] <= now' + ACCESS_LIFE
    BY <1>2, <1>3 DEF AccessInv
  <1>5. \A b \in Accounts : user'[b] = NONE => \A w \in Stamps : access'[b][w] = -1
    BY <1>2 DEF AccessInv
  <1>6. \A b \in Accounts : \A w \in 0..MAX_PW :
            w < Version(b) => access'[b][w] <= replaced[b][w] + ACCESS_LIFE
    <2> SUFFICES ASSUME NEW b \in Accounts, NEW w \in 0..MAX_PW, w < Version(b)
                 PROVE  access'[b][w] <= replaced[b][w] + ACCESS_LIFE
      OBVIOUS
    <2>1. w \in Stamps /\ Version(b) \in 0..MAX_PW /\ w # LATE
      BY VersionType, LifeTypes
    <2>2. b # a \/ w # v
      BY <2>1
    <2> QED BY <1>2, <2>1, <2>2 DEF AccessInv, CutOffAfterReset
  <1> QED BY <1>4, <1>5, <1>6 DEF AccessInv, CutOffAfterReset

LEMMA AccessStep ==
  ASSUME TypeOK, RowInv, TokenInv, CurrentInv, AccessInv, [Next]_vars
  PROVE  AccessInv'
  <1>0. now \in Nat /\ ACCESS_LIFE \in Nat /\ \A a \in Accounts : Version(a) \in Nat
    BY VersionType, LifeTypes DEF TypeOK
  <1>1. CASE UNCHANGED <<user, now, access, replaced>>
    BY <1>1 DEF AccessInv, CutOffAfterReset, Version
  <1>2. CASE Tick
    <2>1. now' = now + 1 /\ UNCHANGED <<user, access, replaced>>
      BY <1>2 DEF Tick
    <2>2. \A a \in Accounts, v \in Stamps : access[a][v] \in Int
      BY DEF TypeOK
    <2>3. \A a \in Accounts, v \in Stamps : access[a][v] <= now' + ACCESS_LIFE
      BY <1>0, <2>1, <2>2 DEF AccessInv
    <2> QED BY <2>1, <2>3 DEF AccessInv, CutOffAfterReset, Version
  <1>3. ASSUME UNCHANGED <<user, now, replaced>>, NEW a \in Known, NEW v \in Stamps,
               v = Version(a) \/ v = LATE, access' = Grant(a, v)
        PROVE  AccessInv'
    <2>1. a \in Accounts /\ user'[a] # NONE
      BY <1>3, KnownRow
    <2>2. \A b \in Accounts : Version(b)' = Version(b) /\ (user[b] # NONE => user'[b] # NONE)
      BY <1>3 DEF Version
    <2> QED BY <1>3, <2>1, <2>2, GrantKeeps
  <1>4. CASE \E c \in Chats : tg_login(c)
    <2>1. PICK a \in Known : access' = Grant(a, user[a].pw) /\ UNCHANGED <<user, now, replaced>>
      BY <1>4 DEF tg_login, UserByChat
    <2>2. a \in Accounts /\ user[a].pw = Version(a)
      BY <2>1, KnownRow DEF Version
    <2>3. Version(a) \in Stamps
      BY <2>2, VersionType, LifeTypes
    <2> QED BY <1>3, <2>1, <2>2, <2>3
  <1>5. ASSUME NEW r \in Reqs, NEW q, Moves(r, q) PROVE AccessInv'
    <2>1. UNCHANGED <<user, now, replaced>> /\ (access' = access \/ \E a \in Known : access' = Grant(a, Version(a)))
      BY <1>5 DEF Moves
    <2>2. \A a \in Known : Version(a) \in Stamps
      BY KnownRow, VersionType, LifeTypes
    <2> QED BY <1>1, <1>3, <2>1, <2>2
  <1>6. ASSUME NEW r \in Reqs, RefreshSave(r) PROVE AccessInv'
    <2> DEFINE q == req[r]
    <2>1. /\ q \in Renewing /\ q.s \in Session /\ UNCHANGED <<user, now, replaced>>
          /\ access' = access \/ (RowOf(q) # {} /\ access' = Grant(q.s.a, Stamp(q.s)))
      BY <1>6, RefreshCommit
    <2>2. CASE access' = access
      BY <1>1, <2>1, <2>2
    <2>3. CASE RowOf(q) # {} /\ access' = Grant(q.s.a, Stamp(q.s))
      <3>1. PICK s \in session : s.token = q.s.token
        BY <2>3 DEF RowOf
      <3>2. r \in Trading
        BY <1>6 DEF Trading, RefreshSave
      <3>3. Ticket(s) = Ticket(q.s)
        BY <3>1, <3>2 DEF TokenInv
      <3>4. s.a = q.s.a /\ s.asOf = q.s.asOf /\ s.late = q.s.late
        BY <3>3, TicketFields
      <3>5. q.s.a \in Accounts /\ q.s.asOf \in 0..MAX_PW /\ user[q.s.a] # NONE
            /\ (q.s.late \/ q.s.asOf = Version(q.s.a))
        BY <2>1, <3>1, <3>4 DEF CurrentInv, Session
      <3>6. Stamp(q.s) \in Stamps /\ (Stamp(q.s) = Version(q.s.a) \/ Stamp(q.s) = LATE) /\ q.s.a \in Known
        BY <3>5, LifeTypes DEF Stamp, Known
      <3> QED BY <1>3, <2>1, <2>3, <3>6
    <2> QED BY <2>1, <2>2, <2>3
  <1>7. ASSUME NEW r \in Reqs, SignInSave(r) PROVE AccessInv'
    <2> DEFINE q == req[r]
    <2>1. q \in Opening /\ Stamp(q) \in Stamps /\ access' = Grant(q.a, Stamp(q)) /\ UNCHANGED <<now, replaced>>
      BY <1>7, SignInCommit DEF SignInSave
    <2>2. Commits(r) /\ q \in Writes /\ FitsRow(q) /\ q.a \in Accounts /\ q.op = "signin"
      BY <1>7, CommitRequest, Fields DEF Commits, SignInSave
    <2>3. q.late \/ q.asOf = Version(q.a)
      BY <1>7 DEF CurrentInv, SigningIn, SignInSave, IsWrite
    <2>4. ~SetsPassword(q)
      BY <2>2 DEF SetsPassword, FitsRow, NewRow
    <2>5. \A b \in Accounts : Version(b)' = Version(b) /\ (user[b] # NONE => user'[b] # NONE)
      BY <1>0, <2>2, <2>4, VersionAfter, RowsStay
    <2>6. user'[q.a] # NONE
      BY <2>2, CommitRows, RowTypes
    <2>7. Stamp(q) = Version(q.a) \/ Stamp(q) = LATE
      BY <2>3 DEF Stamp
    <2> HIDE DEF q
    <2> QED BY <2>1, <2>2, <2>5, <2>6, <2>7, GrantKeeps
  <1>8. ASSUME NEW r \in Reqs, ResetSave(r) \/ Save(r) PROVE AccessInv'
    <2> DEFINE q == req[r]
    <2>1. Commits(r) /\ access' = access /\ now' = now
      BY <1>8 DEF Commits, Save, ResetSave
    <2>2. q \in Writes /\ FitsRow(q) /\ q.a \in Accounts /\ (q.loaded = NONE => user[q.a] = NONE)
      BY <2>1, CommitRequest, Fields
    <2>3. \A a \in Accounts : user[a] # NONE => user'[a] # NONE
      BY <2>1, RowsStay
    <2>4. \A a \in Accounts : Version(a)' = Version(a) + (IF a = q.a /\ SetsPassword(q) THEN 1 ELSE 0)
      BY <2>1, VersionAfter
    <2>5. \A a \in Accounts, v \in Stamps : access[a][v] \in Int
      BY DEF TypeOK
    <2>6. \A a \in Accounts, v \in 0..MAX_PW : replaced[a][v] \in Int /\ v \in Stamps
      BY LifeTypes DEF TypeOK
    <2>7. CASE Save(r)
      <3>1. replaced' = replaced /\ q.op # "reset"
        BY <2>7 DEF Save
      <3>2. ASSUME NEW a \in Accounts, NEW v \in 0..MAX_PW, v < Version(a)'
            PROVE  access[a][v] <= replaced[a][v] + ACCESS_LIFE
        <4>1. CASE a = q.a /\ SetsPassword(q)
          <5>1. user[a] = NONE
            BY <2>2, <3>1, <4>1 DEF SetsPassword
          <5>2. access[a][v] = -1 /\ replaced[a][v] >= -1
            BY <2>6, <5>1 DEF AccessInv
          <5> QED BY <1>0, <2>6, <5>2
        <4>2. CASE ~(a = q.a /\ SetsPassword(q))
          <5>1. v < Version(a)
            BY <1>0, <2>4, <3>2, <4>2
          <5> QED BY <5>1 DEF AccessInv, CutOffAfterReset
        <4> QED BY <4>1, <4>2
      <3> HIDE DEF q
      <3> QED BY <2>1, <2>3, <3>1, <3>2 DEF AccessInv, CutOffAfterReset
    <2>8. CASE ResetSave(r)
      <3> DEFINE w == user[q.a].pw
      <3>1. replaced' = [replaced EXCEPT ![q.a][w] = now] /\ q.op = "reset"
        BY <2>8 DEF ResetSave
      <3>2. w = Version(q.a) /\ w \in 0..MAX_PW
        <4>1. user[q.a] # NONE
          BY <2>2, <3>1 DEF FitsRow, NewRow, OldRow
        <4> QED BY <2>2, <4>1, VersionType DEF Version
      <3>3. \A a \in Accounts, v \in 0..MAX_PW :
               replaced'[a][v] = IF a = q.a /\ v = w THEN now ELSE replaced[a][v]
        BY <2>2, <3>1, <3>2 DEF TypeOK
      <3> HIDE DEF w
      <3>4. \A a \in Accounts, v \in 0..MAX_PW : replaced'[a][v] >= -1
        BY <1>0, <3>3 DEF AccessInv
      <3>5. ASSUME NEW a \in Accounts, NEW v \in 0..MAX_PW, v < Version(a)'
            PROVE  access[a][v] <= replaced'[a][v] + ACCESS_LIFE
        <4>1. CASE a = q.a /\ v = w
          BY <2>6, <3>3, <4>1 DEF AccessInv
        <4>2. CASE ~(a = q.a /\ v = w)
          <5>1. v < Version(a)
            BY <1>0, <2>4, <3>2, <3>5, <4>2
          <5> QED BY <3>3, <4>2, <5>1 DEF AccessInv, CutOffAfterReset
        <4> QED BY <4>1, <4>2
      <3> HIDE DEF q
      <3> QED BY <2>1, <2>3, <3>4, <3>5 DEF AccessInv, CutOffAfterReset
    <2> QED BY <1>8, <2>7, <2>8
  <1> QED BY <1>1, <1>2, <1>4, <1>5, <1>6, <1>7, <1>8, Steps DEF logout, Commits, vars

-----------------------------------------------------------------------------
(* Chats.                                                                  *)

LEMMA ChatStep ==
  ASSUME TypeOK, RowInv, ChatInv, [Next]_vars
  PROVE  ChatInv'
  <1>1. CASE UNCHANGED <<user, req>>
    BY <1>1 DEF ChatInv, Known, IsWrite
  <1>2. ASSUME NEW r \in Reqs, NEW q, user' = user, req' = [req EXCEPT ![r] = q],
               IsWrite(q) => NewWrite(q)
        PROVE  ChatInv'
    <2>1. (\A x \in Reqs \ {r} : req'[x] = req[x]) /\ req'[r] = q
      BY <1>2 DEF TypeOK
    <2>2. ASSUME IsWrite(q), q.other # NONE
          PROVE  /\ q.loaded # NONE /\ q.wanted.chat # NONE /\ q.wanted.chat # q.loaded.chat
                 /\ user[q.other].chat = q.wanted.chat
      <3>1. /\ q \in Writes /\ q.loaded = user[q.a] /\ q.loaded # NONE /\ q.wanted.chat # NONE
            /\ user[q.other].chat = q.wanted.chat /\ user[q.other] # NONE /\ q.other # q.a
        BY <1>2, <2>2 DEF NewWrite, FitsRow
      <3>2. q.a \in Known /\ q.other \in Known
        BY <2>2, <3>1, Fields DEF Known
      <3>3. user[q.a].chat # user[q.other].chat \/ user[q.a].chat = NONE
        BY <3>1, <3>2 DEF ChatInv
      <3> QED BY <3>1, <3>3
    <2>3. ASSUME NEW x \in Reqs, IsWrite(req'[x]), req'[x].other # NONE
          PROVE  /\ req'[x].loaded # NONE
                 /\ req'[x].wanted.chat # NONE /\ req'[x].wanted.chat # req'[x].loaded.chat
                 /\ ~req'[x].met => user'[req'[x].other].chat = req'[x].wanted.chat
      <3>1. CASE x = r
        BY <1>2, <2>1, <2>2, <2>3, <3>1
      <3>2. CASE x # r
        BY <1>2, <2>1, <2>3, <3>2 DEF ChatInv
      <3> QED BY <3>1, <3>2
    <2>4. ASSUME NEW x \in Reqs, IsWrite(req'[x]), req'[x].loaded # NONE,
                 req'[x].wanted.chat = NONE, req'[x].loaded.chat # NONE
          PROVE  req'[x].op = "unlink"
      <3>1. CASE x = r
        BY <1>2, <2>1, <2>4, <3>1 DEF NewWrite
      <3>2. CASE x # r
        BY <1>2, <2>1, <2>4, <3>2 DEF ChatInv
      <3> QED BY <3>1, <3>2
    <2>5. \A a, b \in Known' : a # b => user'[a].chat # user'[b].chat \/ user'[a].chat = NONE
      BY <1>2 DEF ChatInv, Known
    <2> QED BY <2>3, <2>4, <2>5 DEF ChatInv, IsWrite
  <1>3. ASSUME NEW r \in Reqs, Commits(r) PROVE ChatInv'
    <2> DEFINE q == req[r]
    <2>1. /\ q \in Writes /\ FitsRow(q) /\ q.a \in Accounts /\ req' = Left(r, q)
          /\ q.loaded = NONE => user[q.a] = NONE
      BY <1>3, CommitRequest, Fields
    <2>2. \A a, b \in Known' : a # b => user'[a].chat # user'[b].chat \/ user'[a].chat = NONE
      <3>1. CASE Save(r) \/ SignInSave(r)
        <4>1. user' = Saved(q) /\ Unique(q)
          BY <3>1 DEF Save, SignInSave
        <4> QED BY <4>1 DEF Unique, Known
      <3>2. CASE ResetSave(r)
        <4>1. q.op = "reset"
          BY <3>2 DEF ResetSave
        <4>2. q.loaded # NONE /\ q.other = NONE /\ q.wanted.chat = q.loaded.chat /\ user[q.a] # NONE
          BY <2>1, <4>1 DEF FitsRow, NewRow, OldRow
        <4>3. user'[q.a].chat = user[q.a].chat
          BY <1>3, <4>2, CommitRows
        <4>4. \A a \in Accounts \ {q.a} : user'[a] = user[a]
          BY <1>3, <4>2, CommitRows, IdentityAssumption, ZenonT(40)
        <4>5. \A a \in Known' : a \in Known /\ user'[a].chat = user[a].chat
          BY <4>2, <4>3, <4>4 DEF Known
        <4> QED BY <4>5 DEF ChatInv
      <3> QED BY <1>3, <3>1, <3>2 DEF Commits
    <2>3. ASSUME NEW x \in Reqs, IsWrite(req'[x])
          PROVE  LET p == req[x] IN
                 /\ x # r /\ IsWrite(p) /\ p \in Writes
                 /\ req'[x].op = p.op /\ req'[x].a = p.a /\ req'[x].loaded = p.loaded
                 /\ req'[x].wanted = p.wanted /\ req'[x].other = p.other /\ req'[x].n = p.n
                 /\ req'[x].met = (p.met \/ Overlap(p, q))
      <3>1. x # r /\ IsWrite(req[x])
        BY <2>1, <2>3, LeftTypes
      <3>2. req[x] \in Writes
        BY <3>1, Kinds, NothingIsNoWrite DEF TypeOK
      <3> QED BY <2>1, <3>1, <3>2, LeftAlone
    <2>4. ASSUME NEW x \in Reqs, IsWrite(req'[x]), req'[x].other # NONE
          PROVE  /\ req'[x].loaded # NONE
                 /\ req'[x].wanted.chat # NONE /\ req'[x].wanted.chat # req'[x].loaded.chat
                 /\ ~req'[x].met => user'[req'[x].other].chat = req'[x].wanted.chat
      <3> DEFINE p == req[x]
      <3>1. /\ IsWrite(p) /\ p \in Writes /\ req'[x].loaded = p.loaded
            /\ req'[x].wanted = p.wanted /\ req'[x].other = p.other
            /\ req'[x].met = (p.met \/ Overlap(p, q))
        BY <2>3, <2>4
      <3>2. /\ p.loaded # NONE /\ p.wanted.chat # NONE /\ p.wanted.chat # p.loaded.chat
            /\ ~p.met => user[p.other].chat = p.wanted.chat
        BY <2>4, <3>1 DEF ChatInv
      <3>3. p.other \in Accounts /\ p.met \in BOOLEAN
        BY <2>4, <3>1, Fields
      <3>4. ASSUME ~Overlap(p, q) PROVE user'[p.other] = user[p.other]
        <4>1. p.other # q.a /\ p.other # q.other
          BY <2>1, <3>3, <3>4, IdentityAssumption DEF Overlap
        <4> QED BY <1>3, <3>3, <4>1, CommitRows
      <3> QED BY <3>1, <3>2, <3>3, <3>4
    <2>5. ASSUME NEW x \in Reqs, IsWrite(req'[x]), req'[x].loaded # NONE,
                 req'[x].wanted.chat = NONE, req'[x].loaded.chat # NONE
          PROVE  req'[x].op = "unlink"
      BY <2>3, <2>5 DEF ChatInv
    <2> HIDE DEF q
    <2> QED BY <2>2, <2>4, <2>5 DEF ChatInv, IsWrite
  <1>4. ASSUME NEW r \in Reqs, NEW q, Moves(r, q) PROVE ChatInv'
    BY <1>2, <1>4 DEF Moves
  <1>5. ASSUME NEW r \in Reqs, RefreshSave(r) PROVE ChatInv'
    BY <1>2, <1>5, NothingIsNoWrite DEF RefreshSave, Done
  <1> QED BY <1>1, <1>3, <1>4, <1>5, Steps DEF Tick, logout, tg_login, vars

\* What a step may do to a chat, for the action property.
ChatStays ==
    \A a \in Known : user[a].chat # NONE /\ user'[a].chat = NONE =>
          \/ \E b \in Accounts : user'[b] # NONE /\ user'[b].chat = user[a].chat
          \/ \E r \in Reqs : /\ IsWrite(req[r]) /\ req'[r] = NONE
                             /\ req[r].op = "unlink" \/ req[r].met

LEMMA ChatMovesStep ==
  ASSUME TypeOK, RowInv, ChatInv, [Next]_vars
  PROVE  ChatStays
  <1>1. CASE user' = user
    BY <1>1 DEF ChatStays
  <1>2. ASSUME NEW r \in Reqs, Commits(r) PROVE ChatStays
    <2> DEFINE q == req[r]
    <2>1. /\ q \in Writes /\ IsWrite(q) /\ FitsRow(q) /\ q.a \in Accounts /\ req'[r] = NONE
          /\ q.loaded = NONE => user[q.a] = NONE
      BY <1>2, CommitRequest, Fields, LeftRest
    <2> SUFFICES ASSUME NEW a \in Known, user[a].chat # NONE, user'[a].chat = NONE
                 PROVE  \/ \E b \in Accounts : user'[b] # NONE /\ user'[b].chat = user[a].chat
                        \/ q.op = "unlink" \/ q.met
      BY <2>1 DEF ChatStays
    <2>2. a \in Accounts /\ user[a] # NONE
      BY KnownRow
    <2>3. CASE a = q.a
      <3>1. q.loaded # NONE /\ user'[a].chat = IF q.wanted.chat # q.loaded.chat THEN q.wanted.chat ELSE user[a].chat
        BY <1>2, <2>1, <2>2, <2>3, CommitRows
      <3>2. q.wanted.chat = NONE /\ q.loaded.chat # NONE
        BY <3>1
      <3> QED BY <2>1, <3>1, <3>2 DEF ChatInv
    <2>4. CASE a # q.a
      <3>1. a = q.other
        BY <1>2, <2>2, <2>4, CommitRows
      <3>2. /\ q.loaded # NONE /\ q.wanted.chat # q.loaded.chat
            /\ ~q.met => user[a].chat = q.wanted.chat
        BY <2>1, <2>2, <3>1, IdentityAssumption DEF ChatInv
      <3>3. user'[q.a].chat = q.wanted.chat /\ user'[q.a] # NONE
        BY <1>2, <3>2, CommitRows, RowTypes
      <3> QED BY <2>1, <3>2, <3>3
    <2> QED BY <2>3, <2>4
  <1> QED BY <1>1, <1>2, Steps DEF Tick, logout, tg_login, RefreshSave, Moves, vars

-----------------------------------------------------------------------------
(* One-time links.                                                         *)

\* The links a commit kills: the ones its row had and has no more, the one it was
\* made with.
LEMMA KilledLinks ==
  ASSUME TypeOK, RowInv, NEW r \in Reqs, Commits(r), NEW q, q = req[r]
  PROVE  \A n \in dead' : \/ n \in dead
                          \/ n = q.n /\ n # 0
                          \/ /\ n # 0 /\ \E f \in Cols : InRow(n, q.a, f)
                             /\ \A f \in Cols : ~InRow(n, q.a, f)'
  <1>1. q \in Writes /\ FitsRow(q) /\ q.a \in Accounts
    BY CommitRequest, Fields
  <1>2. CASE SignInSave(r)
    BY <1>2 DEF SignInSave
  <1>3. CASE Save(r) \/ ResetSave(r)
    <2> DEFINE t == Saved(q)
    <2>1. dead' = dead \cup (LinksIn(user[q.a]) \ LinksIn(t[q.a])) \cup ({q.n} \ {0})
      BY <1>3 DEF Save, ResetSave, Buried
    <2>2. t \in [Accounts -> Row \cup {NONE}] /\ t[q.a] \in Row
      <3>1. /\ t \in [Accounts -> Row \cup {NONE}]
            /\ q.loaded = NONE => t[q.a] = q.wanted
            /\ q.loaded # NONE => user[q.a] \in Row /\ t[q.a] = Flush(q, user[q.a])
        BY <1>1, SavedRows
      <3> QED BY <1>1, <3>1, Fields, FlushColumns
    <2>3. user'[q.a] \in Row /\ \A f \in Cols : user'[q.a][f] = t[q.a][f]
      <3>1. CASE Save(r)
        BY <2>2, <3>1 DEF Save
      <3>2. CASE ResetSave(r)
        <4>1. user' = [t EXCEPT ![q.a] = [t[q.a] EXCEPT !.pw = user[q.a].pw + 1]]
          BY <3>2 DEF ResetSave
        <4>2. user'[q.a] = [t[q.a] EXCEPT !.pw = user[q.a].pw + 1]
          BY <1>1, <2>2, <4>1
        <4>3. \A f \in Cols : user'[q.a][f] = t[q.a][f]
          BY <2>2, <4>2 DEF Row, Cols
        <4> QED BY <4>3, CommitRows
      <3> QED BY <1>3, <3>1, <3>2
    <2> HIDE DEF t
    <2> SUFFICES ASSUME NEW n \in LinksIn(user[q.a]), n \notin LinksIn(t[q.a])
                 PROVE  /\ n # 0 /\ \E f \in Cols : InRow(n, q.a, f)
                        /\ \A f \in Cols : ~InRow(n, q.a, f)'
      BY <2>1
    <2>4. user[q.a] # NONE /\ user[q.a] \in Row
      BY <1>1 DEF LinksIn, TypeOK
    <2>5. n # 0 /\ \E f \in Cols : user[q.a][f].n = n
      BY <2>4, LinkColumns
    <2>6. \A f \in Cols : user'[q.a][f].n # n
      BY <2>2, <2>3, <2>5, LinkColumns
    <2> QED BY <2>4, <2>5, <2>6 DEF InRow
  <1> QED BY <1>2, <1>3 DEF Commits

LEMMA LinkCommit ==
  ASSUME TypeOK, RowInv, LinkInv, NEW r \in Reqs, Commits(r)
  PROVE  LinkInv'
  <1>1. PICK q : q = req[r]
    OBVIOUS
  <1>2. /\ q \in Writes /\ IsWrite(q) /\ FitsRow(q) /\ q.a \in Accounts /\ req' = Left(r, q)
        /\ q.loaded = NONE => user[q.a] = NONE
        /\ q.n \in Nat
    BY <1>1, CommitRequest, Fields
  <1>3. links' = links
    BY DEF Commits, Save, SignInSave, ResetSave
  <1>4. ASSUME NEW n, NEW a \in Accounts, NEW f \in Cols, InRow(n, a, f)'
        PROVE  InRow(n, a, f) \/ (a = q.a /\ Pending(n, r, f))
    <2>1. user'[a] # NONE /\ user'[a][f].n = n
      BY <1>4 DEF InRow
    <2>2. CASE a = q.a
      <3>1. user'[a][f] = IF q.loaded = NONE \/ q.wanted[f] # q.loaded[f] THEN q.wanted[f] ELSE user[a][f]
        BY <1>1, <2>2, CommitRows
      <3>2. q.loaded # NONE => user[a] # NONE
        BY <1>1, <2>2, CommitRows, RowTypes
      <3> QED BY <1>1, <1>2, <2>1, <2>2, <3>1, <3>2 DEF InRow, Pending
    <2>3. CASE a # q.a
      <3>1. user'[a] = user[a] \/ (user[a] \in Row /\ user'[a] = [user[a] EXCEPT !.chat = NONE])
        BY <1>1, <2>3, CommitRows
      <3>2. user[a] \in Row => [user[a] EXCEPT !.chat = NONE][f] = user[a][f] /\ user[a] # NONE
        BY RowTypes DEF Row, Cols
      <3> QED BY <2>1, <3>1, <3>2 DEF InRow
    <2> QED BY <2>2, <2>3
  <1>5. ASSUME NEW x \in Reqs, IsWrite(req'[x])
        PROVE  /\ x # r /\ IsWrite(req[x]) /\ req[x] \in Writes
               /\ req'[x].a = req[x].a /\ req'[x].loaded = req[x].loaded
               /\ req'[x].wanted = req[x].wanted /\ req'[x].n = req[x].n
               /\ req'[x].met = (req[x].met \/ Overlap(req[x], q))
    <2>1. x # r /\ IsWrite(req[x])
      BY <1>2, <1>5, LeftTypes
    <2>2. req[x] \in Writes
      BY <2>1, Kinds, NothingIsNoWrite DEF TypeOK
    <2> QED BY <1>2, <2>1, <2>2, LeftAlone
  <1>6. ASSUME NEW n, NEW x \in Reqs, NEW f \in Cols
        PROVE  /\ InReq(n, x, f)' => x # r /\ InReq(n, x, f) /\ req'[x].a = req[x].a
               /\ Pending(n, x, f)' => x # r /\ Pending(n, x, f)
    <2>1. InReq(n, x, f)' => x # r /\ InReq(n, x, f) /\ req'[x].a = req[x].a
      BY <1>5 DEF InReq, IsWrite
    <2>2. Pending(n, x, f)' => x # r /\ Pending(n, x, f)
      BY <1>5 DEF Pending, IsWrite
    <2> QED BY <2>1, <2>2
  <1>7. ASSUME NEW n, NEW x \in Reqs, NEW f \in Cols, Pending(n, x, f)
        PROVE  InReq(n, x, f)
    BY <1>7 DEF Pending, InReq
  <1>8. ASSUME NEW n, NEW a \in Accounts, NEW f \in Cols, At(n, a, f)'
        PROVE  At(n, a, f)
    <2>1. CASE InRow(n, a, f)'
      BY <1>1, <1>4, <1>7, <2>1 DEF At
    <2>2. CASE \E x \in Reqs : InReq(n, x, f)' /\ req'[x].a = a
      BY <1>6, <2>2 DEF At
    <2> QED BY <1>8, <2>1, <2>2 DEF At
  <1>9. OnePlace' /\ Issued'
    BY <1>3, <1>8 DEF OnePlace, Issued, LinkInv
  \* The link the request was made with.
  <1>10. ASSUME q.n # 0
         PROVE  \E f \in Cols : /\ q.loaded # NONE /\ q.loaded[f].n = q.n /\ q.wanted[f] = NoLink
                                /\ InReq(q.n, r, f) /\ At(q.n, q.a, f)
                                /\ ~q.met => InRow(q.n, q.a, f)
    <2>1. PICK f \in Cols : /\ q.loaded # NONE /\ q.loaded[f].n = q.n /\ q.wanted[f] = NoLink
                            /\ ~q.met => InRow(q.n, q.a, f)
      BY <1>1, <1>2, <1>10 DEF LinkInv, ClearsLink
    <2>2. InReq(q.n, r, f)
      BY <1>1, <1>2, <2>1 DEF InReq
    <2>3. At(q.n, q.a, f)
      BY <1>1, <2>2 DEF At
    <2> QED BY <2>1, <2>2, <2>3
  <1>11. \A n \in dead' : \/ n \in dead
                          \/ n = q.n /\ n # 0
                          \/ /\ n # 0 /\ \E f \in Cols : InRow(n, q.a, f)
                             /\ \A f \in Cols : ~InRow(n, q.a, f)'
    BY <1>1, KilledLinks
  <1>12. \A n, f : f \in Cols /\ InRow(n, q.a, f) => n \in Nat /\ At(n, q.a, f)
    <2> SUFFICES ASSUME NEW n, NEW f \in Cols, InRow(n, q.a, f) PROVE n \in Nat /\ At(n, q.a, f)
      OBVIOUS
    <2>1. user[q.a] \in Row /\ user[q.a][f].n = n
      BY <1>2 DEF InRow, TypeOK
    <2>2. n \in Nat
      BY <2>1, RowTypes DEF Link
    <2> QED BY <2>2 DEF At
  <1>13. DeadIssued'
    <2> SUFFICES ASSUME NEW n \in dead' PROVE n \in Nat \ {0} /\ n <= links
      BY <1>3 DEF DeadIssued
    <2>1. CASE n \in dead
      BY <2>1 DEF LinkInv, DeadIssued
    <2>2. CASE n = q.n /\ n # 0
      BY <1>2, <1>10, <2>2 DEF LinkInv, Issued
    <2>3. CASE n # 0 /\ \E f \in Cols : InRow(n, q.a, f)
      BY <1>2, <1>12, <2>3 DEF LinkInv, Issued
    <2> QED BY <1>11, <2>1, <2>2, <2>3
  <1>14. DeadGone'
    <2> SUFFICES ASSUME NEW n \in dead', NEW a \in Accounts, NEW f \in Cols, InRow(n, a, f)' PROVE FALSE
      BY DEF DeadGone
    <2>0. n \in Nat \ {0}
      BY <1>13 DEF DeadIssued
    <2>1. InRow(n, a, f) \/ (a = q.a /\ Pending(n, r, f))
      BY <1>4
    <2>2. At(n, a, f)
      BY <1>1, <1>7, <2>1 DEF At
    <2>3. CASE n \in dead
      BY <2>0, <2>1, <2>3 DEF LinkInv, DeadGone, PendingNew
    <2>4. CASE n = q.n
      <3>1. PICK g \in Cols : /\ q.loaded # NONE /\ q.loaded[g].n = q.n /\ q.wanted[g] = NoLink /\ At(q.n, q.a, g)
        BY <1>10, <2>0, <2>4
      <3>2. a = q.a /\ f = g
        BY <1>2, <2>0, <2>2, <2>4, <3>1 DEF LinkInv, OnePlace
      <3>3. NoLink.n = 0
        BY DEF NoLink
      <3>4. user'[a][f] = IF q.loaded = NONE \/ q.wanted[f] # q.loaded[f] THEN q.wanted[f] ELSE user[a][f]
        BY <1>1, <3>2, CommitRows
      <3>5. user'[a][f].n = 0
        BY <2>0, <2>4, <3>1, <3>2, <3>3, <3>4
      <3> QED BY <2>0, <3>5 DEF InRow
    <2>5. CASE (\E g \in Cols : InRow(n, q.a, g)) /\ \A g \in Cols : ~InRow(n, q.a, g)'
      <3>1. a # q.a
        BY <2>5
      <3>2. PICK g \in Cols : At(n, q.a, g)
        BY <1>12, <2>5
      <3> QED BY <1>2, <2>0, <2>2, <3>1, <3>2 DEF LinkInv, OnePlace
    <2> QED BY <1>11, <2>3, <2>4, <2>5
  <1>15. PendingNew'
    <2> SUFFICES ASSUME NEW n \in Nat \ {0}, NEW x \in Reqs, NEW f \in Cols, Pending(n, x, f)'
                 PROVE  /\ n \notin dead'
                        /\ \A a \in Accounts, g \in Cols : ~InRow(n, a, g)'
                        /\ \A y \in Reqs \ {x}, g \in Cols : ~InReq(n, y, g)'
      BY DEF PendingNew
    <2>1. x # r /\ Pending(n, x, f)
      BY <1>6
    <2>2. /\ n \notin dead
          /\ \A a \in Accounts, g \in Cols : ~InRow(n, a, g)
          /\ \A y \in Reqs \ {x}, g \in Cols : ~InReq(n, y, g)
      BY <2>1 DEF LinkInv, PendingNew
    <2>3. n # q.n
      BY <1>10, <2>1, <2>2
    <2>4. n \notin dead'
      BY <1>2, <1>11, <2>2, <2>3
    <2>5. \A a \in Accounts, g \in Cols : ~InRow(n, a, g)'
      BY <1>4, <1>7, <2>1, <2>2
    <2>6. \A y \in Reqs \ {x}, g \in Cols : ~InReq(n, y, g)'
      BY <1>6, <2>2
    <2> QED BY <2>4, <2>5, <2>6
  <1>16. ClearsLink'
    <2>1. ASSUME NEW x \in Reqs, IsWrite(req'[x]), req'[x].n # 0
          PROVE  /\ req'[x].loaded # NONE
                 /\ \E f \in Cols : /\ req'[x].loaded[f].n = req'[x].n
                                    /\ req'[x].wanted[f] = NoLink
                                    /\ ~req'[x].met => /\ user'[req'[x].a] # NONE
                                                       /\ user'[req'[x].a][f].n = req'[x].n
      <3>1. PICK p : p = req[x]
        OBVIOUS
      <3>2. /\ x # r /\ IsWrite(p) /\ p \in Writes
            /\ req'[x].a = p.a /\ req'[x].loaded = p.loaded
            /\ req'[x].wanted = p.wanted /\ req'[x].n = p.n
            /\ req'[x].met = (p.met \/ Overlap(p, q))
        BY <1>5, <2>1, <3>1
      <3>3. p.loaded # NONE
            /\ \E f \in Cols : /\ p.loaded[f].n = p.n /\ p.wanted[f] = NoLink
                               /\ ~p.met => user[p.a] # NONE /\ user[p.a][f].n = p.n
        BY <2>1, <3>1, <3>2 DEF LinkInv, ClearsLink, InRow
      <3>4. p.a \in Accounts /\ p.met \in BOOLEAN
        BY <3>2, Fields
      <3>5. ASSUME ~Overlap(p, q) PROVE user'[p.a] = user[p.a]
        <4>1. p.a # q.a /\ p.a # q.other
          BY <1>2, <3>4, <3>5, IdentityAssumption DEF Overlap
        <4> QED BY <1>1, <3>4, <4>1, CommitRows
      <3> QED BY <3>2, <3>3, <3>4, <3>5
    <2> QED BY <2>1 DEF ClearsLink, InRow, IsWrite
  <1>17. LinksWorkOnce'
    <2>1. CASE SignInSave(r)
      BY <2>1 DEF SignInSave, LinksWorkOnce, LinkInv
    <2>2. CASE Save(r) \/ ResetSave(r)
      <3>1. revived' = (revived \/ (q.n \in dead /\ ~q.met))
        BY <1>1, <2>2 DEF Save, ResetSave, Revives
      <3>2. ASSUME q.n \in dead, ~q.met PROVE FALSE
        <4>1. q.n # 0
          BY <3>2 DEF LinkInv, DeadIssued
        <4>2. \E f \in Cols : InRow(q.n, q.a, f)
          BY <1>10, <3>2, <4>1
        <4> QED BY <1>2, <3>2, <4>2 DEF LinkInv, DeadGone
      <3> QED BY <3>1, <3>2 DEF LinksWorkOnce, LinkInv
    <2> QED BY <2>1, <2>2 DEF Commits
  <1> QED BY <1>9, <1>13, <1>14, <1>15, <1>16, <1>17 DEF LinkInv

\* A request that begins holds links of its account's row, and at most one with a
\* number nobody has seen.
LEMMA LinkMove ==
  ASSUME TypeOK, LinkInv, NEW r \in Reqs, NEW q, req' = [req EXCEPT ![r] = q],
         q # NONE => ~IsWrite(req[r]), IsWrite(q) => NewWrite(q), links' \in {links, links + 1},
         UNCHANGED <<user, dead, revived>>
  PROVE  LinkInv'
  <1>1. (\A x \in Reqs \ {r} : req'[x] = req[x]) /\ req'[r] = q
    BY DEF TypeOK
  <1>2. links \in Nat /\ links' \in Nat /\ links <= links'
    BY DEF TypeOK
  <1>3. \A n, a, f : InRow(n, a, f)' <=> InRow(n, a, f)
    BY DEF InRow
  <1>4. ASSUME NEW n, NEW x \in Reqs \ {r}, NEW f
        PROVE  /\ InReq(n, x, f)' <=> InReq(n, x, f)
               /\ Pending(n, x, f)' <=> Pending(n, x, f)
    BY <1>1 DEF InReq, Pending, IsWrite
  \* The links of the request that begins.
  <1>5. ASSUME NEW n \in Nat \ {0}, NEW f \in Cols, InReq(n, r, f)'
        PROVE  /\ IsWrite(q) /\ q.a \in Accounts
               /\ InRow(n, q.a, f) \/ (n = links + 1 /\ links' = links + 1)
    <2>1. IsWrite(q) /\ ((q.loaded # NONE /\ q.loaded[f].n = n) \/ q.wanted[f].n = n)
      BY <1>1, <1>5 DEF InReq, IsWrite
    <2>2. q.a \in Accounts /\ q.loaded = user[q.a]
      BY <2>1, Fields DEF NewWrite
    <2>3. \/ q.wanted[f] = NoLink \/ (q.loaded # NONE /\ q.wanted[f] = q.loaded[f])
          \/ (q.wanted[f].n = links + 1 /\ links' = links + 1)
      BY <2>1 DEF NewWrite
    <2>4. NoLink.n = 0
      BY DEF NoLink
    <2> QED BY <2>1, <2>2, <2>3, <2>4 DEF InRow
  <1>6. ASSUME NEW n \in Nat \ {0}, NEW f \in Cols, Pending(n, r, f)'
        PROVE  n = links + 1 /\ links' = links + 1
    <2>1. IsWrite(q) /\ q.wanted[f].n = n /\ (q.loaded = NONE \/ q.loaded[f] # q.wanted[f])
      BY <1>1, <1>6 DEF Pending, IsWrite
    <2>2. NoLink.n = 0
      BY DEF NoLink
    <2> QED BY <2>1, <2>2 DEF NewWrite
  \* Two columns never get the new number at once.
  <1>7. ASSUME NEW n \in Nat \ {0}, n = links + 1, NEW f \in Cols, NEW g \in Cols,
               InReq(n, r, f)', InReq(n, r, g)'
        PROVE  f = g
    <2>1. \A a \in Accounts, h \in Cols : ~InRow(n, a, h)
      BY <1>2, <1>7 DEF LinkInv, Issued, At
    <2>2. IsWrite(q) /\ q.a \in Accounts /\ q.loaded = user[q.a]
      BY <1>5, <1>7 DEF NewWrite
    <2>3. \A h \in Cols : q.loaded # NONE => q.loaded[h].n # n
      BY <2>1, <2>2 DEF InRow
    <2>4. q.wanted[f].n = n /\ q.wanted[g].n = n
      BY <1>1, <1>7, <2>3 DEF InReq
    <2>5. NoLink.n = 0
      BY DEF NoLink
    <2>6. PICK c \in Cols :
            \A h \in Cols \ {c} : q.wanted[h] = NoLink \/ (q.loaded # NONE /\ q.wanted[h] = q.loaded[h])
      BY <2>2 DEF NewWrite
    <2>7. f = c /\ g = c
      BY <2>3, <2>4, <2>5, <2>6
    <2> QED BY <2>7
  <1>8. ASSUME NEW n \in Nat \ {0}, NEW a \in Accounts, NEW f \in Cols, At(n, a, f)'
        PROVE  \/ At(n, a, f)
               \/ n = links + 1 /\ links' = links + 1 /\ a = q.a /\ InReq(n, r, f)'
    <2>1. CASE InRow(n, a, f)'
      BY <1>3, <2>1 DEF At
    <2>2. ASSUME NEW x \in Reqs, InReq(n, x, f)', req'[x].a = a
          PROVE  \/ At(n, a, f)
                 \/ n = links + 1 /\ links' = links + 1 /\ a = q.a /\ InReq(n, r, f)'
      <3>1. CASE x # r
        BY <1>1, <1>4, <2>2, <3>1 DEF At
      <3>2. CASE x = r
        BY <1>1, <1>5, <2>2, <3>2 DEF At
      <3> QED BY <3>1, <3>2
    <2> QED BY <1>8, <2>1, <2>2 DEF At
  <1>9. \A n \in Nat \ {0} : \A a \in Accounts, f \in Cols : At(n, a, f) => n <= links
    BY DEF LinkInv, Issued
  <1>10. OnePlace'
    <2> SUFFICES ASSUME NEW n \in Nat \ {0}, NEW a \in Accounts, NEW b \in Accounts, NEW f \in Cols, NEW g \in Cols,
                        At(n, a, f)', At(n, b, g)'
                 PROVE  a = b /\ f = g
      BY DEF OnePlace
    <2>1. CASE At(n, a, f) /\ At(n, b, g)
      BY <2>1 DEF LinkInv, OnePlace
    <2>2. CASE n = links + 1
      <3>1. ~At(n, a, f) /\ ~At(n, b, g)
        BY <1>2, <1>9, <2>2
      <3> QED BY <1>7, <1>8, <2>2, <3>1
    <2> QED BY <1>8, <2>1, <2>2
  <1>11. Issued'
    BY <1>2, <1>8, <1>9 DEF Issued
  <1>12. DeadIssued' /\ DeadGone' /\ LinksWorkOnce'
    BY <1>2, <1>3 DEF LinkInv, DeadIssued, DeadGone, LinksWorkOnce
  <1>13. PendingNew'
    <2> SUFFICES ASSUME NEW n \in Nat \ {0}, NEW x \in Reqs, NEW f \in Cols, Pending(n, x, f)'
                 PROVE  /\ n \notin dead
                        /\ \A a \in Accounts, g \in Cols : ~InRow(n, a, g)
                        /\ \A y \in Reqs \ {x}, g \in Cols : ~InReq(n, y, g)'
      BY <1>3 DEF PendingNew
    <2>1. CASE x # r
      <3>1. Pending(n, x, f)
        BY <1>4, <2>1
      <3>2. /\ n \notin dead
            /\ \A a \in Accounts, g \in Cols : ~InRow(n, a, g)
            /\ \A y \in Reqs \ {x}, g \in Cols : ~InReq(n, y, g)
        BY <3>1 DEF LinkInv, PendingNew
      <3>3. n <= links
        <4>1. InReq(n, x, f) /\ req[x] \in Writes
          BY <3>1, Kinds, NothingIsNoWrite DEF Pending, InReq, TypeOK
        <4>2. At(n, req[x].a, f) /\ req[x].a \in Accounts
          BY <4>1, Fields DEF At
        <4> QED BY <1>9, <4>2
      <3>4. \A g \in Cols : ~InReq(n, r, g)'
        BY <1>2, <1>5, <3>2, <3>3
      <3> QED BY <1>4, <3>2, <3>4
    <2>2. CASE x = r
      <3>1. n = links + 1
        BY <1>6, <2>2
      <3>2. \A a \in Accounts, g \in Cols : ~At(n, a, g)
        BY <1>2, <1>9, <3>1
      <3>3. n \notin dead
        BY <1>2, <3>1 DEF LinkInv, DeadIssued
      <3>4. ASSUME NEW y \in Reqs \ {x}, NEW g \in Cols, InReq(n, y, g)' PROVE FALSE
        <4>1. InReq(n, y, g)
          BY <1>4, <2>2, <3>4
        <4>2. req[y] \in Writes
          BY <4>1, Kinds, NothingIsNoWrite DEF InReq, TypeOK
        <4> QED BY <3>2, <4>1, <4>2, Fields DEF At
      <3> QED BY <3>2, <3>3, <3>4 DEF At
    <2> QED BY <2>1, <2>2
  <1>14. ClearsLink'
    <2>1. ASSUME NEW x \in Reqs, IsWrite(req'[x]), req'[x].n # 0
          PROVE  /\ req'[x].loaded # NONE
                 /\ \E f \in Cols : /\ req'[x].loaded[f].n = req'[x].n
                                    /\ req'[x].wanted[f] = NoLink
                                    /\ ~req'[x].met => /\ user[req'[x].a] # NONE
                                                       /\ user[req'[x].a][f].n = req'[x].n
      <3>1. CASE x = r
        <4>1. IsWrite(q) /\ q.n # 0 /\ req'[x] = q
          BY <1>1, <2>1, <3>1
        <4> QED BY <4>1 DEF NewWrite
      <3>2. CASE x # r
        BY <1>1, <2>1, <3>2 DEF LinkInv, ClearsLink, InRow
      <3> QED BY <3>1, <3>2
    <2> QED BY <2>1 DEF ClearsLink, InRow, IsWrite
  <1> QED BY <1>10, <1>11, <1>12, <1>13, <1>14 DEF LinkInv

LEMMA LinkStep ==
  ASSUME TypeOK, RowInv, LinkInv, [Next]_vars
  PROVE  LinkInv'
  <1>1. CASE UNCHANGED <<user, req, links, dead, revived>>
    BY <1>1 DEF LinkInv, OnePlace, Issued, DeadIssued, DeadGone, PendingNew, ClearsLink, LinksWorkOnce,
                At, InRow, InReq, Pending, IsWrite
  <1>2. ASSUME NEW r \in Reqs, NEW q, Moves(r, q) PROVE LinkInv'
    <2>1. /\ req' = [req EXCEPT ![r] = q] /\ (q # NONE => ~IsWrite(req[r])) /\ (IsWrite(q) => NewWrite(q))
          /\ links' \in {links, links + 1} /\ UNCHANGED <<user, dead, revived>>
      BY <1>2 DEF Moves
    <2> QED BY <2>1, LinkMove
  <1>3. ASSUME NEW r \in Reqs, RefreshSave(r) PROVE LinkInv'
    <2>1. /\ req' = [req EXCEPT ![r] = NONE] /\ links' = links /\ UNCHANGED <<user, dead, revived>>
      BY <1>3 DEF RefreshSave, Done
    <2> QED BY <2>1, LinkMove, NothingIsNoWrite
  <1>4. ASSUME NEW r \in Reqs, Commits(r) PROVE LinkInv'
    BY <1>4, LinkCommit
  <1> QED BY <1>1, <1>2, <1>3, <1>4, Steps DEF Tick, logout, tg_login, vars

-----------------------------------------------------------------------------
(* The sign-ins of SignIns.                                                *)

LEMMA BegunMembers ==
  \A t : t \in BegunSignIns <=> \E x \in SigningIn : req[x].token # NONE /\ t = Ticket(req[x])
  BY DEF BegunSignIns

LEMMA BegunMembersAfter ==
  \A t : t \in BegunSignIns' <=> \E x \in SigningIn' : req'[x].token # NONE /\ t = Ticket(req'[x])
  BY DEF BegunSignIns, Ticket

LEMMA OpenMembers ==
  /\ \A t : t \in OpenSignIns <=> \E s \in session : t = Ticket(s)
  /\ \A t : t \in OpenSignIns' <=> \E s \in session' : t = Ticket(s)
  BY DEF OpenSignIns, Ticket

LEMMA Stutters ==
  ASSUME \A a \in Accounts : Version(a)' = Version(a),
         BegunSignIns' = BegunSignIns, OpenSignIns' = OpenSignIns
  PROVE  [Promise!Next]_(Promise!vars)
  BY DEF Promise!vars

\* A request that begins to open a session, or gives it up.
LEMMA PromiseMove ==
  ASSUME TypeOK, TokenInv, NEW r \in Reqs, NEW q, Moves(r, q)
  PROVE  [Promise!Next]_(Promise!vars)
  <1>1. UNCHANGED <<user, session>>
    BY DEF Moves
  <1>2. (\A a \in Accounts : Version(a)' = Version(a)) /\ OpenSignIns' = OpenSignIns
    BY <1>1 DEF Version, OpenSignIns
  <1>3. /\ \A x \in Reqs \ {r} : req'[x] = req[x]
        /\ req'[r] = q
        /\ SigningIn' = (SigningIn \ {r}) \cup (IF q \in Opening THEN {r} ELSE {})
        /\ q \in Opening => r \notin SigningIn /\ NewWrite(q)
    BY MoveLeaves
  <1>4. \A x \in SigningIn : x \in Reqs
    BY DEF SigningIn
  <1>5. CASE q \in Opening /\ q.token # NONE
    <2>1. /\ q \in Writes /\ q.asOf = Version(q.a) /\ ~q.late /\ q.token \notin TokensInUse \ {NONE}
          /\ r \notin SigningIn
      BY <1>3, <1>5 DEF NewWrite
    <2>2. q.token \in Tokens /\ q.a \in Accounts /\ q.late \in BOOLEAN
      BY <1>5, <2>1, Fields
    <2>3. /\ \A s \in session : s.token # q.token
          /\ \A x \in SigningIn : req[x].token # q.token
      BY <1>5, <2>1, <2>2, UnusedToken
    <2>4. \A o \in BegunSignIns \cup OpenSignIns : o.token # q.token
      BY <2>3, BegunMembers, OpenMembers DEF Ticket
    <2> DEFINE t == [token |-> q.token, a |-> q.a, asOf |-> [a \in Accounts |-> Version(a)][q.a], late |-> FALSE]
    <2>5. t = Ticket(q)
      BY <2>1, <2>2 DEF Ticket
    <2>6. BegunSignIns' = BegunSignIns \cup {t}
      <3>1. ASSUME NEW u \in BegunSignIns' PROVE u \in BegunSignIns \cup {t}
        BY <1>3, <1>4, <2>5, <3>1, BegunMembers, BegunMembersAfter
      <3>2. ASSUME NEW u \in BegunSignIns PROVE u \in BegunSignIns'
        BY <1>3, <1>4, <2>1, <3>2, BegunMembers, BegunMembersAfter
      <3>3. t \in BegunSignIns'
        BY <1>3, <1>5, <2>5, BegunMembersAfter
      <3> QED BY <3>1, <3>2, <3>3
    <2>7. Promise!Begin
      BY <1>2, <2>2, <2>4, <2>6 DEF Promise!Begin
    <2> QED BY <2>7 DEF Promise!Next
  <1>6. CASE q \in Opening /\ q.token = NONE
    <2>1. BegunSignIns' = BegunSignIns
      <3>1. ASSUME NEW u \in BegunSignIns' PROVE u \in BegunSignIns
        BY <1>3, <1>4, <1>6, <3>1, BegunMembers, BegunMembersAfter
      <3>2. ASSUME NEW u \in BegunSignIns PROVE u \in BegunSignIns'
        BY <1>3, <1>4, <1>6, <3>2, BegunMembers, BegunMembersAfter
      <3> QED BY <3>1, <3>2
    <2> QED BY <1>2, <2>1, Stutters
  <1>7. CASE q \notin Opening /\ r \in SigningIn /\ req[r].token # NONE
    <2> DEFINE t == Ticket(req[r])
    <2>1. t \in BegunSignIns
      BY <1>7, BegunMembers
    <2>2. BegunSignIns' = BegunSignIns \ {t}
      <3>1. ASSUME NEW u \in BegunSignIns' PROVE u \in BegunSignIns /\ u # t
        <4>1. PICK x \in SigningIn \ {r} : req[x].token # NONE /\ u = Ticket(req[x])
          BY <1>3, <1>4, <1>7, <3>1, BegunMembersAfter
        <4>2. req[x].token # req[r].token
          BY <1>7, <4>1 DEF TokenInv
        <4> QED BY <4>1, <4>2, BegunMembers, TicketFields
      <3>2. ASSUME NEW u \in BegunSignIns, u # t PROVE u \in BegunSignIns'
        BY <1>3, <1>4, <1>7, <3>2, BegunMembers, BegunMembersAfter
      <3> QED BY <3>1, <3>2
    <2>3. Promise!GiveUp
      BY <1>2, <2>1, <2>2 DEF Promise!GiveUp
    <2> QED BY <2>3 DEF Promise!Next
  <1>8. CASE q \notin Opening /\ ~(r \in SigningIn /\ req[r].token # NONE)
    <2>1. BegunSignIns' = BegunSignIns
      <3>1. ASSUME NEW u \in BegunSignIns' PROVE u \in BegunSignIns
        BY <1>3, <1>4, <1>8, <3>1, BegunMembers, BegunMembersAfter
      <3>2. ASSUME NEW u \in BegunSignIns PROVE u \in BegunSignIns'
        BY <1>3, <1>4, <1>8, <3>2, BegunMembers, BegunMembersAfter
      <3> QED BY <3>1, <3>2
    <2> QED BY <1>2, <2>1, Stutters
  <1> QED BY <1>5, <1>6, <1>7, <1>8

\* A commit leaves the other sign-ins begun, overtaken if it sets a password.
LateBy(a, t) == [t EXCEPT !.late = @ \/ t.a = a]
After(q, p) == [Ticket(p) EXCEPT !.late = @ \/ (SetsPassword(q) /\ p.a = q.a)]

LEMMA BegunAfter ==
  ASSUME TypeOK, RowInv, NEW r \in Reqs, Commits(r), NEW q, q = req[r]
  PROVE  \A t : t \in BegunSignIns' <=>
                  \E x \in SigningIn \ {r} :
                     /\ req[x].token # NONE
                     /\ t = After(q, req[x])
  <1>1. ASSUME NEW x \in SigningIn \ {r}
        PROVE  /\ req'[x].token = req[x].token
               /\ Ticket(req'[x]) = After(q, req[x])
    BY CommitLeaves DEF Ticket, After
  <1>2. SigningIn' = SigningIn \ {r}
    BY CommitLeaves
  <1> QED BY <1>1, <1>2, BegunMembersAfter

\* The commit of a sign-in.
LEMMA PromiseOpen ==
  ASSUME TypeOK, RowInv, TokenInv, NEW r \in Reqs, SignInSave(r)
  PROVE  [Promise!Next]_(Promise!vars)
  <1>0. PICK q : q = req[r]
    OBVIOUS
  <1>1. /\ q \in Opening /\ Commits(r)
        /\ session' = (session \ Dropped(q)) \cup (IF q.token = NONE THEN {} ELSE {NewSession(q)})
        /\ q.token # NONE => /\ NewSession(q).token = q.token /\ NewSession(q).a = q.a
                             /\ NewSession(q).asOf = q.asOf /\ NewSession(q).late = q.late
    BY <1>0, SignInCommit DEF Commits
  <1>2. q \in Writes /\ FitsRow(q) /\ q.a \in Accounts /\ q.op = "signin" /\ r \in SigningIn
    BY <1>0, <1>1, CommitRequest, Fields DEF SignInSave, SigningIn
  <1>3. ~SetsPassword(q)
    BY <1>2 DEF SetsPassword, FitsRow, NewRow
  <1>4. \A a \in Accounts : Version(a)' = Version(a)
    <2>1. \A a \in Accounts : Version(a) \in Nat
      BY VersionType, LifeTypes
    <2> QED BY <1>0, <1>1, <1>3, <2>1, VersionAfter
  <1>5. \A t : t \in BegunSignIns' <=> \E x \in SigningIn \ {r} : req[x].token # NONE /\ t = Ticket(req[x])
    <2>1. \A x \in SigningIn \ {r} :
            After(q, req[x]) = Ticket(req[x])
      BY <1>3, SigningTypes DEF Ticket, After
    <2> QED BY <1>0, <1>1, <2>1, BegunAfter
  <1>6. CASE q.token = NONE
    <2>1. q.stale = {}
      BY <1>0, <1>2, <1>6 DEF TokenInv
    <2>2. session' = session
      BY <1>1, <1>6, <2>1 DEF Dropped
    <2>3. OpenSignIns' = OpenSignIns
      BY <2>2 DEF OpenSignIns
    <2>4. BegunSignIns' = BegunSignIns
      <3>1. \A t : t \in BegunSignIns' <=> t \in BegunSignIns
        BY <1>0, <1>5, <1>6, BegunMembers
      <3> QED BY <3>1
    <2> QED BY <1>4, <2>3, <2>4, Stutters
  <1>7. CASE q.token # NONE
    <2> DEFINE t == Ticket(q)
               gone == {Ticket(s) : s \in Dropped(q)}
    <2>1. t \in BegunSignIns
      BY <1>0, <1>2, <1>7, BegunMembers
    <2>2. BegunSignIns' = BegunSignIns \ {t}
      <3>1. ASSUME NEW u \in BegunSignIns' PROVE u \in BegunSignIns /\ u # t
        <4>1. PICK x \in SigningIn \ {r} : req[x].token # NONE /\ u = Ticket(req[x])
          BY <1>5, <3>1
        <4>2. req[x].token # q.token
          BY <1>0, <1>2, <4>1 DEF TokenInv
        <4> QED BY <4>1, <4>2, BegunMembers, TicketFields
      <3>2. ASSUME NEW u \in BegunSignIns, u # t PROVE u \in BegunSignIns'
        BY <1>0, <1>5, <3>2, BegunMembers
      <3> QED BY <3>1, <3>2
    <2>3. gone \in SUBSET {o \in OpenSignIns : o.a = t.a}
      <3>1. ASSUME NEW s \in Dropped(q) PROVE Ticket(s) \in OpenSignIns /\ Ticket(s).a = t.a
        <4>1. s \in session /\ \E d \in q.stale : s.token = d.token
          BY DEF Dropped
        <4>2. s.a = q.a
          BY <1>0, <1>2, <4>1 DEF TokenInv
        <4> QED BY <4>1, <4>2, OpenMembers DEF Ticket
      <3> QED BY <3>1
    <2>4. Ticket(NewSession(q)) = t
      BY <1>1, <1>7, TicketFields
    <2>5. OpenSignIns' = (OpenSignIns \ gone) \cup {t}
      <3>1. \A s, u \in session : Ticket(s) = Ticket(u) => s = u
        BY TicketFields DEF TokenInv
      <3>2. ASSUME NEW u \in OpenSignIns' PROVE u \in (OpenSignIns \ gone) \cup {t}
        <4>1. PICK s \in session' : u = Ticket(s)
          BY <3>2, OpenMembers
        <4>2. CASE s \in session \ Dropped(q)
          <5>1. Ticket(s) \notin gone
            BY <3>1, <4>2 DEF Dropped
          <5> QED BY <4>1, <4>2, <5>1, OpenMembers
        <4>3. CASE s = NewSession(q)
          BY <2>4, <4>1, <4>3
        <4> QED BY <1>1, <1>7, <4>2, <4>3
      <3>3. ASSUME NEW u \in OpenSignIns, u \notin gone PROVE u \in OpenSignIns'
        <4>1. PICK s \in session : u = Ticket(s)
          BY <3>3, OpenMembers
        <4>2. s \notin Dropped(q)
          BY <3>3, <4>1
        <4> QED BY <1>1, <4>1, <4>2, OpenMembers
      <3>4. t \in OpenSignIns'
        BY <1>1, <1>7, <2>4, OpenMembers
      <3> QED BY <3>2, <3>3, <3>4
    <2> HIDE DEF t, gone
    <2>6. Promise!Open
      BY <1>4, <2>1, <2>2, <2>3, <2>5 DEF Promise!Open
    <2> QED BY <2>6 DEF Promise!Next
  <1> QED BY <1>6, <1>7

\* The commit that sets a password.
LEMMA PromiseReset ==
  ASSUME TypeOK, RowInv, TokenInv, CurrentInv, NEW r \in Reqs, ResetSave(r) \/ Save(r)
  PROVE  [Promise!Next]_(Promise!vars)
  <1>0. PICK q : q = req[r]
    OBVIOUS
  <1>1. /\ Commits(r) /\ q \in Writes /\ FitsRow(q) /\ q.a \in Accounts /\ q.op # "signin"
        /\ q.loaded = NONE => user[q.a] = NONE
        /\ r \notin SigningIn
    BY <1>0, CommitRequest, Fields DEF Commits, Save, ResetSave, SigningIn
  <1>2. \A a \in Accounts : Version(a) \in Nat
    BY VersionType, LifeTypes
  <1>3. \A a \in Accounts : Version(a)' = Version(a) + (IF a = q.a /\ SetsPassword(q) THEN 1 ELSE 0)
    BY <1>0, <1>1, VersionAfter
  <1>4. \A t : t \in BegunSignIns' <=>
                  \E x \in SigningIn :
                     /\ req[x].token # NONE
                     /\ t = After(q, req[x])
    <2>1. SigningIn \ {r} = SigningIn
      BY <1>1
    <2> QED BY <1>0, <1>1, <2>1, BegunAfter
  <1>5. CASE SetsPassword(q)
    <2> DEFINE v == [a \in Accounts |-> Version(a)]
    <2>1. [a \in Accounts |-> Version(a)'] = [v EXCEPT ![q.a] = v[q.a] + 1]
      BY <1>1, <1>2, <1>3, <1>5
    <2>2. OpenSignIns' = {o \in OpenSignIns : o.a # q.a}
      <3>1. session' = {s \in session : s.a # q.a}
        <4>1. CASE ResetSave(r)
          BY <1>0, <4>1 DEF ResetSave, close_all
        <4>2. CASE Save(r)
          <5>1. session' = session /\ q.op # "reset"
            BY <1>0, <4>2 DEF Save
          <5>2. user[q.a] = NONE
            BY <1>1, <1>5, <5>1 DEF SetsPassword
          <5> QED BY <5>1, <5>2 DEF CurrentInv
        <4> QED BY <4>1, <4>2
      <3>2. \A s : Ticket(s).a = s.a
        BY DEF Ticket
      <3>3. ASSUME NEW u PROVE u \in OpenSignIns' <=> u \in OpenSignIns /\ u.a # q.a
        BY <3>1, <3>2, OpenMembers
      <3> QED BY <3>3
    <2>3. BegunSignIns' = Promise!Overtaken(q.a, BegunSignIns)
      <3>1. \A x \in SigningIn : After(q, req[x])
                                 = LateBy(q.a, Ticket(req[x]))
        BY <1>5, SigningTypes DEF Ticket, After, LateBy
      <3>2. ASSUME NEW u PROVE u \in BegunSignIns' <=> \E t \in BegunSignIns : u = LateBy(q.a, t)
        <4>1. CASE u \in BegunSignIns'
          <5>1. PICK x \in SigningIn : req[x].token # NONE /\ u = LateBy(q.a, Ticket(req[x]))
            BY <1>4, <3>1, <4>1
          <5>2. Ticket(req[x]) \in BegunSignIns
            BY <5>1, BegunMembers
          <5> QED BY <4>1, <5>1, <5>2
        <4>2. ASSUME NEW t \in BegunSignIns, u = LateBy(q.a, t) PROVE u \in BegunSignIns'
          <5>1. PICK x \in SigningIn : req[x].token # NONE /\ t = Ticket(req[x])
            BY <4>2, BegunMembers
          <5> QED BY <1>4, <3>1, <4>2, <5>1
        <4> QED BY <4>1, <4>2
      <3> QED BY <3>2 DEF Promise!Overtaken, LateBy
    <2>4. Promise!Reset
      BY <1>1, <2>1, <2>2, <2>3 DEF Promise!Reset
    <2> QED BY <2>4 DEF Promise!Next
  <1>6. CASE ~SetsPassword(q)
    <2>1. \A a \in Accounts : Version(a)' = Version(a)
      BY <1>2, <1>3, <1>6
    <2>2. OpenSignIns' = OpenSignIns
      <3>1. q.op # "reset"
        BY <1>6 DEF SetsPassword
      <3>2. session' = session
        BY <1>0, <3>1 DEF ResetSave, Save
      <3> QED BY <3>2 DEF OpenSignIns
    <2>3. \A x \in SigningIn :
            After(q, req[x]) = Ticket(req[x])
      BY <1>6, SigningTypes DEF Ticket, After
    <2>4. \A t : t \in BegunSignIns' <=> t \in BegunSignIns
      BY <1>4, <2>3, BegunMembers
    <2>5. BegunSignIns' = BegunSignIns
      BY <2>4
    <2> QED BY <2>1, <2>2, <2>5, Stutters
  <1> QED BY <1>5, <1>6

\* A session that ends, or is renewed.
LEMMA PromiseEnd ==
  ASSUME TypeOK, TokenInv, user' = user, SigningIn' = SigningIn, \A x \in SigningIn : req'[x] = req[x],
         NEW gone \in SUBSET session, \A s, t \in gone : s = t,
         OpenSignIns' = {Ticket(s) : s \in session \ gone}
  PROVE  [Promise!Next]_(Promise!vars)
  <1>1. \A a \in Accounts : Version(a)' = Version(a)
    BY DEF Version
  <1>2. BegunSignIns' = BegunSignIns
    <2>1. \A t : t \in BegunSignIns' <=> t \in BegunSignIns
      BY BegunMembers, BegunMembersAfter
    <2> QED BY <2>1
  <1>3. CASE gone = {}
    <2>1. OpenSignIns' = OpenSignIns
      BY <1>3 DEF OpenSignIns
    <2> QED BY <1>1, <1>2, <2>1, Stutters
  <1>4. CASE gone # {}
    <2>1. PICK s \in session : gone = {s}
      BY <1>4
    <2>2. \A u \in session : Ticket(u) = Ticket(s) => u = s
      BY TicketFields DEF TokenInv
    <2>3. OpenSignIns' = OpenSignIns \ {Ticket(s)}
      BY <2>1, <2>2 DEF OpenSignIns
    <2>4. Ticket(s) \in OpenSignIns
      BY OpenMembers
    <2>5. Promise!End
      BY <1>1, <1>2, <2>3, <2>4 DEF Promise!End
    <2> QED BY <2>5 DEF Promise!Next
  <1> QED BY <1>3, <1>4

LEMMA PromiseStep ==
  ASSUME TypeOK, RowInv, TokenInv, CurrentInv, [Next]_vars
  PROVE  [Promise!Next]_(Promise!vars)
  <1>1. CASE UNCHANGED <<user, session, req>>
    <2>1. /\ \A a \in Accounts : Version(a)' = Version(a)
          /\ BegunSignIns' = BegunSignIns /\ OpenSignIns' = OpenSignIns
      BY <1>1 DEF Version, BegunSignIns, OpenSignIns, SigningIn, IsWrite
    <2> QED BY <2>1, Stutters
  <1>2. ASSUME NEW s \in session, logout(s) PROVE [Promise!Next]_(Promise!vars)
    <2>1. session' = session \ {s} /\ user' = user /\ req' = req
      BY <1>2 DEF logout
    <2>2. SigningIn' = SigningIn /\ \A x \in SigningIn : req'[x] = req[x]
      BY <2>1 DEF SigningIn, IsWrite
    <2>3. OpenSignIns' = {Ticket(u) : u \in session \ {s}}
      BY <2>1 DEF OpenSignIns
    <2>4. {s} \in SUBSET session /\ \A t, u \in {s} : t = u
      OBVIOUS
    <2> QED BY <2>1, <2>2, <2>3, <2>4, PromiseEnd
  <1>3. ASSUME NEW r \in Reqs, RefreshSave(r) PROVE [Promise!Next]_(Promise!vars)
    <2>0. PICK q : q = req[r]
      OBVIOUS
    <2>1. /\ q \in Renewing /\ ~IsWrite(q) /\ req' = [req EXCEPT ![r] = NONE] /\ user' = user
          /\ \/ session' = session \ RowOf(q)
             \/ session' = (session \ RowOf(q)) \cup {Moved(q, s) : s \in RowOf(q)}
      BY <1>3, <2>0, RefreshCommit
    <2>2. SigningIn' = SigningIn /\ \A x \in SigningIn : req'[x] = req[x]
      BY <2>0, <2>1, NothingIsNoWrite DEF SigningIn, IsWrite, TypeOK
    <2>3. RowOf(q) \in SUBSET session /\ \A s, t \in RowOf(q) : s = t
      BY DEF RowOf, TokenInv
    <2>4. CASE session' = session \ RowOf(q)
      <3>1. OpenSignIns' = {Ticket(u) : u \in session \ RowOf(q)}
        BY <2>4 DEF OpenSignIns
      <3> QED BY <2>1, <2>2, <2>3, <3>1, PromiseEnd
    <2>5. CASE session' = (session \ RowOf(q)) \cup {Moved(q, s) : s \in RowOf(q)}
      <3>1. \A s \in RowOf(q) : Ticket(Moved(q, s)) = Ticket(s)
        BY <2>1, <2>3, MovedSession, TicketFields DEF TypeOK
      <3>2. ASSUME NEW t PROVE t \in OpenSignIns' <=> \E s \in session : t = Ticket(s)
        <4>1. ASSUME NEW s \in session, t = Ticket(s) PROVE t \in OpenSignIns'
          <5>1. CASE s \in RowOf(q)
            BY <2>5, <3>1, <4>1, <5>1, OpenMembers
          <5>2. CASE s \notin RowOf(q)
            BY <2>5, <4>1, <5>2, OpenMembers
          <5> QED BY <5>1, <5>2
        <4>2. ASSUME t \in OpenSignIns' PROVE \E s \in session : t = Ticket(s)
          <5>1. PICK s \in session' : t = Ticket(s)
            BY <4>2, OpenMembers
          <5>2. s \in session \/ \E u \in RowOf(q) : s = Moved(q, u)
            BY <2>5
          <5> QED BY <2>3, <3>1, <5>1, <5>2
        <4> QED BY <4>1, <4>2
      <3>3. OpenSignIns' = {Ticket(u) : u \in session \ {}}
        BY <3>2
      <3>4. {} \in SUBSET session /\ \A s, t \in {} : s = t
        OBVIOUS
      <3> QED BY <2>1, <2>2, <3>3, <3>4, PromiseEnd
    <2> QED BY <2>1, <2>4, <2>5
  <1>4. ASSUME NEW r \in Reqs, NEW q, Moves(r, q) PROVE [Promise!Next]_(Promise!vars)
    BY <1>4, PromiseMove
  <1>5. ASSUME NEW r \in Reqs, Commits(r) PROVE [Promise!Next]_(Promise!vars)
    BY <1>5, PromiseOpen, PromiseReset DEF Commits
  <1> QED BY <1>1, <1>2, <1>3, <1>4, <1>5, Steps DEF Tick, tg_login, vars

-----------------------------------------------------------------------------
(* The theorems.                                                           *)

IInv == TypeOK /\ MailInv /\ TokenInv /\ CurrentInv /\ AccessInv /\ LinkInv /\ ChatInv

LEMMA InitInv == Init => IInv
  <1> SUFFICES ASSUME Init PROVE IInv
    OBVIOUS
  <1>1. /\ user = [a \in Accounts |-> NONE] /\ session = {} /\ req = [r \in Reqs |-> NONE]
        /\ calls = 0 /\ now = 0 /\ links = 0 /\ dead = {} /\ revived = FALSE
        /\ access = [a \in Accounts |-> [v \in Stamps |-> -1]]
        /\ replaced = [a \in Accounts |-> [v \in 0..MAX_PW |-> -1]]
    BY DEF Init
  <1>2. (\A a \in Accounts : user[a] = NONE) /\ (\A r \in Reqs : ~IsWrite(req[r]) /\ req[r] = NONE)
    BY <1>1, NothingIsNoWrite
  <1>3. Known = {} /\ SigningIn = {} /\ Trading = {}
    BY <1>2 DEF Known, SigningIn, Trading
  <1>4. TypeOK
    <2>1. user \in [Accounts -> Row \cup {NONE}] /\ req \in [Reqs -> Request \cup {NONE}]
      BY <1>1
    <2>2. access \in [Accounts -> [Stamps -> Int]]
      BY <1>1
    <2>3. replaced \in [Accounts -> [0..MAX_PW -> Int]]
      BY <1>1
    <2>4. /\ session \subseteq Session /\ dead \subseteq Nat /\ revived \in BOOLEAN
          /\ calls \in Nat /\ now \in Nat /\ links \in Nat
      BY <1>1
    <2> QED BY <2>1, <2>2, <2>3, <2>4 DEF TypeOK
  <1>5. MailInv
    BY <1>2, <1>3 DEF MailInv, RowInv, GoogleTiedToItsMailbox
  <1>6. TokenInv /\ CurrentInv
    BY <1>1, <1>3 DEF TokenInv, CurrentInv
  <1>7. AccessInv
    <2>1. ACCESS_LIFE \in Nat /\ 0..MAX_PW \subseteq Stamps
      BY LifeTypes
    <2>2. \A a \in Accounts : Version(a) = 0
      BY <1>2 DEF Version
    <2>3. \A a \in Accounts, v \in Stamps : access[a][v] = -1
      BY <1>1
    <2>4. \A a \in Accounts, v \in 0..MAX_PW : replaced[a][v] = -1
      BY <1>1
    <2>5. CutOffAfterReset
      BY <2>2 DEF CutOffAfterReset
    <2> QED BY <1>1, <2>1, <2>3, <2>4, <2>5 DEF AccessInv
  <1>8. LinkInv
    BY <1>1, <1>2 DEF LinkInv, OnePlace, Issued, DeadIssued, DeadGone, PendingNew, ClearsLink, LinksWorkOnce,
                      At, InRow, InReq, Pending
  <1>9. ChatInv
    BY <1>2, <1>3 DEF ChatInv
  <1> QED BY <1>4, <1>5, <1>6, <1>7, <1>8, <1>9 DEF IInv

LEMMA StepInv == IInv /\ [Next]_vars => IInv'
  <1> SUFFICES ASSUME IInv, [Next]_vars PROVE IInv'
    OBVIOUS
  <1>1. /\ TypeOK /\ RowInv /\ GoogleTiedToItsMailbox /\ TokenInv /\ CurrentInv /\ AccessInv
        /\ LinkInv /\ ChatInv
    BY DEF IInv, MailInv
  <1>2. TypeOK' /\ RowInv' /\ GoogleTiedToItsMailbox'
    BY <1>1, TypeStep, RowStep, GoogleStep
  <1>3. TokenInv' /\ CurrentInv' /\ AccessInv'
    BY <1>1, TokenStep, CurrentStep, AccessStep
  <1>4. LinkInv' /\ ChatInv'
    BY <1>1, LinkStep, ChatStep
  <1> QED BY <1>2, <1>3, <1>4 DEF IInv, MailInv

LEMMA Inductive == Spec => []IInv
  BY InitInv, StepInv, PTL DEF Spec

\* The tables, the requests in flight and the tokens keep their shapes: no commit
\* writes a row the models' columns do not allow (db/models.py).
THEOREM IdentityTypes == Spec => []TypeOK
  <1>1. IInv => TypeOK
    BY DEF IInv
  <1> QED BY <1>1, Inductive, PTL

\* However requests overlap, Google's account signs in only to the account whose
\* confirmed address is the one Google vouches for (google_auth._signed_in ties it,
\* register and verify_email write the address and its confirmation).
THEOREM GoogleIsTiedToItsMailbox == Spec => []GoogleTiedToItsMailbox
  <1>1. IInv => GoogleTiedToItsMailbox
    BY DEF IInv, MailInv
  <1> QED BY <1>1, Inductive, PTL

\* A password reset cuts off every access token of the old password ACCESS_LIFE
\* later: close_all leaves no session a refresh could trade for a new one, and a
\* refresh already in flight finds its row gone (app_sessions.use_session).
THEOREM ResetCutsOff == Spec => []CutOffAfterReset
  <1>1. IInv => CutOffAfterReset
    BY DEF IInv, AccessInv
  <1> QED BY <1>1, Inductive, PTL

\* A confirmation, reset or Telegram link that was used, replaced or cancelled is
\* never accepted again by a request that ran alone (email_verify, password_reset,
\* telegram._link clear the column in the commit that uses it).
THEOREM LinksOnce == Spec => []LinksWorkOnce
  <1>1. IInv => LinksWorkOnce
    BY DEF IInv, LinkInv
  <1> QED BY <1>1, Inductive, PTL

\* A chat leaves an account only for another account, by an unlink, or through
\* requests that overlapped (telegram.tg_unlink, _link, tg_link_webapp).
THEOREM ChatsMove == Spec => ChatMoves
  <1>1. IInv /\ [Next]_vars => [ChatStays]_vars
    BY ChatMovesStep DEF IInv, MailInv
  <1> QED BY <1>1, Inductive, PTL DEF Spec, ChatMoves, ChatStays

\* The portal implements SignIns: a sign-in is begun, opened once or given up, ended
\* by itself or by a reset, and a reset marks the ones it could not reach
\* (auth.login, google_auth, app_sessions.open_session, use_session, close_all).
THEOREM ImplementsSignIns == Spec => KeepsPromise
  <1>1. Init => Promise!Init
    <2> SUFFICES ASSUME Init PROVE Promise!Init
      OBVIOUS
    <2>1. SigningIn = {} /\ session = {} /\ \A a \in Accounts : Version(a) = 0
      BY NothingIsNoWrite DEF Init, SigningIn, Version
    <2>2. BegunSignIns = {} /\ OpenSignIns = {}
      BY <2>1 DEF BegunSignIns, OpenSignIns
    <2> QED BY <2>1, <2>2 DEF Promise!Init
  <1>2. IInv /\ [Next]_vars => [Promise!Next]_(Promise!vars)
    BY PromiseStep DEF IInv, MailInv
  <1> QED BY <1>1, <1>2, Inductive, PTL DEF Spec, KeepsPromise, Promise!Spec

\* A sign-in that works was verified under the account's present password, or was
\* being opened while that password was set: services/app_sessions.py, "a reset
\* removes every session of the account", and the gap it leaves.  What SignIns
\* promises holds of the handlers themselves, with its types.
THEOREM SignedInUnderPresentPassword == Spec => [](Promise!TypeOK /\ Promise!CurrentOrLate)
  <1>1. IInv => Promise!TypeOK /\ Promise!CurrentOrLate
    <2> SUFFICES ASSUME IInv PROVE Promise!TypeOK /\ Promise!CurrentOrLate
      OBVIOUS
    <2> DEFINE version == [a \in Accounts |-> Version(a)]
    <2>1. TypeOK /\ CurrentInv
      BY DEF IInv
    <2>2. ASSUME NEW t \in BegunSignIns
          PROVE  t \in Promise!SignIn /\ (t.asOf = version[t.a] \/ t.late)
      <3>1. PICK x \in SigningIn : req[x].token # NONE /\ t = Ticket(req[x])
        BY <2>2, BegunMembers
      <3>2. /\ req[x].token \in Tokens /\ req[x].a \in Accounts /\ req[x].asOf \in Nat /\ req[x].late \in BOOLEAN
        BY <2>1, <3>1, SigningTypes, LifeTypes
      <3> QED BY <2>1, <3>1, <3>2 DEF CurrentInv, Ticket, Promise!SignIn
    <2>3. ASSUME NEW t \in OpenSignIns
          PROVE  t \in Promise!SignIn /\ (t.asOf = version[t.a] \/ t.late)
      <3>1. PICK s \in session : t = Ticket(s)
        BY <2>3, OpenMembers
      <3>2. s.token \in Tokens /\ s.a \in Accounts /\ s.asOf \in Nat /\ s.late \in BOOLEAN
        BY <2>1, LifeTypes DEF TypeOK, Session
      <3> QED BY <2>1, <3>1, <3>2 DEF CurrentInv, Ticket, Promise!SignIn
    <2>4. version \in [Accounts -> Nat]
      BY <2>1, VersionType, LifeTypes
    <2> QED BY <2>2, <2>3, <2>4 DEF Promise!TypeOK, Promise!CurrentOrLate
  <1> QED BY <1>1, Inductive, PTL
============================================================================
