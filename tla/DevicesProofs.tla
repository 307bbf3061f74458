--------------------------- MODULE DevicesProofs ----------------------------
(***************************************************************************)
(* Rows, entries, paused locations and plan limits, for every number of    *)
(* accounts, devices, locations and requests at once.                      *)
(*                                                                         *)
(* FlightInv says what a request that waits for the node has in hand and   *)
(* SweepInv what the sweep has; EntryInv relates rows and peers from them. *)
(* PlanInv is about an account no two requests of which have overlapped:   *)
(* its one request still finds what it found at the start, and its open    *)
(* orders still fit.                                                       *)
(***************************************************************************)
EXTENDS Devices, FiniteSetTheorems, TLAPS

Deleting(h, d) == req[h].op = "delete" /\ req[h].dev = d /\ req[h].at = "commit"

\* Requests under way: a key just issued is on its entry, has no row yet and is
\* in one request only; a device being deleted has a row, and after the node's
\* answer no peer.
FlightInv ==
    /\ \A h \in Handlers :
        /\ req[h].op = "idle" <=> req[h].user = None
        /\ req[h].op \in {"add", "activate"} =>
              /\ req[h].place \in Locations
              /\ req[h].at = "commit" => /\ req[h].dev \in peers /\ owner[req[h].dev] = None
                                         /\ PlaceOf[req[h].dev] = req[h].place
        /\ req[h].op = "activate" => req[h].order \in Orders /\ req[h].user = Buyer[req[h].order]
        /\ req[h].op = "delete" =>
              /\ req[h].dev \in Devices /\ owner[req[h].dev] = req[h].user
              /\ req[h].at = "commit" => req[h].dev \notin peers
    /\ \A g, h \in Handlers : /\ req[g].op \in {"add", "activate"} /\ req[g].at = "commit"
                              /\ req[h].dev = req[g].dev
                              => g = h

\* The sweep works on devices that have a row; what it removed has no peer.
SweepInv ==
    /\ \A d \in sweep.todo \cup sweep.gone : owner[d] # None
    /\ \A d \in sweep.gone : d \notin peers
    /\ sweep.pc = "idle" => sweep.gone = {}
    /\ sweep.pc = "user" => sweep.user \in Users

\* A peer with a row is active; an active row has its peer, or is about to be
\* closed, or was lost.
EntryInv ==
    \A d \in Devices :
        /\ active[d] => owner[d] # None
        /\ d \in peers /\ owner[d] # None => active[d]
        /\ active[d] /\ d \notin lost =>
              d \in peers \/ d \in sweep.gone \/ \E h \in Handlers : Deleting(h, d)

\* A device is only on its way to a location that takes some.
PauseInv ==
    \A h \in Handlers :
        /\ req[h].op = "add" => req[h].place \notin paused
        /\ req[h].op = "activate" => req[h].place \notin paused \/ Locations \subseteq paused

\* The account u, none of whose requests overlapped.
Room(u) ==
    /\ \A g, h \in Handlers : req[g].user = u /\ req[h].user = u => g = h
    /\ \A h \in Handlers : req[h].op = "add" /\ req[h].user = u => HasRoom(u, req[h].place)
    /\ \A h \in Handlers : req[h].op = "activate" /\ req[h].user = u => Held(u) = {}
    /\ \A p \in Orders \ (Manual \cup late) :
          order[p] = "pending" /\ Buyer[p] = u => Fits(u, PlanOf[p])
    /\ u \notin unfit => \A l \in Locations : Cardinality(HeldAt(u, l)) <= LimitOf(plan[u])

PlanInv == \A u \in Users \ met : Room(u)

-----------------------------------------------------------------------------
LEMMA IdleIsRequest == IdleRequest \in Request /\ IdleRequest.op = "idle" /\ IdleRequest.user = None
                       /\ IdleRequest.dev = None /\ IdleRequest.at = "start"
  BY DEF IdleRequest, Request

\* What the sweep does: it marks what it removed, and writes it at its end.
LEMMA SweepTypes ==
  ASSUME TypeOK, SweepInv, SweepStep
  PROVE  /\ sweep' \in Sweep
         /\ sub' \in [Users -> BOOLEAN] /\ active' \in [Devices -> BOOLEAN]
         /\ peers' \subseteq Devices /\ lost' \subseteq Devices
         /\ UNCHANGED <<plan, covered, order, owner>>
<1>1. sweep \in Sweep /\ IdleSweep \in Sweep
  BY DEF TypeOK, IdleSweep, Sweep
<1>2. CASE SweepStart
  <2>1. {u \in Users : sub[u] /\ ~covered[u]} \in SUBSET Users
    OBVIOUS
  <2> QED  BY <1>1, <1>2, <2>1 DEF SweepStart, IdleSweep, Sweep, TypeOK, rowVars
<1>3. ASSUME NEW u \in Users, SweepUser(u) PROVE sweep' \in Sweep
  <2>1. Held(u) \in SUBSET Devices
    BY DEF Held
  <2> QED  BY <1>1, <1>3, <2>1 DEF SweepUser, Sweep
<1>4. ASSUME NEW d \in Devices, SweepRemoved(d) \/ SweepRefused(d) PROVE sweep' \in Sweep
  <2>1. sweep.todo \ {d} \in SUBSET Devices /\ sweep.gone \cup {d} \in SUBSET Devices
    BY <1>1 DEF Sweep
  <2>2. CASE SweepRemoved(d)
    BY <1>1, <2>1, <2>2 DEF SweepRemoved, Sweep
  <2>3. CASE SweepRefused(d)
    BY <1>1, <2>1, <2>3 DEF SweepRefused, Sweep
  <2> QED  BY <1>4, <2>2, <2>3
<1>5. CASE SweepUserDone
  <2>1. /\ (IF sweep.all THEN sweep.revoked \cup {sweep.user} ELSE sweep.revoked) \in SUBSET Users
        /\ sweep.due \ {sweep.user} \in SUBSET Users
    BY <1>1, <1>5 DEF SweepUserDone, SweepInv, Sweep
  <2> DEFINE r == IF sweep.all THEN sweep.revoked \cup {sweep.user} ELSE sweep.revoked
  <2> HIDE DEF r
  <2>2. sweep' = [sweep EXCEPT !.pc = "next", !.due = sweep.due \ {sweep.user}, !.user = None, !.revoked = r]
    BY <1>1, <1>5 DEF SweepUserDone, Sweep, r
  <2>3. r \in SUBSET Users
    BY <2>1 DEF r
  <2>4. sweep' \in Sweep
    BY <1>1, <2>1, <2>2, <2>3 DEF Sweep
  <2> QED  BY <1>5, <2>4 DEF SweepUserDone, TypeOK, rowVars
<1> QED
  BY <1>1, <1>2, <1>3, <1>4, <1>5
  DEF SweepStep, SweepUser, SweepRemoved, SweepRefused, SweepTimesOut, SweepDies, SweepUserDone, SweepCommit, TypeOK,
      rowVars, Sweep

\* Every variable keeps its type.
LEMMA TypeStep == ASSUME TypeOK, FlightInv, SweepInv, [Next]_vars PROVE TypeOK'
<1> USE DevicesAssumption, IdleIsRequest
<1>1. ASSUME NEW h \in Handlers, NEW u \in Users, NEW l \in Locations, AddConfig(h, u, l), UNCHANGED <<sweep, link>>
      PROVE  TypeOK'
  <2>1. [IdleRequest EXCEPT !.op = "add", !.user = u, !.place = l, !.at = "node"] \in Request
    BY DEF IdleRequest, Request
  <2> QED  BY <1>1, <2>1 DEF AddConfig, Begin, TypeOK, rowVars
<1>2. ASSUME NEW h \in Handlers, NEW d \in Devices, IssueOk(h, d), UNCHANGED <<sweep, link>> PROVE TypeOK'
  BY <1>2 DEF IssueOk, TypeOK, Request, rowVars, histVars
<1>3. ASSUME NEW h \in Handlers, IssueRefused(h), UNCHANGED <<sweep, link>> PROVE TypeOK'
  BY <1>3 DEF IssueRefused, AfterRefusal, End, TypeOK, histVars
<1>4. ASSUME NEW h \in Handlers, NEW d \in Devices, IssueTimesOut(h, d), UNCHANGED <<sweep, link>> PROVE TypeOK'
  BY <1>4 DEF IssueTimesOut, End, TypeOK, rowVars
<1>5. ASSUME NEW h \in Handlers, AddCommit(h), UNCHANGED <<sweep, link>> PROVE TypeOK'
  <2>1. req[h] \in Request
    BY DEF TypeOK
  <2>2. late' \subseteq Orders
    BY <1>5 DEF AddCommit, TypeOK
  <2>3. owner' \in [Devices -> Users \cup {None}] /\ active' \in [Devices -> BOOLEAN]
    BY <1>5, <2>1 DEF AddCommit, TypeOK, Request
  <2> QED  BY <1>5, <2>2, <2>3 DEF AddCommit, End, TypeOK
<1>6. ASSUME NEW h \in Handlers, NEW d \in Devices, DeleteConfig(h, d), UNCHANGED <<sweep, link>> PROVE TypeOK'
  <2>1. [IdleRequest EXCEPT !.op = "delete", !.user = owner[d], !.dev = d, !.at = "node"] \in Request
    BY DEF IdleRequest, Request, TypeOK
  <2>2. owner[d] \in Users
    BY <1>6 DEF DeleteConfig, TypeOK
  <2> QED  BY <1>6, <2>1, <2>2 DEF DeleteConfig, Begin, TypeOK, rowVars
<1>7. ASSUME NEW h \in Handlers, RemoveOk(h), UNCHANGED <<sweep, link>> PROVE TypeOK'
  <2>1. req' \in [Handlers -> Request] /\ peers' \subseteq Devices
    <3>1. req[h] \in Request /\ peers' \subseteq Devices
      BY <1>7 DEF RemoveOk, TypeOK
    <3>2. [req[h] EXCEPT !.at = "commit"] \in Request
      BY <3>1 DEF Request
    <3> QED  BY <1>7, <3>1, <3>2 DEF RemoveOk, TypeOK
  <2> QED  BY <1>7, <2>1 DEF RemoveOk, TypeOK, rowVars, histVars
<1>8. ASSUME NEW h \in Handlers, RemoveRefused(h), UNCHANGED <<sweep, link>> PROVE TypeOK'
  BY <1>8 DEF RemoveRefused, End, TypeOK, rowVars, histVars
<1>9. ASSUME NEW h \in Handlers, RemoveTimesOut(h), UNCHANGED <<sweep, link>> PROVE TypeOK'
  <2>1. req[h].dev \in Devices
    BY <1>9 DEF RemoveTimesOut, FlightInv
  <2> QED  BY <1>9, <2>1 DEF RemoveTimesOut, End, TypeOK, rowVars
<1>10. ASSUME NEW h \in Handlers, DeleteCommit(h), UNCHANGED <<sweep, link>> PROVE TypeOK'
  BY <1>10 DEF DeleteCommit, End, TypeOK, histVars
<1>11. ASSUME NEW p \in Orders, NEW loaded, Paid(p, loaded)
       PROVE  /\ plan' \in [Users -> Plans \cup {None}] /\ sub' \in [Users -> BOOLEAN]
              /\ covered' \in [Users -> BOOLEAN] /\ late' \subseteq Orders /\ unfit' \subseteq Users
              /\ order' \in [Orders -> {"none", "pending", "paid", "deleted"}]
  BY <1>11 DEF Paid, TypeOK
<1>12. ASSUME NEW h \in Handlers, NEW p \in Orders, FirstPurchase(h, p), UNCHANGED <<sweep, link>> PROVE TypeOK'
  <2>1. DefaultForNew \in Locations
    BY DEF DefaultForNew, Recommended
  <2>2. [IdleRequest EXCEPT !.op = "activate", !.user = Buyer[p], !.order = p,
                            !.place = DefaultForNew, !.sub = sub[Buyer[p]], !.at = "node"] \in Request
    <3>1. sub[Buyer[p]] \in BOOLEAN
      BY DEF TypeOK
    <3> QED  BY <2>1, <3>1 DEF IdleRequest, Request
  <2> QED  BY <1>12, <2>2 DEF FirstPurchase, Begin, TypeOK
<1>13. ASSUME NEW h \in Handlers, FirstCommit(h), UNCHANGED <<sweep, link>> PROVE TypeOK'
  <2>1. req[h] \in Request /\ req[h].order \in Orders
    BY <1>13 DEF TypeOK, FlightInv, FirstCommit
  <2>2. owner' \in [Devices -> Users \cup {None}] /\ active' \in [Devices -> BOOLEAN]
    BY <1>13, <2>1 DEF FirstCommit, TypeOK, Request
  <2> QED  BY <1>11, <1>13, <2>1, <2>2 DEF FirstCommit, End, TypeOK
<1>14. ASSUME NEW p \in Orders, OpenOrder(p), UNCHANGED <<sweep, link>> PROVE TypeOK'
  BY <1>14 DEF OpenOrder, TypeOK, histVars
<1>15. ASSUME NEW p \in Orders, Renew(p), UNCHANGED <<sweep, link>> PROVE TypeOK'
  BY <1>11, <1>15 DEF Renew, TypeOK
<1>16. ASSUME NEW u \in Users, PeriodEnds(u), UNCHANGED <<sweep, link>> PROVE TypeOK'
  BY <1>16 DEF PeriodEnds, TypeOK, histVars
<1>17. ASSUME SweepStep, UNCHANGED <<paused, restarts, req, met, late, unfit, link>> PROVE TypeOK'
  BY <1>17, SweepTypes DEF TypeOK
<1>18. ASSUME NEW now \in Pausings, Restart(now), UNCHANGED <<sweep, link>> PROVE TypeOK'
  <2>1. lost' \subseteq Devices
    BY <1>18 DEF Restart, TypeOK, Request
  <2>2. paused' \subseteq Locations /\ restarts' \in 0..MaxRestarts
    BY <1>18 DEF Restart, TypeOK
  <2> QED  BY <1>18, <2>1, <2>2 DEF Restart, TypeOK, rowVars
<1>19. ASSUME NEW d \in Devices, DownloadLink(d) PROVE TypeOK'
  BY <1>19 DEF DownloadLink, TypeOK, rowVars, histVars
<1>20. CASE LinkEnds
  BY <1>20 DEF LinkEnds, TypeOK, rowVars, histVars
<1>21. CASE UNCHANGED vars
  BY <1>21 DEF vars, TypeOK, rowVars, histVars
<1> QED
  BY <1>1, <1>2, <1>3, <1>4, <1>5, <1>6, <1>7, <1>8, <1>9, <1>10, <1>12, <1>13, <1>14, <1>15, <1>16,
     <1>17, <1>18, <1>19, <1>20, <1>21 DEF Next, AccountStep, RequestStep

\* What a step of the sweep does to rows and peers: it removes peers that have a
\* row and closes rows that have no peer.
LEMMA SweepEffect ==
  ASSUME TypeOK, SweepInv, EntryInv, SweepStep
  PROVE  /\ SweepInv'
         /\ peers' \subseteq peers /\ lost \subseteq lost' /\ owner' = owner
         /\ \A d \in peers \ peers' : owner[d] # None
         /\ \A d \in Devices : /\ active'[d] => active[d]
                               /\ d \in peers' /\ active[d] => active'[d]
                               /\ d \in sweep.gone => d \in sweep'.gone \/ d \in lost' \/ ~active'[d]
                               /\ d \in peers \ peers' => d \in sweep'.gone \/ d \in lost'
<1>1. sweep \in Sweep /\ IdleSweep.todo = {} /\ IdleSweep.gone = {} /\ IdleSweep.pc = "idle"
  BY DEF TypeOK, IdleSweep
<1>2. CASE SweepStart
  <2>1. sweep'.todo = {} /\ sweep'.gone = {} /\ sweep.gone = {} /\ sweep'.pc = "next"
    BY <1>2 DEF SweepStart, IdleSweep, SweepInv
  <2> QED  BY <1>2, <2>1 DEF SweepStart, SweepInv, rowVars
<1>3. CASE \E u \in Users : SweepUser(u)
  <2>1. PICK u \in Users : SweepUser(u)
    BY <1>3
  <2>2. /\ sweep'.pc = "user" /\ sweep'.todo = Held(u) /\ sweep'.gone = sweep.gone
        /\ sweep'.user = u /\ u # None
    BY <1>1, <2>1, DevicesAssumption DEF SweepUser, Sweep
  <2> QED  BY <2>1, <2>2 DEF SweepUser, SweepInv, Held, rowVars
<1>4. CASE \E d \in Devices : SweepRemoved(d)
  <2>1. PICK d \in Devices : SweepRemoved(d)
    BY <1>4
  <2>2. /\ sweep'.pc = "user" /\ sweep'.todo = sweep.todo \ {d} /\ sweep'.gone = sweep.gone \cup {d}
        /\ sweep'.user = sweep.user
    BY <1>1, <2>1 DEF SweepRemoved, Sweep
  <2> QED  BY <2>1, <2>2 DEF SweepRemoved, SweepInv, rowVars
<1>5. CASE \E d \in Devices : SweepRefused(d)
  <2>1. PICK d \in Devices : SweepRefused(d)
    BY <1>5
  <2>2. /\ sweep'.pc = "user" /\ sweep'.todo = sweep.todo \ {d} /\ sweep'.gone = sweep.gone
        /\ sweep'.user = sweep.user
    BY <1>1, <2>1 DEF SweepRefused, Sweep
  <2> QED  BY <2>1, <2>2 DEF SweepRefused, SweepInv, rowVars
<1>6. CASE \E d \in Devices : SweepTimesOut(d)
  <2>1. PICK d \in Devices : SweepTimesOut(d)
    BY <1>6
  <2> QED  BY <1>1, <2>1 DEF SweepTimesOut, SweepInv, rowVars
<1>7. CASE SweepDies
  BY <1>1, <1>7 DEF SweepDies, SweepInv, rowVars
<1>8. CASE SweepUserDone
  <2>1. sweep'.pc = "next" /\ sweep'.todo = sweep.todo /\ sweep'.gone = sweep.gone
    BY <1>1, <1>8 DEF SweepUserDone, Sweep
  <2> QED  BY <1>8, <2>1 DEF SweepUserDone, SweepInv, rowVars
<1>9. CASE SweepCommit
  BY <1>1, <1>9 DEF SweepCommit, SweepInv
<1> QED  BY <1>2, <1>3, <1>4, <1>5, <1>6, <1>7, <1>8, <1>9 DEF SweepStep

\* What a request has in hand while it waits.
LEMMA FlightStep == ASSUME TypeOK, FlightInv, SweepInv, EntryInv, [Next]_vars PROVE FlightInv'
<1> USE DevicesAssumption, IdleIsRequest
<1>a. \A h \in Handlers : req[h] \in Request
  BY DEF TypeOK
<1>1. ASSUME NEW h \in Handlers, NEW u \in Users, NEW l \in Locations, AddConfig(h, u, l) PROVE FlightInv'
  <2> DEFINE r == [IdleRequest EXCEPT !.op = "add", !.user = u, !.place = l, !.at = "node"]
  <2>1. r.op = "add" /\ r.user = u /\ r.place = l /\ r.at = "node" /\ r.dev = None
    BY DEF IdleRequest
  <2> HIDE DEF r
  <2>2. req' = [req EXCEPT ![h] = r] /\ UNCHANGED <<peers, owner>>
    BY <1>1 DEF AddConfig, Begin, rowVars, r
  <2> QED  BY <2>1, <2>2 DEF FlightInv, TypeOK
<1>2. ASSUME NEW h \in Handlers, NEW d \in Devices, IssueOk(h, d) PROVE FlightInv'
  <2>1. /\ req'[h].op = req[h].op /\ req'[h].user = req[h].user /\ req'[h].order = req[h].order
        /\ req'[h].place = req[h].place /\ req'[h].dev = d /\ req'[h].at = "commit"
        /\ req[h].op \in {"add", "activate"}
        /\ \A g \in Handlers \ {h} : req'[g] = req[g] /\ req[g].dev # d
        /\ peers' = peers \cup {d} /\ owner' = owner /\ owner[d] = None /\ PlaceOf[d] = req[h].place
    BY <1>2, <1>a DEF IssueOk, TypeOK, Request, Fresh, rowVars
  <2> QED  BY <2>1 DEF FlightInv
<1>3. ASSUME NEW h \in Handlers, End(h), owner' = owner,
             \A g \in Handlers \ {h} : req[g].op \in {"add", "activate"} /\ req[g].at = "commit"
                                       => req[g].dev \in peers',
             \A g \in Handlers \ {h} : req[g].op = "delete" /\ req[g].at = "commit" => req[g].dev \notin peers'
      PROVE  FlightInv'
  <2>1. req'[h] = IdleRequest /\ \A g \in Handlers \ {h} : req'[g] = req[g]
    BY <1>3 DEF End, TypeOK
  <2>2. \A g \in Handlers : req[g].op \in {"add", "activate"} /\ req[g].at = "commit" => req[g].dev # None
    BY DEF FlightInv, TypeOK
  <2> QED  BY <1>3, <2>1, <2>2 DEF FlightInv
<1>4. ASSUME NEW h \in Handlers, IssueRefused(h) \/ RemoveRefused(h) PROVE FlightInv'
  BY <1>3, <1>4 DEF IssueRefused, RemoveRefused, FlightInv, rowVars
<1>5. ASSUME NEW h \in Handlers, NEW d \in Devices, IssueTimesOut(h, d) PROVE FlightInv'
  BY <1>3, <1>5 DEF IssueTimesOut, Fresh, FlightInv, rowVars
<1>6. ASSUME NEW h \in Handlers, RemoveTimesOut(h) PROVE FlightInv'
  <2>1. \A g \in Handlers : req[g].op \in {"add", "activate"} /\ req[g].at = "commit" => req[g].dev # req[h].dev
    BY <1>6, <1>a DEF RemoveTimesOut, FlightInv, Request
  <2> QED  BY <1>3, <1>6, <2>1 DEF RemoveTimesOut, FlightInv, rowVars
<1>7. ASSUME NEW h \in Handlers, DeleteCommit(h) PROVE FlightInv'
  BY <1>3, <1>7 DEF DeleteCommit, FlightInv
<1>8. ASSUME NEW h \in Handlers, AddCommit(h) \/ FirstCommit(h) PROVE FlightInv'
  <2>1. /\ req'[h] = IdleRequest /\ \A g \in Handlers \ {h} : req'[g] = req[g] /\ req[g].dev # req[h].dev
        /\ peers' = peers /\ owner' = [owner EXCEPT ![req[h].dev] = req[h].user]
    BY <1>8 DEF AddCommit, FirstCommit, End, TypeOK, FlightInv
  <2>2. \A g \in Handlers \ {h} : req[g].dev \in Devices => owner'[req[g].dev] = owner[req[g].dev]
    BY <2>1 DEF TypeOK
  <2>3. \A g \in Handlers : req[g].op \in {"add", "activate"} /\ req[g].at = "commit"
                            => req[g].dev # None /\ req[g].dev \in Devices
    BY DEF FlightInv, TypeOK
  <2> QED  BY <2>1, <2>2, <2>3 DEF FlightInv
<1>9. ASSUME NEW h \in Handlers, NEW d \in Devices, DeleteConfig(h, d) PROVE FlightInv'
  <2> DEFINE r == [IdleRequest EXCEPT !.op = "delete", !.user = owner[d], !.dev = d, !.at = "node"]
  <2>1. r.op = "delete" /\ r.user = owner[d] /\ r.dev = d /\ r.at = "node"
    BY DEF IdleRequest
  <2> HIDE DEF r
  <2>2. req' = [req EXCEPT ![h] = r] /\ UNCHANGED <<peers, owner>> /\ owner[d] # None
    BY <1>9 DEF DeleteConfig, Begin, rowVars, r
  <2> QED  BY <2>1, <2>2 DEF FlightInv, TypeOK
<1>10. ASSUME NEW h \in Handlers, RemoveOk(h) PROVE FlightInv'
  <2>1. /\ req'[h].op = "delete" /\ req'[h].user = req[h].user /\ req'[h].dev = req[h].dev
        /\ req[h].op = "delete"
        /\ \A g \in Handlers \ {h} : req'[g] = req[g]
        /\ peers' = peers \ {req[h].dev} /\ owner' = owner
    BY <1>10, <1>a DEF RemoveOk, TypeOK, Request, rowVars
  <2>2. \A g \in Handlers : req[g].op \in {"add", "activate"} /\ req[g].at = "commit" => req[g].dev # req[h].dev
    BY <2>1 DEF FlightInv
  <2> QED  BY <2>1, <2>2 DEF FlightInv
<1>11. ASSUME NEW h \in Handlers, NEW p \in Orders, FirstPurchase(h, p) PROVE FlightInv'
  <2> DEFINE r == [IdleRequest EXCEPT !.op = "activate", !.user = Buyer[p], !.order = p,
                                      !.place = DefaultForNew, !.sub = sub[Buyer[p]], !.at = "node"]
  <2>1. DefaultForNew \in Locations
    BY DEF DefaultForNew, Recommended
  <2>2. r.op = "activate" /\ r.user = Buyer[p] /\ r.order = p /\ r.place \in Locations
        /\ r.at = "node" /\ r.dev = None /\ r.user # None
    BY <2>1 DEF IdleRequest
  <2> HIDE DEF r
  <2>3. req' = [req EXCEPT ![h] = r] /\ UNCHANGED <<peers, owner>>
    BY <1>11 DEF FirstPurchase, Begin, r
  <2> QED  BY <2>2, <2>3 DEF FlightInv, TypeOK
<1>12. ASSUME SweepStep, req' = req PROVE FlightInv'
  BY <1>12, SweepEffect DEF FlightInv
<1>13. ASSUME NEW now \in Pausings, Restart(now) PROVE FlightInv'
  <2>1. \A h \in Handlers : req'[h] = IdleRequest
    BY <1>13 DEF Restart
  <2> QED  BY <2>1 DEF FlightInv
<1>14. CASE UNCHANGED <<req, owner, peers>>
  BY <1>14 DEF FlightInv
<1> QED
  BY <1>1, <1>2, <1>4, <1>5, <1>6, <1>7, <1>8, <1>9, <1>10, <1>11, <1>12, <1>13, <1>14
  DEF Next, AccountStep, RequestStep, OpenOrder, Renew, PeriodEnds, DownloadLink, LinkEnds, vars, rowVars

\* Rows and entries, under the portal's requests.
LEMMA EntryAccount == ASSUME TypeOK, FlightInv, EntryInv, AccountStep, sweep' = sweep PROVE EntryInv'
<1> USE DevicesAssumption, IdleIsRequest
<1>a. \A h \in Handlers : req[h] \in Request
  BY DEF TypeOK
<1>b. \A g, d : Deleting(g, d)' <=> req'[g].op = "delete" /\ req'[g].dev = d /\ req'[g].at = "commit"
  BY DEF Deleting
\* A request is taken up, or gets its key; nothing is closed.
<1>1. ASSUME NEW h \in Handlers, UNCHANGED <<owner, active, lost>>, peers \subseteq peers',
             \A d \in Devices : d \in peers' \ peers => owner[d] = None,
             \A g \in Handlers \ {h} : req'[g] = req[g],
             \A d : ~Deleting(h, d)
      PROVE  EntryInv'
  <2>1. \A g \in Handlers, d \in Devices : Deleting(g, d) => Deleting(g, d)'
    BY <1>1 DEF Deleting
  <2> QED  BY <1>1, <2>1 DEF EntryInv
<1>2. ASSUME NEW h \in Handlers, NEW r, Begin(h, r), UNCHANGED <<owner, active, lost, peers>> PROVE EntryInv'
  <2>1. \A g \in Handlers \ {h} : req'[g] = req[g]
    BY <1>2 DEF Begin, TypeOK
  <2>2. \A d : ~Deleting(h, d)
    BY <1>2 DEF Begin, Idle, Deleting
  <2> QED  BY <1>1, <1>2, <2>1, <2>2
<1>3. ASSUME NEW h \in Handlers, NEW u \in Users, NEW l \in Locations, AddConfig(h, u, l) PROVE EntryInv'
  BY <1>2, <1>3 DEF AddConfig, rowVars
<1>4. ASSUME NEW h \in Handlers, NEW d \in Devices, DeleteConfig(h, d) PROVE EntryInv'
  BY <1>2, <1>4 DEF DeleteConfig, rowVars
<1>5. ASSUME NEW h \in Handlers, NEW p \in Orders, FirstPurchase(h, p) PROVE EntryInv'
  BY <1>2, <1>5 DEF FirstPurchase
<1>6. ASSUME NEW h \in Handlers, NEW d \in Devices, IssueOk(h, d) PROVE EntryInv'
  <2>1. \A g \in Handlers \ {h} : req'[g] = req[g]
    BY <1>6 DEF IssueOk, TypeOK
  <2>2. \A e : ~Deleting(h, e)
    BY <1>6 DEF IssueOk, Deleting
  <2>3. UNCHANGED <<owner, active, lost>> /\ peers' = peers \cup {d} /\ owner[d] = None
    BY <1>6 DEF IssueOk, Fresh, rowVars, histVars
  <2> QED  BY <1>1, <2>1, <2>2, <2>3
<1>7. ASSUME NEW h \in Handlers, IssueRefused(h) \/ RemoveRefused(h) PROVE EntryInv'
  <2>1. \A g \in Handlers \ {h} : req'[g] = req[g]
    BY <1>7 DEF IssueRefused, RemoveRefused, End, TypeOK
  <2>2. \A e : ~Deleting(h, e)
    BY <1>7 DEF IssueRefused, RemoveRefused, Deleting
  <2>3. UNCHANGED <<owner, active, lost, peers>>
    BY <1>7 DEF IssueRefused, RemoveRefused, rowVars, histVars
  <2> QED  BY <1>1, <2>1, <2>2, <2>3
<1>8. ASSUME NEW h \in Handlers, NEW d \in Devices,
             IssueTimesOut(h, d) \/ (RemoveTimesOut(h) /\ d = req[h].dev) PROVE EntryInv'
  <2>1. \A g \in Handlers \ {h} : req'[g] = req[g]
    BY <1>8 DEF IssueTimesOut, RemoveTimesOut, End, TypeOK
  <2>2. \A e : ~Deleting(h, e)
    BY <1>8 DEF IssueTimesOut, RemoveTimesOut, Deleting
  <2>3. /\ UNCHANGED <<owner, active>> /\ lost' = lost \cup {d}
        /\ \A e \in Devices \ {d} : e \in peers' <=> e \in peers
        /\ owner[d] # None => (d \in peers' => d \in peers)
    BY <1>8 DEF IssueTimesOut, RemoveTimesOut, Fresh, rowVars
  <2>4. \A g \in Handlers, e \in Devices : Deleting(g, e) => Deleting(g, e)'
    BY <2>1, <2>2 DEF Deleting
  <2> QED  BY <2>3, <2>4 DEF EntryInv
<1>9. ASSUME NEW h \in Handlers, AddCommit(h) \/ FirstCommit(h) PROVE EntryInv'
  <2>1. PICK d \in Devices : d = req[h].dev
    BY <1>9 DEF AddCommit, FirstCommit, FlightInv, TypeOK
  <2>2. /\ d \in peers /\ req[h].user # None
        /\ UNCHANGED <<peers, lost>>
        /\ \A g \in Handlers \ {h} : req'[g] = req[g]
        /\ \A e : ~Deleting(h, e)
        /\ owner' = [owner EXCEPT ![d] = req[h].user] /\ active' = [active EXCEPT ![d] = TRUE]
    BY <1>9, <2>1 DEF AddCommit, FirstCommit, End, FlightInv, TypeOK, Deleting
  <2>3. owner'[d] # None /\ active'[d] /\ \A e \in Devices \ {d} : owner'[e] = owner[e] /\ active'[e] = active[e]
    BY <2>2 DEF TypeOK
  <2>4. \A g \in Handlers, e \in Devices : Deleting(g, e) => Deleting(g, e)'
    BY <2>2 DEF Deleting
  <2> QED  BY <2>2, <2>3, <2>4 DEF EntryInv
<1>10. ASSUME NEW h \in Handlers, RemoveOk(h) PROVE EntryInv'
  <2>1. PICK d \in Devices : d = req[h].dev
    BY <1>10 DEF RemoveOk, FlightInv
  <2>2. /\ UNCHANGED <<owner, active, lost>> /\ peers' = peers \ {d}
        /\ \A g \in Handlers \ {h} : req'[g] = req[g]
        /\ req'[h].op = "delete" /\ req'[h].dev = d /\ req'[h].at = "commit"
    BY <1>10, <1>a, <2>1 DEF RemoveOk, TypeOK, Request, rowVars, histVars
  <2>3. Deleting(h, d)' /\ \A g \in Handlers, e \in Devices : Deleting(g, e) => Deleting(g, e)'
    BY <2>1, <2>2 DEF Deleting
  <2> QED  BY <2>2, <2>3 DEF EntryInv
<1>11. ASSUME NEW h \in Handlers, DeleteCommit(h) PROVE EntryInv'
  <2>1. PICK d \in Devices : d = req[h].dev
    BY <1>11 DEF DeleteCommit, FlightInv
  <2>2. d \notin peers
    BY <1>11, <2>1 DEF DeleteCommit, SlotFree, FlightInv
  <2>3. /\ UNCHANGED <<owner, peers, lost>> /\ active' = [active EXCEPT ![d] = FALSE]
        /\ \A g \in Handlers \ {h} : req'[g] = req[g]
    BY <1>11, <2>1 DEF DeleteCommit, End, TypeOK, histVars
  <2>4. \A g \in Handlers, e \in Devices \ {d} : Deleting(g, e) => Deleting(g, e)'
    BY <2>1, <2>3 DEF Deleting
  <2> QED  BY <2>2, <2>3, <2>4 DEF EntryInv, TypeOK
<1>13. ASSUME NEW now \in Pausings, Restart(now) PROVE EntryInv'
  <2>1. UNCHANGED <<owner, active, peers>> /\ lost \subseteq lost'
        /\ \A h \in Handlers, d \in Devices : Deleting(h, d) => d \in lost'
    BY <1>13 DEF Restart, rowVars, Deleting
  <2> QED  BY <2>1 DEF EntryInv
<1>14. CASE UNCHANGED <<req, owner, active, peers, lost>>
  <2>1. \A g \in Handlers, e \in Devices : Deleting(g, e) => Deleting(g, e)'
    BY <1>14 DEF Deleting
  <2> QED  BY <1>14, <2>1 DEF EntryInv
<1>15. ASSUME NEW h \in Handlers, RemoveTimesOut(h) PROVE EntryInv'
  <2>1. req[h].dev \in Devices
    BY <1>15 DEF RemoveTimesOut, FlightInv
  <2> QED  BY <1>8, <1>15, <2>1
<1> QED
  BY <1>3, <1>4, <1>5, <1>6, <1>7, <1>8, <1>9, <1>10, <1>11, <1>13, <1>14, <1>15
  DEF AccountStep, RequestStep, OpenOrder, Renew, PeriodEnds, rowVars, histVars

\* ... and under the sweep.
LEMMA EntryStep == ASSUME TypeOK, FlightInv, SweepInv, EntryInv, [Next]_vars PROVE EntryInv'
<1>1. ASSUME req' = req, NEW h \in Handlers, NEW d, Deleting(h, d) PROVE Deleting(h, d)'
  BY <1>1 DEF Deleting
<1>2. ASSUME SweepStep, req' = req PROVE EntryInv'
  BY <1>1, <1>2, SweepEffect DEF EntryInv
<1>3. CASE UNCHANGED <<req, owner, active, peers, lost, sweep>>
  BY <1>1, <1>3 DEF EntryInv
<1> QED  BY <1>2, <1>3, EntryAccount DEF Next, DownloadLink, LinkEnds, vars, rowVars, histVars

\* A row is never given up, and only keys without one come onto an entry.
LEMMA RowsStay ==
  ASSUME TypeOK, FlightInv, AccountStep, NEW d \in Devices, owner[d] # None
  PROVE  owner'[d] # None /\ (d \in peers' => d \in peers)
<1>1. ASSUME NEW h \in Handlers, AddCommit(h) \/ FirstCommit(h) PROVE owner'[d] # None /\ peers' = peers
  <2>1. req[h].user # None
    BY <1>1 DEF AddCommit, FirstCommit, FlightInv
  <2> QED  BY <1>1, <2>1 DEF AddCommit, FirstCommit, TypeOK
<1>2. ASSUME NEW h \in Handlers, NEW e \in Devices, IssueOk(h, e) \/ IssueTimesOut(h, e)
      PROVE  owner' = owner /\ (d \in peers' => d \in peers)
  BY <1>2 DEF IssueOk, IssueTimesOut, Fresh, rowVars
<1> QED
  BY <1>1, <1>2
  DEF AccountStep, RequestStep, OpenOrder, Renew, PeriodEnds, Restart, AddConfig, DeleteConfig, FirstPurchase,
      IssueRefused, RemoveOk, RemoveRefused, RemoveTimesOut, DeleteCommit, rowVars

LEMMA SweepInvStep == ASSUME TypeOK, FlightInv, SweepInv, EntryInv, [Next]_vars PROVE SweepInv'
<1>1. sweep.todo \cup sweep.gone \subseteq Devices
  BY DEF TypeOK, Sweep
<1>2. ASSUME AccountStep, sweep' = sweep PROVE SweepInv'
  BY <1>1, <1>2, RowsStay DEF SweepInv
<1>3. CASE UNCHANGED <<owner, peers, sweep>>
  BY <1>3 DEF SweepInv
<1> QED  BY <1>2, <1>3, SweepEffect DEF Next, DownloadLink, LinkEnds, vars, rowVars

\* A purchase's first device goes to a location that takes some, if any does.
LEMMA DefaultTakesDevices == DefaultForNew \notin paused \/ Locations \subseteq paused
  BY DevicesAssumption DEF DefaultForNew, Recommended

LEMMA PauseStep == ASSUME TypeOK, PauseInv, [Next]_vars PROVE PauseInv'
<1> USE IdleIsRequest
<1>a. \A h \in Handlers : req[h] \in Request
  BY DEF TypeOK
<1>1. ASSUME NEW h \in Handlers, NEW r, paused' = paused, req' = [req EXCEPT ![h] = r],
             r.op = "add" => r.place \notin paused,
             r.op = "activate" => r.place \notin paused \/ Locations \subseteq paused
      PROVE  PauseInv'
  BY <1>1 DEF PauseInv, TypeOK
<1>2. ASSUME NEW h \in Handlers, NEW u \in Users, NEW l \in Locations, AddConfig(h, u, l) PROVE PauseInv'
  <2> DEFINE r == [IdleRequest EXCEPT !.op = "add", !.user = u, !.place = l, !.at = "node"]
  <2>1. r.op = "add" /\ r.place = l
    BY DEF IdleRequest
  <2>2. req' = [req EXCEPT ![h] = r] /\ paused' = paused /\ l \notin paused
    BY <1>2 DEF AddConfig, Begin
  <2> HIDE DEF r
  <2> QED  BY <1>1, <2>1, <2>2
<1>3. ASSUME NEW h \in Handlers, NEW p \in Orders, FirstPurchase(h, p) PROVE PauseInv'
  <2> DEFINE r == [IdleRequest EXCEPT !.op = "activate", !.user = Buyer[p], !.order = p,
                                      !.place = DefaultForNew, !.sub = sub[Buyer[p]], !.at = "node"]
  <2>1. r.op = "activate" /\ r.place = DefaultForNew
    BY DEF IdleRequest
  <2>2. req' = [req EXCEPT ![h] = r] /\ paused' = paused
    BY <1>3 DEF FirstPurchase, Begin
  <2> HIDE DEF r
  <2> QED  BY <1>1, <2>1, <2>2, DefaultTakesDevices
<1>4. ASSUME NEW h \in Handlers, NEW d \in Devices, DeleteConfig(h, d) PROVE PauseInv'
  <2> DEFINE r == [IdleRequest EXCEPT !.op = "delete", !.user = owner[d], !.dev = d, !.at = "node"]
  <2>1. r.op = "delete"
    BY DEF IdleRequest
  <2>2. req' = [req EXCEPT ![h] = r] /\ paused' = paused
    BY <1>4 DEF DeleteConfig, Begin
  <2> HIDE DEF r
  <2> QED  BY <1>1, <2>1, <2>2
<1>5. ASSUME NEW h \in Handlers, End(h), paused' = paused PROVE PauseInv'
  BY <1>1, <1>5 DEF End
<1>6. ASSUME paused' = paused,
             \A g \in Handlers : req'[g].op = req[g].op /\ req'[g].place = req[g].place
      PROVE  PauseInv'
  BY <1>6 DEF PauseInv
<1>7. ASSUME NEW h \in Handlers, RemoveOk(h) \/ \E d \in Devices : IssueOk(h, d) PROVE PauseInv'
  <2>1. ASSUME RemoveOk(h), NEW g \in Handlers PROVE req'[g].op = req[g].op /\ req'[g].place = req[g].place
    BY <1>a, <2>1 DEF RemoveOk, TypeOK, Request
  <2>2. ASSUME NEW d \in Devices, IssueOk(h, d), NEW g \in Handlers
        PROVE  req'[g].op = req[g].op /\ req'[g].place = req[g].place
    BY <1>a, <2>2 DEF IssueOk, TypeOK, Request
  <2>3. paused' = paused
    BY <1>7 DEF RemoveOk, IssueOk
  <2> QED  BY <1>6, <1>7, <2>1, <2>2, <2>3
<1>8. ASSUME NEW now \in Pausings, Restart(now) PROVE PauseInv'
  BY <1>8 DEF Restart, PauseInv
<1>9. CASE UNCHANGED <<req, paused>>
  BY <1>9 DEF PauseInv
<1> QED
  BY <1>2, <1>3, <1>4, <1>5, <1>7, <1>8, <1>9
  DEF Next, AccountStep, RequestStep, OpenOrder, Renew, PeriodEnds, DownloadLink, LinkEnds, vars,
      IssueRefused, RemoveRefused, IssueTimesOut, RemoveTimesOut, DeleteCommit, AddCommit, FirstCommit

-----------------------------------------------------------------------------
(* The limit of the plan                                                   *)

LEMMA HeldFinite ==
  ASSUME NEW u PROVE IsFiniteSet(Held(u)) /\ \A l : IsFiniteSet(HeldAt(u, l)) /\ Cardinality(HeldAt(u, l)) \in Nat
<1>1. Held(u) \subseteq Devices /\ \A l : HeldAt(u, l) \subseteq Devices
  BY DEF Held, HeldAt
<1> QED  BY <1>1, DevicesAssumption, FS_Subset, FS_CardinalityType

LEMMA LimitPositive == \A p : LimitOf(p) \in Nat /\ LimitOf(p) >= 1 /\ (p \in Plans => Limit[p] = LimitOf(p))
  BY DevicesAssumption DEF LimitOf

\* An account that gains no device.
LEMMA GainsNone ==
  ASSUME NEW u, Held(u)' \subseteq Held(u)
  PROVE  \A l : /\ Cardinality(HeldAt(u, l)') <= Cardinality(HeldAt(u, l))
                /\ Cardinality(HeldAt(u, l)) \in Nat /\ Cardinality(HeldAt(u, l)') \in Nat
<1> TAKE l
<1>1. HeldAt(u, l)' \subseteq HeldAt(u, l)
  BY DEF HeldAt
<1> QED  BY <1>1, HeldFinite, FS_Subset, FS_CardinalityType

\* What an account finds stays true while only others do something, or it loses
\* devices.
LEMMA RoomKept ==
  ASSUME TypeOK, NEW u \in Users, Room(u), Held(u)' \subseteq Held(u), plan'[u] = plan[u],
         u \in unfit => u \in unfit',
         \A h \in Handlers : req'[h].user = u =>
            /\ req[h].user = u
            /\ req'[h].op \in {"add", "activate"} => req'[h].op = req[h].op /\ req'[h].place = req[h].place,
         \A p \in Orders \ (Manual \cup late') : order'[p] = "pending" /\ Buyer[p] = u =>
            order[p] = "pending" /\ p \notin late
  PROVE  Room(u)'
<1>1. \A l : /\ Cardinality(HeldAt(u, l)') <= Cardinality(HeldAt(u, l))
             /\ Cardinality(HeldAt(u, l)) \in Nat /\ Cardinality(HeldAt(u, l)') \in Nat
  BY GainsNone
<1>2. \A q : LimitOf(q) \in Nat
  BY LimitPositive
<1>3. \A g, h \in Handlers : req'[g].user = u /\ req'[h].user = u => g = h
  BY DEF Room
<1>4. ASSUME NEW h \in Handlers, req'[h].op = "add", req'[h].user = u PROVE HasRoom(u, req[h].place)'
  <2>1. HasRoom(u, req[h].place) /\ req'[h].place = req[h].place
    BY <1>4 DEF Room
  <2> QED  BY <1>1, <1>2, <2>1 DEF HasRoom
<1>5. \A h \in Handlers : req'[h].op = "activate" /\ req'[h].user = u => Held(u)' = {}
  BY DEF Room
<1>6. ASSUME NEW p \in Orders \ (Manual \cup late'), order'[p] = "pending", Buyer[p] = u
      PROVE  Fits(u, PlanOf[p])'
  <2>1. Fits(u, PlanOf[p])
    BY <1>6 DEF Room
  <2>2. Limit[PlanOf[p]] \in Nat
    BY DevicesAssumption
  <2> QED  BY <1>1, <2>1, <2>2 DEF Fits
<1>7. ASSUME u \notin unfit', NEW l \in Locations PROVE Cardinality(HeldAt(u, l)') <= LimitOf(plan'[u])
  <2>1. Cardinality(HeldAt(u, l)) <= LimitOf(plan[u])
    BY <1>7 DEF Room
  <2> QED  BY <1>1, <1>2, <2>1
<1> QED  BY <1>3, <1>4, <1>5, <1>6, <1>7 DEF Room

\* One device more, where there was room for it or none at all.
LEMMA GainsOne ==
  ASSUME NEW u, NEW d \in Devices, Held(u)' \subseteq Held(u) \cup {d}
  PROVE  /\ \A l : Cardinality(HeldAt(u, l)') \in Nat
         /\ \A l : l # PlaceOf[d] => Cardinality(HeldAt(u, l)') <= Cardinality(HeldAt(u, l))
         /\ Cardinality(HeldAt(u, PlaceOf[d])') <= Cardinality(HeldAt(u, PlaceOf[d])) + 1
         /\ Held(u) = {} => \A l : Cardinality(HeldAt(u, l)') <= 1
<1>1. \A l : HeldAt(u, l)' \subseteq HeldAt(u, l) \cup {d} /\ (l # PlaceOf[d] => HeldAt(u, l)' \subseteq HeldAt(u, l))
  BY DEF HeldAt
<1>2. \A l : /\ IsFiniteSet(HeldAt(u, l)) /\ Cardinality(HeldAt(u, l)) \in Nat
             /\ IsFiniteSet(HeldAt(u, l) \cup {d})
             /\ Cardinality(HeldAt(u, l) \cup {d}) <= Cardinality(HeldAt(u, l)) + 1
  <2> TAKE l
  <2>1. IsFiniteSet(HeldAt(u, l)) /\ Cardinality(HeldAt(u, l)) \in Nat
    BY HeldFinite
  <2>2. /\ IsFiniteSet(HeldAt(u, l) \cup {d})
        /\ Cardinality(HeldAt(u, l) \cup {d}) =
             IF d \in HeldAt(u, l) THEN Cardinality(HeldAt(u, l)) ELSE Cardinality(HeldAt(u, l)) + 1
    BY <2>1, FS_AddElement
  <2> QED  BY <2>1, <2>2
<1>3. ASSUME NEW l
      PROVE  /\ Cardinality(HeldAt(u, l)') \in Nat
             /\ Cardinality(HeldAt(u, l)') <= Cardinality(HeldAt(u, l)) + 1
  <2>1. /\ Cardinality(HeldAt(u, l)) \in Nat /\ IsFiniteSet(HeldAt(u, l) \cup {d})
        /\ Cardinality(HeldAt(u, l) \cup {d}) <= Cardinality(HeldAt(u, l)) + 1
        /\ HeldAt(u, l)' \subseteq HeldAt(u, l) \cup {d}
    BY <1>1, <1>2
  <2> DEFINE after == HeldAt(u, l)'
             with == HeldAt(u, l) \cup {d}
  <2>2. IsFiniteSet(after) /\ Cardinality(after) <= Cardinality(with)
    BY <2>1, FS_Subset
  <2>3. Cardinality(after) \in Nat /\ Cardinality(with) \in Nat
    BY <2>1, <2>2, FS_CardinalityType
  <2> QED  BY <2>1, <2>2, <2>3
<1>4. \A l : l # PlaceOf[d] => Cardinality(HeldAt(u, l)') <= Cardinality(HeldAt(u, l))
  BY <1>1, <1>2, FS_Subset
<1>5. ASSUME Held(u) = {}, NEW l PROVE Cardinality(HeldAt(u, l)') <= 1
  <2>1. HeldAt(u, l) = {}
    BY <1>5 DEF HeldAt
  <2>2. Cardinality(HeldAt(u, l)) = 0
    BY <2>1, FS_EmptySet
  <2>3. Cardinality(HeldAt(u, l)') <= Cardinality(HeldAt(u, l)) + 1
    BY <1>3
  <2> QED  BY <2>2, <2>3
<1> QED  BY <1>3, <1>4, <1>5

\* A request is taken up by an account that has no other.
LEMMA RoomBegin ==
  ASSUME TypeOK, FlightInv, NEW u \in Users \ met', Room(u), NEW h \in Handlers, NEW r, Begin(h, r),
         UNCHANGED <<plan, owner, active, late, unfit>>,
         \A p \in Orders \ Manual : order'[p] = "pending" => order[p] = "pending",
         r.user = u => /\ r.op = "add" => HasRoom(u, r.place)
                       /\ r.op = "activate" => Held(u) = {}
  PROVE  Room(u)'
<1>1. Held(u)' = Held(u) /\ \A l : HeldAt(u, l)' = HeldAt(u, l)
  BY DEF Held, HeldAt
<1>2. /\ req'[h] = r /\ \A g \in Handlers \ {h} : req'[g] = req[g]
      /\ r.user = u => \A g \in Handlers : req[g].user # u
  BY DEF Begin, TypeOK
<1>3. CASE r.user = u
  <2>1. \A g \in Handlers : req'[g].user = u => g = h
    BY <1>2, <1>3
  <2>2. r.op = "add" => HasRoom(u, r.place)'
    BY <1>1, <1>3 DEF HasRoom
  <2>3. \A g \in Handlers : req'[g].op = "add" /\ req'[g].user = u => HasRoom(u, req[g].place)'
    BY <1>2, <2>1, <2>2 DEF HasRoom
  <2>4. \A g \in Handlers : req'[g].op = "activate" /\ req'[g].user = u => Held(u)' = {}
    BY <1>1, <1>2, <1>3, <2>1
  <2>5. \A p \in Orders \ (Manual \cup late') :
          order'[p] = "pending" /\ Buyer[p] = u => Fits(u, PlanOf[p])'
    BY <1>1 DEF Room, Fits
  <2>6. u \notin unfit' => \A l \in Locations : Cardinality(HeldAt(u, l)') <= LimitOf(plan'[u])
    BY <1>1 DEF Room
  <2> QED  BY <2>1, <2>3, <2>4, <2>5, <2>6 DEF Room
<1>4. CASE r.user # u
  <2>1. \A g \in Handlers : req'[g].user = u => req'[g] = req[g]
    BY <1>2, <1>4
  <2> QED  BY <1>1, <2>1, RoomKept
<1> QED  BY <1>3, <1>4

\* add_config writes the row of the account's only request.
LEMMA RoomAdd ==
  ASSUME TypeOK, FlightInv, EntryInv, NEW u \in Users \ met', Room(u), NEW h \in Handlers, AddCommit(h)
  PROVE  Room(u)'
<1> USE DevicesAssumption, IdleIsRequest
<1>1. PICK d \in Devices : d = req[h].dev /\ PlaceOf[d] = req[h].place
  BY DEF AddCommit, FlightInv, TypeOK
<1>2. PICK v \in Users : v = req[h].user
  BY DEF AddCommit, FlightInv, TypeOK, Request
<1>3. /\ owner' = [owner EXCEPT ![d] = v] /\ active' = [active EXCEPT ![d] = TRUE] /\ owner[d] = None
      /\ late' = late \cup {p \in Orders : Buyer[p] = v /\ order[p] = "pending"}
      /\ req'[h] = IdleRequest /\ \A g \in Handlers \ {h} : req'[g] = req[g]
      /\ UNCHANGED <<plan, order, unfit>>
  BY <1>1, <1>2 DEF AddCommit, End, FlightInv, TypeOK
<1>4. Held(v)' \subseteq Held(v) \cup {d} /\ (u # v => Held(u)' \subseteq Held(u))
  BY <1>3 DEF Held, TypeOK
<1>5. CASE u # v
  BY <1>3, <1>4, <1>5, RoomKept
<1>6. CASE u = v
  <2>1. /\ \A l : Cardinality(HeldAt(u, l)') \in Nat
        /\ \A l : l # PlaceOf[d] => Cardinality(HeldAt(u, l)') <= Cardinality(HeldAt(u, l))
        /\ Cardinality(HeldAt(u, PlaceOf[d])') <= Cardinality(HeldAt(u, PlaceOf[d])) + 1
    BY <1>4, <1>6, GainsOne
  <2>2. Cardinality(HeldAt(u, PlaceOf[d])) < LimitOf(plan[u])
    BY <1>1, <1>2, <1>6 DEF Room, HasRoom, AddCommit
  <2>3. \A g \in Handlers : req'[g].user # u
    BY <1>2, <1>3, <1>6 DEF Room
  <2>4. \A p \in Orders \ (Manual \cup late') : ~(order'[p] = "pending" /\ Buyer[p] = u)
    BY <1>3, <1>6
  <2>5. ASSUME u \notin unfit', NEW l \in Locations PROVE Cardinality(HeldAt(u, l)') <= LimitOf(plan'[u])
    <3>1. Cardinality(HeldAt(u, l)) <= LimitOf(plan[u]) /\ LimitOf(plan[u]) \in Nat
      BY <1>3, <2>5, LimitPositive DEF Room
    <3>2. Cardinality(HeldAt(u, l)) \in Nat
      BY HeldFinite
    <3> QED  BY <1>3, <2>1, <2>2, <3>1, <3>2
  <2> QED  BY <2>3, <2>4, <2>5 DEF Room
<1> QED  BY <1>5, <1>6

\* What a payment does to the limits of its buyer, who has no other request and
\* holds what fits the plan bought.
LEMMA RoomPaid ==
  ASSUME TypeOK, NEW u \in Users, Room(u), NEW p \in Orders, NEW loaded, Paid(p, loaded), Buyer[p] = u,
         \A g \in Handlers : req'[g].user # u,
         \/ Held(u)' = Held(u) /\ (p \notin Manual \cup late => Fits(u, PlanOf[p]))
         \/ \A l : Cardinality(HeldAt(u, l)') <= 1
  PROVE  Room(u)'
<1> USE DevicesAssumption
<1>1. /\ plan'[u] = PlanOf[p] /\ PlanOf[p] \in Plans
      /\ late' = late \ {p} /\ order' = [order EXCEPT ![p] = "paid"]
      /\ p \in Manual \cup late /\ ~Fits(u, PlanOf[p]) => u \in unfit'
  BY DEF Paid, TypeOK
<1>2. \A l : Cardinality(HeldAt(u, l)') \in Nat
  BY HeldFinite, FS_Subset, FS_CardinalityType DEF Held, HeldAt
<1>3. \A q \in Orders : Limit[PlanOf[q]] \in Nat /\ Limit[PlanOf[q]] >= 1
  OBVIOUS
<1>4. ASSUME NEW q \in Orders \ (Manual \cup late'), order'[q] = "pending", Buyer[q] = u
      PROVE  Fits(u, PlanOf[q])'
  <2>1. q # p /\ q \notin Manual \cup late /\ order[q] = "pending"
    BY <1>1, <1>4 DEF TypeOK
  <2>2. Fits(u, PlanOf[q])
    BY <1>4, <2>1 DEF Room
  <2>3. CASE Held(u)' = Held(u)
    BY <2>2, <2>3 DEF Fits, HeldAt
  <2>4. CASE \A l : Cardinality(HeldAt(u, l)') <= 1
    BY <1>2, <1>3, <2>4 DEF Fits
  <2> QED  BY <2>3, <2>4
<1>5. ASSUME u \notin unfit', NEW l \in Locations PROVE Cardinality(HeldAt(u, l)') <= LimitOf(plan'[u])
  <2>1. LimitOf(plan'[u]) = Limit[PlanOf[p]]
    BY <1>1 DEF LimitOf
  <2>2. CASE \A k : Cardinality(HeldAt(u, k)') <= 1
    BY <1>2, <1>3, <2>1, <2>2
  <2>3. CASE Held(u)' = Held(u) /\ Fits(u, PlanOf[p])
    BY <2>1, <2>3 DEF Fits, HeldAt
  <2> QED  BY <1>1, <1>5, <2>2, <2>3
<1> QED  BY <1>4, <1>5 DEF Room

\* ... and to others nothing.
LEMMA RoomOthersPay ==
  ASSUME TypeOK, NEW u \in Users, Room(u), NEW p \in Orders, NEW loaded, Paid(p, loaded), Buyer[p] # u,
         Held(u)' \subseteq Held(u), \A g \in Handlers : req'[g].user = u => req'[g] = req[g]
  PROVE  Room(u)'
<1>1. /\ plan'[u] = plan[u] /\ (u \in unfit => u \in unfit')
      /\ late' = late \ {p} /\ order' = [order EXCEPT ![p] = "paid"]
  BY DevicesAssumption DEF Paid, TypeOK
<1>2. \A q \in Orders \ (Manual \cup late') : order'[q] = "pending" /\ Buyer[q] = u =>
         order[q] = "pending" /\ q \notin late
  BY <1>1 DEF TypeOK
<1> QED  BY <1>1, <1>2, RoomKept

LEMMA RoomFirst ==
  ASSUME TypeOK, FlightInv, NEW u \in Users \ met', Room(u), NEW h \in Handlers, FirstCommit(h)
  PROVE  Room(u)'
<1> USE DevicesAssumption, IdleIsRequest
<1>1. PICK d \in Devices : d = req[h].dev
  BY DEF FirstCommit, FlightInv, TypeOK
<1>2. PICK p \in Orders : p = req[h].order /\ Buyer[p] = req[h].user
  BY DEF FirstCommit, FlightInv
<1>3. /\ Paid(p, req[h].sub) /\ owner' = [owner EXCEPT ![d] = Buyer[p]] /\ active' = [active EXCEPT ![d] = TRUE]
      /\ owner[d] = None
      /\ req'[h] = IdleRequest /\ \A g \in Handlers \ {h} : req'[g] = req[g]
  BY <1>1, <1>2 DEF FirstCommit, End, FlightInv, TypeOK
<1>4. Held(Buyer[p])' \subseteq Held(Buyer[p]) \cup {d} /\ (u # Buyer[p] => Held(u)' \subseteq Held(u))
  BY <1>3 DEF Held, TypeOK
<1>5. CASE u # Buyer[p]
  BY <1>3, <1>4, <1>5, RoomOthersPay
<1>6. CASE u = Buyer[p]
  <2>1. Held(u) = {}
    BY <1>2, <1>6 DEF Room, FirstCommit
  <2>2. \A l : Cardinality(HeldAt(u, l)') <= 1
    BY <1>4, <1>6, <2>1, GainsOne
  <2>3. \A g \in Handlers : req'[g].user # u
    BY <1>2, <1>3, <1>6 DEF Room
  <2> QED  BY <1>3, <1>6, <2>2, <2>3, RoomPaid
<1> QED  BY <1>5, <1>6

LEMMA RoomRenew ==
  ASSUME TypeOK, FlightInv, NEW u \in Users \ met', Room(u), NEW p \in Orders, Renew(p)
  PROVE  Room(u)'
<1>1. Paid(p, sub[Buyer[p]]) /\ UNCHANGED <<owner, active, req>> /\ Startable(p)
  BY DEF Renew
<1>2. Held(u)' = Held(u)
  BY <1>1 DEF Held
<1>3. CASE u # Buyer[p]
  BY <1>1, <1>2, <1>3, RoomOthersPay
<1>4. CASE u = Buyer[p]
  <2>1. \A g \in Handlers : req'[g].user # u
    BY <1>1, <1>4 DEF Renew
  <2>2. p \notin Manual \cup late => Fits(u, PlanOf[p])
    BY <1>1, <1>4 DEF Startable, Room
  <2> QED  BY <1>1, <1>2, <1>4, <2>1, <2>2, RoomPaid
<1> QED  BY <1>3, <1>4

LEMMA PlanStep == ASSUME TypeOK, FlightInv, SweepInv, EntryInv, PlanInv, [Next]_vars PROVE PlanInv'
<1> SUFFICES ASSUME NEW u \in Users \ met' PROVE Room(u)'
  BY DEF PlanInv
<1> USE DevicesAssumption, IdleIsRequest
<1>a. \A h \in Handlers : req[h] \in Request
  BY DEF TypeOK
<1>b. met \subseteq met'
  <2>1. ASSUME NEW h \in Handlers, NEW r, Begin(h, r) PROVE met \subseteq met'
    BY <2>1 DEF Begin
  <2>2. ASSUME NEW p \in Orders, Renew(p) PROVE met \subseteq met'
    BY <2>2 DEF Renew
  <2>3. CASE met' = met
    BY <2>3
  <2>4. ASSUME NEW h \in Handlers, NEW v \in Users, NEW l \in Locations, AddConfig(h, v, l) PROVE met \subseteq met'
    BY <2>1, <2>4, Zenon DEF AddConfig
  <2>5. ASSUME NEW h \in Handlers, NEW d \in Devices, DeleteConfig(h, d) PROVE met \subseteq met'
    BY <2>1, <2>5, ZenonT(30) DEF DeleteConfig
  <2>6. ASSUME NEW h \in Handlers, NEW p \in Orders, FirstPurchase(h, p) PROVE met \subseteq met'
    BY <2>1, <2>6, ZenonT(30) DEF FirstPurchase
  <2> QED
    BY <2>2, <2>3, <2>4, <2>5, <2>6
    DEF Next, AccountStep, RequestStep, OpenOrder, PeriodEnds, DownloadLink, LinkEnds, vars, Restart, histVars,
        IssueOk, IssueRefused, RemoveOk, RemoveRefused, IssueTimesOut, RemoveTimesOut, DeleteCommit, AddCommit,
        FirstCommit
<1>c. Room(u)
  BY <1>b DEF PlanInv
<1>1. ASSUME NEW h \in Handlers, NEW v \in Users, NEW l \in Locations, AddConfig(h, v, l) PROVE Room(u)'
  <2> DEFINE r == [IdleRequest EXCEPT !.op = "add", !.user = v, !.place = l, !.at = "node"]
  <2>1. r.op = "add" /\ r.user = v /\ r.place = l
    BY DEF IdleRequest
  <2>2. Begin(h, r) /\ UNCHANGED <<plan, order, owner, active, late, unfit>> /\ HasRoom(v, l)
    BY <1>1 DEF AddConfig, rowVars
  <2> HIDE DEF r
  <2> QED  BY <1>c, <2>1, <2>2, RoomBegin
<1>2. ASSUME NEW h \in Handlers, NEW d \in Devices, DeleteConfig(h, d) PROVE Room(u)'
  <2> DEFINE r == [IdleRequest EXCEPT !.op = "delete", !.user = owner[d], !.dev = d, !.at = "node"]
  <2>1. r.op = "delete"
    BY DEF IdleRequest
  <2>2. Begin(h, r) /\ UNCHANGED <<plan, order, owner, active, late, unfit>>
    BY <1>2 DEF DeleteConfig, rowVars
  <2> HIDE DEF r
  <2> QED  BY <1>c, <2>1, <2>2, RoomBegin
<1>3. ASSUME NEW h \in Handlers, NEW p \in Orders, FirstPurchase(h, p) PROVE Room(u)'
  <2> DEFINE r == [IdleRequest EXCEPT !.op = "activate", !.user = Buyer[p], !.order = p,
                                      !.place = DefaultForNew, !.sub = sub[Buyer[p]], !.at = "node"]
  <2>1. r.op = "activate" /\ r.user = Buyer[p]
    BY DEF IdleRequest
  <2>2. Begin(h, r) /\ UNCHANGED <<plan, owner, active, late, unfit>> /\ Held(Buyer[p]) = {}
    BY <1>3 DEF FirstPurchase
  <2>3. \A q \in Orders \ Manual : order'[q] = "pending" => order[q] = "pending"
    BY <1>3 DEF FirstPurchase, Startable, TypeOK
  <2> HIDE DEF r
  <2> QED  BY <1>c, <2>1, <2>2, <2>3, RoomBegin
<1>4. ASSUME UNCHANGED <<plan, owner, late, unfit>>,
             \A d \in Devices : active'[d] => active[d],
             \A q \in Orders : order'[q] = "pending" => order[q] = "pending",
             \A g \in Handlers : \/ req'[g] = IdleRequest
                                 \/ /\ req'[g].user = req[g].user /\ req'[g].op = req[g].op
                                    /\ req'[g].place = req[g].place
      PROVE  Room(u)'
  <2>1. Held(u)' \subseteq Held(u)
    BY <1>4 DEF Held
  <2> QED  BY <1>4, <1>c, <2>1, RoomKept
<1>5. ASSUME NEW h \in Handlers, RemoveOk(h) \/ \E d \in Devices : IssueOk(h, d) PROVE Room(u)'
  <2>1. ASSUME RemoveOk(h), NEW g \in Handlers
        PROVE  req'[g].user = req[g].user /\ req'[g].op = req[g].op /\ req'[g].place = req[g].place
    BY <1>a, <2>1 DEF RemoveOk, TypeOK, Request
  <2>2. ASSUME NEW d \in Devices, IssueOk(h, d), NEW g \in Handlers
        PROVE  req'[g].user = req[g].user /\ req'[g].op = req[g].op /\ req'[g].place = req[g].place
    BY <1>a, <2>2 DEF IssueOk, TypeOK, Request
  <2>3. UNCHANGED <<plan, owner, late, unfit, active, order>>
    BY <1>5 DEF RemoveOk, IssueOk, rowVars, histVars
  <2> QED  BY <1>4, <1>5, <2>1, <2>2, <2>3
<1>6. ASSUME NEW h \in Handlers, End(h), UNCHANGED <<plan, owner, late, unfit>>,
             \A d \in Devices : active'[d] => active[d],
             \A q \in Orders : order'[q] = "pending" => order[q] = "pending"
      PROVE  Room(u)'
  <2>1. \A g \in Handlers : req'[g] = IdleRequest \/ req'[g] = req[g]
    BY <1>6 DEF End, TypeOK
  <2> QED  BY <1>4, <1>6, <2>1
<1>7. ASSUME NEW h \in Handlers, IssueRefused(h) PROVE Room(u)'
  <2>1. \A q \in Orders : order'[q] = "pending" => order[q] = "pending"
    BY <1>7 DEF IssueRefused, AfterRefusal, TypeOK
  <2> QED  BY <1>6, <1>7, <2>1 DEF IssueRefused, histVars
<1>8. ASSUME NEW h \in Handlers, \/ RemoveRefused(h) \/ RemoveTimesOut(h)
                                 \/ \E d \in Devices : IssueTimesOut(h, d)
      PROVE  Room(u)'
  BY <1>6, <1>8 DEF RemoveRefused, RemoveTimesOut, IssueTimesOut, rowVars, histVars
<1>9. ASSUME NEW h \in Handlers, DeleteCommit(h) PROVE Room(u)'
  <2>1. \A d \in Devices : active'[d] => active[d]
    BY <1>9 DEF DeleteCommit, TypeOK
  <2> QED  BY <1>6, <1>9, <2>1 DEF DeleteCommit, histVars
<1>10. ASSUME NEW h \in Handlers, AddCommit(h) PROVE Room(u)'
  BY <1>10, <1>c, RoomAdd
<1>11. ASSUME NEW h \in Handlers, FirstCommit(h) PROVE Room(u)'
  BY <1>11, <1>c, RoomFirst
<1>12. ASSUME NEW p \in Orders, Renew(p) PROVE Room(u)'
  BY <1>12, <1>c, RoomRenew
<1>13. ASSUME NEW p \in Orders, OpenOrder(p) PROVE Room(u)'
  <2>1. /\ UNCHANGED <<plan, owner, active, late, unfit, req>> /\ Fits(Buyer[p], PlanOf[p])
        /\ \A q \in Orders \ {p} : order'[q] = order[q]
    BY <1>13 DEF OpenOrder, TypeOK, histVars
  <2>2. Held(u)' = Held(u) /\ \A l : HeldAt(u, l)' = HeldAt(u, l)
    BY <2>1 DEF Held, HeldAt
  <2>3. \A q \in Orders \ (Manual \cup late') :
          order'[q] = "pending" /\ Buyer[q] = u => Fits(u, PlanOf[q])'
    BY <1>c, <2>1, <2>2 DEF Room, Fits
  <2>4. \A h \in Handlers : req'[h].op = "add" /\ req'[h].user = u => HasRoom(u, req[h].place)'
    BY <1>c, <2>1, <2>2 DEF Room, HasRoom
  <2> QED  BY <1>c, <2>1, <2>2, <2>3, <2>4 DEF Room
<1>14. ASSUME SweepStep, UNCHANGED <<req, late, unfit>> PROVE Room(u)'
  BY <1>4, <1>14, SweepTypes, SweepEffect
<1>15. ASSUME NEW now \in Pausings, Restart(now) PROVE Room(u)'
  BY <1>4, <1>15 DEF Restart, rowVars
<1>16. CASE UNCHANGED <<plan, owner, active, order, late, unfit, req>>
  BY <1>4, <1>16
<1> QED
  BY <1>1, <1>2, <1>3, <1>5, <1>7, <1>8, <1>9, <1>10, <1>11, <1>12, <1>13, <1>14, <1>15, <1>16
  DEF Next, AccountStep, RequestStep, PeriodEnds, DownloadLink, LinkEnds, vars, rowVars, histVars

-----------------------------------------------------------------------------
LEMMA InitAll == Init => TypeOK /\ FlightInv /\ SweepInv /\ EntryInv /\ PauseInv /\ PlanInv
<1> SUFFICES ASSUME Init PROVE TypeOK /\ FlightInv /\ SweepInv /\ EntryInv /\ PauseInv /\ PlanInv
  OBVIOUS
<1> USE DevicesAssumption, IdleIsRequest
<1>1. TypeOK
  <2>1. IdleSweep \in Sweep
    BY DEF IdleSweep, Sweep
  <2> QED  BY <2>1 DEF Init, TypeOK
<1>2. FlightInv /\ SweepInv /\ EntryInv /\ PauseInv
  BY DEF Init, FlightInv, SweepInv, IdleSweep, EntryInv, PauseInv
<1>3. ASSUME NEW u \in Users PROVE Room(u)
  <2>1. \A l : HeldAt(u, l) = {} /\ Cardinality({}) = 0
    BY FS_EmptySet DEF Init, Held, HeldAt
  <2>2. \A p : LimitOf(p) \in Nat
    BY LimitPositive
  <2>3. \A g \in Handlers : req[g].user # u
    BY DEF Init
  <2>4. \A p \in Orders : order[p] # "pending"
    BY DEF Init
  <2>5. ASSUME NEW l PROVE Cardinality(HeldAt(u, l)) <= LimitOf(plan[u])
    <3>1. Cardinality(HeldAt(u, l)) = 0 /\ LimitOf(plan[u]) \in Nat
      BY <2>1, <2>2
    <3> QED  BY <3>1
  <2> QED  BY <2>3, <2>4, <2>5 DEF Room
<1> QED  BY <1>1, <1>2, <1>3 DEF PlanInv

LEMMA Invariants == Spec => [](TypeOK /\ FlightInv /\ SweepInv /\ EntryInv /\ PauseInv /\ PlanInv)
  BY InitAll, TypeStep, FlightStep, SweepInvStep, EntryStep, PauseStep, PlanStep, PTL DEF Spec

\* Every variable keeps its type.
THEOREM TypeCorrect == Spec => []TypeOK
  BY Invariants, PTL

\* add_config, delete_config and the sweep keep rows and entries in step, for
\* any number of requests at once: only a call with no row to show for it, the
\* removals of a sweep that was cut off among them, parts them for good.
THEOREM EntriesMatch == Spec => []RowsMatchEntries
<1>1. EntryInv => RowsMatchEntries
  BY DEF EntryInv, RowsMatchEntries, Closing, Deleting
<1> QED  BY <1>1, Invariants, PTL

\* What config_raw and a download link hand out has its peer.
THEOREM HandedOutFilesWork == Spec => []FilesWork
<1>1. EntryInv => FilesWork
  BY DEF EntryInv, FilesWork, HandedOut, Fetchable, LinkGood, Closing, Deleting,
         Connects, FileOf
<1> QED  BY <1>1, Invariants, PTL

\* add_config and default_for_new: no device is written to a paused location
\* unless all are paused, also when the pause comes while requests are under way.
THEOREM PausedLocationsTakeNone == Spec => PausedTakesNone
<1> DEFINE A == \A d \in Devices : active'[d] /\ ~active[d] /\ PlaceOf[d] \in paused => Locations \subseteq paused
<1>1. ASSUME TypeOK, FlightInv, SweepInv, EntryInv, PauseInv, [Next]_vars PROVE A
  <2>1. ASSUME NEW h \in Handlers, AddCommit(h) \/ FirstCommit(h) PROVE A
    <3>1. /\ \A d \in Devices : active'[d] /\ ~active[d] => d = req[h].dev
          /\ PlaceOf[req[h].dev] = req[h].place
      BY <1>1, <2>1 DEF AddCommit, FirstCommit, TypeOK, FlightInv
    <3>2. req[h].place \notin paused \/ Locations \subseteq paused
      BY <1>1, <2>1 DEF AddCommit, FirstCommit, PauseInv
    <3> QED  BY <3>1, <3>2
  <2>2. CASE \A d \in Devices : active'[d] => active[d]
    BY <2>2
  <2>3. ASSUME NEW h \in Handlers, DeleteCommit(h) PROVE \A d \in Devices : active'[d] => active[d]
    BY <1>1, <2>3 DEF DeleteCommit, TypeOK
  <2>4. ASSUME SweepStep PROVE \A d \in Devices : active'[d] => active[d]
    BY <1>1, <2>4, SweepEffect
  <2>5. CASE active' = active
    BY <2>5
  <2> HIDE DEF A
  <2> QED
    BY <1>1, <2>1, <2>2, <2>3, <2>4, <2>5
    DEF Next, AccountStep, RequestStep, AddConfig, IssueOk, IssueRefused, IssueTimesOut, DeleteConfig, RemoveOk,
        RemoveRefused, RemoveTimesOut, FirstPurchase, OpenOrder, Renew, PeriodEnds, Restart, DownloadLink, LinkEnds,
        vars, rowVars
<1>2. TypeOK /\ FlightInv /\ SweepInv /\ EntryInv /\ PauseInv /\ [Next]_vars => [A]_vars
  BY <1>1
<1> QED  BY <1>2, Invariants, PTL DEF Spec, PausedTakesNone

\* The devices of an account stay within the limit of its plan in every
\* location, for any number of accounts, plans and requests; the ways past it
\* are the three of WithinPlan and no other.
THEOREM PlanLimitHolds == Spec => []WithinPlan
<1>1. ASSUME EntryInv, PlanInv, NEW u \in Users \ (met \cup unfit), NEW l \in Locations
      PROVE  Cardinality({d \in peers \cap Devices : owner[d] = u /\ PlaceOf[d] = l}) <= LimitOf(plan[u])
  <2> DEFINE S == {d \in peers \cap Devices : owner[d] = u /\ PlaceOf[d] = l}
  <2>1. S \subseteq HeldAt(u, l)
    BY <1>1, DevicesAssumption DEF EntryInv, HeldAt, Held
  <2>2. Cardinality(HeldAt(u, l)) <= LimitOf(plan[u])
    BY <1>1 DEF PlanInv, Room
  <2>3. Cardinality(S) <= Cardinality(HeldAt(u, l)) /\ Cardinality(S) \in Nat /\ Cardinality(HeldAt(u, l)) \in Nat
    BY <2>1, HeldFinite, FS_Subset, FS_CardinalityType
  <2> QED  BY <2>2, <2>3, LimitPositive
<1>2. TypeOK /\ EntryInv /\ PlanInv => WithinPlan
  <2> SUFFICES ASSUME TypeOK, EntryInv, PlanInv, NEW u \in Users \ (met \cup unfit), NEW l \in Locations
               PROVE  Cardinality({d \in peers : owner[d] = u /\ PlaceOf[d] = l}) <= LimitOf(plan[u])
    BY DEF WithinPlan
  <2>1. peers \cap Devices = peers
    BY DEF TypeOK
  <2> QED  BY <1>1, <2>1
<1> QED  BY <1>2, Invariants, PTL
=============================================================================
