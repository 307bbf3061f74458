-------------------------- MODULE ActivationProofs --------------------------
(***************************************************************************)
(* Activation, for any sets of users, payments, requests and devices.      *)
(***************************************************************************)
EXTENDS Activation, FiniteSetTheorems, TLAPS

\* A request that has ended and a fresh one are well typed.
LEMMA EndType ==
    ASSUME NEW h \in Handlers, NEW a \in BOOLEAN, TypeOK, End(h, a)
    PROVE  /\ req' \in [Handlers -> Request]
           /\ owed' \in [Payments -> SUBSET GwStatuses]
<1>1. IdleRequest \in Request
  BY DEF IdleRequest, Request, GwStatuses
<1>2. req' \in [Handlers -> Request]
  BY <1>1 DEF TypeOK, End
<1>3. req[h].pay \in Payments \cup {None}
  BY DEF TypeOK, Request
<1>4. owed' \in [Payments -> SUBSET GwStatuses]
  BY <1>3 DEF TypeOK, End
<1> QED BY <1>2, <1>4

LEMMA StartType ==
    ASSUME NEW h \in Handlers, NEW p \in Payments, NEW m \in GwStatuses,
           TypeOK, StartActivation(h, p, m)
    PROVE  req' \in [Handlers -> Request]
<1>1. HeldTrials(Buyer[p]) \subseteq Devices
  BY ConstantsAssumption DEF HeldTrials
<1>2. Buyer[p] \in Users
  BY ConstantsAssumption
<1> QED BY <1>1, <1>2 DEF StartActivation, TypeOK, Request

LEMMA AnnouncedType ==
    ASSUME TypeOK, NEW p \in Payments
    PROVE  Announced(p) \subseteq GwStatuses
BY DEF Announced, TypeOK, GwStatuses

\* The number of rewards that land at once is a natural number.
LEMMA RewardCount ==
    ASSUME NEW S, S \subseteq Payments
    PROVE  RewardDays * Cardinality(S) \in Nat
BY FS_Subset, FS_CardinalityType, ConstantsAssumption, SMT

\* What a request has in hand.
LEMMA InHand ==
    ASSUME TypeOK, RequestInv, NEW h \in Handlers
    PROVE  /\ req[h] \in Request
           /\ req[h].pc # "idle" => /\ req[h].pay \in Payments
                                    /\ Buyer[req[h].pay] \in Users
           /\ req[h].msg \in GwStatuses
           /\ req[h].dev \in Devices \cup {None}
           /\ req[h].until \in Nat
           /\ req[h].sub \in BOOLEAN
           /\ req[h].gone \subseteq Devices
           /\ req[h].trials \subseteq Devices
BY ConstantsAssumption DEF TypeOK, RequestInv, Request

\* Updates of a request's and of the sweep's record keep their types.
LEMMA RequestUpdate ==
    ASSUME NEW r \in Request
    PROVE  /\ \A d \in Devices \cup {None}, c \in {"commit", "clean"} :
                [r EXCEPT !.dev = d, !.pc = c] \in Request
           /\ \A d \in Devices :
                /\ [r EXCEPT !.trials = @ \ {d}, !.gone = @ \cup {d}] \in Request
                /\ [r EXCEPT !.trials = @ \ {d}] \in Request
<1>1. ASSUME NEW d \in Devices \cup {None}, NEW c \in {"commit", "clean"}
      PROVE  [r EXCEPT !.dev = d, !.pc = c] \in Request
  BY <1>1 DEF Request
<1>2. ASSUME NEW d \in Devices
      PROVE  [r EXCEPT !.trials = @ \ {d}, !.gone = @ \cup {d}] \in Request
  <2>1. r.trials \ {d} \subseteq Devices /\ r.gone \cup {d} \subseteq Devices
    BY DEF Request
  <2> QED BY <2>1 DEF Request
<1>3. ASSUME NEW d \in Devices
      PROVE  [r EXCEPT !.trials = @ \ {d}] \in Request
  <2>1. r.trials \ {d} \subseteq Devices
    BY DEF Request
  <2> QED BY <2>1 DEF Request
<1> QED BY <1>1, <1>2, <1>3

LEMMA SweepUpdate ==
    ASSUME NEW s \in Sweep, NEW D, D \subseteq Devices, NEW d \in Devices
    PROVE  /\ [s EXCEPT !.todo = @ \ {d}, !.gone = @ \cup D] \in Sweep
           /\ [s EXCEPT !.todo = @ \ {d}, !.all = FALSE, !.gone = @ \cup D] \in Sweep
<1>1. s.todo \ {d} \subseteq Devices /\ s.gone \cup D \subseteq Devices
  BY DEF Sweep
<1> QED BY <1>1 DEF Sweep

\* One step keeps the types, given that a running request has a payment.
LEMMA TypeStep == TypeOK /\ RequestInv /\ [Next]_vars => TypeOK'
<1> SUFFICES ASSUME TypeOK, RequestInv, [Next]_vars PROVE TypeOK'
  OBVIOUS
<1> USE ConstantsAssumption
<1>1. CASE Tick
  BY <1>1 DEF Tick, TypeOK, dbVars
<1>2. ASSUME NEW p \in Payments, CreatePayment(p) PROVE TypeOK'
  BY <1>2 DEF CreatePayment, InvoiceOpened, InvoiceRefused, TypeOK, Statuses, GwStatuses
<1>3. ASSUME NEW p \in Payments, GatewayMoves(p) PROVE TypeOK'
  BY <1>3 DEF GatewayMoves, TypeOK, dbVars
<1>4. ASSUME NEW h \in Handlers, NEW p \in Payments, Grant(h, p) PROVE TypeOK'
  <2>1. req' \in [Handlers -> Request]
    BY <1>4, StartType DEF Grant, GwStatuses
  <2> QED BY <1>4, <2>1 DEF Grant, TypeOK, Statuses
<1>5. ASSUME NEW h \in Handlers, NEW p \in Payments, NEW m \in GwStatuses,
             PlategaCallback(h, p, m)
      PROVE  TypeOK'
  <2>1. [IdleRequest EXCEPT !.pc = "loaded", !.pay = p, !.msg = m] \in Request
    BY DEF IdleRequest, Request
  <2>2. req' \in [Handlers -> Request]
    BY <1>5, <2>1 DEF PlategaCallback, TypeOK
  <2>3. met' \subseteq Payments /\ owed' \in [Payments -> SUBSET GwStatuses]
    BY <1>5 DEF PlategaCallback, NoteMeeting, TypeOK
  <2> QED BY <1>5, <2>2, <2>3 DEF PlategaCallback, TypeOK, dbVars
<1>6. ASSUME NEW h \in Handlers, NEW p \in Payments, NEW m \in GwStatuses,
             HeleketWebhook(h, p, m)
      PROVE  TypeOK'
  <2>1. [IdleRequest EXCEPT !.pc = "status", !.pay = p, !.msg = m] \in Request
    BY DEF IdleRequest, Request
  <2>2. req' \in [Handlers -> Request]
    BY <1>6, <2>1, StartType DEF HeleketWebhook, TypeOK
  <2>3. met' \subseteq Payments /\ owed' \in [Payments -> SUBSET GwStatuses]
    BY <1>6 DEF HeleketWebhook, NoteMeeting, TypeOK
  <2> QED BY <1>6, <2>2, <2>3 DEF HeleketWebhook, TypeOK, dbVars
<1>7. ASSUME NEW h \in Handlers, FetchStatus(h) PROVE TypeOK'
  <2>1. req[h].pay \in Payments /\ req[h].msg \in GwStatuses
    BY <1>7, InHand DEF FetchStatus
  <2>2. /\ req' \in [Handlers -> Request]
        /\ owed' \in [Payments -> SUBSET GwStatuses]
    BY <1>7, <2>1, StartType, EndType DEF FetchStatus, TypeOK
  <2>3. status' \in [Payments -> Statuses]
    BY <1>7 DEF FetchStatus, TypeOK, Statuses
  <2> QED BY <1>7, <2>2, <2>3 DEF FetchStatus, TypeOK
<1>8. ASSUME NEW h \in Handlers, FetchFails(h) PROVE TypeOK'
  <2>1. /\ req' \in [Handlers -> Request]
        /\ owed' \in [Payments -> SUBSET GwStatuses]
    BY <1>8, EndType DEF FetchFails, AckedOnFetchFailure
  <2> QED BY <1>8, <2>1 DEF FetchFails, TypeOK, dbVars
<1>9. ASSUME NEW h \in Handlers, WriteStatus(h) PROVE TypeOK'
  <2>1. /\ req' \in [Handlers -> Request]
        /\ owed' \in [Payments -> SUBSET GwStatuses]
    BY <1>9, EndType DEF WriteStatus
  <2> QED BY <1>9, <2>1 DEF WriteStatus, TypeOK, StatusFor, Statuses
<1>10. ASSUME NEW h \in Handlers, IssueOk(h) PROVE TypeOK'
  <2>1. req' \in [Handlers -> Request]
    <3>1. PICK d \in Devices :
            req' = [req EXCEPT ![h] = [req[h] EXCEPT !.dev = d, !.pc = "commit"]]
      BY <1>10 DEF IssueOk
    <3>2. [req[h] EXCEPT !.dev = d, !.pc = "commit"] \in Request
      BY InHand, RequestUpdate
    <3> QED BY <3>1, <3>2 DEF TypeOK
  <2> QED BY <1>10, <2>1 DEF IssueOk, TypeOK, dbVars, envVars
<1>11. ASSUME NEW h \in Handlers, IssueRefused(h) PROVE TypeOK'
  <2>1. /\ req' \in [Handlers -> Request]
        /\ owed' \in [Payments -> SUBSET GwStatuses]
    BY <1>11, EndType DEF IssueRefused
  <2> QED BY <1>11, <2>1 DEF IssueRefused, TypeOK, Statuses
<1>12. ASSUME NEW h \in Handlers, IssueTimesOut(h) PROVE TypeOK'
  <2>1. /\ req' \in [Handlers -> Request]
        /\ owed' \in [Payments -> SUBSET GwStatuses]
    BY <1>12, EndType DEF IssueTimesOut
  <2> QED BY <1>12, <2>1 DEF IssueTimesOut, TypeOK, dbVars
<1>13. ASSUME NEW h \in Handlers, Commit(h) PROVE TypeOK'
  <2> DEFINE u == Buyer[req[h].pay]
  <2>1. /\ req[h].pay \in Payments /\ u \in Users
        /\ req[h].dev \in Devices \cup {None}
        /\ req[h].until \in Nat
    BY <1>13, InHand DEF Commit
  <2>2. /\ req' \in [Handlers -> Request]
        /\ owed' \in [Payments -> SUBSET GwStatuses]
    <3>1. CASE req[h].trials = {}
      BY <1>13, <3>1, EndType DEF Commit
    <3>2. CASE req[h].trials # {}
      <4>1. [req[h] EXCEPT !.dev = None, !.pc = "clean"] \in Request
        BY InHand, RequestUpdate
      <4>2. /\ req' = [req EXCEPT ![h] = [req[h] EXCEPT !.dev = None, !.pc = "clean"]]
            /\ owed' = owed
        BY <1>13, <3>2 DEF Commit
      <4> QED BY <4>1, <4>2 DEF TypeOK
    <3> QED BY <3>1, <3>2
  <2>3. RewardDays * Cardinality(DueRewards(u)) \in Nat
    BY RewardCount DEF DueRewards
  <2>4. until' \in [Users -> Nat]
    BY <1>13, <2>1, <2>3 DEF Commit, TypeOK, Later
  <2>5. /\ rw' \in [Payments -> {"none", "earned", "applied"}]
        /\ vest' \in [Payments -> Nat]
    BY <1>13, <2>1 DEF Commit, TypeOK, Applied
  <2>6. /\ owner' \in [Devices -> Users \cup {None}]
        /\ active' \in [Devices -> BOOLEAN]
        /\ sub' \in [Users -> BOOLEAN]
        /\ trial' \in [Users -> Nat]
    BY <1>13, <2>1 DEF Commit, TypeOK, WithRow
  <2>7. /\ status' \in [Payments -> Statuses]
        /\ acts' \in [Payments -> Nat]
    BY <1>13, <2>1 DEF Commit, TypeOK, Statuses
  <2> QED BY <1>13, <2>2, <2>4, <2>5, <2>6, <2>7 DEF Commit, TypeOK
<1>14. ASSUME NEW h \in Handlers, NEW d \in Devices, CleanTrial(h, d) PROVE TypeOK'
  <2>1. req' \in [Handlers -> Request]
    <3>1. /\ [req[h] EXCEPT !.trials = @ \ {d}, !.gone = @ \cup {d}] \in Request
          /\ [req[h] EXCEPT !.trials = @ \ {d}] \in Request
      BY InHand, RequestUpdate
    <3>2. \/ req' = [req EXCEPT ![h] = [req[h] EXCEPT !.trials = @ \ {d}, !.gone = @ \cup {d}]]
          \/ req' = [req EXCEPT ![h] = [req[h] EXCEPT !.trials = @ \ {d}]]
      BY <1>14 DEF CleanTrial
    <3> QED BY <3>1, <3>2 DEF TypeOK
  <2> QED BY <1>14, <2>1 DEF CleanTrial, TypeOK, dbVars, envVars
<1>15. ASSUME NEW h \in Handlers, CleanCommit(h) PROVE TypeOK'
  <2>1. /\ req' \in [Handlers -> Request]
        /\ owed' \in [Payments -> SUBSET GwStatuses]
    BY <1>15, EndType DEF CleanCommit
  <2> QED BY <1>15, <2>1 DEF CleanCommit, TypeOK
<1>16. CASE WebCrash
  <2>1. IdleRequest \in Request
    BY DEF IdleRequest, Request, GwStatuses
  <2>2. dropped' \subseteq Devices
    <3>1. \A h \in Handlers : req[h].gone \subseteq Devices /\ req[h].dev \in Devices \cup {None}
      BY InHand
    <3>2. UNION {req[h].gone : h \in Handlers} \subseteq Devices
      BY <3>1
    <3>3. {req[h].dev : h \in Handlers} \ {None} \subseteq Devices
      BY <3>1
    <3>4. dropped \subseteq Devices
      BY DEF TypeOK
    <3> QED BY <1>16, <3>2, <3>3, <3>4 DEF WebCrash
  <2> QED BY <1>16, <2>1, <2>2 DEF WebCrash, TypeOK, dbVars, envVars
<1>17. CASE SweepStart
  <2>1. sweep' \in Sweep
    <3>1. UNION {DueRewards(u) : u \in {v \in Users : sub[v] /\ until[v] > now}} \subseteq Payments
      BY DEF DueRewards
    <3> QED BY <1>17, <3>1 DEF SweepStart, TypeOK, IdleSweep, Sweep
  <2> QED BY <1>17, <2>1 DEF SweepStart, TypeOK, dbVars, envVars
<1>18. CASE SweepRewards
  <2>1. sweep.until \in [Users -> Nat] /\ sweep.rewards \subseteq Payments
    BY DEF TypeOK, Sweep
  <2>2. until' \in [Users -> Nat]
    BY <1>18, <2>1, RewardCount DEF SweepRewards, TypeOK
  <2>3. sweep' \in Sweep
    BY <1>18 DEF SweepRewards, TypeOK, IdleSweep, Sweep
  <2> QED BY <1>18, <2>2, <2>3 DEF SweepRewards, TypeOK, Applied, envVars
<1>19. ASSUME NEW u \in Users, SweepUser(u) PROVE TypeOK'
  <2>1. sweep' \in Sweep
    BY <1>19 DEF SweepUser, TypeOK, Sweep, HeldDevices
  <2> QED BY <1>19, <2>1 DEF SweepUser, TypeOK, dbVars, envVars
<1>20. ASSUME NEW d \in Devices, SweepRemoved(d) \/ SweepRefused(d) PROVE TypeOK'
  <2>1. sweep' \in Sweep
    <3>1. Marked(d, TRUE) \subseteq Devices /\ Marked(d, FALSE) \subseteq Devices
      BY DEF Marked
    <3>2. sweep \in Sweep
      BY DEF TypeOK
    <3>3. CASE SweepRemoved(d)
      BY <3>1, <3>2, <3>3, SweepUpdate DEF SweepRemoved
    <3>4. CASE SweepRefused(d)
      BY <3>1, <3>2, <3>4, SweepUpdate DEF SweepRefused
    <3> QED BY <1>20, <3>3, <3>4
  <2> QED BY <1>20, <2>1 DEF SweepRemoved, SweepRefused, TypeOK, dbVars, envVars
<1>21. ASSUME NEW d \in Devices, SweepTimesOut(d) PROVE TypeOK'
  BY <1>21 DEF SweepTimesOut, TypeOK, IdleSweep, Sweep, dbVars, envVars
<1>22. CASE SweepUserDone
  <2>1. sweep' \in Sweep
    <3>1. sweep.pc = "user" => Revoked(sweep.user, sweep.all) \subseteq Users
      BY DEF Revoked, TypeOK, Sweep, RequestInv
    <3> QED BY <1>22, <3>1 DEF SweepUserDone, TypeOK, Sweep
  <2> QED BY <1>22, <2>1 DEF SweepUserDone, TypeOK, dbVars, envVars
<1>23. CASE SweepCommit
  <2>1. sweep' \in Sweep
    BY <1>23 DEF SweepCommit, TypeOK, IdleSweep, Sweep, EndedTrials
  <2> QED BY <1>23, <2>1 DEF SweepCommit, TypeOK, envVars
<1>24. CASE SweepTrialsCommit
  BY <1>24 DEF SweepTrialsCommit, TypeOK, IdleSweep, Sweep, envVars
<1>25. CASE SweepCrash
  BY <1>25 DEF SweepCrash, TypeOK, IdleSweep, Sweep, dbVars, envVars
<1>26. CASE UNCHANGED vars
  BY <1>26 DEF vars, dbVars, envVars, TypeOK
<1> QED
  BY <1>1, <1>2, <1>3, <1>4, <1>5, <1>6, <1>7, <1>8, <1>9, <1>10, <1>11, <1>12,
     <1>13, <1>14, <1>15, <1>16, <1>17, <1>18, <1>19, <1>20, <1>21, <1>22, <1>23,
     <1>24, <1>25, <1>26
     DEF Next, Notify, RequestStep, SweepStep

\* One step keeps the bookkeeping of the requests.
LEMMA RequestInvStep == TypeOK /\ RequestInv /\ [Next]_vars => RequestInv'
<1> SUFFICES ASSUME TypeOK, RequestInv, [Next]_vars PROVE RequestInv'
  OBVIOUS
<1> USE ConstantsAssumption
<1>0. \A k \in Handlers : req[k] \in Request
  BY InHand
<1>1. CASE Tick
  BY <1>1 DEF Tick, dbVars, RequestInv
<1>2. ASSUME NEW p \in Payments, CreatePayment(p) PROVE RequestInv'
  <2>1. \A q \in Payments : /\ status[q] # "none" => status'[q] # "none"
                            /\ gw'[q] # gw[q] => status'[q] # "none"
    BY <1>2 DEF CreatePayment, InvoiceOpened, InvoiceRefused, TypeOK
  <2>2. UNCHANGED <<req, owed, sweep>>
    BY <1>2 DEF CreatePayment, InvoiceOpened, InvoiceRefused
  <2>3. \A q \in Payments : gw[q] # "none" => gw'[q] # "none"
    BY <1>2 DEF CreatePayment, InvoiceOpened, InvoiceRefused, TypeOK
  <2>4. \A k \in Handlers : req[k].pay # None => req[k].pay \in Payments
    BY <1>0 DEF Request
  <2> QED BY <2>1, <2>2, <2>3, <2>4 DEF RequestInv
<1>3. ASSUME NEW p \in Payments, GatewayMoves(p) PROVE RequestInv'
  BY <1>3 DEF GatewayMoves, RequestInv, TypeOK, dbVars
<1>4. ASSUME NEW h \in Handlers, NEW p \in Payments, Grant(h, p) PROVE RequestInv'
  BY <1>4 DEF Grant, StartActivation, RequestInv, TypeOK
<1>5. ASSUME NEW h \in Handlers, NEW p \in Payments, NEW m \in GwStatuses,
             PlategaCallback(h, p, m)
      PROVE  RequestInv'
  <2>1. status[p] # "none"
    BY <1>5 DEF PlategaCallback, Announced, RequestInv
  <2>2. UNCHANGED <<status, gw, sweep>>
    BY <1>5 DEF PlategaCallback, dbVars
  <2>3. CASE AlreadyPaid(p) /\ req' = req /\ owed' = [owed EXCEPT ![p] = @ \ {m}]
    BY <2>2, <2>3 DEF RequestInv, TypeOK
  <2>4. CASE /\ req' = [req EXCEPT ![h] = [IdleRequest EXCEPT !.pc = "loaded",
                                                              !.pay = p,
                                                              !.msg = m]]
             /\ owed' = owed
    BY <2>1, <2>2, <2>4 DEF IdleRequest, RequestInv, TypeOK
  <2> QED BY <1>5, <2>3, <2>4 DEF PlategaCallback
<1>6. ASSUME NEW h \in Handlers, NEW p \in Payments, NEW m \in GwStatuses,
             HeleketWebhook(h, p, m)
      PROVE  RequestInv'
  <2>1. status[p] # "none"
    BY <1>6 DEF HeleketWebhook, Announced, RequestInv
  <2>2. UNCHANGED <<status, gw, sweep>>
    BY <1>6 DEF HeleketWebhook, dbVars
  <2>3. CASE AlreadyPaid(p) /\ req' = req /\ owed' = [owed EXCEPT ![p] = @ \ {m}]
    BY <2>2, <2>3 DEF RequestInv, TypeOK
  <2>4. CASE StartActivation(h, p, m) /\ owed' = owed
    BY <2>1, <2>2, <2>4 DEF StartActivation, RequestInv, TypeOK
  <2>5. CASE /\ req' = [req EXCEPT ![h] = [IdleRequest EXCEPT !.pc = "status",
                                                              !.pay = p,
                                                              !.msg = m]]
             /\ owed' = owed
    BY <2>1, <2>2, <2>5 DEF IdleRequest, RequestInv, TypeOK
  <2> QED BY <1>6, <2>3, <2>4, <2>5 DEF HeleketWebhook
<1>7. ASSUME NEW h \in Handlers, FetchStatus(h) PROVE RequestInv'
  BY <1>7, InHand DEF FetchStatus, StartActivation, End, IdleRequest, RequestInv, TypeOK
<1>8. ASSUME NEW h \in Handlers, FetchFails(h) PROVE RequestInv'
  BY <1>8 DEF FetchFails, AckedOnFetchFailure, End, IdleRequest, RequestInv, TypeOK, dbVars
<1>9. ASSUME NEW h \in Handlers, WriteStatus(h) PROVE RequestInv'
  BY <1>9, InHand DEF WriteStatus, StatusFor, End, IdleRequest, RequestInv, TypeOK
<1>10. ASSUME NEW h \in Handlers, IssueOk(h) PROVE RequestInv'
  BY <1>10, <1>0 DEF IssueOk, RequestInv, TypeOK, Request, dbVars, envVars
<1>11. ASSUME NEW h \in Handlers, IssueRefused(h) PROVE RequestInv'
  BY <1>11, InHand DEF IssueRefused, End, IdleRequest, RequestInv, TypeOK
<1>12. ASSUME NEW h \in Handlers, IssueTimesOut(h) PROVE RequestInv'
  BY <1>12 DEF IssueTimesOut, End, IdleRequest, RequestInv, TypeOK, dbVars
<1>13. ASSUME NEW h \in Handlers, Commit(h) PROVE RequestInv'
  <2>1. /\ status' = [status EXCEPT ![req[h].pay] = "paid"]
        /\ UNCHANGED <<gw, sweep>>
        /\ req[h].pay \in Payments
        /\ \/ End(h, TRUE)
           \/ /\ req' = [req EXCEPT ![h] = [req[h] EXCEPT !.dev = None, !.pc = "clean"]]
              /\ owed' = owed
    BY <1>13, InHand DEF Commit
  <2>2. req[h].pc = "commit"
    BY <1>13 DEF Commit
  <2>3. CASE End(h, TRUE)
    BY <2>1, <2>3, <1>0 DEF End, IdleRequest, RequestInv, TypeOK
  <2>4. CASE /\ req' = [req EXCEPT ![h] = [req[h] EXCEPT !.dev = None, !.pc = "clean"]]
             /\ owed' = owed
    <3>1. \A k \in Handlers : /\ req'[k].pay = req[k].pay
                              /\ req'[k].dev \in {None, req[k].dev}
                              /\ k # h => req'[k] = req[k]
                              /\ k = h => req'[k].pc = "clean" /\ req'[k].dev = None
      BY <2>4, <1>0 DEF TypeOK, Request
    <3>2. \A q \in Payments : status[q] # "none" => status'[q] # "none"
      BY <2>1 DEF TypeOK
    <3>3. \A k \in Handlers : req[k].pay # None => req[k].pay \in Payments
      BY <1>0 DEF Request
    <3> QED BY <2>1, <2>2, <2>4, <3>1, <3>2, <3>3 DEF RequestInv
  <2> QED BY <2>1, <2>3, <2>4
<1>14. ASSUME NEW h \in Handlers, NEW d \in Devices, CleanTrial(h, d) PROVE RequestInv'
  <2>1. UNCHANGED <<status, gw, owed, sweep>>
    BY <1>14 DEF CleanTrial, dbVars, envVars
  <2>2. \A k \in Handlers : /\ req'[k].pay = req[k].pay
                            /\ req'[k].dev = req[k].dev
                            /\ req'[k].pc = req[k].pc
    <3>1. \/ req' = [req EXCEPT ![h] = [req[h] EXCEPT !.trials = @ \ {d}, !.gone = @ \cup {d}]]
          \/ req' = [req EXCEPT ![h] = [req[h] EXCEPT !.trials = @ \ {d}]]
      BY <1>14 DEF CleanTrial
    <3>2. req \in [Handlers -> Request] /\ req[h] \in Request
      BY <1>0 DEF TypeOK
    <3>3. CASE req' = [req EXCEPT ![h] = [req[h] EXCEPT !.trials = @ \ {d}, !.gone = @ \cup {d}]]
      BY <3>2, <3>3 DEF Request
    <3>4. CASE req' = [req EXCEPT ![h] = [req[h] EXCEPT !.trials = @ \ {d}]]
      BY <3>2, <3>4 DEF Request
    <3> QED BY <3>1, <3>3, <3>4
  <2> QED BY <2>1, <2>2 DEF RequestInv
<1>15. ASSUME NEW h \in Handlers, CleanCommit(h) PROVE RequestInv'
  BY <1>15 DEF CleanCommit, End, IdleRequest, RequestInv, TypeOK
<1>16. CASE WebCrash
  BY <1>16 DEF WebCrash, IdleRequest, RequestInv, TypeOK, dbVars, envVars
<1>17. CASE SweepStart
  BY <1>17 DEF SweepStart, IdleSweep, RequestInv, dbVars, envVars
<1>18. CASE SweepRewards
  BY <1>18 DEF SweepRewards, IdleSweep, RequestInv, envVars
<1>19. ASSUME NEW u \in Users, SweepUser(u) PROVE RequestInv'
  BY <1>19 DEF SweepUser, RequestInv, TypeOK, Sweep, dbVars, envVars
<1>20. ASSUME NEW d \in Devices, SweepRemoved(d) \/ SweepRefused(d) PROVE RequestInv'
  BY <1>20 DEF SweepRemoved, SweepRefused, RequestInv, TypeOK, Sweep, dbVars, envVars
<1>21. ASSUME NEW d \in Devices, SweepTimesOut(d) PROVE RequestInv'
  BY <1>21 DEF SweepTimesOut, IdleSweep, RequestInv, dbVars, envVars
<1>22. CASE SweepUserDone
  BY <1>22 DEF SweepUserDone, RequestInv, TypeOK, Sweep, dbVars, envVars
<1>23. CASE SweepCommit
  BY <1>23 DEF SweepCommit, IdleSweep, RequestInv, envVars
<1>24. CASE SweepTrialsCommit
  BY <1>24 DEF SweepTrialsCommit, IdleSweep, RequestInv, envVars
<1>25. CASE SweepCrash
  BY <1>25 DEF SweepCrash, IdleSweep, RequestInv, dbVars, envVars
<1>26. CASE UNCHANGED vars
  BY <1>26 DEF vars, dbVars, envVars, RequestInv
<1> QED
  BY <1>1, <1>2, <1>3, <1>4, <1>5, <1>6, <1>7, <1>8, <1>9, <1>10, <1>11, <1>12,
     <1>13, <1>14, <1>15, <1>16, <1>17, <1>18, <1>19, <1>20, <1>21, <1>22, <1>23,
     <1>24, <1>25, <1>26
     DEF Next, Notify, RequestStep, SweepStep

\* Every variable keeps its type through every request, notification, sweep
\* step and failure; no request ever works on a payment that does not exist.
THEOREM TypeCorrect == Spec => [](TypeOK /\ RequestInv)
<1>1. Init => TypeOK /\ RequestInv
  BY ConstantsAssumption DEF Init, TypeOK, RequestInv, IdleRequest, Request,
     IdleSweep, Sweep, Statuses, GwStatuses
<1>2. TypeOK /\ RequestInv /\ [Next]_vars => (TypeOK /\ RequestInv)'
  BY TypeStep, RequestInvStep
<1> QED BY <1>1, <1>2, PTL DEF Spec

-----------------------------------------------------------------------------
(* Confirmation                                                            *)

\* What a request that ends leaves behind.
LEMMA EndFacts ==
    ASSUME TypeOK, RequestInv, NEW h \in Handlers, NEW a \in BOOLEAN, End(h, a)
    PROVE  /\ req' = [req EXCEPT ![h] = IdleRequest]
           /\ \A k \in Handlers : req'[k] = IF k = h THEN IdleRequest ELSE req[k]
           /\ \A p \in Payments : owed'[p] \subseteq owed[p]
<1>1. req[h].pay \in Payments \cup {None}
  BY DEF TypeOK, Request
<1> QED BY <1>1 DEF End, TypeOK

\* The clock and the sweep touch neither requests nor payments.
LEMMA Elsewhere ==
    ASSUME Tick \/ SweepStep \/ SweepCrash \/ UNCHANGED vars
    PROVE  UNCHANGED <<req, gw, owed, acts, met, status>>
BY DEF Tick, SweepStep, SweepCrash, SweepStart, SweepRewards, SweepUserDone, SweepCommit,
       SweepTrialsCommit, SweepUser, SweepRemoved, SweepRefused, SweepTimesOut,
       vars, dbVars, envVars

\* A step that starts no activation, moves no gateway and commits nothing.
LEMMA ConfirmedFrame ==
    ASSUME TypeOK, ConfirmedInv, UNCHANGED <<gw, acts>>,
           \A p \in Payments : owed'[p] \subseteq owed[p],
           \A k \in Handlers :
              \/ req'[k] = req[k]
              \/ req'[k].pc \notin {"issue", "commit"}
              \/ req'[k].pay = req[k].pay /\ req[k].pc \in {"issue", "commit"}
    PROVE  ConfirmedInv'
BY DEF ConfirmedInv, ActivatedOnlyIfConfirmed

\* An activation of p that begins while the gateway holds p to be paid.
LEMMA ConfirmedStart ==
    ASSUME TypeOK, ConfirmedInv, UNCHANGED <<gw, acts, owed>>,
           NEW h \in Handlers, NEW p \in Payments, NEW m \in GwStatuses,
           StartActivation(h, p, m),
           Provider[p] # "manual" => gw[p] \in Settled
    PROVE  ConfirmedInv'
<1>1. \A k \in Handlers : k # h => req'[k] = req[k]
  BY DEF StartActivation, TypeOK
<1>2. req'[h].pay = p
  BY DEF StartActivation, TypeOK
<1> QED BY <1>1, <1>2 DEF ConfirmedInv, ActivatedOnlyIfConfirmed

LEMMA ConfirmedStep ==
    TypeOK /\ RequestInv /\ ConfirmedInv /\ [Next]_vars => ConfirmedInv'
<1> SUFFICES ASSUME TypeOK, RequestInv, ConfirmedInv, [Next]_vars PROVE ConfirmedInv'
  OBVIOUS
<1>0. \A k \in Handlers : req[k] \in Request
  BY InHand
<1>1. CASE Tick \/ SweepStep \/ SweepCrash \/ UNCHANGED vars
  BY <1>1, Elsewhere, ConfirmedFrame
<1>2. ASSUME NEW p \in Payments, CreatePayment(p) PROVE ConfirmedInv'
  <2>1. gw[p] = "none"
    BY <1>2 DEF CreatePayment, InvoiceOpened, InvoiceRefused, RequestInv
  <2>2. \A q \in Payments : gw[q] \in Settled => gw'[q] = gw[q]
    BY <1>2, <2>1 DEF CreatePayment, InvoiceOpened, InvoiceRefused, TypeOK, Settled
  <2>3. UNCHANGED <<acts, owed, req>>
    BY <1>2 DEF CreatePayment, InvoiceOpened, InvoiceRefused
  <2>4. \A k \in Handlers : req[k].pc # "idle" => req[k].pay \in Payments
    BY InHand
  <2> QED BY <2>2, <2>3, <2>4 DEF ConfirmedInv, ActivatedOnlyIfConfirmed, Settled
<1>3. ASSUME NEW p \in Payments, GatewayMoves(p) PROVE ConfirmedInv'
  <2>1. PICK g \in GwStatuses :
          /\ <<gw[p], g>> \in {<<"PENDING", "CONFIRMED">>, <<"PENDING", "CANCELED">>,
                              <<"PENDING", "SHORT">>, <<"CONFIRMED", "CHARGEBACKED">>}
          /\ gw' = [gw EXCEPT ![p] = g]
          /\ owed' = [owed EXCEPT ![p] = @ \cup {g}]
    BY <1>3 DEF GatewayMoves
  <2>2. \A q \in Payments : gw[q] \in Settled => gw'[q] \in Settled
    BY <2>1 DEF TypeOK, Settled
  <2>3. \A q \in Payments : "CONFIRMED" \in owed'[q] => gw'[q] \in Settled
    BY <2>1, <2>2 DEF TypeOK, Settled, ConfirmedInv
  <2>4. UNCHANGED <<acts, req>>
    BY <1>3 DEF GatewayMoves
  <2>5. \A k \in Handlers : req[k].pc # "idle" => req[k].pay \in Payments
    BY InHand
  <2> QED BY <2>2, <2>3, <2>4, <2>5 DEF ConfirmedInv, ActivatedOnlyIfConfirmed, Settled
<1>4. ASSUME NEW h \in Handlers, NEW p \in Payments, Grant(h, p) PROVE ConfirmedInv'
  BY <1>4, ConfirmedStart DEF Grant, GwStatuses
<1>5. ASSUME NEW h \in Handlers, NEW p \in Payments, NEW m \in GwStatuses,
             PlategaCallback(h, p, m)
      PROVE  ConfirmedInv'
  <2>1. UNCHANGED <<gw, acts>> /\ \A q \in Payments : owed'[q] \subseteq owed[q]
    BY <1>5 DEF PlategaCallback, TypeOK
  <2>2. \A k \in Handlers : req'[k] = req[k] \/ req'[k].pc = "loaded"
    BY <1>5 DEF PlategaCallback, IdleRequest, TypeOK
  <2> QED BY <2>1, <2>2, ConfirmedFrame
<1>6. ASSUME NEW h \in Handlers, NEW p \in Payments, NEW m \in GwStatuses,
             HeleketWebhook(h, p, m)
      PROVE  ConfirmedInv'
  <2>1. UNCHANGED <<gw, acts>> /\ \A q \in Payments : owed'[q] \subseteq owed[q]
    BY <1>6 DEF HeleketWebhook, TypeOK
  <2>2. CASE m = "CONFIRMED" /\ StartActivation(h, p, m) /\ owed' = owed
    <3>1. gw[p] \in Settled
      BY <1>6, <2>2 DEF HeleketWebhook, Announced, ConfirmedInv, Settled
    <3> QED BY <2>1, <2>2, <3>1, ConfirmedStart
  <2>3. CASE req' = req
    BY <2>1, <2>3, ConfirmedFrame
  <2>4. CASE req' = [req EXCEPT ![h] = [IdleRequest EXCEPT !.pc = "status",
                                                           !.pay = p,
                                                           !.msg = m]]
    <3>1. \A k \in Handlers : req'[k] = req[k] \/ req'[k].pc = "status"
      BY <2>4 DEF IdleRequest, TypeOK
    <3> QED BY <2>1, <3>1, ConfirmedFrame
  <2> QED BY <1>6, <2>2, <2>3, <2>4 DEF HeleketWebhook
<1>7. ASSUME NEW h \in Handlers, NEW a \in BOOLEAN, End(h, a), UNCHANGED <<gw, acts>>
      PROVE  ConfirmedInv'
  <2>1. \A k \in Handlers : req'[k] = req[k] \/ req'[k].pc = "idle"
    BY <1>7, EndFacts DEF IdleRequest
  <2> QED BY <1>7, <2>1, EndFacts, ConfirmedFrame
<1>8. ASSUME NEW h \in Handlers, FetchStatus(h) PROVE ConfirmedInv'
  <2>1. UNCHANGED <<gw, acts>> /\ req[h].pay \in Payments /\ req[h].msg \in GwStatuses
    BY <1>8, InHand DEF FetchStatus
  <2>2. CASE /\ Confirmed(req[h].pay) /\ owed' = owed
             /\ StartActivation(h, req[h].pay, req[h].msg)
    BY <2>1, <2>2, ConfirmedStart DEF Confirmed, Settled
  <2>3. CASE End(h, TRUE)
    BY <1>7, <2>1, <2>3
  <2> QED BY <1>8, <2>2, <2>3 DEF FetchStatus
<1>9. ASSUME NEW h \in Handlers,
             \/ FetchFails(h) \/ WriteStatus(h) \/ IssueRefused(h)
             \/ IssueTimesOut(h) \/ CleanCommit(h)
      PROVE  ConfirmedInv'
  <2>1. /\ UNCHANGED <<gw, acts>>
        /\ End(h, TRUE) \/ End(h, FALSE)
    BY <1>9 DEF FetchFails, WriteStatus, IssueRefused, IssueTimesOut, CleanCommit,
                AckedOnFetchFailure
  <2> QED BY <1>7, <2>1
<1>10. ASSUME NEW h \in Handlers, IssueOk(h) PROVE ConfirmedInv'
  <2>1. UNCHANGED <<gw, acts, owed>>
    BY <1>10 DEF IssueOk, envVars
  <2>2. \A k \in Handlers :
          \/ req'[k] = req[k]
          \/ req'[k].pay = req[k].pay /\ req[k].pc \in {"issue", "commit"}
    <3>1. PICK d \in Devices :
            req' = [req EXCEPT ![h] = [req[h] EXCEPT !.dev = d, !.pc = "commit"]]
      BY <1>10 DEF IssueOk
    <3>2. req[h].pc = "issue"
      BY <1>10 DEF IssueOk
    <3> QED BY <3>1, <3>2, <1>0 DEF TypeOK, Request
  <2> QED BY <2>1, <2>2, ConfirmedFrame
<1>11. ASSUME NEW h \in Handlers, Commit(h) PROVE ConfirmedInv'
  <2> DEFINE p == req[h].pay
  <2>1. /\ p \in Payments /\ req[h].pc = "commit" /\ gw' = gw
        /\ acts' = [acts EXCEPT ![p] = @ + 1]
    BY <1>11, InHand DEF Commit
  <2>2. Provider[p] # "manual" => gw[p] \in Settled
    BY <2>1 DEF ConfirmedInv
  <2>3. ActivatedOnlyIfConfirmed'
    BY <2>1, <2>2 DEF ConfirmedInv, ActivatedOnlyIfConfirmed, Settled, TypeOK
  <2>4. \A q \in Payments : owed'[q] \subseteq owed[q]
    BY <1>11, EndFacts DEF Commit
  <2>5. \A k \in Handlers : req'[k] = req[k] \/ req'[k].pc \in {"idle", "clean"}
    <3>1. CASE End(h, TRUE)
      <4>1. \A k \in Handlers : req'[k] = IF k = h THEN IdleRequest ELSE req[k]
        BY <3>1, EndFacts
      <4> QED BY <4>1 DEF IdleRequest
    <3>2. CASE req' = [req EXCEPT ![h] = [req[h] EXCEPT !.dev = None, !.pc = "clean"]]
      BY <3>2, <1>0 DEF TypeOK, Request
    <3> QED BY <1>11, <3>1, <3>2 DEF Commit
  <2> QED BY <2>1, <2>3, <2>4, <2>5 DEF ConfirmedInv
<1>12. ASSUME NEW h \in Handlers, NEW d \in Devices, CleanTrial(h, d) PROVE ConfirmedInv'
  <2>1. UNCHANGED <<gw, acts, owed>>
    BY <1>12 DEF CleanTrial, envVars
  <2>2. \A k \in Handlers : req'[k] = req[k] \/ req'[k].pc = "clean"
    <3>1. /\ req[h] \in Request /\ req[h].pc = "clean"
          /\ req \in [Handlers -> Request]
      BY <1>0, <1>12 DEF CleanTrial, TypeOK
    <3>2. CASE req' = [req EXCEPT ![h] = [req[h] EXCEPT !.trials = @ \ {d}, !.gone = @ \cup {d}]]
      BY <3>1, <3>2 DEF Request
    <3>3. CASE req' = [req EXCEPT ![h] = [req[h] EXCEPT !.trials = @ \ {d}]]
      BY <3>1, <3>3 DEF Request
    <3> QED BY <1>12, <3>2, <3>3 DEF CleanTrial
  <2> QED BY <2>1, <2>2, ConfirmedFrame
<1>13. CASE WebCrash
  <2>1. UNCHANGED <<gw, acts, owed>> /\ \A k \in Handlers : req'[k].pc = "idle"
    BY <1>13 DEF WebCrash, envVars, IdleRequest
  <2> QED BY <2>1, ConfirmedFrame
<1> QED
  BY <1>1, <1>2, <1>3, <1>4, <1>5, <1>6, <1>8, <1>9, <1>10, <1>11, <1>12, <1>13
     DEF Next, Notify, RequestStep

\* No time is granted for money the gateway does not hold to be paid in full,
\* whatever it sends, repeats or delays and whatever fails in between.
THEOREM NothingUnpaid == Spec => []ActivatedOnlyIfConfirmed
<1>1. Init => ConfirmedInv
  BY DEF Init, ConfirmedInv, ActivatedOnlyIfConfirmed, IdleRequest
<1>2. ConfirmedInv => ActivatedOnlyIfConfirmed
  BY DEF ConfirmedInv
<1> QED BY <1>1, <1>2, TypeCorrect, ConfirmedStep, PTL DEF Spec

-----------------------------------------------------------------------------
(* Activation at most once                                                 *)

\* A step in which requests at most end or go on, and nothing is written.
LEMMA OnceFrame ==
    ASSUME TypeOK, OnceInv, UNCHANGED <<acts, status, met>>,
           \A k \in Handlers :
              \/ req'[k].pay = None
              \/ /\ req'[k].pay = req[k].pay
                 /\ req[k].pc = "clean" => req'[k].pc = "clean"
    PROVE  OnceInv'
<1>1. \A p \in Payments : p # None
  BY ConstantsAssumption
<1> QED BY <1>1 DEF OnceInv

\* A request that had not yet activated its payment p writes p's status and ends.
LEMMA OnceWrite ==
    ASSUME TypeOK, RequestInv, OnceInv, UNCHANGED <<acts, met>>,
           NEW h \in Handlers, NEW a \in BOOLEAN, End(h, a),
           NEW p \in Payments, req[h].pay = p, req[h].pc # "clean",
           \A q \in Payments \ {p} : status'[q] = status[q]
    PROVE  OnceInv'
<1>1. \A k \in Handlers : req'[k] = IF k = h THEN IdleRequest ELSE req[k]
  BY EndFacts
<1>2. IdleRequest.pay = None /\ \A q \in Payments : q # None
  BY ConstantsAssumption DEF IdleRequest
<1>3. p \notin met => acts[p] # 1
  BY DEF OnceInv
<1> QED BY <1>1, <1>2, <1>3 DEF OnceInv

\* An idle request takes a payment that is not marked paid.
LEMMA OnceTake ==
    ASSUME TypeOK, OnceInv, acts' = acts,
           NEW h \in Handlers, NEW p \in Payments, status[p] # "paid",
           met \subseteq met',
           (\E k \in Handlers \ {h} : req[k].pay = p) => p \in met',
           \A q \in Payments \ {p} : status'[q] = status[q],
           \A k \in Handlers \ {h} : req'[k] = req[k],
           req'[h].pay = p
    PROVE  OnceInv'
<1>1. p \notin met' => acts[p] # 1 /\ \A k \in Handlers \ {h} : req[k].pay # p
  BY DEF OnceInv
<1>2. ASSUME NEW q \in Payments, q \notin met', q # p
      PROVE  /\ acts'[q] <= 1
             /\ acts'[q] = 1 => /\ status'[q] = "paid"
                                /\ \A k \in Handlers : req'[k].pay = q => req'[k].pc = "clean"
             /\ \A i, k \in Handlers : req'[i].pay = q /\ req'[k].pay = q => i = k
  BY <1>2 DEF OnceInv
<1>3. ASSUME p \notin met'
      PROVE  /\ acts'[p] <= 1 /\ acts'[p] # 1
             /\ \A i, k \in Handlers : req'[i].pay = p /\ req'[k].pay = p => i = k
  BY <1>1, <1>3 DEF OnceInv
<1> QED BY <1>2, <1>3 DEF OnceInv

LEMMA OnceStep == TypeOK /\ RequestInv /\ OnceInv /\ [Next]_vars => OnceInv'
<1> SUFFICES ASSUME TypeOK, RequestInv, OnceInv, [Next]_vars PROVE OnceInv'
  OBVIOUS
<1>0. \A k \in Handlers : req[k] \in Request
  BY InHand
<1>1. CASE Tick \/ SweepStep \/ SweepCrash \/ UNCHANGED vars
  BY <1>1, Elsewhere, OnceFrame
<1>2. ASSUME NEW p \in Payments, CreatePayment(p) PROVE OnceInv'
  <2>1. /\ status[p] = "none" /\ UNCHANGED <<acts, met, req>>
        /\ \A q \in Payments \ {p} : status'[q] = status[q]
    BY <1>2 DEF CreatePayment, InvoiceOpened, InvoiceRefused, TypeOK
  <2> QED BY <2>1 DEF OnceInv
<1>3. ASSUME NEW p \in Payments, GatewayMoves(p) PROVE OnceInv'
  <2>1. UNCHANGED <<acts, status, met, req>>
    BY <1>3 DEF GatewayMoves, dbVars
  <2> QED BY <2>1, OnceFrame
<1>4. ASSUME NEW h \in Handlers, NEW p \in Payments, Grant(h, p) PROVE OnceInv'
  <2>1. /\ status[p] = "none" /\ UNCHANGED <<acts, met>>
        /\ \A q \in Payments \ {p} : status'[q] = status[q]
    BY <1>4 DEF Grant, TypeOK
  <2>2. /\ \A k \in Handlers \ {h} : req'[k] = req[k]
        /\ req'[h].pay = p
    BY <1>4 DEF Grant, StartActivation, TypeOK
  <2>3. \A k \in Handlers : req[k].pay # p
    BY <2>1, ConstantsAssumption DEF RequestInv
  <2> QED BY <2>1, <2>2, <2>3, OnceTake
<1>5. ASSUME NEW h \in Handlers, NEW p \in Payments, NEW m \in GwStatuses,
             PlategaCallback(h, p, m) \/ HeleketWebhook(h, p, m)
      PROVE  OnceInv'
  <2>1. UNCHANGED <<acts, status>>
    BY <1>5 DEF PlategaCallback, HeleketWebhook, dbVars
  <2>2. CASE req' = req /\ met' = met
    BY <2>1, <2>2, OnceFrame
  <2>3. ASSUME ~AlreadyPaid(p), NoteMeeting(h, p),
               \/ req' = [req EXCEPT ![h] = [IdleRequest EXCEPT !.pc = "loaded",
                                                                !.pay = p, !.msg = m]]
               \/ req' = [req EXCEPT ![h] = [IdleRequest EXCEPT !.pc = "status",
                                                                !.pay = p, !.msg = m]]
               \/ StartActivation(h, p, m)
        PROVE  OnceInv'
    <3>1. status[p] # "paid"
      BY <2>3 DEF AlreadyPaid
    <3>2. /\ met \subseteq met'
          /\ (\E k \in Handlers \ {h} : req[k].pay = p) => p \in met'
      BY <2>3 DEF NoteMeeting
    <3>3. /\ \A k \in Handlers \ {h} : req'[k] = req[k]
          /\ req'[h].pay = p
      <4>0. \A c \in {"loaded", "status"} :
              [IdleRequest EXCEPT !.pc = c, !.pay = p, !.msg = m].pay = p
        BY DEF IdleRequest
      <4>1. ASSUME NEW c \in {"loaded", "status"},
                   req' = [req EXCEPT ![h] = [IdleRequest EXCEPT !.pc = c, !.pay = p, !.msg = m]]
            PROVE  /\ \A k \in Handlers \ {h} : req'[k] = req[k]
                   /\ req'[h].pay = p
        BY <4>0, <4>1 DEF TypeOK
      <4>2. CASE StartActivation(h, p, m)
        BY <4>2 DEF StartActivation, TypeOK
      <4> QED BY <2>3, <4>1, <4>2
    <3> QED BY <2>1, <3>1, <3>2, <3>3, OnceTake
  <2> QED BY <1>5, <2>2, <2>3 DEF PlategaCallback, HeleketWebhook
<1>6. ASSUME NEW h \in Handlers,
             \/ FetchFails(h) \/ WriteStatus(h) \/ IssueRefused(h) \/ IssueTimesOut(h)
      PROVE  OnceInv'
  <2>1. /\ UNCHANGED <<acts, met>>
        /\ End(h, TRUE) \/ End(h, FALSE)
        /\ req[h].pc \in {"loaded", "status", "issue"}
    BY <1>6 DEF FetchFails, WriteStatus, IssueRefused, IssueTimesOut, AckedOnFetchFailure
  <2>2. req[h].pay \in Payments
    BY <2>1, InHand
  <2>3. \A q \in Payments \ {req[h].pay} : status'[q] = status[q]
    BY <1>6, <2>2 DEF FetchFails, WriteStatus, IssueRefused, IssueTimesOut, TypeOK, dbVars
  <2> QED BY <2>1, <2>2, <2>3, OnceWrite
<1>7. ASSUME NEW h \in Handlers, FetchStatus(h) PROVE OnceInv'
  <2>1. /\ UNCHANGED <<acts, met>> /\ req[h].pc = "loaded" /\ req[h].pay \in Payments
    BY <1>7, InHand DEF FetchStatus
  <2>2. CASE StartActivation(h, req[h].pay, req[h].msg) /\ status' = status
    <3>1. \A k \in Handlers : /\ k # h => req'[k] = req[k]
                              /\ k = h => req'[k].pay = req[k].pay
      BY <2>2 DEF StartActivation, TypeOK
    <3> QED BY <2>1, <2>2, <3>1, OnceFrame
  <2>3. CASE End(h, TRUE)
    <3>1. \A q \in Payments \ {req[h].pay} : status'[q] = status[q]
      BY <1>7, <2>1 DEF FetchStatus, TypeOK
    <3> QED BY <2>1, <2>3, <3>1, OnceWrite
  <2> QED BY <1>7, <2>2, <2>3 DEF FetchStatus
<1>8. ASSUME NEW h \in Handlers, IssueOk(h) PROVE OnceInv'
  <2>1. UNCHANGED <<acts, status, met>> /\ req[h].pc = "issue"
    BY <1>8 DEF IssueOk, dbVars
  <2>2. \A k \in Handlers : /\ req'[k].pay = req[k].pay
                            /\ k # h => req'[k] = req[k]
    <3>1. PICK d \in Devices :
            req' = [req EXCEPT ![h] = [req[h] EXCEPT !.dev = d, !.pc = "commit"]]
      BY <1>8 DEF IssueOk
    <3> QED BY <3>1, <1>0 DEF TypeOK, Request
  <2> QED BY <2>1, <2>2, OnceFrame
<1>9. ASSUME NEW h \in Handlers, Commit(h) PROVE OnceInv'
  <2> DEFINE p == req[h].pay
  <2>1. /\ p \in Payments /\ req[h].pc = "commit" /\ met' = met
        /\ acts' = [acts EXCEPT ![p] = @ + 1]
        /\ status' = [status EXCEPT ![p] = "paid"]
    BY <1>9, InHand DEF Commit
  <2>2. \A k \in Handlers : /\ k # h => req'[k] = req[k]
                            /\ k = h => req'[k].pay = None \/ (req'[k].pay = p /\ req'[k].pc = "clean")
    <3>1. CASE End(h, TRUE)
      BY <3>1 DEF End, IdleRequest, TypeOK
    <3>2. CASE req' = [req EXCEPT ![h] = [req[h] EXCEPT !.dev = None, !.pc = "clean"]]
      BY <3>2, <1>0 DEF TypeOK, Request
    <3> QED BY <1>9, <3>1, <3>2 DEF Commit
  <2>3. \A q \in Payments : q # None /\ acts[q] \in Nat
    BY ConstantsAssumption DEF TypeOK
  <2>4. /\ \A q \in Payments \ {p} : acts'[q] = acts[q] /\ status'[q] = status[q]
        /\ acts'[p] = acts[p] + 1 /\ status'[p] = "paid"
    BY <2>1 DEF TypeOK
  <2>5. ASSUME p \notin met
        PROVE  /\ acts'[p] = 1
               /\ \A k \in Handlers \ {h} : req'[k].pay # p
    <3>1. acts[p] <= 1 /\ acts[p] # 1 /\ \A k \in Handlers \ {h} : req[k].pay # p
      BY <2>1, <2>5 DEF OnceInv
    <3> QED BY <2>1, <2>2, <2>3, <2>4, <3>1
  <2>6. ASSUME NEW q \in Payments \ met, q # p
        PROVE  /\ acts'[q] <= 1
               /\ acts'[q] = 1 => /\ status'[q] = "paid"
                                  /\ \A k \in Handlers : req'[k].pay = q => req'[k].pc = "clean"
               /\ \A i, k \in Handlers : req'[i].pay = q /\ req'[k].pay = q => i = k
    BY <2>2, <2>3, <2>4, <2>6 DEF OnceInv
  <2>7. ASSUME p \notin met
        PROVE  /\ acts'[p] <= 1
               /\ acts'[p] = 1 => /\ status'[p] = "paid"
                                  /\ \A k \in Handlers : req'[k].pay = p => req'[k].pc = "clean"
               /\ \A i, k \in Handlers : req'[i].pay = p /\ req'[k].pay = p => i = k
    BY <2>1, <2>2, <2>3, <2>4, <2>5, <2>7
  <2> QED BY <2>1, <2>6, <2>7 DEF OnceInv
<1>10. ASSUME NEW h \in Handlers, NEW d \in Devices, CleanTrial(h, d) PROVE OnceInv'
  <2>1. UNCHANGED <<acts, status, met>>
    BY <1>10 DEF CleanTrial, dbVars
  <2>2. \A k \in Handlers : req'[k].pay = req[k].pay /\ req'[k].pc = req[k].pc
    <3>1. req[h] \in Request /\ req \in [Handlers -> Request]
      BY <1>0 DEF TypeOK
    <3>2. CASE req' = [req EXCEPT ![h] = [req[h] EXCEPT !.trials = @ \ {d}, !.gone = @ \cup {d}]]
      BY <3>1, <3>2 DEF Request
    <3>3. CASE req' = [req EXCEPT ![h] = [req[h] EXCEPT !.trials = @ \ {d}]]
      BY <3>1, <3>3 DEF Request
    <3> QED BY <1>10, <3>2, <3>3 DEF CleanTrial
  <2> QED BY <2>1, <2>2, OnceFrame
<1>11. ASSUME NEW h \in Handlers, CleanCommit(h) PROVE OnceInv'
  <2>1. UNCHANGED <<acts, status, met>> /\ End(h, TRUE)
    BY <1>11 DEF CleanCommit
  <2>2. \A k \in Handlers : req'[k].pay = None \/ req'[k] = req[k]
    BY <2>1 DEF End, IdleRequest, TypeOK
  <2> QED BY <2>1, <2>2, OnceFrame
<1>12. CASE WebCrash
  <2>1. UNCHANGED <<acts, status, met>> /\ \A k \in Handlers : req'[k].pay = None
    BY <1>12 DEF WebCrash, dbVars, IdleRequest
  <2> QED BY <2>1, OnceFrame
<1> QED
  BY <1>1, <1>2, <1>3, <1>4, <1>5, <1>6, <1>7, <1>8, <1>9, <1>10, <1>11, <1>12
     DEF Next, Notify, RequestStep

\* A payment that no two requests had in hand at once is activated once at
\* most: repeats, late messages and retries after a failure change nothing.
THEOREM OnceUnlessMet == Spec => []OnceIfNeverMet
<1>1. Init => OnceInv
  BY ConstantsAssumption DEF Init, OnceInv, IdleRequest
<1>2. OnceInv => OnceIfNeverMet
  BY DEF OnceInv, OnceIfNeverMet
<1> QED BY <1>1, <1>2, TypeCorrect, OnceStep, PTL DEF Spec

-----------------------------------------------------------------------------
(* The node and the rows                                                   *)

\* A step that leaves rows and node alone: what requests and sweep hold is as
\* before, and what they have still to remove belongs to a row.
LEMMA NodeFrame ==
    ASSUME TypeOK, NodeInv, UNCHANGED <<owner, active, peers, dropped>>,
           \A k \in Handlers : /\ req'[k].dev = req[k].dev
                               /\ req'[k].gone = req[k].gone
                               /\ \A d \in req'[k].trials : owner[d] # None
                               /\ req'[k].gone # {} => req'[k].pc = "clean",
           sweep'.gone = sweep.gone,
           \A d \in sweep'.todo : owner[d] # None,
           sweep'.gone # {} => sweep'.pc \notin {"idle", "rewards"}
    PROVE  NodeInv'
<1>1. RemovalInv'
  BY DEF NodeInv, RemovalInv
<1>2. PeersHeldOnce' /\ RevokedIsOff'
  BY DEF NodeInv, PeersHeldOnce, RevokedIsOff
<1>3. NodeMatchesRows'
  BY DEF NodeInv, NodeMatchesRows
<1> QED BY <1>1, <1>2, <1>3 DEF NodeInv

\* RemovalInv, taken apart.
LEMMA RemovalFacts ==
    ASSUME RemovalInv
    PROVE  /\ \A k \in Handlers : /\ \A d \in req[k].trials : owner[d] # None
                                  /\ \A d \in req[k].gone : owner[d] # None /\ d \notin peers
                                  /\ req[k].gone # {} => req[k].pc = "clean"
           /\ \A d \in sweep.todo : owner[d] # None
           /\ \A d \in sweep.gone : owner[d] # None /\ d \notin peers
           /\ sweep.gone # {} => sweep.pc \notin {"idle", "rewards"}
<1>1. ASSUME NEW k \in Handlers
      PROVE  /\ \A d \in req[k].trials : owner[d] # None
             /\ \A d \in req[k].gone : owner[d] # None /\ d \notin peers
             /\ req[k].gone # {} => req[k].pc = "clean"
  <2>1. /\ \A d \in req[k].trials \cup req[k].gone : owner[d] # None
        /\ req[k].gone \cap peers = {}
        /\ req[k].gone # {} => req[k].pc = "clean"
    BY DEF RemovalInv
  <2> QED BY <2>1
<1>2. /\ \A d \in sweep.todo : owner[d] # None
      /\ \A d \in sweep.gone : owner[d] # None /\ d \notin peers
      /\ sweep.gone # {} => sweep.pc \notin {"idle", "rewards"}
  BY DEF RemovalInv
<1> QED BY <1>1, <1>2

\* A request that holds no peer and no confirmation starts or ends.
LEMMA NodeRequest ==
    ASSUME TypeOK, NodeInv, UNCHANGED <<owner, active, peers, dropped, sweep>>,
           NEW h \in Handlers, req[h].dev = None, req[h].gone = {},
           \A k \in Handlers \ {h} : req'[k] = req[k],
           req'[h].dev = None, req'[h].gone = {},
           \A d \in req'[h].trials : owner[d] # None
    PROVE  NodeInv'
<1>1. \A k \in Handlers : /\ req'[k].dev = req[k].dev
                          /\ req'[k].gone = req[k].gone
                          /\ \A d \in req'[k].trials : owner[d] # None
                          /\ req'[k].gone # {} => req'[k].pc = "clean"
  <2>1. ASSUME NEW k \in Handlers, k # h
        PROVE  /\ req'[k] = req[k]
               /\ \A d \in req[k].trials : owner[d] # None
               /\ req[k].gone # {} => req[k].pc = "clean"
    BY <2>1, RemovalFacts DEF NodeInv
  <2> QED BY <2>1
<1>2. /\ \A d \in sweep'.todo : owner[d] # None
      /\ sweep'.gone # {} => sweep'.pc \notin {"idle", "rewards"}
  BY DEF NodeInv, RemovalInv
<1> QED BY <1>1, <1>2, NodeFrame

LEMMA TrialsOwned ==
    ASSUME TypeOK, NEW u \in Users
    PROVE  /\ \A d \in HeldTrials(u) : d \in Devices /\ owner[d] # None
           /\ \A d \in HeldDevices(u) : owner[d] # None
BY ConstantsAssumption DEF HeldTrials, HeldDevices

\* The node takes a fresh peer: into the hands of request h, or nobody's.
LEMMA NodeTakes ==
    ASSUME TypeOK, NodeInv, UNCHANGED <<owner, active, sweep>>,
           NEW h \in Handlers, NEW d \in Devices, Fresh(d),
           req[h].dev = None, req[h].gone = {},
           peers' = peers \cup {d},
           \A k \in Handlers \ {h} : req'[k] = req[k],
           req'[h].gone = {},
           \A t \in req'[h].trials : owner[t] # None,
           \/ req'[h].dev = d /\ dropped' = dropped
           \/ req'[h].dev = None /\ dropped' = dropped \cup {d}
    PROVE  NodeInv'
<1>1. /\ owner[d] = None /\ d \notin peers /\ \A k \in Handlers : req[k].dev # d
      /\ d # None
  BY ConstantsAssumption DEF Fresh
<1>2. RemovalInv'
  BY <1>1 DEF NodeInv, RemovalInv
<1>3. PeersHeldOnce'
  BY <1>1 DEF NodeInv, PeersHeldOnce
<1>4. RevokedIsOff'
  BY <1>1 DEF NodeInv, RevokedIsOff
<1>5. NodeMatchesRows'
  <2>1. \A k \in Handlers : req'[k].gone = req[k].gone
    OBVIOUS
  <2>2. \A k \in Handlers : req[k].dev # None => req'[k].dev = req[k].dev
    OBVIOUS
  <2>3. ASSUME NEW x \in Devices, x \in peers'
        PROVE  \/ owner'[x] # None /\ active'[x]
               \/ \E k \in Handlers : req'[k].dev = x
               \/ x \in dropped'
    <3>1. CASE x = d
      BY <3>1
    <3>2. CASE x # d
      <4>1. x \in peers /\ x # None
        BY <2>3, <3>2, ConstantsAssumption
      <4> QED BY <2>2, <4>1 DEF NodeInv, NodeMatchesRows
    <3> QED BY <3>1, <3>2
  <2>4. ASSUME NEW x \in Devices, active'[x]
        PROVE  \/ x \in peers'
               \/ x \in sweep'.gone
               \/ \E k \in Handlers : x \in req'[k].gone
               \/ x \in dropped'
    BY <2>1, <2>4 DEF NodeInv, NodeMatchesRows
  <2> QED BY <2>3, <2>4 DEF NodeMatchesRows
<1> QED BY <1>2, <1>3, <1>4, <1>5 DEF NodeInv

\* Peers leave the node and rows are marked: nothing else changes hands, but
\* for what is dropped, and what is still active and gone is accounted for.
LEMMA NodeLoses ==
    ASSUME TypeOK, NodeInv, owner' = owner, peers' \subseteq peers,
           dropped \subseteq dropped',
           \A d \in Devices : active'[d] => active[d],
           \A d \in Devices : active[d] /\ ~active'[d] => d \notin peers',
           \A d \in peers \ peers' : owner[d] # None,
           \A k \in Handlers : \/ req'[k].dev = req[k].dev
                               \/ /\ req'[k].dev = None
                                  /\ req[k].dev # None => req[k].dev \in dropped',
           RemovalInv',
           \A d \in Devices : active'[d] /\ d \notin peers' =>
              \/ d \in sweep'.gone
              \/ \E k \in Handlers : d \in req'[k].gone
              \/ d \in dropped'
    PROVE  NodeInv'
<1>1. PeersHeldOnce'
  <2>1. ASSUME NEW k \in Handlers, req'[k].dev # None
        PROVE  /\ owner'[req'[k].dev] = None
               /\ req'[k].dev \in peers'
               /\ \A i \in Handlers \ {k} : req'[i].dev # req'[k].dev
    <3>1. req'[k].dev = req[k].dev
      BY <2>1
    <3>2. /\ owner[req[k].dev] = None /\ req[k].dev \in peers
          /\ \A i \in Handlers \ {k} : req[i].dev # req[k].dev
      BY <2>1, <3>1 DEF NodeInv, PeersHeldOnce
    <3> QED BY <2>1, <3>1, <3>2
  <2> QED BY <2>1 DEF PeersHeldOnce
<1>2. RevokedIsOff'
  BY DEF NodeInv, RevokedIsOff
<1>3. NodeMatchesRows'
  <2>1. ASSUME NEW d \in Devices, d \in peers'
        PROVE  \/ owner'[d] # None /\ active'[d]
               \/ \E k \in Handlers : req'[k].dev = d
               \/ d \in dropped'
    <3>1. d # None /\ d \in peers
      BY <2>1, ConstantsAssumption
    <3>2. \/ owner[d] # None /\ active[d]
          \/ \E k \in Handlers : req[k].dev = d
          \/ d \in dropped
      BY <3>1 DEF NodeInv, NodeMatchesRows
    <3> QED BY <2>1, <3>1, <3>2
  <2>2. ASSUME NEW d \in Devices, active'[d], d \notin peers'
        PROVE  \/ d \in sweep'.gone
               \/ \E k \in Handlers : d \in req'[k].gone
               \/ d \in dropped'
    BY <2>2
  <2> QED BY <2>1, <2>2 DEF NodeMatchesRows
<1> QED BY <1>1, <1>2, <1>3 DEF NodeInv

LEMMA NodeStep == TypeOK /\ RequestInv /\ NodeInv /\ [Next]_vars => NodeInv'
<1> SUFFICES ASSUME TypeOK, RequestInv, NodeInv, [Next]_vars PROVE NodeInv'
  OBVIOUS
<1>0. /\ \A k \in Handlers : req[k] \in Request
      /\ req \in [Handlers -> Request]
      /\ sweep \in Sweep
  BY InHand DEF TypeOK
<1>a. \A k \in Handlers : /\ req[k].pc # "clean" => req[k].gone = {}
                          /\ req[k].pc # "commit" => req[k].dev = None
                          /\ \A d \in req[k].trials : owner[d] # None
                          /\ req[k].gone # {} => req[k].pc = "clean"
  BY RemovalFacts DEF NodeInv, RequestInv
<1>b. /\ \A d \in sweep.todo : owner[d] # None
      /\ sweep.gone # {} => sweep.pc \notin {"idle", "rewards"}
  BY DEF NodeInv, RemovalInv
<1>c. ASSUME NEW h \in Handlers, NEW a \in BOOLEAN, End(h, a),
             req[h].dev = None, req[h].gone = {},
             UNCHANGED <<owner, active, peers, dropped, sweep>>
      PROVE  NodeInv'
  <2>1. /\ \A k \in Handlers \ {h} : req'[k] = req[k]
        /\ req'[h].dev = None /\ req'[h].gone = {} /\ req'[h].trials = {}
    BY <1>c DEF End, IdleRequest, TypeOK
  <2> QED BY <1>c, <2>1, NodeRequest
<1>d. ASSUME NEW h \in Handlers, NEW p \in Payments, NEW m \in GwStatuses,
             StartActivation(h, p, m), req[h].dev = None, req[h].gone = {},
             UNCHANGED <<owner, active, peers, dropped, sweep>>
      PROVE  NodeInv'
  <2>1. /\ \A k \in Handlers \ {h} : req'[k] = req[k]
        /\ req'[h].dev = None /\ req'[h].gone = {} /\ req'[h].trials = HeldTrials(Buyer[p])
    BY <1>d DEF StartActivation, TypeOK
  <2>2. Buyer[p] \in Users
    BY ConstantsAssumption
  <2> QED BY <1>d, <2>1, <2>2, TrialsOwned, NodeRequest
<1>1. ASSUME UNCHANGED <<owner, active, peers, dropped, req, sweep>> PROVE NodeInv'
  BY <1>1, <1>a, <1>b, NodeFrame
<1>2. CASE \/ Tick \/ UNCHANGED vars
           \/ \E p \in Payments : CreatePayment(p) \/ GatewayMoves(p)
  BY <1>1, <1>2 DEF Tick, CreatePayment, InvoiceOpened, InvoiceRefused, GatewayMoves, vars, dbVars
<1>3. ASSUME NEW h \in Handlers, NEW p \in Payments, Grant(h, p) PROVE NodeInv'
  <2>1. /\ req[h].pc = "idle" /\ StartActivation(h, p, "none") /\ "none" \in GwStatuses
        /\ UNCHANGED <<owner, active, peers, dropped, sweep>>
    BY <1>3 DEF Grant, Busy, GwStatuses
  <2> QED BY <2>1, <1>a, <1>d
<1>4. ASSUME NEW h \in Handlers, NEW p \in Payments, NEW m \in GwStatuses,
             PlategaCallback(h, p, m) \/ HeleketWebhook(h, p, m)
      PROVE  NodeInv'
  <2>1. /\ req[h].pc = "idle"
        /\ UNCHANGED <<owner, active, peers, dropped, sweep>>
    BY <1>4 DEF PlategaCallback, HeleketWebhook, Busy, dbVars
  <2>2. req[h].dev = None /\ req[h].gone = {}
    BY <2>1, <1>a
  <2>3. CASE req' = req
    BY <2>1, <2>3, <1>1
  <2>4. CASE StartActivation(h, p, m)
    BY <2>1, <2>2, <2>4, <1>d
  <2>5. ASSUME NEW c \in {"loaded", "status"},
               req' = [req EXCEPT ![h] = [IdleRequest EXCEPT !.pc = c, !.pay = p, !.msg = m]]
        PROVE  NodeInv'
    <3>1. /\ [IdleRequest EXCEPT !.pc = c, !.pay = p, !.msg = m].dev = None
          /\ [IdleRequest EXCEPT !.pc = c, !.pay = p, !.msg = m].gone = {}
          /\ [IdleRequest EXCEPT !.pc = c, !.pay = p, !.msg = m].trials = {}
      BY DEF IdleRequest
    <3>2. /\ \A k \in Handlers \ {h} : req'[k] = req[k]
          /\ req'[h].dev = None /\ req'[h].gone = {} /\ req'[h].trials = {}
      BY <2>5, <3>1 DEF TypeOK
    <3> QED BY <2>1, <2>2, <3>2, NodeRequest
  <2> QED BY <1>4, <2>3, <2>4, <2>5 DEF PlategaCallback, HeleketWebhook
<1>5. ASSUME NEW h \in Handlers, FetchStatus(h) PROVE NodeInv'
  <2>1. /\ req[h].pc = "loaded" /\ req[h].pay \in Payments /\ req[h].msg \in GwStatuses
        /\ UNCHANGED <<owner, active, peers, dropped, sweep>>
        /\ End(h, TRUE) \/ StartActivation(h, req[h].pay, req[h].msg)
    BY <1>5, InHand DEF FetchStatus
  <2> QED BY <2>1, <1>a, <1>c, <1>d
<1>6. ASSUME NEW h \in Handlers, FetchFails(h) \/ WriteStatus(h) \/ IssueRefused(h)
      PROVE  NodeInv'
  <2>1. /\ req[h].pc \in {"loaded", "status", "issue"}
        /\ UNCHANGED <<owner, active, peers, dropped, sweep>>
        /\ End(h, TRUE) \/ End(h, FALSE)
    BY <1>6 DEF FetchFails, WriteStatus, IssueRefused, AckedOnFetchFailure, dbVars
  <2> QED BY <2>1, <1>a, <1>c
<1>7. ASSUME NEW h \in Handlers, IssueTimesOut(h) PROVE NodeInv'
  <2>1. /\ req[h].pc = "issue" /\ End(h, FALSE) /\ UNCHANGED <<owner, active, sweep>>
    BY <1>7 DEF IssueTimesOut, dbVars
  <2>2. req[h].dev = None /\ req[h].gone = {}
    BY <2>1, <1>a
  <2>3. CASE UNCHANGED <<peers, dropped>>
    BY <2>1, <2>2, <2>3, <1>c
  <2>4. ASSUME NEW d \in Devices, Fresh(d), peers' = peers \cup {d},
               dropped' = dropped \cup {d}
        PROVE  NodeInv'
    <3>1. /\ \A k \in Handlers \ {h} : req'[k] = req[k]
          /\ req'[h].dev = None /\ req'[h].gone = {} /\ req'[h].trials = {}
      BY <2>1 DEF End, IdleRequest, TypeOK
    <3> QED BY <2>1, <2>2, <2>4, <3>1, NodeTakes
  <2> QED BY <1>7, <2>3, <2>4 DEF IssueTimesOut
<1>8. ASSUME NEW h \in Handlers, IssueOk(h) PROVE NodeInv'
  <2>1. PICK d \in Devices :
          /\ Fresh(d) /\ peers' = peers \cup {d}
          /\ req' = [req EXCEPT ![h] = [req[h] EXCEPT !.dev = d, !.pc = "commit"]]
    BY <1>8 DEF IssueOk
  <2>2. /\ req[h].pc = "issue" /\ UNCHANGED <<owner, active, sweep, dropped>>
    BY <1>8 DEF IssueOk, dbVars
  <2>3. req[h].dev = None /\ req[h].gone = {}
    BY <2>2, <1>a
  <2>4. /\ \A k \in Handlers \ {h} : req'[k] = req[k]
        /\ req'[h].dev = d /\ req'[h].gone = {} /\ req'[h].trials = req[h].trials
    BY <2>1, <2>3, <1>0 DEF Request
  <2>5. \A t \in req'[h].trials : owner[t] # None
    BY <2>4, <1>a
  <2> QED BY <2>1, <2>2, <2>3, <2>4, <2>5, NodeTakes
<1>9. ASSUME NEW h \in Handlers, Commit(h) PROVE NodeInv'
  <2> DEFINE u == Buyer[req[h].pay]
             e == req[h].dev
  <2>1. /\ req[h].pc = "commit" /\ u \in Users /\ u # None
        /\ e \in Devices \cup {None} /\ UNCHANGED <<peers, sweep, dropped>>
    BY <1>9, InHand, ConstantsAssumption DEF Commit
  <2>2. req[h].gone = {}
    BY <2>1, <1>a
  <2>3. /\ \A k \in Handlers \ {h} : req'[k] = req[k]
        /\ req'[h].dev = None /\ req'[h].gone = {} /\ req'[h].trials \subseteq req[h].trials
    <3>1. CASE End(h, TRUE)
      BY <3>1 DEF End, IdleRequest, TypeOK
    <3>2. CASE req' = [req EXCEPT ![h] = [req[h] EXCEPT !.dev = None, !.pc = "clean"]]
      BY <2>2, <3>2, <1>0 DEF Request
    <3> QED BY <1>9, <3>1, <3>2 DEF Commit
  <2>4. /\ owner' = IF e = None THEN owner ELSE [owner EXCEPT ![e] = u]
        /\ active' = IF e = None THEN active ELSE [active EXCEPT ![e] = TRUE]
    BY <1>9 DEF Commit, WithRow
  <2>5. CASE e = None
    BY <2>1, <2>2, <2>3, <2>4, <2>5, <1>a, NodeRequest
  <2>6. CASE e # None
    <3>1. /\ e \in Devices /\ e \in peers /\ owner[e] = None
          /\ \A k \in Handlers \ {h} : req[k].dev # e
      BY <2>1, <2>6 DEF NodeInv, PeersHeldOnce
    <3>2. /\ \A d \in Devices \ {e} : owner'[d] = owner[d] /\ active'[d] = active[d]
          /\ owner'[e] = u /\ active'[e]
      BY <2>4, <2>6, <3>1 DEF TypeOK
    <3>3. /\ \A k \in Handlers : req[k].trials \cup req[k].gone \subseteq Devices
          /\ sweep.todo \cup sweep.gone \subseteq Devices
      BY <1>0 DEF Request, Sweep
    <3>4. \A d \in Devices : owner[d] # None => owner'[d] # None
      BY <2>1, <3>2
    <3>5. RemovalInv'
      <4>1. \A d \in Devices : active'[d] => owner'[d] # None
        BY <2>1, <3>2 DEF NodeInv, RemovalInv
      <4>2. \A d \in sweep'.todo \cup sweep'.gone : owner'[d] # None
        BY <2>1, <3>3, <3>4 DEF NodeInv, RemovalInv
      <4>3. \A k \in Handlers :
               /\ \A d \in req'[k].trials \cup req'[k].gone : owner'[d] # None
               /\ req'[k].gone \cap peers' = {}
               /\ req'[k].gone # {} => req'[k].pc = "clean"
        <5>1. ASSUME NEW k \in Handlers, k # h
              PROVE  /\ \A d \in req'[k].trials \cup req'[k].gone : owner'[d] # None
                     /\ req'[k].gone \cap peers' = {}
                     /\ req'[k].gone # {} => req'[k].pc = "clean"
          BY <2>1, <2>3, <3>3, <3>4, <5>1, RemovalFacts DEF NodeInv
        <5>2. \A d \in req'[h].trials : owner'[d] # None
          BY <2>3, <3>3, <3>4, <1>a
        <5> QED BY <2>3, <5>1, <5>2
      <4> QED BY <2>1, <4>1, <4>2, <4>3 DEF NodeInv, RemovalInv
    <3>6. PeersHeldOnce'
      <4>1. ASSUME NEW k \in Handlers, req'[k].dev # None
            PROVE  /\ owner'[req'[k].dev] = None
                   /\ req'[k].dev \in peers'
                   /\ \A i \in Handlers \ {k} : req'[i].dev # req'[k].dev
        <5>1. k # h /\ req'[k] = req[k] /\ req[k].dev \in Devices \ {e}
          BY <2>3, <3>1, <4>1, <1>0 DEF Request
        <5> QED BY <2>1, <2>3, <3>2, <4>1, <5>1 DEF NodeInv, PeersHeldOnce
      <4> QED BY <4>1 DEF PeersHeldOnce
    <3>7. RevokedIsOff'
      BY <2>1, <3>2 DEF NodeInv, RevokedIsOff
    <3>8. NodeMatchesRows'
      <4>1. \A k \in Handlers : /\ k # h => req'[k] = req[k]
                                /\ req'[k].gone = req[k].gone
        BY <2>2, <2>3
      <4> QED BY <2>1, <2>3, <3>1, <3>2, <4>1 DEF NodeInv, NodeMatchesRows
    <3> QED BY <3>5, <3>6, <3>7, <3>8 DEF NodeInv
  <2> QED BY <2>5, <2>6
<1>10. ASSUME NEW h \in Handlers, NEW d \in Devices, CleanTrial(h, d) PROVE NodeInv'
  <2>1. /\ req[h].pc = "clean" /\ d \in req[h].trials /\ owner[d] # None
        /\ UNCHANGED <<owner, active, sweep>>
    BY <1>10, <1>a DEF CleanTrial, dbVars
  <2>2. \A k \in Handlers : /\ req'[k].dev = req[k].dev /\ req'[k].pc = req[k].pc
                            /\ req'[k].trials \subseteq req[k].trials
                            /\ k # h => req'[k] = req[k]
    <3>1. CASE req' = [req EXCEPT ![h] = [req[h] EXCEPT !.trials = @ \ {d}, !.gone = @ \cup {d}]]
      BY <3>1, <1>0 DEF Request
    <3>2. CASE req' = [req EXCEPT ![h] = [req[h] EXCEPT !.trials = @ \ {d}]]
      BY <3>2, <1>0 DEF Request
    <3> QED BY <1>10, <3>1, <3>2 DEF CleanTrial
  <2>3. \/ /\ peers' = peers \ {d} /\ dropped' = dropped
           /\ req'[h].gone = req[h].gone \cup {d}
        \/ UNCHANGED <<peers, dropped>> /\ req'[h].gone = req[h].gone
        \/ /\ peers' = peers \ {d} /\ dropped' = dropped \cup {d}
           /\ req'[h].gone = req[h].gone
    <3>1. req'[h] = [req[h] EXCEPT !.trials = @ \ {d}, !.gone = @ \cup {d}]
            => req'[h].gone = req[h].gone \cup {d}
      BY <1>0 DEF Request
    <3>2. req'[h] = [req[h] EXCEPT !.trials = @ \ {d}] => req'[h].gone = req[h].gone
      BY <1>0 DEF Request
    <3> QED BY <1>10, <1>0, <3>1, <3>2 DEF CleanTrial
  <2>4. RemovalInv'
    <3>1. ASSUME NEW k \in Handlers
          PROVE  /\ \A x \in req'[k].trials \cup req'[k].gone : owner'[x] # None
                 /\ req'[k].gone \cap peers' = {}
                 /\ req'[k].gone # {} => req'[k].pc = "clean"
      <4>1. /\ \A x \in req[k].trials : owner[x] # None
            /\ \A x \in req[k].gone : owner[x] # None /\ x \notin peers
            /\ req[k].gone # {} => req[k].pc = "clean"
        BY RemovalFacts DEF NodeInv
      <4>2. CASE k = h
        BY <2>1, <2>2, <2>3, <4>1, <4>2
      <4>3. CASE k # h
        BY <2>1, <2>2, <2>3, <4>1, <4>3
      <4> QED BY <4>2, <4>3
    <3>2. /\ \A x \in Devices : active'[x] => owner'[x] # None
          /\ \A x \in sweep'.todo \cup sweep'.gone : owner'[x] # None
          /\ sweep'.gone # {} => sweep'.pc \notin {"idle", "rewards"}
          /\ sweep'.gone \cap peers' = {}
      BY <2>1, <2>3 DEF NodeInv, RemovalInv
    <3> QED BY <3>1, <3>2 DEF RemovalInv
  <2>5. \A x \in Devices : active'[x] /\ x \notin peers' =>
              \/ x \in sweep'.gone
              \/ \E k \in Handlers : x \in req'[k].gone
              \/ x \in dropped'
    <3>1. \A k \in Handlers : req[k].gone \subseteq req'[k].gone
      BY <2>2, <2>3
    <3>2. ASSUME NEW x \in Devices, active'[x], x \notin peers', x # d
          PROVE  \/ x \in sweep'.gone
                 \/ \E k \in Handlers : x \in req'[k].gone
                 \/ x \in dropped'
      BY <2>1, <2>3, <3>1, <3>2 DEF NodeInv, NodeMatchesRows
    <3>3. ASSUME active'[d], d \notin peers'
          PROVE  \/ d \in sweep'.gone
                 \/ \E k \in Handlers : d \in req'[k].gone
                 \/ d \in dropped'
      BY <2>1, <2>3, <3>1, <3>3 DEF NodeInv, NodeMatchesRows
    <3> QED BY <3>2, <3>3
  <2> QED BY <2>1, <2>2, <2>3, <2>4, <2>5, NodeLoses
<1>11. ASSUME NEW h \in Handlers, CleanCommit(h) PROVE NodeInv'
  <2>1. /\ req[h].pc = "clean" /\ UNCHANGED <<owner, peers, sweep, dropped>>
        /\ active' = [d \in Devices |-> active[d] /\ d \notin req[h].gone]
        /\ End(h, TRUE)
    BY <1>11 DEF CleanCommit
  <2>2. \A k \in Handlers : IF k = h THEN /\ req'[k].dev = None /\ req'[k].gone = {}
                                          /\ req'[k].trials = {}
                                     ELSE req'[k] = req[k]
    BY <2>1 DEF End, IdleRequest, TypeOK
  <2>3. \A d \in Devices : active'[d] <=> active[d] /\ d \notin req[h].gone
    BY <2>1
  <2>4. \A d \in req[h].gone : d \notin peers
    BY RemovalFacts DEF NodeInv
  <2>5. RemovalInv'
    <3>1. ASSUME NEW k \in Handlers
          PROVE  /\ \A x \in req'[k].trials \cup req'[k].gone : owner'[x] # None
                 /\ req'[k].gone \cap peers' = {}
                 /\ req'[k].gone # {} => req'[k].pc = "clean"
      BY <2>1, <2>2, RemovalFacts DEF NodeInv
    <3>2. /\ \A x \in Devices : active'[x] => owner'[x] # None
          /\ \A x \in sweep'.todo \cup sweep'.gone : owner'[x] # None
          /\ sweep'.gone # {} => sweep'.pc \notin {"idle", "rewards"}
          /\ sweep'.gone \cap peers' = {}
      BY <2>1, <2>3 DEF NodeInv, RemovalInv
    <3> QED BY <3>1, <3>2 DEF RemovalInv
  <2>6. \A x \in Devices : active'[x] /\ x \notin peers' =>
              \/ x \in sweep'.gone
              \/ \E k \in Handlers : x \in req'[k].gone
              \/ x \in dropped'
    BY <2>1, <2>2, <2>3 DEF NodeInv, NodeMatchesRows
  <2>7. req[h].dev = None
    BY <2>1, <1>a
  <2> QED BY <2>1, <2>2, <2>3, <2>4, <2>5, <2>6, <2>7, NodeLoses
<1>12. CASE WebCrash
  <2>1. /\ UNCHANGED <<owner, active, peers, sweep>>
        /\ \A k \in Handlers : /\ req'[k].dev = None /\ req'[k].gone = {}
                               /\ req'[k].trials = {}
    BY <1>12 DEF WebCrash, dbVars, IdleRequest
  <2>2. /\ dropped \subseteq dropped'
        /\ \A k \in Handlers : /\ req[k].gone \subseteq dropped'
                               /\ req[k].dev # None => req[k].dev \in dropped'
    BY <1>12 DEF WebCrash
  <2>3. RemovalInv'
    BY <2>1 DEF NodeInv, RemovalInv
  <2>4. \A x \in Devices : active'[x] /\ x \notin peers' =>
              x \in sweep'.gone \/ x \in dropped'
    BY <2>1, <2>2 DEF NodeInv, NodeMatchesRows
  <2> QED BY <2>1, <2>2, <2>3, <2>4, NodeLoses
<1>13. ASSUME UNCHANGED <<owner, req>>, peers' \subseteq peers, dropped \subseteq dropped',
              \A d \in Devices : active'[d] => active[d],
              \A d \in Devices : active[d] /\ ~active'[d] => d \notin peers',
              \A d \in peers \ peers' : owner[d] # None,
              \A d \in sweep'.todo \cup sweep'.gone : owner[d] # None,
              sweep'.gone \cap peers' = {},
              sweep'.gone # {} => sweep'.pc \notin {"idle", "rewards"},
              \A d \in Devices : active'[d] /\ (d \in sweep.gone \/ d \in peers \ peers')
                    => d \in sweep'.gone \/ d \in dropped'
       PROVE  NodeInv'
  <2>1. RemovalInv'
    <3>1. ASSUME NEW k \in Handlers
          PROVE  /\ \A x \in req'[k].trials \cup req'[k].gone : owner'[x] # None
                 /\ req'[k].gone \cap peers' = {}
                 /\ req'[k].gone # {} => req'[k].pc = "clean"
      BY <1>13, RemovalFacts DEF NodeInv
    <3>2. \A x \in Devices : active'[x] => owner'[x] # None
      BY <1>13 DEF NodeInv, RemovalInv
    <3> QED BY <1>13, <3>1, <3>2 DEF RemovalInv
  <2>2. ASSUME NEW x \in Devices, active'[x], x \notin peers'
        PROVE  \/ x \in sweep'.gone
               \/ \E k \in Handlers : x \in req'[k].gone
               \/ x \in dropped'
    <3>1. \/ x \in peers
          \/ x \in sweep.gone
          \/ \E k \in Handlers : x \in req[k].gone
          \/ x \in dropped
      BY <1>13, <2>2 DEF NodeInv, NodeMatchesRows
    <3> QED BY <1>13, <2>2, <3>1
  <2> QED BY <1>13, <2>1, <2>2, NodeLoses
<1>14. CASE SweepStart \/ SweepRewards
  <2>1. /\ UNCHANGED <<owner, active, req, peers, dropped>>
        /\ sweep.pc \in {"idle", "rewards"}
    BY <1>14 DEF SweepStart, SweepRewards, dbVars
  <2>2. sweep'.todo = {} /\ sweep'.gone = {}
    BY <1>14 DEF SweepStart, SweepRewards, IdleSweep
  <2>3. sweep.gone = {}
    BY <2>1, <1>b
  <2> QED BY <2>1, <2>2, <2>3, <1>13
<1>15. ASSUME NEW u \in Users, SweepUser(u) PROVE NodeInv'
  <2>1. UNCHANGED <<owner, active, req, peers, dropped>>
    BY <1>15 DEF SweepUser, dbVars
  <2>2. sweep'.todo = HeldDevices(u) /\ sweep'.gone = sweep.gone /\ sweep'.pc = "user"
    BY <1>15, <1>0 DEF SweepUser, Sweep
  <2>3. /\ \A d \in HeldDevices(u) : owner[d] # None
        /\ \A d \in sweep.gone : owner[d] # None /\ d \notin peers
    BY TrialsOwned, RemovalFacts DEF NodeInv
  <2> QED BY <2>1, <2>2, <2>3, <1>13
<1>16. ASSUME NEW d \in Devices, SweepRemoved(d) PROVE NodeInv'
  <2>1. /\ UNCHANGED <<owner, active, req, dropped>> /\ peers' = peers \ {d}
        /\ d \in sweep.todo /\ sweep.pc \in {"user", "trials"}
    BY <1>16 DEF SweepRemoved, dbVars
  <2>2. sweep'.todo = sweep.todo \ {d} /\ sweep'.gone = sweep.gone \cup {d} /\ sweep'.pc = sweep.pc
    BY <1>16, <1>0 DEF SweepRemoved, Marked, Sweep
  <2>3. /\ \A x \in sweep.todo : owner[x] # None
        /\ \A x \in sweep.gone : owner[x] # None /\ x \notin peers
    BY RemovalFacts DEF NodeInv
  <2> QED BY <2>1, <2>2, <2>3, <1>13
<1>17. ASSUME NEW d \in Devices, SweepRefused(d) PROVE NodeInv'
  <2>1. /\ UNCHANGED <<owner, active, req, peers, dropped>>
        /\ sweep.pc \in {"user", "trials"}
    BY <1>17 DEF SweepRefused, dbVars
  <2>2. sweep'.todo = sweep.todo \ {d} /\ sweep'.gone = sweep.gone /\ sweep'.pc = sweep.pc
    BY <1>17, <1>0 DEF SweepRefused, Marked, Sweep
  <2>3. /\ \A x \in sweep.todo : owner[x] # None
        /\ \A x \in sweep.gone : owner[x] # None /\ x \notin peers
    BY RemovalFacts DEF NodeInv
  <2> QED BY <2>1, <2>2, <2>3, <1>13
<1>18. ASSUME NEW d \in Devices, SweepTimesOut(d) PROVE NodeInv'
  <2>1. /\ UNCHANGED <<owner, active, req>>
        /\ peers' = peers \/ peers' = peers \ {d}
        /\ dropped' = dropped \cup sweep.gone \cup (peers \ peers')
        /\ owner[d] # None
    BY <1>18, <1>b DEF SweepTimesOut, dbVars
  <2>2. sweep'.todo = {} /\ sweep'.gone = {}
    BY <1>18 DEF SweepTimesOut, IdleSweep
  <2>3. /\ peers' \subseteq peers /\ dropped \subseteq dropped'
        /\ \A x \in peers \ peers' : owner[x] # None /\ x \in dropped'
        /\ \A x \in sweep.gone : x \in dropped'
    BY <2>1
  <2> QED BY <2>1, <2>2, <2>3, <1>13
<1>19. CASE SweepUserDone
  <2>1. UNCHANGED <<owner, active, req, peers, dropped>>
    BY <1>19 DEF SweepUserDone, dbVars
  <2>2. sweep'.todo = sweep.todo /\ sweep'.gone = sweep.gone /\ sweep'.pc = "next"
    BY <1>19, <1>0 DEF SweepUserDone, Sweep
  <2>3. /\ \A x \in sweep.todo : owner[x] # None
        /\ \A x \in sweep.gone : owner[x] # None /\ x \notin peers
    BY RemovalFacts DEF NodeInv
  <2> QED BY <2>1, <2>2, <2>3, <1>13
<1>20. CASE SweepCommit \/ SweepTrialsCommit
  <2>1. /\ UNCHANGED <<owner, req, peers, dropped>>
        /\ \A d \in Devices : active'[d] <=> active[d] /\ d \notin sweep.gone
    BY <1>20 DEF SweepCommit, SweepTrialsCommit
  <2>2. sweep'.gone = {} /\ \A d \in sweep'.todo : owner[d] # None
    <3>1. \A d \in EndedTrials : owner[d] # None
      BY ConstantsAssumption DEF EndedTrials
    <3>2. CASE SweepCommit
      BY <3>1, <3>2 DEF SweepCommit, IdleSweep
    <3>3. CASE SweepTrialsCommit
      BY <3>3 DEF SweepTrialsCommit, IdleSweep
    <3> QED BY <1>20, <3>2, <3>3
  <2>3. \A x \in sweep.gone : x \notin peers
    BY RemovalFacts DEF NodeInv
  <2> QED BY <2>1, <2>2, <2>3, <1>13
<1>21. CASE SweepCrash
  <2>1. /\ UNCHANGED <<owner, active, req, peers>> /\ dropped' = dropped \cup sweep.gone
    BY <1>21 DEF SweepCrash, dbVars
  <2>2. sweep'.todo = {} /\ sweep'.gone = {}
    BY <1>21 DEF SweepCrash, IdleSweep
  <2> QED BY <2>1, <2>2, <1>13
<1> QED
  BY <1>2, <1>3, <1>4, <1>5, <1>6, <1>7, <1>8, <1>9, <1>10, <1>11, <1>12, <1>14,
     <1>15, <1>16, <1>17, <1>18, <1>19, <1>20, <1>21
     DEF Next, Notify, RequestStep, SweepStep

\* Rows and node agree for any number of requests beside the sweep, and through
\* every refusal, timeout and crash: a row marked revoked has no peer, a peer is
\* held once, and every difference has a process that will record it or is
\* among the ones a failure dropped.
THEOREM NodeAndRows == Spec => []NodeAndRowsAgree
<1>1. Init => NodeInv
  <2> SUFFICES ASSUME Init PROVE NodeInv
    OBVIOUS
  <2>1. RemovalInv
    BY DEF Init, RemovalInv, IdleRequest, IdleSweep
  <2>2. PeersHeldOnce /\ RevokedIsOff /\ NodeMatchesRows
    BY DEF Init, PeersHeldOnce, RevokedIsOff, NodeMatchesRows, IdleRequest
  <2> QED BY <2>1, <2>2 DEF NodeInv
<1>2. NodeInv => NodeAndRowsAgree
  BY DEF NodeInv, NodeAndRowsAgree
<1> QED BY <1>1, <1>2, TypeCorrect, NodeStep, PTL DEF Spec
=============================================================================
