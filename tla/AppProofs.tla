----------------------------- MODULE AppProofs ------------------------------
(***************************************************************************)
(* The app's store, screens and tunnel, for any number of pages,           *)
(* operations, devices and sign-ins.                                       *)
(*                                                                         *)
(* Most of the proof is about what is half done.  An operation writes the  *)
(* selection in two steps, moves the tunnel in a third and the screen in a *)
(* fourth, so what TunnelOnSelected says of a phone at rest is false in    *)
(* between.  Uncrossed says it of every state: each of the disagreements   *)
(* there can be (config and id, tunnel and selection, screen and           *)
(* selection) is in the hands of an operation whose next pieces settle it, *)
(* and as long as nothing has crossed only one that runs alone may change  *)
(* what the others have read.                                              *)
(***************************************************************************)
EXTENDS App, TLAPS

\* What an operation may hold.
Device == Devices \cup {NONE}
Renewing == {"call", "recall", "renew", "renewing"}

Op == {"idle", "load", "use", "add", "delete", "ask", "out", "switch"}
Stage == {"none", "after", "down", "follow", "out", "conf", "stop"} \cup Calls
Pc == {"none", "enter", "listed", "forget", "removed", "put", "putid", "upping", "logout", "clear"} \cup Renewing

Thread ==
    [op : Op, stage : Stage, pc : Pc, tok : SignIns, dev : Device,
     list : SUBSET Devices, had : Device, orphan : BOOLEAN, stale : BOOLEAN]

TypeOK ==
    /\ store \in [token : SignIns, refresh : SignIns, conf : Device, id : Device]
    /\ tunnel \in Device /\ shown \in Device
    /\ signedIn \in BOOLEAN /\ offered \subseteq Devices
    /\ cur \in SignIns /\ alive \subseteq SignIns
    /\ devs \in [Devices -> {"new", "on", "off"}]
    /\ thr \in [Threads -> Thread]
    /\ ops \in Nat /\ half \in {"no", "first", "cut"} /\ torn \in BOOLEAN /\ crossed \in BOOLEAN

\* The pieces an operation is made of.
PieceOf(q) ==
    /\ \/ q.op = "load" /\ q.stage \in {"profile", "list", "after", "down"}
       \/ q.op = "use" /\ q.stage \in {"select", "follow"}
       \/ q.op = "add" /\ q.stage \in {"create", "select", "follow"}
       \/ q.op = "delete" /\ q.stage = "remove"
       \/ q.op = "ask" /\ q.stage = "ask"
    /\ \/ q.pc = "enter"
       \/ q.stage \in Calls /\ q.pc \in Renewing
       \/ q.stage = "list" /\ q.pc \in {"listed", "forget"}
       \/ q.stage = "remove" /\ q.pc \in {"removed", "forget"}
       \/ q.stage = "select" /\ q.pc \in {"put", "putid"}
       \/ q.stage = "follow" /\ q.pc = "upping"
    /\ q.stage \in {"select", "create", "remove", "follow"} => q.dev \in Devices

Shape(t) ==
    LET q == thr[t] IN
    /\ q = Idle \/ q.op # "idle"
    /\ q.orphan => q.pc # "enter"
    /\ t \in Pages => q = Idle \/ PieceOf(q)
    /\ t = "out" => q = Idle \/ (q.op = "out" /\ q.stage = "out" /\ q.pc \in {"enter", "logout", "clear"})
    /\ t = "switch" =>
          q = Idle \/ (q.op = "switch" /\ ((q.pc = "enter" /\ q.stage \in {"conf", "stop"})
                                           \/ (q.pc = "upping" /\ q.stage = "conf")))

\* A call under way carries the newest sign-in's token.
CallsCurrent == torn \/ \A t \in Threads : thr[t].pc \in {"call", "recall", "renewing"} => thr[t].tok = cur

\* A sign-in between its writes shows no account's screen, and no call that began
\* before it goes unmarked; one that was cut in half is marked.
HalfSeen ==
    /\ half = "cut" => torn
    /\ half = "first" => ~signedIn /\ (torn \/ \A t \in Threads : thr[t] = Idle)

Sessions == TokensAreCurrent /\ CallsCurrent /\ HalfSeen

\* What the screen, the store and the calls name was once made by the portal.
NotNew(d) == d \in Devices => devs[d] # "new"

KnownAt(t) ==
    /\ \A d \in thr[t].list : NotNew(d)
    /\ thr[t].stage = "remove" \/ thr[t].pc \in {"put", "putid"} => NotNew(thr[t].dev)

Known == NotNew(store.id) /\ (\A d \in offered : NotNew(d)) /\ \A t \in Threads : KnownAt(t)

\* What a list or a removal says of the selection.
Honest(t) ==
    /\ thr[t].pc = "listed" /\ ~thr[t].stale /\ store.id \in DevicesOf(cur) => store.id \in thr[t].list
    /\ thr[t].pc = "removed" => thr[t].dev \notin DevicesOf(cur)

AllHonest == torn \/ \A t \in Threads : Honest(t)

\* While nothing has crossed.
Own(t) ==
    LET q == thr[t]
        sel == Selected(store)
    IN
    /\ ~q.orphan
    /\ q.pc = "putid" => store.conf = q.dev
    /\ q.pc = "forget" => store.id = NONE
    /\ q.pc = "upping" => q.dev = store.conf /\ q.dev # NONE
    /\ q.stage = "follow" => store.id = q.dev /\ store.conf = q.dev
    /\ q.stage = "profile" /\ q.pc # "enter" => q.had = sel
    /\ q.stage = "list" => IF q.pc = "forget" THEN q.had # NONE ELSE q.had = sel
    /\ q.stage = "after" => q.had = sel \/ (q.had # NONE /\ sel = NONE)
    /\ q.stage = "down" => sel = NONE
    /\ q.pc \in {"logout", "clear"} => tunnel = NONE
    /\ q.stage = "remove" =>
          /\ q.pc = "enter" => q.had # NONE \/ store.id # q.dev
          /\ q.pc # "enter" /\ (store.id = q.dev \/ q.pc = "forget") => tunnel = NONE

\* Who will move the tunnel, and who will show the selection.
Moving(t) ==
    LET q == thr[t] IN
    \/ q.stage \in {"follow", "down"} \/ (q.stage = "list" /\ q.pc = "forget")
    \/ q.stage = "after" /\ q.had # NONE /\ Selected(store) = NONE

Showing(t) ==
    LET q == thr[t] IN
    \/ q.stage \in {"after", "down"} \/ q.pc = "forget" \/ (q.stage = "profile" /\ q.pc = "enter")
    \/ q.stage = "follow" /\ (q.pc = "enter" \/ q.op = "add")

Uncrossed ==
    /\ \A t \in Threads : Own(t)
    /\ store.conf = store.id \/ \E t \in Threads : thr[t].pc \in {"putid", "forget"}
    /\ tunnel \in {NONE, Selected(store)} \/ \E t \in Threads : Moving(t)
    /\ signedIn /\ offered # {} => shown = Selected(store) \/ \E t \in Threads : Showing(t)
    /\ signedIn \/ \A t \in Threads : ~Busy(t)

Orderly == crossed \/ Uncrossed

Shapes == \A t \in Threads : Shape(t)

-----------------------------------------------------------------------------
(* What a step makes of the operation that takes it, field by field        *)

Goes(t, op, stage, pc, tok, dev, list, had, stale) ==
    /\ thr' \in [Threads -> Thread]
    /\ \A u \in Threads \ {t} : thr'[u] = thr[u]
    /\ thr'[t].op = op /\ thr'[t].stage = stage /\ thr'[t].pc = pc /\ thr'[t].tok = tok
    /\ thr'[t].dev = dev /\ thr'[t].list = list /\ thr'[t].had = had
    /\ thr'[t].orphan = thr[t].orphan /\ thr'[t].stale = stale

Rests(t) ==
    /\ thr' \in [Threads -> Thread]
    /\ \A u \in Threads \ {t} : thr'[u] = thr[u]
    /\ thr'[t] = Idle

\* One that goes on as it is, at another pc.
Turns(t, pc, tok) ==
    Goes(t, thr[t].op, thr[t].stage, pc, tok, thr[t].dev, thr[t].list, thr[t].had, thr[t].stale)

\* The next piece, or the load that follows, unless it was cut off.
GoesOn(t, stage) ==
    \/ thr[t].orphan /\ Rests(t)
    \/ ~thr[t].orphan /\ Goes(t, thr[t].op, stage, "enter", 0, thr[t].dev, thr[t].list, thr[t].had, thr[t].stale)

Loads(t) ==
    \/ thr[t].orphan /\ Rests(t)
    \/ ~thr[t].orphan /\ Goes(t, "load", "profile", "enter", 0, NONE, {}, NONE, FALSE)

Starts(t, op, stage, dev, had) ==
    /\ signedIn /\ thr[t] = Idle /\ ops' = ops + 1
    /\ Goes(t, op, stage, "enter", 0, dev, {}, had, FALSE)
    /\ UNCHANGED <<store, tunnel, signedIn, shown, offered, cur, alive, devs, torn>>

\* One that is cut off: over, or an orphan inside its piece.
Fades(u) ==
    \/ thr'[u] = Idle
    \/ /\ thr'[u].op = thr[u].op /\ thr'[u].stage = thr[u].stage /\ thr'[u].pc = thr[u].pc
       /\ thr'[u].tok = thr[u].tok /\ thr'[u].dev = thr[u].dev /\ thr'[u].list = thr[u].list
       /\ thr'[u].had = thr[u].had /\ thr'[u].stale = thr[u].stale
       /\ thr'[u].orphan = TRUE /\ thr[u] # Idle /\ thr[u].pc # "enter"

\* The session is over for everyone, or only for the one cut off already.
Leaves(t) ==
    \/ /\ thr[t].orphan /\ Rests(t) /\ signedIn' = signedIn /\ crossed' = crossed
    \/ /\ ~thr[t].orphan /\ thr' \in [Threads -> Thread] /\ thr'[t] = Idle /\ signedIn' = FALSE
       /\ \A u \in Threads \ {t} : Fades(u) /\ (thr[u] = Idle => thr'[u] = Idle)
       /\ crossed' = (crossed \/ Others(t) # {})

LEMMA IdleFacts ==
  /\ Idle \in Thread
  /\ Idle.op = "idle" /\ Idle.stage = "none" /\ Idle.pc = "none" /\ Idle.tok = 0 /\ Idle.dev = NONE
  /\ Idle.list = {} /\ Idle.had = NONE /\ Idle.orphan = FALSE /\ Idle.stale = FALSE
  BY AppAssumption DEF Idle, Thread, Op, Stage, Pc, Device, SignIns

LEMMA ThreadFacts ==
  ASSUME TypeOK, NEW t \in Threads
  PROVE  /\ thr[t] \in Thread
         /\ thr[t].tok \in SignIns /\ thr[t].dev \in Device /\ thr[t].list \in SUBSET Devices
         /\ thr[t].had \in Device /\ thr[t].orphan \in BOOLEAN /\ thr[t].stale \in BOOLEAN
  BY DEF TypeOK, Thread

LEMMA PageIsThread == Pages \subseteq Threads /\ "out" \in Threads /\ "switch" \in Threads
  BY DEF Threads

\* One operation moves, to r.
LEMMA ToFacts ==
  ASSUME TypeOK, NEW t \in Threads, NEW r \in Thread, thr' = To(t, r)
  PROVE  thr' \in [Threads -> Thread] /\ thr'[t] = r /\ \A u \in Threads \ {t} : thr'[u] = thr[u]
  BY DEF TypeOK, To

LEMMA ToRests ==
  ASSUME TypeOK, NEW t \in Threads, thr' = To(t, Idle)
  PROVE  Rests(t)
  BY ToFacts, IdleFacts DEF Rests

\* The fields of a record, and what becomes of them when some of them change.
Is(r, op, stage, pc, tok, dev, list, had, orphan, stale) ==
    /\ r \in Thread /\ r.op = op /\ r.stage = stage /\ r.pc = pc /\ r.tok = tok /\ r.dev = dev
    /\ r.list = list /\ r.had = had /\ r.orphan = orphan /\ r.stale = stale

LEMMA GoesTo ==
  ASSUME TypeOK, NEW t \in Threads, NEW r, NEW op, NEW stage, NEW pc, NEW tok, NEW dev, NEW list, NEW had,
         NEW stale, Is(r, op, stage, pc, tok, dev, list, had, thr[t].orphan, stale), thr' = To(t, r)
  PROVE  Goes(t, op, stage, pc, tok, dev, list, had, stale)
<1>1. thr' \in [Threads -> Thread] /\ thr'[t] = r /\ \A u \in Threads \ {t} : thr'[u] = thr[u]
  BY ToFacts, Zenon DEF Is
<1> QED  BY <1>1, Zenon DEF Goes, Is

LEMMA FieldsAll ==
  ASSUME NEW q \in Thread, NEW o \in Op, NEW s \in Stage, NEW c \in Pc, NEW d \in Device
  PROVE  Is([q EXCEPT !.op = o, !.stage = s, !.pc = c, !.dev = d], o, s, c, q.tok, d, q.list, q.had, q.orphan, q.stale)
  BY Zenon DEF Thread, Is

LEMMA FieldHad ==
  ASSUME NEW q \in Thread, NEW h \in Device
  PROVE  Is([q EXCEPT !.had = h], q.op, q.stage, q.pc, q.tok, q.dev, q.list, h, q.orphan, q.stale)
  BY Zenon DEF Thread, Is

LEMMA FieldsEnter ==
  ASSUME NEW q \in Thread, NEW k \in SignIns, NEW c \in Pc, NEW h \in Device
  PROVE  Is([q EXCEPT !.tok = k, !.pc = c, !.had = h, !.stale = FALSE],
            q.op, q.stage, c, k, q.dev, q.list, h, q.orphan, FALSE)
  BY Zenon DEF Thread, Is

LEMMA FieldPc ==
  ASSUME NEW q \in Thread, NEW c \in Pc
  PROVE  Is([q EXCEPT !.pc = c], q.op, q.stage, c, q.tok, q.dev, q.list, q.had, q.orphan, q.stale)
  BY Zenon DEF Thread, Is

LEMMA FieldsTok ==
  ASSUME NEW q \in Thread, NEW c \in Pc, NEW k \in SignIns
  PROVE  Is([q EXCEPT !.pc = c, !.tok = k], q.op, q.stage, c, k, q.dev, q.list, q.had, q.orphan, q.stale)
  BY Zenon DEF Thread, Is

LEMMA FieldsList ==
  ASSUME NEW q \in Thread, NEW c \in Pc, NEW l \in SUBSET Devices
  PROVE  Is([q EXCEPT !.pc = c, !.list = l], q.op, q.stage, c, q.tok, q.dev, l, q.had, q.orphan, q.stale)
  BY Zenon DEF Thread, Is

LEMMA FieldsDev ==
  ASSUME NEW q \in Thread, NEW c \in Pc, NEW d \in Device
  PROVE  Is([q EXCEPT !.pc = c, !.dev = d], q.op, q.stage, c, q.tok, d, q.list, q.had, q.orphan, q.stale)
  BY Zenon DEF Thread, Is

LEMMA FieldsPiece ==
  ASSUME NEW q \in Thread, NEW s \in Stage, NEW c \in Pc, NEW k \in SignIns
  PROVE  Is([q EXCEPT !.stage = s, !.pc = c, !.tok = k], q.op, s, c, k, q.dev, q.list, q.had, q.orphan, q.stale)
  BY Zenon DEF Thread, Is

LEMMA FieldStage ==
  ASSUME NEW q \in Thread, NEW s \in Stage
  PROVE  Is([q EXCEPT !.stage = s], q.op, s, q.pc, q.tok, q.dev, q.list, q.had, q.orphan, q.stale)
  BY Zenon DEF Thread, Is

LEMMA FieldOrphan ==
  ASSUME NEW q \in Thread
  PROVE  Is([q EXCEPT !.orphan = TRUE], q.op, q.stage, q.pc, q.tok, q.dev, q.list, q.had, TRUE, q.stale)
  BY Zenon DEF Thread, Is

LEMMA FieldStale ==
  ASSUME NEW q \in Thread
  PROVE  Is([q EXCEPT !.stale = TRUE], q.op, q.stage, q.pc, q.tok, q.dev, q.list, q.had, q.orphan, TRUE)
  BY Zenon DEF Thread, Is

LEMMA PcFacts ==
  /\ {"none", "enter", "listed", "forget", "removed", "put", "putid", "upping", "logout", "clear", "call",
      "recall", "renew", "renewing"} \subseteq Pc
  /\ {"none", "after", "down", "follow", "out", "conf", "stop", "profile", "list", "select", "create",
      "remove", "ask"} \subseteq Stage
  /\ 0 \in SignIns /\ NONE \in Device /\ Devices \subseteq Device
  BY AppAssumption DEF Pc, Stage, Renewing, Calls, SignIns, Device

Store == [token : SignIns, refresh : SignIns, conf : Device, id : Device]

Keeps(token, refresh, conf, id) ==
    /\ store' \in Store
    /\ store'.token = token /\ store'.refresh = refresh /\ store'.conf = conf /\ store'.id = id

LEMMA StoreFacts ==
  ASSUME TypeOK
  PROVE  /\ store \in Store /\ store.token \in SignIns /\ store.refresh \in SignIns
         /\ store.conf \in Device /\ store.id \in Device
         /\ Selected(store) \in Device /\ StoredConfig \in Device
  BY PcFacts DEF TypeOK, Store, Selected, StoredConfig

LEMMA StoreMoves ==
  ASSUME TypeOK
  PROVE  /\ \A k \in SignIns : store' = [store EXCEPT !.token = k] => Keeps(k, store.refresh, store.conf, store.id)
         /\ \A k \in SignIns : store' = [store EXCEPT !.refresh = k] => Keeps(store.token, k, store.conf, store.id)
         /\ \A d \in Device : store' = [store EXCEPT !.conf = d] => Keeps(store.token, store.refresh, d, store.id)
         /\ \A d \in Device : store' = [store EXCEPT !.id = d] => Keeps(store.token, store.refresh, store.conf, d)
         /\ store' = Empty => Keeps(0, 0, NONE, NONE)
<1>0. store \in Store
  BY StoreFacts
<1>1. ASSUME NEW k \in SignIns, store' = [store EXCEPT !.token = k]
      PROVE  Keeps(k, store.refresh, store.conf, store.id)
  BY <1>0, <1>1, Zenon DEF Keeps, Store
<1>2. ASSUME NEW k \in SignIns, store' = [store EXCEPT !.refresh = k]
      PROVE  Keeps(store.token, k, store.conf, store.id)
  BY <1>0, <1>2, Zenon DEF Keeps, Store
<1>4. ASSUME NEW d \in Device, store' = [store EXCEPT !.conf = d]
      PROVE  Keeps(store.token, store.refresh, d, store.id)
  BY <1>0, <1>4, Zenon DEF Keeps, Store
<1>5. ASSUME NEW d \in Device, store' = [store EXCEPT !.id = d]
      PROVE  Keeps(store.token, store.refresh, store.conf, d)
  BY <1>0, <1>5, Zenon DEF Keeps, Store
<1>6. ASSUME store' = Empty PROVE Keeps(0, 0, NONE, NONE)
  BY <1>6, PcFacts DEF Keeps, Store, Empty
<1> QED  BY <1>1, <1>2, <1>4, <1>5, <1>6, Zenon

\* Operations begin.
LEMMA BeginEffect ==
  ASSUME TypeOK, NEW t \in Threads, NEW d \in Device, NEW h \in Device, NEW op \in Op, NEW stage \in Stage
  PROVE  /\ Begin(t, [Doing(op, stage, d) EXCEPT !.had = h]) => Starts(t, op, stage, d, h)
         /\ Begin(t, Doing(op, stage, d)) => Starts(t, op, stage, d, NONE)
<1>1. /\ Is(Idle, "idle", "none", "none", 0, NONE, {}, NONE, FALSE, FALSE)
      /\ Idle \in Thread
  BY IdleFacts, Zenon DEF Is
<1>2. Is(Doing(op, stage, d), op, stage, "enter", 0, d, {}, NONE, FALSE, FALSE)
  <2>1. Is([Idle EXCEPT !.op = op, !.stage = stage, !.pc = "enter", !.dev = d], op, stage, "enter", Idle.tok, d,
           Idle.list, Idle.had, Idle.orphan, Idle.stale)
    BY <1>1, PcFacts, FieldsAll
  <2> QED  BY <1>1, <2>1 DEF Doing, Is
<1>3. Is([Doing(op, stage, d) EXCEPT !.had = h], op, stage, "enter", 0, d, {}, h, FALSE, FALSE)
  <2>1. Doing(op, stage, d) \in Thread
    BY <1>2 DEF Is
  <2> DEFINE q == Doing(op, stage, d)
  <2>2. Is([q EXCEPT !.had = h], q.op, q.stage, q.pc, q.tok, q.dev, q.list, h, q.orphan, q.stale)
    BY <2>1, FieldHad
  <2> QED  BY <1>2, <2>2 DEF Is
<1>4. ASSUME thr[t] = Idle, NEW r, thr' = To(t, r), NEW g, Is(r, op, stage, "enter", 0, d, {}, g, FALSE, FALSE)
      PROVE  Goes(t, op, stage, "enter", 0, d, {}, g, FALSE)
  BY <1>1, <1>4, GoesTo DEF Is
<1> QED  BY <1>2, <1>3, <1>4, Zenon DEF Begin, Starts, Busy

LEMMA PressStage == (IF tunnel = NONE THEN "conf" ELSE "stop") \in {"conf", "stop"}
  OBVIOUS

LEMMA StartEffects ==
  ASSUME TypeOK
  PROVE  /\ \A t \in Pages :
              /\ load(t) => Starts(t, "load", "profile", NONE, NONE) /\ crossed' = crossed
              /\ rename(t) => Starts(t, "ask", "ask", NONE, NONE) /\ crossed' = crossed /\ ~Working
              /\ \A d \in Devices :
                   /\ use(t, d) => Starts(t, "use", "select", d, NONE) /\ crossed' = crossed /\ ~Working
                   /\ add(t, d) => Starts(t, "add", "create", d, NONE) /\ crossed' = crossed /\ ~Working
                   /\ delete(t, d) => /\ Starts(t, "delete", "remove", d, IF shown = d THEN d ELSE NONE)
                                      /\ d \in offered /\ crossed' = (crossed \/ Others(t) # {})
         /\ signOut => Starts("out", "out", "out", NONE, NONE) /\ crossed' = crossed
         /\ press => /\ Starts("switch", "switch", IF tunnel = NONE THEN "conf" ELSE "stop", NONE, NONE)
                     /\ crossed' = crossed
<1>0. /\ {"load", "ask", "use", "add", "delete", "out", "switch"} \subseteq Op
      /\ {"profile", "ask", "select", "create", "remove", "out", "conf", "stop"} \subseteq Stage
      /\ Pages \subseteq Threads /\ "out" \in Threads /\ "switch" \in Threads
  BY PcFacts, PageIsThread DEF Op
<1>1. ASSUME NEW t \in Pages PROVE load(t) => Starts(t, "load", "profile", NONE, NONE) /\ crossed' = crossed
  BY <1>0, PcFacts, BeginEffect DEF load, Start
<1>2. ASSUME NEW t \in Pages PROVE rename(t) => Starts(t, "ask", "ask", NONE, NONE) /\ crossed' = crossed /\ ~Working
  BY <1>0, PcFacts, BeginEffect DEF rename, Start
<1>3. ASSUME NEW t \in Pages, NEW d \in Devices
      PROVE  /\ use(t, d) => Starts(t, "use", "select", d, NONE) /\ crossed' = crossed /\ ~Working
             /\ add(t, d) => Starts(t, "add", "create", d, NONE) /\ crossed' = crossed /\ ~Working
  BY <1>0, PcFacts, BeginEffect DEF use, add, Start
<1>4. ASSUME NEW t \in Pages, NEW d \in Devices, delete(t, d)
      PROVE  /\ Starts(t, "delete", "remove", d, IF shown = d THEN d ELSE NONE)
             /\ d \in offered /\ crossed' = (crossed \/ Others(t) # {})
  <2>1. (IF shown = d THEN d ELSE NONE) \in Device /\ d \in Device
    BY PcFacts
  <2> QED  BY <1>0, <1>4, <2>1, BeginEffect DEF delete, Mark
<1>5. signOut => Starts("out", "out", "out", NONE, NONE) /\ crossed' = crossed
  BY <1>0, PcFacts, BeginEffect DEF signOut, Start
<1>6. press => /\ Starts("switch", "switch", IF tunnel = NONE THEN "conf" ELSE "stop", NONE, NONE)
               /\ crossed' = crossed
  BY <1>0, PcFacts, PressStage, BeginEffect DEF press, Start
<1> QED  BY <1>1, <1>2, <1>3, <1>4, <1>5, <1>6

\* The pages' coroutines are cut off.
LEMMA CutFacts ==
  ASSUME NEW f \in [Threads -> Thread], thr' = Cut(f)
  PROVE  /\ thr' \in [Threads -> Thread]
         /\ \A u \in Threads : f[u] = Idle \/ f[u].pc = "enter" => thr'[u] = Idle
         /\ \A u \in Threads : ~(f[u] = Idle \/ f[u].pc = "enter") =>
              Is(thr'[u], f[u].op, f[u].stage, f[u].pc, f[u].tok, f[u].dev, f[u].list, f[u].had, TRUE, f[u].stale)
<1>1. ASSUME NEW u \in Threads, f[u] = Idle \/ f[u].pc = "enter" PROVE thr'[u] = Idle
  BY <1>1, Zenon DEF Cut
<1>2. ASSUME NEW u \in Threads, ~(f[u] = Idle \/ f[u].pc = "enter")
      PROVE  Is(thr'[u], f[u].op, f[u].stage, f[u].pc, f[u].tok, f[u].dev, f[u].list, f[u].had, TRUE, f[u].stale)
  <2>1. thr'[u] = [f[u] EXCEPT !.orphan = TRUE] /\ f[u] \in Thread
    BY <1>2, Zenon DEF Cut
  <2> QED  BY <2>1, FieldOrphan
<1>3. \A u \in Threads : thr'[u] \in Thread
  BY <1>1, <1>2, IdleFacts, Zenon DEF Is
<1>4. thr' = [u \in Threads |-> thr'[u]]
  BY DEF Cut
<1> QED  BY <1>1, <1>2, <1>3, <1>4, Zenon

LEMMA ExpiredEffect ==
  ASSUME TypeOK, NEW t \in Threads, Expired(t)
  PROVE  Leaves(t)
<1>1. CASE thr[t].orphan
  BY <1>1, ToRests, ThreadFacts DEF Expired, Leaves, TypeOK
<1>2. CASE ~thr[t].orphan
  <2> DEFINE f == To(t, Idle)
  <2>1. f \in [Threads -> Thread] /\ f[t] = Idle /\ \A u \in Threads \ {t} : f[u] = thr[u]
    BY IdleFacts DEF TypeOK, To
  <2>2. thr' = Cut(f) /\ signedIn' = FALSE /\ crossed' = (crossed \/ Others(t) # {})
    BY <1>2, ThreadFacts DEF Expired, TypeOK
  <2> HIDE DEF f
  <2>3. thr' \in [Threads -> Thread] /\ thr'[t] = Idle
    BY <2>1, <2>2, CutFacts
  <2>4. ASSUME NEW u \in Threads \ {t} PROVE Fades(u) /\ (thr[u] = Idle => thr'[u] = Idle)
    <3>1. f[u] = thr[u]
      BY <2>1
    <3>2. thr[u] = Idle \/ thr[u].pc = "enter" => thr'[u] = Idle
      BY <2>1, <2>2, <3>1, CutFacts
    <3>3. ~(thr[u] = Idle \/ thr[u].pc = "enter") =>
             Is(thr'[u], thr[u].op, thr[u].stage, thr[u].pc, thr[u].tok, thr[u].dev, thr[u].list, thr[u].had,
                TRUE, thr[u].stale)
      BY <2>1, <2>2, <3>1, CutFacts, Zenon
    <3> QED  BY <3>2, <3>3, Zenon DEF Fades, Is
  <2> QED  BY <1>2, <2>2, <2>3, <2>4 DEF Leaves
<1> QED  BY <1>1, <1>2

\* The next piece of an operation, and the load after one.
LEMMA PieceEffect ==
  ASSUME TypeOK, NEW t \in Threads, NEW s \in Stage, thr' = To(t, Piece(t, s))
  PROVE  GoesOn(t, s)
<1>1. CASE thr[t].orphan
  BY <1>1, ToRests DEF Piece, GoesOn
<1>2. CASE ~thr[t].orphan
  <2> DEFINE r == [thr[t] EXCEPT !.stage = s, !.pc = "enter", !.tok = 0]
  <2>1. Is(r, thr[t].op, s, "enter", 0, thr[t].dev, thr[t].list, thr[t].had, thr[t].orphan, thr[t].stale)
    BY ThreadFacts, PcFacts, FieldsPiece
  <2>2. thr' = To(t, r)
    BY <1>2 DEF Piece
  <2> HIDE DEF r
  <2> QED  BY <1>2, <2>1, <2>2, GoesTo DEF GoesOn
<1> QED  BY <1>1, <1>2

LEMMA LoadEffect ==
  ASSUME TypeOK, NEW t \in Threads, thr' = To(t, Load(t))
  PROVE  Loads(t)
<1>1. CASE thr[t].orphan
  BY <1>1, ToRests DEF Load, Loads
<1>2. CASE ~thr[t].orphan
  <2> DEFINE r == Doing("load", "profile", NONE)
  <2>1. thr[t].orphan = FALSE
    BY <1>2, ThreadFacts
  <2>2. Is(r, "load", "profile", "enter", 0, NONE, {}, NONE, thr[t].orphan, FALSE)
    <3>1. Is([Idle EXCEPT !.op = "load", !.stage = "profile", !.pc = "enter", !.dev = NONE], "load", "profile",
             "enter", Idle.tok, NONE, Idle.list, Idle.had, Idle.orphan, Idle.stale)
      BY PcFacts, IdleFacts, FieldsAll DEF Op
    <3> QED  BY <2>1, <3>1, IdleFacts DEF Doing, Is
  <2>3. thr' = To(t, r)
    BY <1>2 DEF Load
  <2> HIDE DEF r
  <2> QED  BY <1>2, <2>2, <2>3, GoesTo DEF Loads
<1> QED  BY <1>1, <1>2

LEMMA TurnsTo ==
  ASSUME TypeOK, NEW t \in Threads, NEW c \in Pc
  PROVE  /\ thr' = To(t, [thr[t] EXCEPT !.pc = c]) => Turns(t, c, thr[t].tok)
         /\ \A k \in SignIns : thr' = To(t, [thr[t] EXCEPT !.pc = c, !.tok = k]) => Turns(t, c, k)
         /\ \A l \in SUBSET Devices : thr' = To(t, [thr[t] EXCEPT !.pc = c, !.list = l]) =>
              Goes(t, thr[t].op, thr[t].stage, c, thr[t].tok, thr[t].dev, l, thr[t].had, thr[t].stale)
         /\ \A d \in Device : thr' = To(t, [thr[t] EXCEPT !.pc = c, !.dev = d]) =>
              Goes(t, thr[t].op, thr[t].stage, c, thr[t].tok, d, thr[t].list, thr[t].had, thr[t].stale)
<1>0. thr[t] \in Thread
  BY ThreadFacts
<1>1. ASSUME thr' = To(t, [thr[t] EXCEPT !.pc = c]) PROVE Turns(t, c, thr[t].tok)
  BY <1>0, <1>1, FieldPc, GoesTo DEF Turns
<1>2. ASSUME NEW k \in SignIns, thr' = To(t, [thr[t] EXCEPT !.pc = c, !.tok = k]) PROVE Turns(t, c, k)
  BY <1>0, <1>2, FieldsTok, GoesTo DEF Turns
<1>3. ASSUME NEW l \in SUBSET Devices, thr' = To(t, [thr[t] EXCEPT !.pc = c, !.list = l])
      PROVE  Goes(t, thr[t].op, thr[t].stage, c, thr[t].tok, thr[t].dev, l, thr[t].had, thr[t].stale)
  BY <1>0, <1>3, FieldsList, GoesTo
<1>4. ASSUME NEW d \in Device, thr' = To(t, [thr[t] EXCEPT !.pc = c, !.dev = d])
      PROVE  Goes(t, thr[t].op, thr[t].stage, c, thr[t].tok, d, thr[t].list, thr[t].had, thr[t].stale)
  BY <1>0, <1>4, FieldsDev, GoesTo
<1> QED  BY <1>1, <1>2, <1>3, <1>4, Zenon

\* The calls.
LEMMA EnterEffect ==
  ASSUME TypeOK, NEW t \in Threads, Enter(t)
  PROVE  /\ thr[t].pc = "enter" /\ thr[t].stage \in Calls
         /\ Goes(t, thr[t].op, thr[t].stage, IF store.token = 0 THEN "renew" ELSE "call", store.token, thr[t].dev,
                 thr[t].list, IF thr[t].stage = "profile" THEN Selected(store) ELSE thr[t].had, FALSE)
         /\ shown' = (IF thr[t].stage = "profile" THEN Selected(store) ELSE shown)
         /\ \/ tunnel' = (IF thr[t].stage = "remove" /\ thr[t].had # NONE THEN NONE ELSE tunnel) /\ crossed' = crossed
            \/ tunnel' = tunnel /\ crossed' = TRUE
         /\ UNCHANGED <<store, signedIn, offered, cur, alive, devs, ops, torn>>
<1> DEFINE c == IF store.token = 0 THEN "renew" ELSE "call"
           h == IF thr[t].stage = "profile" THEN Selected(store) ELSE thr[t].had
           r == [thr[t] EXCEPT !.tok = store.token, !.pc = c, !.had = h, !.stale = FALSE]
<1>1. c \in Pc /\ h \in Device /\ store.token \in SignIns /\ thr[t] \in Thread
  BY PcFacts, StoreFacts, ThreadFacts
<1>2. Is(r, thr[t].op, thr[t].stage, c, store.token, thr[t].dev, thr[t].list, h, thr[t].orphan, FALSE)
  BY <1>1, FieldsEnter
<1>3. thr' = To(t, r)
  BY DEF Enter
<1>4. Goes(t, thr[t].op, thr[t].stage, c, store.token, thr[t].dev, thr[t].list, h, FALSE)
  <2> HIDE DEF r, c, h
  <2> QED  BY <1>2, <1>3, GoesTo
<1> QED  BY <1>4 DEF Enter, TurnedOff

LEMMA RefusedEffect ==
  ASSUME TypeOK, NEW t \in Threads, Refused(t)
  PROVE  /\ Keeps(0, store.refresh, store.conf, store.id)
         /\ \/ thr[t].pc = "call" /\ Turns(t, "renew", thr[t].tok) /\ UNCHANGED <<signedIn, crossed>>
            \/ thr[t].pc = "recall" /\ Leaves(t)
         /\ UNCHANGED <<tunnel, shown, offered, cur, alive, devs, ops, torn>>
  BY PcFacts, StoreMoves, TurnsTo, ExpiredEffect DEF Refused

LEMMA RenewReadsEffect ==
  ASSUME TypeOK, NEW t \in Threads, RenewReads(t)
  PROVE  /\ thr[t].pc = "renew"
         /\ \/ Leaves(t)
            \/ store.refresh # 0 /\ Turns(t, "renewing", store.refresh) /\ UNCHANGED <<signedIn, crossed>>
         /\ UNCHANGED <<store, tunnel, shown, offered, cur, alive, devs, ops, torn>>
<1>1. "renewing" \in Pc /\ store.refresh \in SignIns
  BY PcFacts, StoreFacts
<1> QED  BY <1>1, TurnsTo, ExpiredEffect DEF RenewReads

LEMMA RenewedEffect ==
  ASSUME TypeOK, NEW t \in Threads, Renewed(t)
  PROVE  /\ thr[t].pc = "renewing"
         /\ Keeps(thr[t].tok, store.refresh, store.conf, store.id) /\ Turns(t, "recall", thr[t].tok)
         /\ UNCHANGED <<tunnel, signedIn, shown, offered, cur, alive, devs, ops, torn, crossed>>
  BY PcFacts, ThreadFacts, StoreMoves, TurnsTo DEF Renewed

LEMMA RenewRefusedEffect ==
  ASSUME TypeOK, NEW t \in Threads, RenewRefused(t)
  PROVE  /\ thr[t].pc = "renewing"
         /\ Keeps(store.token, 0, store.conf, store.id) /\ Leaves(t)
         /\ UNCHANGED <<tunnel, shown, offered, cur, alive, devs, ops, torn>>
  BY PcFacts, StoreMoves, ExpiredEffect DEF RenewRefused

LEMMA FailedEffect ==
  ASSUME TypeOK, NEW t \in Threads, Failed(t)
  PROVE  /\ thr[t].pc \in {"call", "recall", "renewing"} /\ Rests(t) /\ offered' \in {offered, {}}
         /\ UNCHANGED <<store, tunnel, signedIn, shown, cur, alive, devs, ops, torn, crossed>>
  BY ToRests DEF Failed

LEMMA ProfileEffect ==
  ASSUME TypeOK, NEW t \in Threads, ProfileCame(t)
  PROVE  /\ thr[t].pc \in {"call", "recall"} /\ thr[t].stage = "profile"
         /\ GoesOn(t, "list") \/ Rests(t)
         /\ offered' \in {offered, {}}
         /\ UNCHANGED <<store, tunnel, signedIn, shown, cur, alive, devs, ops, torn, crossed>>
  BY PcFacts, PieceEffect, ToRests DEF ProfileCame, Answered

LEMMA AskEffect ==
  ASSUME TypeOK, NEW t \in Threads, AskAnswered(t)
  PROVE  /\ thr[t].pc \in {"call", "recall"} /\ thr[t].stage = "ask" /\ Loads(t)
         /\ UNCHANGED <<store, tunnel, signedIn, shown, offered, cur, alive, devs, ops, torn, crossed>>
  BY LoadEffect DEF AskAnswered, Answered

LEMMA ListEffect ==
  ASSUME TypeOK, NEW t \in Threads, ListCame(t)
  PROVE  /\ thr[t].pc \in {"call", "recall"} /\ thr[t].stage = "list"
         /\ Goes(t, thr[t].op, thr[t].stage, "listed", thr[t].tok, thr[t].dev, DevicesOf(thr[t].tok), thr[t].had,
                 thr[t].stale)
         /\ UNCHANGED <<store, tunnel, signedIn, shown, offered, cur, alive, devs, ops, torn, crossed>>
<1>1. DevicesOf(thr[t].tok) \in SUBSET Devices
  BY DEF DevicesOf
<1> QED  BY <1>1, PcFacts, TurnsTo DEF ListCame, Answered

LEMMA ForgetIdEffect ==
  ASSUME TypeOK, NEW t \in Threads, ForgetId(t)
  PROVE  /\ (thr[t].pc = "listed" /\ Missing(t)) \/ (thr[t].pc = "removed" /\ IsOwn(t))
         /\ Keeps(store.token, store.refresh, store.conf, NONE) /\ Turns(t, "forget", thr[t].tok)
         /\ crossed' = (crossed \/ Others(t) # {})
         /\ UNCHANGED <<tunnel, signedIn, shown, offered, cur, alive, devs, ops, torn>>
  BY PcFacts, StoreMoves, TurnsTo DEF ForgetId, Mark

\* The list or the removal is done with.
Done(t) == IF thr[t].stage = "list" THEN GoesOn(t, "after") ELSE Loads(t)

LEMMA DoneEffect == ASSUME TypeOK, NEW t \in Threads, thr' = To(t, ListDone(t)) PROVE Done(t)
<1>1. CASE thr[t].stage = "list"
  BY <1>1, PcFacts, PieceEffect DEF ListDone, Done
<1>2. CASE thr[t].stage # "list"
  BY <1>2, LoadEffect DEF ListDone, Done
<1> QED  BY <1>1, <1>2

LEMMA ForgetConfEffect ==
  ASSUME TypeOK, NEW t \in Threads, ForgetConf(t)
  PROVE  /\ thr[t].pc = "forget"
         /\ Keeps(store.token, store.refresh, NONE, store.id) /\ Done(t)
         /\ shown' = IF thr[t].stage = "remove" /\ ~thr[t].orphan THEN Selected(store') ELSE shown
         /\ crossed' = (crossed \/ Others(t) # {})
         /\ UNCHANGED <<tunnel, signedIn, offered, cur, alive, devs, ops, torn>>
  BY PcFacts, StoreMoves, DoneEffect DEF ForgetConf, Mark, ShownAfter

LEMMA NothingEffect ==
  ASSUME TypeOK, NEW t \in Threads, NothingToForget(t)
  PROVE  /\ (thr[t].pc = "listed" /\ ~Missing(t)) \/ (thr[t].pc = "removed" /\ ~IsOwn(t))
         /\ Done(t)
         /\ shown' = IF thr[t].stage = "remove" /\ ~thr[t].orphan THEN Selected(store) ELSE shown
         /\ UNCHANGED <<store, tunnel, signedIn, offered, cur, alive, devs, ops, torn, crossed>>
  BY DoneEffect DEF NothingToForget, ShownAfter

LEMMA AfterEffect ==
  ASSUME TypeOK, NEW t \in Threads, AfterList(t)
  PROVE  /\ thr[t].stage = "after" /\ thr[t].pc = "enter"
         /\ \/ /\ thr[t].had # NONE /\ Selected(store) = NONE
               /\ Goes(t, thr[t].op, "down", "enter", thr[t].tok, thr[t].dev, thr[t].list, thr[t].had, thr[t].stale)
               /\ UNCHANGED <<shown, offered>>
            \/ /\ ~(thr[t].had # NONE /\ Selected(store) = NONE)
               /\ Rests(t) /\ shown' = Selected(store) /\ offered' = thr[t].list
         /\ UNCHANGED <<store, tunnel, signedIn, cur, alive, devs, ops, torn, crossed>>
<1> DEFINE r == [thr[t] EXCEPT !.stage = "down"]
<1>1. thr[t].pc = "enter"
  BY DEF AfterList
<1>2. Is(r, thr[t].op, "down", "enter", thr[t].tok, thr[t].dev, thr[t].list, thr[t].had, thr[t].orphan, thr[t].stale)
  <2>1. Is(r, thr[t].op, "down", thr[t].pc, thr[t].tok, thr[t].dev, thr[t].list, thr[t].had, thr[t].orphan,
           thr[t].stale)
    BY ThreadFacts, PcFacts, FieldStage
  <2> QED  BY <1>1, <2>1, Zenon
<1>3. ASSUME thr' = To(t, r)
      PROVE  Goes(t, thr[t].op, "down", "enter", thr[t].tok, thr[t].dev, thr[t].list, thr[t].had, thr[t].stale)
  <2> HIDE DEF r
  <2> QED  BY <1>2, <1>3, GoesTo
<1> QED  BY <1>3, ToRests DEF AfterList, AfterListDown

LEMMA DownEffect ==
  ASSUME TypeOK, NEW t \in Threads, Down(t)
  PROVE  /\ thr[t].pc = "enter" /\ thr[t].stage \in {"down", "stop"} /\ Rests(t)
         /\ (tunnel' = NONE /\ crossed' = crossed) \/ (tunnel' = tunnel /\ crossed' = TRUE)
         /\ IF thr[t].stage = "down" THEN shown' = NONE /\ offered' = thr[t].list ELSE UNCHANGED <<shown, offered>>
         /\ UNCHANGED <<store, signedIn, cur, alive, devs, ops, torn>>
  BY ToRests DEF Down, TurnedOff

LEMMA RemoveEffect ==
  ASSUME TypeOK, NEW t \in Threads, RemoveCame(t)
  PROVE  /\ thr[t].pc \in {"call", "recall"} /\ thr[t].stage = "remove"
         /\ Turns(t, "removed", thr[t].tok)
         /\ devs' = [d \in Devices |-> IF d \in DevicesOf(thr[t].tok) \cap {thr[t].dev} THEN "off" ELSE devs[d]]
         /\ UNCHANGED <<store, tunnel, signedIn, shown, offered, cur, alive, ops, torn, crossed>>
  BY PcFacts, TurnsTo DEF RemoveCame, Answered

LEMMA CreateEffect ==
  ASSUME TypeOK, NEW t \in Threads, CreateCame(t)
  PROVE  /\ thr[t].pc \in {"call", "recall"} /\ thr[t].stage = "create" /\ devs[thr[t].dev] = "new"
         /\ GoesOn(t, "select") /\ devs' = [devs EXCEPT ![thr[t].dev] = "on"]
         /\ UNCHANGED <<store, tunnel, signedIn, shown, offered, cur, alive, ops, torn, crossed>>
  BY PcFacts, PieceEffect DEF CreateCame, Answered

LEMMA ConfigEffect ==
  ASSUME TypeOK, NEW t \in Threads, ConfigCame(t)
  PROVE  /\ thr[t].pc \in {"call", "recall"} /\ thr[t].stage = "select" /\ thr[t].dev \in DevicesOf(thr[t].tok)
         /\ Turns(t, "put", thr[t].tok)
         /\ UNCHANGED <<store, tunnel, signedIn, shown, offered, cur, alive, devs, ops, torn, crossed>>
  BY PcFacts, TurnsTo DEF ConfigCame, Answered

LEMMA SelectGoneEffect ==
  ASSUME TypeOK, NEW t \in Threads, SelectGone(t)
  PROVE  /\ thr[t].pc \in {"call", "recall"} /\ thr[t].stage = "select" /\ Loads(t)
         /\ UNCHANGED <<store, tunnel, signedIn, shown, offered, cur, alive, devs, ops, torn, crossed>>
  BY LoadEffect DEF SelectGone, Answered

LEMMA PutConfEffect ==
  ASSUME TypeOK, NEW t \in Threads, PutConf(t)
  PROVE  /\ thr[t].pc = "put" /\ Keeps(store.token, store.refresh, thr[t].dev, store.id)
         /\ Turns(t, "putid", thr[t].tok) /\ crossed' = (crossed \/ Others(t) # {})
         /\ UNCHANGED <<tunnel, signedIn, shown, offered, cur, alive, devs, ops, torn>>
  BY PcFacts, ThreadFacts, StoreMoves, TurnsTo DEF PutConf, Mark

LEMMA PutIdEffect ==
  ASSUME TypeOK, NEW t \in Threads, PutId(t)
  PROVE  /\ thr[t].pc = "putid" /\ Keeps(store.token, store.refresh, store.conf, thr[t].dev)
         /\ thr' \in [Threads -> Thread]
         /\ \/ thr[t].orphan /\ thr'[t] = Idle
            \/ /\ ~thr[t].orphan
               /\ Is(thr'[t], thr[t].op, "follow", "enter", 0, thr[t].dev, thr[t].list, thr[t].had, FALSE, thr[t].stale)
         /\ \A u \in Threads \ {t} : thr[u] = Idle => thr'[u] = Idle
         /\ \A u \in Threads \ {t} : thr[u] # Idle =>
              Is(thr'[u], thr[u].op, thr[u].stage, thr[u].pc, thr[u].tok, thr[u].dev, thr[u].list, thr[u].had,
                 thr[u].orphan, TRUE)
         /\ crossed' = (crossed \/ Others(t) # {})
         /\ UNCHANGED <<tunnel, signedIn, shown, offered, cur, alive, devs, ops, torn>>
<1> DEFINE done == To(t, Piece(t, "follow"))
           r == [thr[t] EXCEPT !.stage = "follow", !.pc = "enter", !.tok = 0]
<1>0. thr[t] \in Thread /\ thr \in [Threads -> Thread] /\ thr[t].dev \in Device
  BY ThreadFacts DEF TypeOK
<1>1. Is(r, thr[t].op, "follow", "enter", 0, thr[t].dev, thr[t].list, thr[t].had, thr[t].orphan, thr[t].stale)
  BY <1>0, PcFacts, FieldsPiece
<1>2. Piece(t, "follow") = IF thr[t].orphan THEN Idle ELSE r
  BY DEF Piece
<1> HIDE DEF r
<1>3. Piece(t, "follow") \in Thread
  BY <1>1, <1>2, IdleFacts DEF Is
<1>4. done \in [Threads -> Thread] /\ done[t] = Piece(t, "follow") /\ \A u \in Threads \ {t} : done[u] = thr[u]
  BY <1>0, <1>3 DEF To
<1>5. thr' = [u \in Threads |-> IF u # t /\ Busy(u) THEN [done[u] EXCEPT !.stale = TRUE] ELSE done[u]]
  BY DEF PutId
<1> HIDE DEF done
<1>6. thr'[t] = Piece(t, "follow")
  BY <1>4, <1>5
<1>7. \A u \in Threads \ {t} : thr[u] = Idle => thr'[u] = Idle
  BY <1>4, <1>5 DEF Busy
<1>8. ASSUME NEW u \in Threads \ {t}, thr[u] # Idle
      PROVE  Is(thr'[u], thr[u].op, thr[u].stage, thr[u].pc, thr[u].tok, thr[u].dev, thr[u].list, thr[u].had,
                thr[u].orphan, TRUE)
  <2>1. thr'[u] = [thr[u] EXCEPT !.stale = TRUE]
    BY <1>4, <1>5, <1>8, Zenon DEF Busy
  <2> QED  BY <1>0, <2>1, FieldStale
<1>9. \A u \in Threads : thr'[u] \in Thread
  BY <1>3, <1>6, <1>7, <1>8, IdleFacts, Zenon DEF Is
<1>10. thr' \in [Threads -> Thread]
  <2>1. thr' = [u \in Threads |-> thr'[u]]
    BY <1>5
  <2> QED  BY <1>9, <2>1, Zenon
<1>11. \/ thr[t].orphan /\ thr'[t] = Idle
       \/ /\ ~thr[t].orphan
          /\ Is(thr'[t], thr[t].op, "follow", "enter", 0, thr[t].dev, thr[t].list, thr[t].had, FALSE, thr[t].stale)
  <2>1. CASE thr[t].orphan
    BY <1>2, <1>6, <2>1
  <2>2. CASE ~thr[t].orphan
    <3>1. thr[t].orphan = FALSE /\ thr'[t] = r
      BY <1>2, <1>6, <2>2, ThreadFacts
    <3> QED  BY <1>1, <2>2, <3>1
  <2> QED  BY <2>1, <2>2
<1>12. /\ thr[t].pc = "putid" /\ Keeps(store.token, store.refresh, store.conf, thr[t].dev)
       /\ crossed' = (crossed \/ Others(t) # {})
       /\ UNCHANGED <<tunnel, signedIn, shown, offered, cur, alive, devs, ops, torn>>
  BY <1>0, StoreMoves DEF PutId, Mark
<1> QED  BY <1>7, <1>8, <1>10, <1>11, <1>12

\* What follows a piece of use() or add().
Finishes(t) == IF thr[t].op = "add" THEN Loads(t) ELSE Rests(t)

LEMMA FinishEffect == ASSUME TypeOK, NEW t \in Threads, thr' = To(t, AfterWork(t)) PROVE Finishes(t)
<1>1. CASE thr[t].op = "add"
  BY <1>1, LoadEffect DEF AfterWork, Finishes
<1>2. CASE thr[t].op # "add"
  BY <1>2, ToRests DEF AfterWork, Finishes
<1> QED  BY <1>1, <1>2

Ups(t) == Goes(t, thr[t].op, thr[t].stage, "upping", thr[t].tok, StoredConfig, thr[t].list, thr[t].had, thr[t].stale)

LEMMA UppingEffect ==
  ASSUME TypeOK, NEW t \in Threads, thr' = To(t, [thr[t] EXCEPT !.pc = "upping", !.dev = StoredConfig])
  PROVE  Ups(t)
<1>1. StoredConfig \in Device /\ "upping" \in Pc
  BY StoreFacts, PcFacts
<1> QED  BY <1>1, TurnsTo DEF Ups

LEMMA FollowEffect ==
  ASSUME TypeOK, NEW t \in Threads, Follow(t)
  PROVE  /\ thr[t].stage = "follow" /\ thr[t].pc = "enter"
         /\ shown' = (IF thr[t].op = "use" THEN Selected(store) ELSE shown)
         /\ \/ tunnel # NONE /\ StoredConfig # NONE /\ Ups(t)
            \/ (tunnel = NONE \/ StoredConfig = NONE) /\ Finishes(t)
         /\ UNCHANGED <<store, tunnel, signedIn, offered, cur, alive, devs, ops, torn, crossed>>
<1>1. CASE tunnel # NONE /\ StoredConfig # NONE
  BY <1>1, UppingEffect DEF Follow
<1>2. CASE ~(tunnel # NONE /\ StoredConfig # NONE)
  BY <1>2, FinishEffect DEF Follow
<1> QED  BY <1>1, <1>2

LEMMA ReadConfEffect ==
  ASSUME TypeOK, NEW t \in Threads, ReadConf(t)
  PROVE  /\ thr[t].stage = "conf" /\ thr[t].pc = "enter"
         /\ Rests(t) \/ (StoredConfig # NONE /\ Ups(t))
         /\ UNCHANGED <<store, tunnel, signedIn, shown, offered, cur, alive, devs, ops, torn, crossed>>
<1>1. CASE StoredConfig # NONE
  BY <1>1, UppingEffect DEF ReadConf
<1>2. CASE StoredConfig = NONE
  BY <1>2, ToRests DEF ReadConf
<1> QED  BY <1>1, <1>2

LEMMA UpEffect ==
  ASSUME TypeOK, NEW t \in Threads, Up(t)
  PROVE  /\ thr[t].pc = "upping" /\ Finishes(t)
         /\ \/ tunnel' = thr[t].dev /\ crossed' = (crossed \/ Others(t) # {})
            \/ tunnel' = tunnel /\ crossed' = TRUE
         /\ UNCHANGED <<store, signedIn, shown, offered, cur, alive, devs, ops, torn>>
<1>1. Finishes(t)
  <2>1. CASE thr[t].orphan
    BY <2>1, ToRests DEF Up, Finishes, Loads
  <2>2. CASE ~thr[t].orphan
    BY <2>2, FinishEffect DEF Up
  <2> QED  BY <2>1, <2>2
<1> QED  BY <1>1 DEF Up, Mark

\* Signing out.
LEMMA OutDownEffect ==
  ASSUME TypeOK, OutDown
  PROVE  /\ thr["out"].stage = "out" /\ thr["out"].pc = "enter" /\ thr["out"].op = "out"
         /\ (tunnel' = NONE /\ crossed' = crossed) \/ (tunnel' = tunnel /\ crossed' = TRUE)
         /\ Turns("out", "logout", store.refresh)
         /\ UNCHANGED <<store, signedIn, shown, offered, cur, alive, devs, ops, torn>>
<1>1. store.refresh \in SignIns /\ "logout" \in Pc /\ "out" \in Threads
  BY StoreFacts, PcFacts, PageIsThread
<1> QED  BY <1>1, TurnsTo DEF OutDown, At, TurnedOff

LEMMA LogoutEffect ==
  ASSUME TypeOK, Logout
  PROVE  /\ thr["out"].stage = "out" /\ thr["out"].pc = "logout" /\ thr["out"].op = "out"
         /\ alive' \subseteq alive /\ Turns("out", "clear", thr["out"].tok)
         /\ UNCHANGED <<store, tunnel, signedIn, shown, offered, cur, devs, ops, torn, crossed>>
  BY PcFacts, PageIsThread, TurnsTo DEF Logout, At

\* Everyone but "out" is left as it is, or cut off.
LEMMA ClearEffect ==
  ASSUME TypeOK, Clear
  PROVE  /\ thr["out"].stage = "out" /\ thr["out"].pc = "clear"
         /\ store' = Empty /\ Keeps(0, 0, NONE, NONE)
         /\ torn' = (torn \/ \E t \in Threads \ {"out"} : Inside(t))
         /\ crossed' = (crossed \/ Others("out") # {})
         /\ \/ Rests("out") /\ signedIn' = signedIn
            \/ /\ thr' \in [Threads -> Thread] /\ thr'["out"] = Idle /\ signedIn' = FALSE
               /\ \A u \in Threads \ {"out"} : Fades(u) /\ (thr[u] = Idle => thr'[u] = Idle)
         /\ thr["out"].orphan \/ signedIn' = FALSE
         /\ UNCHANGED <<tunnel, shown, offered, cur, alive, devs, ops>>
<1>1. CASE thr["out"].orphan
  BY <1>1, PageIsThread, ToRests, StoreMoves DEF Clear, At
<1>2. CASE ~thr["out"].orphan
  <2> DEFINE f == To("out", Idle)
  <2>1. f \in [Threads -> Thread] /\ f["out"] = Idle /\ \A u \in Threads \ {"out"} : f[u] = thr[u]
    BY IdleFacts, PageIsThread DEF TypeOK, To
  <2>2. thr' = Cut(f) /\ signedIn' = FALSE
    BY <1>2 DEF Clear
  <2> HIDE DEF f
  <2>3. thr' \in [Threads -> Thread] /\ thr'["out"] = Idle
    BY <2>1, <2>2, CutFacts, PageIsThread
  <2>4. ASSUME NEW u \in Threads \ {"out"} PROVE Fades(u) /\ (thr[u] = Idle => thr'[u] = Idle)
    <3>1. f[u] = thr[u]
      BY <2>1
    <3>2. thr[u] = Idle \/ thr[u].pc = "enter" => thr'[u] = Idle
      BY <2>1, <2>2, <3>1, CutFacts
    <3>3. ~(thr[u] = Idle \/ thr[u].pc = "enter") =>
             Is(thr'[u], thr[u].op, thr[u].stage, thr[u].pc, thr[u].tok, thr[u].dev, thr[u].list, thr[u].had,
                TRUE, thr[u].stale)
      BY <2>1, <2>2, <3>1, CutFacts, Zenon
    <3> QED  BY <3>2, <3>3, Zenon DEF Fades, Is
  <2> QED  BY <1>2, <2>2, <2>3, <2>4, StoreMoves DEF Clear, At
<1> QED  BY <1>1, <1>2

LEMMA TurnPageEffect ==
  ASSUME TypeOK, TurnPage
  PROVE  /\ thr' \in [Threads -> Thread] /\ crossed' = TRUE
         /\ \A u \in Threads : Fades(u)
         /\ UNCHANGED <<store, tunnel, signedIn, shown, offered, cur, alive, devs, ops, torn>>
<1>1. thr' = Cut(thr) /\ thr \in [Threads -> Thread]
  BY DEF TurnPage, TypeOK
<1>2. thr' \in [Threads -> Thread]
  BY <1>1, CutFacts
<1>3. ASSUME NEW u \in Threads PROVE Fades(u)
  <2>1. thr[u] = Idle \/ thr[u].pc = "enter" => thr'[u] = Idle
    BY <1>1, CutFacts
  <2>2. ~(thr[u] = Idle \/ thr[u].pc = "enter") =>
           Is(thr'[u], thr[u].op, thr[u].stage, thr[u].pc, thr[u].tok, thr[u].dev, thr[u].list, thr[u].had,
              TRUE, thr[u].stale)
    BY <1>1, CutFacts, Zenon
  <2> QED  BY <2>1, <2>2, Zenon DEF Fades, Is
<1> QED  BY <1>2, <1>3 DEF TurnPage

LEMMA KilledEffect ==
  ASSUME TypeOK, Killed
  PROVE  /\ thr' \in [Threads -> Thread] /\ \A u \in Threads : thr'[u] = Idle
         /\ tunnel' = NONE /\ shown' = NONE /\ offered' = {} /\ signedIn' \in BOOLEAN
         /\ crossed' = (crossed \/ \E t \in Threads : Inside(t))
         /\ torn' \in BOOLEAN /\ (torn => torn') /\ half' \in {"no", "cut"}
         /\ half' = "cut" => torn' \/ half = "cut"
         /\ half' = "no" => half = "no" \/ store.refresh = 0
         /\ UNCHANGED <<store, cur, alive, devs, ops>>
  BY IdleFacts DEF Killed, TypeOK

LEMMA SignInEffect ==
  ASSUME TypeOK, signIn
  PROVE  /\ ~signedIn /\ cur' = cur + 1 /\ cur' \in SignIns /\ alive' = alive \cup {cur'}
         /\ Keeps(cur', store.refresh, store.conf, store.id) /\ half' = "first"
         /\ torn' = (torn \/ \E t \in Threads : Busy(t))
         /\ UNCHANGED <<tunnel, signedIn, shown, offered, devs, thr, ops, crossed>>
<1>1. cur + 1 \in SignIns
  BY AppAssumption DEF signIn, TypeOK, SignIns
<1> QED  BY <1>1, StoreMoves DEF signIn

LEMMA SignedInEffect ==
  ASSUME TypeOK, SignedIn
  PROVE  /\ half = "first" /\ half' = "no"
         /\ \E k \in {cur, 0} : Keeps(store.token, k, store.conf, store.id)
         /\ signedIn' = TRUE /\ shown' = NONE /\ offered' = {}
         /\ UNCHANGED <<tunnel, cur, alive, devs, thr, ops, torn, crossed>>
<1>1. PICK k \in {cur, 0} : store' = [store EXCEPT !.refresh = k]
  BY DEF SignedIn, RefreshStored
<1>2. k \in SignIns
  BY PcFacts DEF TypeOK
<1>3. Keeps(store.token, k, store.conf, store.id)
  BY <1>1, <1>2, StoreMoves
<1> QED  BY <1>3 DEF SignedIn

LEMMA LoadStarts ==
  ASSUME TypeOK, NEW t \in Pages, load(t)
  PROVE  Starts(t, "load", "profile", NONE, NONE) /\ crossed' = crossed
  BY StartEffects, Zenon

LEMMA RenameStarts ==
  ASSUME TypeOK, NEW t \in Pages, rename(t)
  PROVE  Starts(t, "ask", "ask", NONE, NONE) /\ crossed' = crossed
  BY StartEffects, Zenon

LEMMA UseStarts ==
  ASSUME TypeOK, NEW t \in Pages, NEW d \in Devices, use(t, d)
  PROVE  Starts(t, "use", "select", d, NONE) /\ crossed' = crossed
  BY StartEffects, Zenon

LEMMA AddStarts ==
  ASSUME TypeOK, NEW t \in Pages, NEW d \in Devices, add(t, d)
  PROVE  Starts(t, "add", "create", d, NONE) /\ crossed' = crossed
  BY StartEffects, Zenon

LEMMA DeleteStarts ==
  ASSUME TypeOK, NEW t \in Pages, NEW d \in Devices, delete(t, d)
  PROVE  \E h \in {d, NONE} :
            /\ h = NONE => shown # d
            /\ Starts(t, "delete", "remove", d, h) /\ d \in offered
            /\ crossed' = (crossed \/ Others(t) # {})
<1>1. PICK h \in {d, NONE} : h = IF shown = d THEN d ELSE NONE
  OBVIOUS
<1>2. /\ Starts(t, "delete", "remove", d, IF shown = d THEN d ELSE NONE)
      /\ d \in offered /\ crossed' = (crossed \/ Others(t) # {})
  BY StartEffects, Zenon
<1>3. Starts(t, "delete", "remove", d, h)
  BY <1>1, <1>2, Zenon
<1>4. h = NONE => shown # d
  BY <1>1, AppAssumption
<1> QED  BY <1>2, <1>3, <1>4

LEMMA OutStarts ==
  ASSUME TypeOK, signOut
  PROVE  Starts("out", "out", "out", NONE, NONE) /\ crossed' = crossed
  BY StartEffects, Zenon

LEMMA PressStarts ==
  ASSUME TypeOK, press
  PROVE  \E s \in {"conf", "stop"} : Starts("switch", "switch", s, NONE, NONE) /\ crossed' = crossed
  BY StartEffects, PressStage, Zenon

-----------------------------------------------------------------------------
(* Types                                                                   *)

LEMMA TypeStep == ASSUME TypeOK, Shapes, [Next]_vars PROVE TypeOK'
<1>a. /\ store \in Store /\ tunnel \in Device /\ shown \in Device
      /\ signedIn \in BOOLEAN /\ offered \subseteq Devices
      /\ cur \in SignIns /\ alive \subseteq SignIns /\ devs \in [Devices -> {"new", "on", "off"}]
      /\ thr \in [Threads -> Thread] /\ ops \in Nat /\ torn \in BOOLEAN /\ crossed \in BOOLEAN
      /\ NONE \in Device /\ Selected(store) \in Device /\ Devices \subseteq Device
      /\ \A t \in Threads : thr[t].dev \in Device /\ thr[t].list \subseteq Devices
  BY StoreFacts, PcFacts, ThreadFacts DEF TypeOK, Store
<1>b. ASSUME store' \in Store, tunnel' \in Device, shown' \in Device, signedIn' \in BOOLEAN,
             offered' \subseteq Devices, cur' \in SignIns, alive' \subseteq SignIns,
             devs' \in [Devices -> {"new", "on", "off"}], thr' \in [Threads -> Thread], ops' \in Nat,
             torn' \in BOOLEAN, crossed' \in BOOLEAN
      PROVE  TypeOK'
  <2>1. half' \in {"no", "first", "cut"}
    BY DEF TypeOK, Next, signIn, SignedIn, Killed, Clear, vars
  <2> QED  BY <1>b, <2>1 DEF TypeOK, Store
<1>c. store' \in Store => Selected(store') \in Device
  BY <1>a DEF Selected, Store
<1>d. ASSUME NEW t, NEW op, NEW stage, NEW d, NEW h, Starts(t, op, stage, d, h), crossed' \in BOOLEAN
      PROVE  TypeOK'
  BY <1>a, <1>b, <1>d DEF Starts, Goes
<1> USE DEF Goes, Turns, GoesOn, Loads, Rests, Leaves, Done, Finishes, Ups, Keeps
<1>1. CASE signIn
  BY <1>a, <1>b, <1>1, SignInEffect
<1>41. CASE SignedIn
  <2>1. PICK k \in {cur, 0} : Keeps(store.token, k, store.conf, store.id)
    BY <1>41, SignedInEffect
  <2> QED  BY <1>a, <1>b, <1>41, <2>1, SignedInEffect
<1>2. CASE signOut
  BY <1>a, <1>d, <1>2, OutStarts, Zenon
<1>3. CASE press
  BY <1>a, <1>d, <1>3, PressStarts, Zenon
<1>4. CASE TurnPage
  BY <1>a, <1>b, <1>4, TurnPageEffect
<1>5. CASE Killed
  BY <1>a, <1>b, <1>5, KilledEffect
<1>6. CASE OutDown
  BY <1>a, <1>b, <1>6, OutDownEffect
<1>7. CASE Logout
  BY <1>a, <1>b, <1>7, LogoutEffect
<1>8. CASE Clear
  BY <1>a, <1>b, <1>8, ClearEffect
<1>9. CASE PortalDrops
  BY <1>a, <1>b, <1>9 DEF PortalDrops
<1>10. CASE SiteRemoves
  BY <1>a, <1>b, <1>10 DEF SiteRemoves
<1>11. CASE onStateChange
  BY <1>a, <1>b, <1>11 DEF onStateChange
<1>12. ASSUME NEW t \in Pages, load(t) PROVE TypeOK'
  BY <1>a, <1>d, <1>12, LoadStarts, Zenon
<1>13. ASSUME NEW t \in Pages, rename(t) PROVE TypeOK'
  BY <1>a, <1>d, <1>13, RenameStarts, Zenon
<1>14. ASSUME NEW t \in Pages, Enter(t) PROVE TypeOK'
  BY <1>a, <1>b, <1>14, EnterEffect, PageIsThread, ZenonT(40)
<1>15. ASSUME NEW t \in Pages, Refused(t) PROVE TypeOK'
  BY <1>a, <1>b, <1>15, RefusedEffect, PageIsThread
<1>16. ASSUME NEW t \in Pages, RenewReads(t) PROVE TypeOK'
  BY <1>a, <1>b, <1>16, RenewReadsEffect, PageIsThread, ZenonT(40)
<1>17. ASSUME NEW t \in Pages, Renewed(t) PROVE TypeOK'
  BY <1>a, <1>b, <1>17, RenewedEffect, PageIsThread
<1>18. ASSUME NEW t \in Pages, RenewRefused(t) PROVE TypeOK'
  BY <1>a, <1>b, <1>18, RenewRefusedEffect, PageIsThread
<1>19. ASSUME NEW t \in Pages, Failed(t) PROVE TypeOK'
  BY <1>a, <1>b, <1>19, FailedEffect, PageIsThread
<1>20. ASSUME NEW t \in Pages, ProfileCame(t) PROVE TypeOK'
  BY <1>a, <1>b, <1>20, ProfileEffect, PageIsThread
<1>21. ASSUME NEW t \in Pages, AskAnswered(t) PROVE TypeOK'
  BY <1>a, <1>b, <1>21, AskEffect, PageIsThread
<1>22. ASSUME NEW t \in Pages, ListCame(t) PROVE TypeOK'
  BY <1>a, <1>b, <1>22, ListEffect, PageIsThread
<1>23. ASSUME NEW t \in Pages, AfterList(t) PROVE TypeOK'
  BY <1>a, <1>b, <1>23, AfterEffect, PageIsThread
<1>24. ASSUME NEW t \in Pages, ForgetId(t) PROVE TypeOK'
  BY <1>a, <1>b, <1>24, ForgetIdEffect, PageIsThread, ZenonT(40)
<1>25. ASSUME NEW t \in Pages, ForgetConf(t) PROVE TypeOK'
  BY <1>a, <1>b, <1>c, <1>25, ForgetConfEffect, PageIsThread
<1>26. ASSUME NEW t \in Pages, NothingToForget(t) PROVE TypeOK'
  BY <1>a, <1>b, <1>26, NothingEffect, PageIsThread
<1>27. ASSUME NEW t \in Pages, RemoveCame(t) PROVE TypeOK'
  BY <1>a, <1>b, <1>27, RemoveEffect, PageIsThread
<1>28. ASSUME NEW t \in Pages, CreateCame(t) PROVE TypeOK'
  BY <1>a, <1>b, <1>28, CreateEffect, PageIsThread
<1>29. ASSUME NEW t \in Pages, ConfigCame(t) PROVE TypeOK'
  BY <1>a, <1>b, <1>29, ConfigEffect, PageIsThread
<1>30. ASSUME NEW t \in Pages, SelectGone(t) PROVE TypeOK'
  BY <1>a, <1>b, <1>30, SelectGoneEffect, PageIsThread
<1>31. ASSUME NEW t \in Pages, PutConf(t) PROVE TypeOK'
  BY <1>a, <1>b, <1>31, PutConfEffect, PageIsThread, ZenonT(40)
<1>32. ASSUME NEW t \in Pages, PutId(t) PROVE TypeOK'
  BY <1>a, <1>b, <1>32, PutIdEffect, PageIsThread
<1>33. ASSUME NEW t \in Pages, Follow(t) PROVE TypeOK'
  BY <1>a, <1>b, <1>33, FollowEffect, PageIsThread
<1>34. ASSUME NEW t \in Pages, NEW d \in Devices, use(t, d) PROVE TypeOK'
  BY <1>a, <1>d, <1>34, UseStarts, Zenon
<1>35. ASSUME NEW t \in Pages, NEW d \in Devices, add(t, d) PROVE TypeOK'
  BY <1>a, <1>d, <1>35, AddStarts, Zenon
<1>36. ASSUME NEW t \in Pages, NEW d \in Devices, delete(t, d) PROVE TypeOK'
  BY <1>a, <1>d, <1>36, DeleteStarts, ZenonT(40)
<1>37. ASSUME NEW t \in Threads, Down(t) PROVE TypeOK'
  BY <1>a, <1>b, <1>37, DownEffect
<1>38. ASSUME NEW t \in Threads, ReadConf(t) PROVE TypeOK'
  BY <1>a, <1>b, <1>38, ReadConfEffect
<1>39. ASSUME NEW t \in Threads, Up(t) PROVE TypeOK'
  BY <1>a, <1>b, <1>39, UpEffect
<1>40. CASE UNCHANGED vars
  BY <1>a, <1>b, <1>40 DEF vars
<1> QED
  BY <1>1, <1>2, <1>3, <1>4, <1>5, <1>6, <1>7, <1>8, <1>9, <1>10, <1>11, <1>12, <1>13, <1>14, <1>15,
     <1>16, <1>17, <1>18, <1>19, <1>20, <1>21, <1>22, <1>23, <1>24, <1>25, <1>26, <1>27, <1>28,
     <1>29, <1>30, <1>31, <1>32, <1>33, <1>34, <1>35, <1>36, <1>37, <1>38, <1>39, <1>40, <1>41
  DEF Next, Operate

-----------------------------------------------------------------------------
(* The pieces of the operations                                            *)

LEMMA Apart == \A t \in Pages : t # "out" /\ t # "switch"
  BY AppAssumption

LEMMA ShapeKept ==
  ASSUME NEW u \in Threads, Shape(u), thr'[u] = thr[u] \/ Fades(u) PROVE Shape(u)'
  BY IdleFacts DEF Shape, PieceOf, Fades, Renewing, Calls

\* Where an operation of a page stands, by its pc.
LEMMA PageShape ==
  ASSUME TypeOK, Shapes, NEW t \in Pages, thr[t].pc # "none"
  PROVE  PieceOf(thr[t]) /\ (thr[t].orphan => thr[t].pc # "enter")
  BY IdleFacts, PageIsThread DEF Shapes, Shape

LEMMA ShapeStep == ASSUME TypeOK, Shapes, [Next]_vars PROVE Shapes'
<1>k. ASSUME NEW u \in Threads, thr'[u] = thr[u] \/ Fades(u) PROVE Shape(u)'
  BY <1>k, ShapeKept DEF Shapes
<1>r. ASSUME NEW t \in Threads, thr'[t] = Idle, \A u \in Threads \ {t} : thr'[u] = thr[u] \/ Fades(u)
      PROVE  Shapes'
  BY <1>k, <1>r, IdleFacts DEF Shapes, Fades
<1>p. ASSUME NEW t \in Pages, \A u \in Threads \ {t} : thr'[u] = thr[u] \/ Fades(u),
             thr'[t] = Idle \/ (PieceOf(thr'[t]) /\ (thr'[t].orphan => thr'[t].pc # "enter"))
      PROVE  Shapes'
  <2>1. Shape(t)'
    BY <1>p, IdleFacts, Apart DEF Shape, PieceOf
  <2> QED  BY <1>k, <1>p, <2>1 DEF Shapes
<1>l. ASSUME NEW t \in Threads, Leaves(t) PROVE Shapes'
  BY <1>l, <1>r, Zenon DEF Leaves, Rests
<1>i. \A t \in Threads : Rests(t) => Shapes'
  BY <1>r, Zenon DEF Rests
<1>o. \A t \in Pages : Loads(t) => Shapes'
  <2>1. ASSUME NEW t \in Pages, Loads(t) PROVE Shapes'
    BY <1>i, <1>p, <2>1, PageIsThread DEF Loads, Goes, PieceOf
  <2> QED  BY <2>1
<1> USE DEF Goes, Turns, GoesOn, Done, Finishes, Ups, PieceOf, Renewing, Calls
<1>1. CASE signIn
  BY <1>k, <1>1, SignInEffect DEF Shapes
<1>41. CASE SignedIn
  BY <1>k, <1>41, SignedInEffect DEF Shapes
<1>2. CASE signOut
  <2>1. Shape("out")'
    BY <1>2, OutStarts, IdleFacts, PageIsThread, Apart DEF Starts, Shapes, Shape
  <2> QED  BY <1>k, <1>2, <2>1, OutStarts, PageIsThread DEF Shapes, Starts
<1>3. CASE press
  <2>1. Shape("switch")'
    BY <1>3, PressStarts, IdleFacts, PageIsThread, Apart DEF Starts, Shapes, Shape
  <2> QED  BY <1>k, <1>3, <2>1, PressStarts, PageIsThread DEF Shapes, Starts
<1>4. CASE TurnPage
  BY <1>k, <1>4, TurnPageEffect DEF Shapes
<1>5. CASE Killed
  BY <1>k, <1>5, KilledEffect DEF Shapes, Fades
<1>6. CASE OutDown
  <2>1. Shape("out")'
    BY <1>6, OutDownEffect, IdleFacts, PageIsThread, Apart DEF Starts, Shapes, Shape
  <2> QED  BY <1>k, <1>6, <2>1, OutDownEffect, PageIsThread DEF Shapes, Starts
<1>7. CASE Logout
  <2>1. Shape("out")'
    BY <1>7, LogoutEffect, IdleFacts, PageIsThread, Apart DEF Starts, Shapes, Shape
  <2> QED  BY <1>k, <1>7, <2>1, LogoutEffect, PageIsThread DEF Shapes, Starts
<1>8. CASE Clear
  BY <1>i, <1>r, <1>8, ClearEffect, PageIsThread
<1>9. CASE PortalDrops
  BY <1>k, <1>9 DEF Shapes, PortalDrops
<1>10. CASE SiteRemoves
  BY <1>k, <1>10 DEF Shapes, SiteRemoves
<1>11. CASE onStateChange
  BY <1>k, <1>11 DEF Shapes, onStateChange
<1>12. ASSUME NEW t \in Pages, load(t) PROVE Shapes'
  BY <1>p, <1>12, LoadStarts, IdleFacts, PageIsThread DEF Starts
<1>13. ASSUME NEW t \in Pages, rename(t) PROVE Shapes'
  BY <1>p, <1>13, RenameStarts, IdleFacts, PageIsThread DEF Starts
<1>14. ASSUME NEW t \in Pages, Enter(t) PROVE Shapes'
  <2>1. PieceOf(thr[t]) /\ thr[t].stage \in Calls /\ thr[t].orphan = FALSE
    BY <1>14, EnterEffect, PageShape, ThreadFacts, PageIsThread
  <2>2. /\ thr'[t].op = thr[t].op /\ thr'[t].stage = thr[t].stage /\ thr'[t].dev = thr[t].dev
        /\ thr'[t].pc \in {"renew", "call"} /\ \A u \in Threads \ {t} : thr'[u] = thr[u]
    BY <1>14, EnterEffect, PageIsThread
  <2> QED  BY <1>p, <2>1, <2>2
<1>15. ASSUME NEW t \in Pages, Refused(t) PROVE Shapes'
  BY <1>i, <1>l, <1>o, <1>p, <1>15, RefusedEffect, PageShape, PageIsThread
<1>16. ASSUME NEW t \in Pages, RenewReads(t) PROVE Shapes'
  BY <1>i, <1>l, <1>o, <1>p, <1>16, RenewReadsEffect, PageShape, PageIsThread
<1>17. ASSUME NEW t \in Pages, Renewed(t) PROVE Shapes'
  BY <1>i, <1>l, <1>o, <1>p, <1>17, RenewedEffect, PageShape, PageIsThread
<1>18. ASSUME NEW t \in Pages, RenewRefused(t) PROVE Shapes'
  BY <1>i, <1>l, <1>o, <1>p, <1>18, RenewRefusedEffect, PageShape, PageIsThread
<1>19. ASSUME NEW t \in Pages, Failed(t) PROVE Shapes'
  BY <1>i, <1>l, <1>o, <1>p, <1>19, FailedEffect, PageShape, PageIsThread
<1>20. ASSUME NEW t \in Pages, ProfileCame(t) PROVE Shapes'
  BY <1>i, <1>l, <1>o, <1>p, <1>20, ProfileEffect, PageShape, PageIsThread
<1>21. ASSUME NEW t \in Pages, AskAnswered(t) PROVE Shapes'
  BY <1>i, <1>l, <1>o, <1>p, <1>21, AskEffect, PageShape, PageIsThread
<1>22. ASSUME NEW t \in Pages, ListCame(t) PROVE Shapes'
  BY <1>i, <1>l, <1>o, <1>p, <1>22, ListEffect, PageShape, PageIsThread
<1>23. ASSUME NEW t \in Pages, AfterList(t) PROVE Shapes'
  BY <1>i, <1>l, <1>o, <1>p, <1>23, AfterEffect, PageShape, PageIsThread
<1>24. ASSUME NEW t \in Pages, ForgetId(t) PROVE Shapes'
  BY <1>i, <1>l, <1>o, <1>p, <1>24, ForgetIdEffect, PageShape, PageIsThread
<1>25. ASSUME NEW t \in Pages, ForgetConf(t) PROVE Shapes'
  BY <1>i, <1>l, <1>o, <1>p, <1>25, ForgetConfEffect, PageShape, PageIsThread
<1>26. ASSUME NEW t \in Pages, NothingToForget(t) PROVE Shapes'
  BY <1>i, <1>l, <1>o, <1>p, <1>26, NothingEffect, PageShape, PageIsThread
<1>27. ASSUME NEW t \in Pages, RemoveCame(t) PROVE Shapes'
  BY <1>i, <1>l, <1>o, <1>p, <1>27, RemoveEffect, PageShape, PageIsThread
<1>28. ASSUME NEW t \in Pages, CreateCame(t) PROVE Shapes'
  BY <1>i, <1>l, <1>o, <1>p, <1>28, CreateEffect, PageShape, PageIsThread
<1>29. ASSUME NEW t \in Pages, ConfigCame(t) PROVE Shapes'
  BY <1>i, <1>l, <1>o, <1>p, <1>29, ConfigEffect, PageShape, PageIsThread
<1>30. ASSUME NEW t \in Pages, SelectGone(t) PROVE Shapes'
  BY <1>i, <1>l, <1>o, <1>p, <1>30, SelectGoneEffect, PageShape, PageIsThread
<1>31. ASSUME NEW t \in Pages, PutConf(t) PROVE Shapes'
  BY <1>i, <1>l, <1>o, <1>p, <1>31, PutConfEffect, PageShape, PageIsThread
<1>32. ASSUME NEW t \in Pages, PutId(t) PROVE Shapes'
  <2>1. PieceOf(thr[t])
    BY <1>32, PageShape, PutIdEffect, PageIsThread
  <2>2. thr'[t] = Idle \/ (PieceOf(thr'[t]) /\ ~thr'[t].orphan)
    BY <1>32, <2>1, PutIdEffect, PageIsThread DEF Is
  <2>3. ASSUME NEW u \in Threads \ {t} PROVE Shape(u)'
    <3>0. Shape(u)
      BY DEF Shapes
    <3>1. CASE thr[u] = Idle
      BY <1>k, <1>32, <3>1, PutIdEffect, PageIsThread
    <3>2. CASE thr[u] # Idle
      <4>1. Is(thr'[u], thr[u].op, thr[u].stage, thr[u].pc, thr[u].tok, thr[u].dev, thr[u].list, thr[u].had,
               thr[u].orphan, TRUE)
        BY <1>32, <3>2, PutIdEffect, PageIsThread
      <4> QED  BY <3>0, <3>2, <4>1 DEF Is, Shape
    <3> QED  BY <3>1, <3>2
  <2>4. Shape(t)'
    BY <2>2, IdleFacts, Apart DEF Shape, PieceOf
  <2> QED  BY <2>3, <2>4 DEF Shapes
<1>33. ASSUME NEW t \in Pages, Follow(t) PROVE Shapes'
  <2>1. PieceOf(thr[t]) /\ thr[t].stage = "follow"
    BY <1>33, FollowEffect, PageShape, PageIsThread
  <2>2. CASE Ups(t) /\ StoredConfig # NONE
    <3>1. StoredConfig \in Devices
      BY <2>2, StoreFacts DEF Device
    <3> QED  BY <1>p, <2>1, <2>2, <3>1
  <2>3. CASE Finishes(t)
    BY <1>i, <1>o, <2>3, PageIsThread
  <2> QED  BY <1>33, <2>2, <2>3, FollowEffect, PageIsThread, Zenon
<1>34. ASSUME NEW t \in Pages, NEW d \in Devices, use(t, d) PROVE Shapes'
  BY <1>p, <1>34, UseStarts, IdleFacts, PageIsThread DEF Starts
<1>35. ASSUME NEW t \in Pages, NEW d \in Devices, add(t, d) PROVE Shapes'
  BY <1>p, <1>35, AddStarts, IdleFacts, PageIsThread DEF Starts
<1>36. ASSUME NEW t \in Pages, NEW d \in Devices, delete(t, d) PROVE Shapes'
  <2>1. PICK h \in {d, NONE} : Starts(t, "delete", "remove", d, h)
    BY <1>36, DeleteStarts
  <2> QED  BY <1>p, <2>1, IdleFacts, PageIsThread DEF Starts
<1>37. ASSUME NEW t \in Threads, Down(t) PROVE Shapes'
  BY <1>i, <1>37, DownEffect
<1>38. ASSUME NEW t \in Threads, ReadConf(t) PROVE Shapes'
  <2>1. CASE Rests(t)
    BY <1>i, <2>1
  <2>2. CASE Ups(t)
    <3>1. thr[t].stage = "conf" /\ thr[t].pc = "enter" /\ Shape(t) /\ t = "switch"
      BY <1>38, ReadConfEffect, IdleFacts DEF Shapes, Shape, Threads
    <3>2. Shape(t)'
      BY <2>2, <3>1, IdleFacts, Apart DEF Shape
    <3> QED  BY <1>k, <2>2, <3>2 DEF Shapes
  <2> QED  BY <1>38, <2>1, <2>2, ReadConfEffect
<1>39. ASSUME NEW t \in Threads, Up(t) PROVE Shapes'
  <2>1. CASE Rests(t)
    BY <1>i, <2>1
  <2>2. CASE Loads(t) /\ thr[t].op = "add"
    <3>1. t \in Pages
      BY <1>39, <2>2, UpEffect, IdleFacts DEF Shapes, Shape, Threads
    <3> QED  BY <1>o, <2>2, <3>1
  <2> QED  BY <1>39, <2>1, <2>2, UpEffect
<1>40. CASE UNCHANGED vars
  BY <1>k, <1>40 DEF Shapes, vars
<1> QED
  BY <1>1, <1>2, <1>3, <1>4, <1>5, <1>6, <1>7, <1>8, <1>9, <1>10, <1>11, <1>12, <1>13, <1>14, <1>15,
     <1>16, <1>17, <1>18, <1>19, <1>20, <1>21, <1>22, <1>23, <1>24, <1>25, <1>26, <1>27, <1>28,
     <1>29, <1>30, <1>31, <1>32, <1>33, <1>34, <1>35, <1>36, <1>37, <1>38, <1>39, <1>40, <1>41
  DEF Next, Operate

\* Of the others, the id just written makes any list stale.
LEMMA PutIdOthers ==
  ASSUME TypeOK, NEW t \in Threads, PutId(t), NEW u \in Threads \ {t}
  PROVE  /\ thr'[u].op = thr[u].op /\ thr'[u].stage = thr[u].stage /\ thr'[u].pc = thr[u].pc
         /\ thr'[u].tok = thr[u].tok /\ thr'[u].dev = thr[u].dev /\ thr'[u].list = thr[u].list
         /\ thr'[u].had = thr[u].had /\ thr'[u].orphan = thr[u].orphan
         /\ thr[u] = Idle \/ thr'[u].stale
<1>1. CASE thr[u] = Idle
  <2>1. thr'[u] = Idle
    BY <1>1, PutIdEffect, Zenon
  <2> QED  BY <1>1, <2>1
<1>2. CASE thr[u] # Idle
  <2>1. Is(thr'[u], thr[u].op, thr[u].stage, thr[u].pc, thr[u].tok, thr[u].dev, thr[u].list, thr[u].had,
           thr[u].orphan, TRUE)
    BY <1>2, PutIdEffect, Zenon
  <2> QED  BY <1>2, <2>1 DEF Is
<1> QED  BY <1>1, <1>2

-----------------------------------------------------------------------------
(* Tokens                                                                  *)

InCall == {"call", "recall", "renewing"}

\* Between the writes of a sign-in no screen starts anything: only what was under
\* way before can move.
LEMMA FirstStep ==
  ASSUME TypeOK, Operate
  PROVE  /\ torn' = torn /\ (~signedIn => ~signedIn')
         /\ signedIn \/ thr' = thr \/ \E t \in Threads : thr[t] # Idle
<1>1. CASE signOut \/ press \/ TurnPage
  BY <1>1 DEF signOut, press, Start, Begin, TurnPage
<1>2. CASE OutDown \/ Logout
  BY <1>2, IdleFacts, PageIsThread DEF OutDown, Logout, At
<1>3. CASE PortalDrops \/ SiteRemoves \/ onStateChange
  BY <1>3 DEF PortalDrops, SiteRemoves, onStateChange
<1>4. ASSUME NEW t \in Pages, \/ load(t) \/ rename(t)
                               \/ \E d \in Devices : use(t, d) \/ add(t, d) \/ delete(t, d)
      PROVE  torn' = torn /\ signedIn' = signedIn /\ signedIn
  BY <1>4 DEF load, rename, use, add, delete, Start, Begin
<1>5. ASSUME NEW t \in Pages, Enter(t) \/ Refused(t) \/ RenewReads(t) \/ Renewed(t) \/ RenewRefused(t) \/ Failed(t)
      PROVE  torn' = torn /\ (~signedIn => ~signedIn') /\ thr[t] # Idle
  BY <1>5, IdleFacts DEF Enter, Refused, RenewReads, Renewed, RenewRefused, Failed, Expired, TypeOK
<1>6. ASSUME NEW t \in Pages,
             ProfileCame(t) \/ AskAnswered(t) \/ ListCame(t) \/ RemoveCame(t) \/ CreateCame(t)
             \/ ConfigCame(t) \/ SelectGone(t)
      PROVE  torn' = torn /\ signedIn' = signedIn /\ thr[t] # Idle
  BY <1>6, IdleFacts DEF ProfileCame, AskAnswered, ListCame, RemoveCame, CreateCame, ConfigCame, SelectGone, Answered
<1>7. ASSUME NEW t \in Pages,
             AfterList(t) \/ ForgetId(t) \/ ForgetConf(t) \/ NothingToForget(t) \/ PutConf(t) \/ PutId(t) \/ Follow(t)
      PROVE  torn' = torn /\ signedIn' = signedIn /\ thr[t] # Idle
  BY <1>7, IdleFacts DEF AfterList, ForgetId, ForgetConf, NothingToForget, PutConf, PutId, Follow
<1>8. ASSUME NEW t \in Threads, Down(t) \/ ReadConf(t) \/ Up(t)
      PROVE  torn' = torn /\ signedIn' = signedIn /\ thr[t] # Idle
  BY <1>8, IdleFacts DEF Down, ReadConf, Up
<1> QED  BY <1>1, <1>2, <1>3, <1>4, <1>5, <1>6, <1>7, <1>8, PageIsThread DEF Operate

LEMMA HalfStep == ASSUME TypeOK, HalfSeen, [Next]_vars PROVE HalfSeen'
<1>1. CASE signIn
  <2>1. torn' \/ \A t \in Threads : thr[t] = Idle
    BY <1>1, SignInEffect DEF Busy
  <2> QED  BY <1>1, <2>1, SignInEffect DEF HalfSeen
<1>2. CASE SignedIn
  BY <1>2, SignedInEffect DEF HalfSeen
<1>3. CASE Killed
  BY <1>3, KilledEffect DEF HalfSeen
<1>4. CASE Clear
  <2>1. "out" \in Threads /\ thr["out"] # Idle
    BY <1>4, PageIsThread, IdleFacts DEF Clear, At
  <2>2. half = "first" => torn' /\ ~signedIn'
    BY <1>4, <2>1, ClearEffect DEF HalfSeen
  <2> QED  BY <1>4, <2>2 DEF HalfSeen, Clear
<1>5. CASE Operate /\ UNCHANGED half
  BY <1>5, FirstStep DEF HalfSeen
<1>6. CASE UNCHANGED vars
  BY <1>6 DEF HalfSeen, vars
<1> QED  BY <1>1, <1>2, <1>3, <1>4, <1>5, <1>6 DEF Next

LEMMA SessionStep == ASSUME TypeOK, Sessions, [Next]_vars PROVE Sessions'
<1> USE DEF InCall
<1>a. /\ half = "no" => store.refresh \in {0, cur}
      /\ \A t \in Threads : thr[t] # Idle => torn \/ store.refresh \in {0, cur}
      /\ torn \/ store.token \in {0, cur}
      /\ \A t \in Threads : thr[t].pc \in InCall => torn \/ thr[t].tok = cur
  BY DEF Sessions, TokensAreCurrent, CallsCurrent, HalfSeen, TypeOK
<1>v. HalfSeen'
  BY HalfStep DEF Sessions
<1>h. half' = "no" => half = "no" \/ store'.refresh \in {0, cur'}
  <2>1. CASE signIn
    BY <2>1 DEF signIn
  <2>2. CASE SignedIn
    BY <2>2, SignedInEffect DEF Keeps
  <2>3. CASE Killed
    BY <2>3, KilledEffect
  <2>4. CASE Clear
    BY <2>4, ClearEffect DEF Keeps
  <2>5. CASE UNCHANGED half
    BY <2>5
  <2> QED  BY <2>1, <2>2, <2>3, <2>4, <2>5 DEF Next, vars
\* A step that is no sign-in: tokens and calls, of the one who takes it and of the others.
<1>b. ASSUME NEW t \in Threads, cur' = cur, torn => torn', store'.refresh \in {0, store.refresh},
             torn \/ store'.token \in {0, cur}, thr'[t].pc \in InCall => torn \/ thr'[t].tok = cur,
             \A u \in Threads \ {t} : thr'[u] = thr[u] \/ Fades(u)
      PROVE  Sessions'
  <2>1. ASSUME NEW u \in Threads \ {t}, thr'[u].pc \in InCall PROVE torn \/ thr'[u].tok = cur
    BY <1>a, <1>b, <2>1, IdleFacts DEF Fades
  <2> QED  BY <1>a, <1>b, <1>h, <1>v, <2>1 DEF Sessions, TokensAreCurrent, CallsCurrent
<1>i. ASSUME NEW t \in Threads, Rests(t), UNCHANGED <<store, cur, torn>> PROVE Sessions'
  BY <1>a, <1>b, <1>i, IdleFacts DEF Rests
<1>l. ASSUME NEW t \in Threads, Leaves(t), UNCHANGED <<cur, torn>>, store'.refresh \in {0, store.refresh},
             torn \/ store'.token \in {0, cur}
      PROVE  Sessions'
  BY <1>a, <1>b, <1>l, IdleFacts DEF Leaves, Rests
<1>g. ASSUME NEW t \in Threads, NEW op, NEW stage, NEW tok, NEW dev, NEW list, NEW had, NEW stale, NEW pc,
             Goes(t, op, stage, pc, tok, dev, list, had, stale), pc \notin InCall,
             UNCHANGED <<cur, torn>>, store'.refresh \in {0, store.refresh}, torn \/ store'.token \in {0, cur}
      PROVE  Sessions'
  BY <1>a, <1>b, <1>g DEF Goes
<1>o. ASSUME NEW t \in Threads, Loads(t), UNCHANGED <<cur, torn>>, store'.refresh \in {0, store.refresh},
             torn \/ store'.token \in {0, cur}
      PROVE  Sessions'
  BY <1>a, <1>b, <1>o, IdleFacts DEF Loads, Rests, Goes
<1>n. ASSUME NEW t \in Threads, NEW s, GoesOn(t, s), UNCHANGED <<cur, torn>>, store'.refresh \in {0, store.refresh},
             torn \/ store'.token \in {0, cur}
      PROVE  Sessions'
  BY <1>a, <1>b, <1>n, IdleFacts DEF GoesOn, Rests, Goes
<1>s. ASSUME NEW t \in Threads, NEW op, NEW stage, NEW dev, NEW had, Starts(t, op, stage, dev, had) PROVE Sessions'
  <2>1. /\ UNCHANGED <<store, cur, torn>> /\ thr'[t].pc = "enter" /\ \A u \in Threads \ {t} : thr'[u] = thr[u]
    BY <1>s, Zenon DEF Starts, Goes
  <2> QED  BY <1>a, <1>b, <2>1
<1>1. CASE signIn
  <2>1. torn' \/ \A t \in Threads : thr[t].pc \notin InCall
    BY <1>1, SignInEffect, IdleFacts DEF Busy
  <2> QED  BY <1>h, <1>v, <1>1, <2>1, SignInEffect DEF Keeps, Sessions, TokensAreCurrent, CallsCurrent
<1>41. CASE SignedIn
  <2>1. UNCHANGED <<thr, cur, torn>> /\ store'.token = store.token
    BY <1>41, SignedInEffect DEF Keeps
  <2> QED  BY <1>a, <1>h, <1>v, <1>41, <2>1, SignedInEffect DEF Sessions, TokensAreCurrent, CallsCurrent
<1>2. CASE signOut
  BY <1>s, <1>2, OutStarts, PageIsThread
<1>3. CASE press
  BY <1>s, <1>3, PressStarts, PageIsThread
<1>4. CASE TurnPage
  <2>1. UNCHANGED <<store, cur, torn>> /\ \A u \in Threads : Fades(u)
    BY <1>4, TurnPageEffect, Zenon DEF Fades
  <2>2. ASSUME NEW u \in Threads, thr'[u].pc \in InCall PROVE torn \/ thr'[u].tok = cur
    BY <1>a, <2>1, <2>2, IdleFacts DEF Fades
  <2> QED  BY <1>a, <1>h, <1>v, <2>1, <2>2 DEF Sessions, TokensAreCurrent, CallsCurrent
<1>5. CASE Killed
  <2>1. UNCHANGED <<store, cur>> /\ (torn => torn') /\ \A u \in Threads : Fades(u)
    BY <1>5, KilledEffect, Zenon DEF Fades
  <2>2. ASSUME NEW u \in Threads, thr'[u].pc \in InCall PROVE torn \/ thr'[u].tok = cur
    BY <1>a, <2>1, <2>2, IdleFacts DEF Fades
  <2> QED  BY <1>a, <1>h, <1>v, <2>1, <2>2 DEF Sessions, TokensAreCurrent, CallsCurrent
<1>6. CASE OutDown
  BY <1>a, <1>g, <1>6, OutDownEffect, PageIsThread DEF Turns
<1>7. CASE Logout
  BY <1>a, <1>g, <1>7, LogoutEffect, PageIsThread DEF Turns
<1>8. CASE Clear
  BY <1>a, <1>b, <1>8, ClearEffect, PageIsThread, IdleFacts DEF Keeps, Rests
<1>9. CASE PortalDrops
  BY <1>h, <1>v, <1>a, <1>9 DEF Sessions, TokensAreCurrent, CallsCurrent, PortalDrops
<1>10. CASE SiteRemoves
  BY <1>h, <1>v, <1>a, <1>10 DEF Sessions, TokensAreCurrent, CallsCurrent, SiteRemoves
<1>11. CASE onStateChange
  BY <1>h, <1>v, <1>a, <1>11 DEF Sessions, TokensAreCurrent, CallsCurrent, onStateChange
<1>12. ASSUME NEW t \in Pages, load(t) PROVE Sessions'
  BY <1>s, <1>12, LoadStarts, PageIsThread
<1>13. ASSUME NEW t \in Pages, rename(t) PROVE Sessions'
  BY <1>s, <1>13, RenameStarts, PageIsThread
<1>14. ASSUME NEW t \in Pages, Enter(t) PROVE Sessions'
  <2>1. thr'[t].tok = store.token /\ (thr'[t].pc \in InCall => store.token # 0)
    BY <1>14, EnterEffect, PageIsThread DEF Goes
  <2>2. UNCHANGED <<store, cur, torn>> /\ \A u \in Threads \ {t} : thr'[u] = thr[u]
    BY <1>14, EnterEffect, PageIsThread DEF Goes
  <2> QED  BY <1>a, <1>b, <2>1, <2>2, PageIsThread
<1>15. ASSUME NEW t \in Pages, Refused(t) PROVE Sessions'
  <2>1. CASE Leaves(t)
    BY <1>a, <1>l, <1>15, <2>1, RefusedEffect, PageIsThread DEF Keeps
  <2>2. CASE ~Leaves(t)
    BY <1>a, <1>b, <1>g, <1>15, <2>2, RefusedEffect, PageIsThread DEF Keeps, Turns, Goes
  <2> QED  BY <2>1, <2>2
<1>16. ASSUME NEW t \in Pages, RenewReads(t) PROVE Sessions'
  <2>1. CASE Leaves(t)
    BY <1>a, <1>l, <1>16, <2>1, RenewReadsEffect, PageIsThread DEF Keeps
  <2>2. CASE ~Leaves(t)
    BY <1>a, <1>b, <1>g, <1>16, <2>2, RenewReadsEffect, PageIsThread, IdleFacts DEF Keeps, Turns, Goes
  <2> QED  BY <2>1, <2>2
<1>17. ASSUME NEW t \in Pages, Renewed(t) PROVE Sessions'
  BY <1>a, <1>b, <1>17, RenewedEffect, PageIsThread DEF Keeps, Turns, Goes
<1>18. ASSUME NEW t \in Pages, RenewRefused(t) PROVE Sessions'
  BY <1>a, <1>b, <1>g, <1>i, <1>l, <1>n, <1>o, <1>18, RenewRefusedEffect, PageIsThread DEF Turns, Keeps
<1>19. ASSUME NEW t \in Pages, Failed(t) PROVE Sessions'
  BY <1>a, <1>b, <1>g, <1>i, <1>l, <1>n, <1>o, <1>19, FailedEffect, PageIsThread DEF Turns, Keeps
<1>20. ASSUME NEW t \in Pages, ProfileCame(t) PROVE Sessions'
  BY <1>a, <1>b, <1>g, <1>i, <1>l, <1>n, <1>o, <1>20, ProfileEffect, PageIsThread DEF Turns, Keeps
<1>21. ASSUME NEW t \in Pages, AskAnswered(t) PROVE Sessions'
  BY <1>a, <1>b, <1>g, <1>i, <1>l, <1>n, <1>o, <1>21, AskEffect, PageIsThread DEF Turns, Keeps
<1>22. ASSUME NEW t \in Pages, ListCame(t) PROVE Sessions'
  BY <1>a, <1>g, <1>22, ListEffect, PageIsThread
<1>23. ASSUME NEW t \in Pages, AfterList(t) PROVE Sessions'
  BY <1>a, <1>g, <1>i, <1>23, AfterEffect, PageIsThread
<1>24. ASSUME NEW t \in Pages, ForgetId(t) PROVE Sessions'
  BY <1>a, <1>b, <1>g, <1>i, <1>l, <1>n, <1>o, <1>24, ForgetIdEffect, PageIsThread DEF Turns, Keeps
<1>25. ASSUME NEW t \in Pages, ForgetConf(t) PROVE Sessions'
  BY <1>a, <1>n, <1>o, <1>25, ForgetConfEffect, PageIsThread DEF Keeps, Done
<1>26. ASSUME NEW t \in Pages, NothingToForget(t) PROVE Sessions'
  BY <1>a, <1>n, <1>o, <1>26, NothingEffect, PageIsThread DEF Done
<1>27. ASSUME NEW t \in Pages, RemoveCame(t) PROVE Sessions'
  BY <1>a, <1>b, <1>g, <1>i, <1>l, <1>n, <1>o, <1>27, RemoveEffect, PageIsThread DEF Turns, Keeps
<1>28. ASSUME NEW t \in Pages, CreateCame(t) PROVE Sessions'
  BY <1>a, <1>b, <1>g, <1>i, <1>l, <1>n, <1>o, <1>28, CreateEffect, PageIsThread DEF Turns, Keeps
<1>29. ASSUME NEW t \in Pages, ConfigCame(t) PROVE Sessions'
  BY <1>a, <1>b, <1>g, <1>i, <1>l, <1>n, <1>o, <1>29, ConfigEffect, PageIsThread DEF Turns, Keeps
<1>30. ASSUME NEW t \in Pages, SelectGone(t) PROVE Sessions'
  BY <1>a, <1>b, <1>g, <1>i, <1>l, <1>n, <1>o, <1>30, SelectGoneEffect, PageIsThread DEF Turns, Keeps
<1>31. ASSUME NEW t \in Pages, PutConf(t) PROVE Sessions'
  BY <1>a, <1>b, <1>g, <1>i, <1>l, <1>n, <1>o, <1>31, PutConfEffect, PageIsThread DEF Turns, Keeps
<1>32. ASSUME NEW t \in Pages, PutId(t) PROVE Sessions'
  <2>1. /\ cur' = cur /\ torn' = torn /\ store'.token = store.token /\ store'.refresh = store.refresh
        /\ thr'[t].pc \notin InCall
    BY <1>32, PutIdEffect, PageIsThread, IdleFacts DEF Keeps, Is
  <2>2. ASSUME NEW u \in Threads \ {t}, thr'[u].pc \in InCall PROVE torn \/ thr'[u].tok = cur
    BY <1>a, <1>32, <2>2, PutIdOthers, PageIsThread
  <2> QED  BY <1>a, <1>h, <1>v, <2>1, <2>2 DEF Sessions, TokensAreCurrent, CallsCurrent
<1>33. ASSUME NEW t \in Pages, Follow(t) PROVE Sessions'
  BY <1>a, <1>g, <1>i, <1>o, <1>33, FollowEffect, PageIsThread DEF Finishes, Ups
<1>34. ASSUME NEW t \in Pages, NEW d \in Devices, use(t, d) PROVE Sessions'
  BY <1>s, <1>34, UseStarts, PageIsThread
<1>35. ASSUME NEW t \in Pages, NEW d \in Devices, add(t, d) PROVE Sessions'
  BY <1>s, <1>35, AddStarts, PageIsThread
<1>36. ASSUME NEW t \in Pages, NEW d \in Devices, delete(t, d) PROVE Sessions'
  BY <1>s, <1>36, DeleteStarts, PageIsThread
<1>37. ASSUME NEW t \in Threads, Down(t) PROVE Sessions'
  BY <1>i, <1>37, DownEffect
<1>38. ASSUME NEW t \in Threads, ReadConf(t) PROVE Sessions'
  BY <1>a, <1>g, <1>i, <1>38, ReadConfEffect DEF Ups
<1>39. ASSUME NEW t \in Threads, Up(t) PROVE Sessions'
  BY <1>a, <1>i, <1>o, <1>39, UpEffect DEF Finishes
<1>40. CASE UNCHANGED vars
  BY <1>h, <1>v, <1>a, <1>40 DEF Sessions, TokensAreCurrent, CallsCurrent, vars
<1> QED
  BY <1>1, <1>2, <1>3, <1>4, <1>5, <1>6, <1>7, <1>8, <1>9, <1>10, <1>11, <1>12, <1>13, <1>14, <1>15,
     <1>16, <1>17, <1>18, <1>19, <1>20, <1>21, <1>22, <1>23, <1>24, <1>25, <1>26, <1>27, <1>28,
     <1>29, <1>30, <1>31, <1>32, <1>33, <1>34, <1>35, <1>36, <1>37, <1>38, <1>39, <1>40, <1>41
  DEF Next, Operate

-----------------------------------------------------------------------------
(* Devices                                                                 *)

\* The portal makes a device once, and does not take one back.
DevsGrow ==
    \A d \in Devices : devs[d] # "new" => devs'[d] # "new" /\ (devs'[d] = "on" => devs[d] = "on")

SameCall(u) ==
    \/ thr'[u] = Idle
    \/ /\ thr'[u].stage = thr[u].stage /\ thr'[u].pc = thr[u].pc /\ thr'[u].dev = thr[u].dev
       /\ thr'[u].list = thr[u].list /\ (thr[u].stale => thr'[u].stale)

LEMMA FadesSame == \A u \in Threads : Fades(u) => SameCall(u)
  BY DEF Fades, SameCall

LEMMA DeviceStep == ASSUME TypeOK, Shapes, Sessions, Known, AllHonest, [Next]_vars PROVE Known' /\ AllHonest'
<1>a. /\ NotNew(store.id) /\ (\A d \in offered : NotNew(d)) /\ \A t \in Threads : KnownAt(t)
      /\ torn \/ \A t \in Threads : Honest(t)
      /\ \A t \in Threads : thr[t].pc \in {"call", "recall"} => torn \/ thr[t].tok = cur
      /\ NONE \notin Devices
  BY AppAssumption DEF Known, AllHonest, Sessions, CallsCurrent
<1>p. \A t \in Threads : thr[t].pc = "removed" => thr[t].stage = "remove"
  BY IdleFacts DEF Shapes, Shape, PieceOf, Threads, Renewing, Calls
\* What the others know and were told stays so.
<1>u. ASSUME NEW u \in Threads, DevsGrow, cur' = cur, SameCall(u),
             store'.id \in {store.id, NONE} \/ thr[u] = Idle \/ thr'[u].stale
      PROVE  KnownAt(u)' /\ (torn \/ Honest(u)')
  <2>1. CASE thr'[u] = Idle
    BY <2>1, IdleFacts DEF KnownAt, Honest
  <2>2. CASE thr'[u] # Idle
    <3>1. /\ thr'[u].stage = thr[u].stage /\ thr'[u].pc = thr[u].pc /\ thr'[u].dev = thr[u].dev
          /\ thr'[u].list = thr[u].list /\ (thr[u].stale => thr'[u].stale)
      BY <1>u, <2>2 DEF SameCall
    <3>2. KnownAt(u)'
      BY <1>a, <1>u, <3>1 DEF KnownAt, NotNew, DevsGrow
    <3>3. \A d \in Devices : NotNew(d) /\ d \in DevicesOf(cur)' => d \in DevicesOf(cur)
      BY <1>u DEF NotNew, DevicesOf, DevsGrow
    <3>4. ASSUME ~torn, thr[u].pc = "removed" PROVE thr[u].dev \notin DevicesOf(cur)'
      <4>1. NotNew(thr[u].dev) /\ thr[u].dev \notin DevicesOf(cur)
        BY <1>a, <1>p, <3>4 DEF KnownAt, Honest
      <4> QED  BY <3>3, <4>1 DEF DevicesOf
    <3>5. ASSUME ~torn, thr[u].pc = "listed", ~thr'[u].stale, store'.id \in DevicesOf(cur)'
          PROVE  store'.id \in thr[u].list
      <4>1. store'.id \in Devices /\ store'.id = store.id
        BY <1>a, <1>u, <3>5, IdleFacts DEF DevicesOf
      <4>2. store.id \in DevicesOf(cur)
        BY <1>a, <3>3, <3>5, <4>1
      <4> QED  BY <1>a, <3>1, <3>5, <4>1, <4>2 DEF Honest
    <3> QED  BY <1>u, <3>1, <3>2, <3>4, <3>5 DEF Honest
  <2> QED  BY <2>1, <2>2
<1>n. ASSUME DevsGrow, NEW d, NotNew(d) PROVE NotNew(d)'
  BY <1>n DEF DevsGrow, NotNew
<1>b. ASSUME NEW t \in Threads, DevsGrow, cur' = cur, torn => torn',
             \A u \in Threads \ {t} : /\ SameCall(u)
                                      /\ store'.id \in {store.id, NONE} \/ thr[u] = Idle \/ thr'[u].stale,
             NotNew(store'.id), \A d \in offered' : NotNew(d), KnownAt(t)', torn \/ Honest(t)'
      PROVE  Known' /\ AllHonest'
  <2>1. \A u \in Threads : KnownAt(u)' /\ (torn \/ Honest(u)')
    BY <1>b, <1>u
  <2>2. NotNew(store.id)' /\ (\A d \in offered : NotNew(d))'
    BY <1>b DEF NotNew, DevsGrow
  <2> QED  BY <1>b, <2>1, <2>2 DEF Known, AllHonest
\* A step that leaves the portal's devices and the newest sign-in alone.
<1>i. ASSUME NEW t \in Threads, thr'[t] = Idle, UNCHANGED <<devs, cur>>, torn => torn', store'.id \in {store.id, NONE},
             offered' \in {offered, {}, thr[t].list}, \A u \in Threads \ {t} : SameCall(u)
      PROVE  Known' /\ AllHonest'
  <2>1. DevsGrow
    BY <1>i DEF DevsGrow
  <2>2. KnownAt(t)' /\ Honest(t)'
    BY <1>i, IdleFacts DEF KnownAt, Honest
  <2>3. NotNew(store'.id) /\ \A d \in offered' : NotNew(d)
    BY <1>a, <1>i DEF NotNew, KnownAt
  <2> QED  BY <1>b, <1>i, <2>1, <2>2, <2>3
<1>r. ASSUME NEW t \in Threads, Rests(t) \/ Leaves(t), UNCHANGED <<devs, cur>>, torn => torn',
             store'.id \in {store.id, NONE}, offered' \in {offered, {}, thr[t].list}
      PROVE  Known' /\ AllHonest'
  BY <1>i, <1>r, FadesSame DEF Rests, Leaves, SameCall
<1>g. ASSUME NEW t \in Threads, NEW op, NEW stage, NEW pc, NEW tok, NEW dev, NEW list, NEW had, NEW stale,
             Goes(t, op, stage, pc, tok, dev, list, had, stale), UNCHANGED <<devs, cur, torn>>,
             store'.id \in {store.id, NONE}, offered' \in {offered, {}, thr[t].list},
             pc \notin {"listed", "removed"}, pc \in {"put", "putid"} => NotNew(thr[t].dev) /\ dev = thr[t].dev,
             list \in {thr[t].list, {}}, stage = "remove" => NotNew(dev) /\ (dev = thr[t].dev \/ pc = "enter")
      PROVE  Known' /\ AllHonest'
  <2>1. /\ thr'[t].pc = pc /\ thr'[t].stage = stage /\ thr'[t].dev = dev /\ thr'[t].list = list
        /\ \A u \in Threads \ {t} : SameCall(u)
    BY <1>g DEF Goes, SameCall
  <2>2. DevsGrow /\ \A d : NotNew(d)' <=> NotNew(d)
    BY <1>g DEF DevsGrow, NotNew
  <2>3. KnownAt(t)' /\ Honest(t)'
    BY <1>a, <1>g, <2>1, <2>2 DEF KnownAt, Honest
  <2>4. NotNew(store'.id) /\ \A d \in offered' : NotNew(d)
    BY <1>a, <1>g DEF NotNew, KnownAt
  <2> QED  BY <1>b, <1>g, <2>1, <2>2, <2>3, <2>4
<1>o. ASSUME NEW t \in Threads, Loads(t), UNCHANGED <<devs, cur, torn, offered>>, store'.id = store.id
      PROVE  Known' /\ AllHonest'
  <2>1. CASE Rests(t)
    BY <1>r, <1>o, <2>1
  <2>2. CASE Goes(t, "load", "profile", "enter", 0, NONE, {}, NONE, FALSE)
    <3>1. /\ store'.id \in {store.id, NONE} /\ offered' \in {offered, {}, thr[t].list} /\ {} \in {thr[t].list, {}}
          /\ "enter" \notin {"listed", "removed"} /\ "enter" \notin {"put", "putid"} /\ "profile" # "remove"
      BY <1>o
    <3> QED  BY <1>g, <1>o, <2>2, <3>1, Zenon
  <2> QED  BY <1>o, <2>1, <2>2 DEF Loads
<1>m. ASSUME NEW t \in Threads, NEW s \in {"list", "after"}, GoesOn(t, s), UNCHANGED <<devs, cur, torn>>,
             offered' \in {offered, {}}, store'.id = store.id
      PROVE  Known' /\ AllHonest'
  BY <1>g, <1>m, <1>r DEF GoesOn
<1>s. ASSUME NEW t \in Threads, NEW op, NEW stage, NEW dev, NEW had, Starts(t, op, stage, dev, had),
             stage = "remove" => NotNew(dev)
      PROVE  Known' /\ AllHonest'
  <2>1. /\ Goes(t, op, stage, "enter", 0, dev, {}, had, FALSE) /\ UNCHANGED <<store, offered, cur, devs, torn>>
    BY <1>s DEF Starts
  <2>2. /\ store'.id \in {store.id, NONE} /\ offered' \in {offered, {}, thr[t].list} /\ {} \in {thr[t].list, {}}
        /\ UNCHANGED <<devs, cur, torn>>
        /\ "enter" \notin {"listed", "removed"} /\ "enter" \notin {"put", "putid"}
    BY <2>1
  <2> QED  BY <1>g, <1>s, <2>1, <2>2, Zenon
<1>1. CASE signIn
  <2>1. UNCHANGED <<devs, thr, offered>> /\ store'.id = store.id
    BY <1>1, SignInEffect DEF Keeps
  <2>2. \A d : NotNew(d)' <=> NotNew(d)
    BY <2>1 DEF NotNew
  <2>3. Known'
    BY <1>a, <2>1, <2>2 DEF Known, KnownAt
  <2>4. torn' \/ \A t \in Threads : thr[t].pc \notin {"listed", "removed"}
    BY <1>1, SignInEffect, IdleFacts DEF Busy
  <2> QED  BY <2>1, <2>3, <2>4 DEF AllHonest, Honest
<1>41. CASE SignedIn
  <2>1. UNCHANGED <<devs, thr, torn, cur>> /\ store'.id = store.id /\ offered' = {}
    BY <1>41, SignedInEffect DEF Keeps
  <2> QED  BY <1>a, <2>1 DEF Known, KnownAt, NotNew, AllHonest, Honest, DevicesOf
<1>2. CASE signOut
  BY <1>s, <1>2, OutStarts, PageIsThread
<1>3. CASE press
  BY <1>s, <1>3, PressStarts, PageIsThread
<1>4. CASE TurnPage
  <2>1. UNCHANGED <<store, devs, cur, torn, offered>> /\ \A u \in Threads : SameCall(u)
    BY <1>4, TurnPageEffect, FadesSame
  <2>2. DevsGrow
    BY <2>1 DEF DevsGrow
  <2> QED  BY <1>a, <1>b, <1>u, <2>1, <2>2, PageIsThread
<1>5. CASE Killed
  BY <1>i, <1>5, KilledEffect, PageIsThread DEF SameCall
<1>6. CASE OutDown
  BY <1>g, <1>6, OutDownEffect, PageIsThread DEF Turns
<1>7. CASE Logout
  BY <1>g, <1>7, LogoutEffect, PageIsThread DEF Turns
<1>8. CASE Clear
  BY <1>i, <1>8, ClearEffect, PageIsThread, FadesSame DEF Keeps, Rests, SameCall
<1>9. CASE PortalDrops
  BY <1>9 DEF PortalDrops, Known, AllHonest, KnownAt, Honest, NotNew, DevicesOf
<1>10. CASE SiteRemoves
  <2>1. DevsGrow /\ UNCHANGED <<store, thr, cur, torn, offered>>
    BY <1>10 DEF SiteRemoves, DevsGrow, TypeOK
  <2>2. \A u \in Threads : SameCall(u)
    BY <2>1 DEF SameCall
  <2> QED  BY <1>a, <1>b, <1>u, <2>1, <2>2, PageIsThread
<1>11. CASE onStateChange
  BY <1>11 DEF onStateChange, Known, AllHonest, KnownAt, Honest, NotNew, DevicesOf
<1>12. ASSUME NEW t \in Pages, load(t) PROVE Known' /\ AllHonest'
  BY <1>s, <1>12, LoadStarts, PageIsThread
<1>13. ASSUME NEW t \in Pages, rename(t) PROVE Known' /\ AllHonest'
  BY <1>s, <1>13, RenameStarts, PageIsThread
<1>14. ASSUME NEW t \in Pages, Enter(t) PROVE Known' /\ AllHonest'
  <2>1. /\ thr'[t].pc \in {"renew", "call"} /\ thr'[t].stage = thr[t].stage /\ thr'[t].dev = thr[t].dev
        /\ thr'[t].list = thr[t].list /\ \A u \in Threads \ {t} : thr'[u] = thr[u]
        /\ UNCHANGED <<store, devs, cur, torn, offered>>
    BY <1>14, EnterEffect, PageIsThread DEF Goes
  <2>2. DevsGrow /\ \A d : NotNew(d)' <=> NotNew(d)
    BY <2>1 DEF DevsGrow, NotNew
  <2>3. KnownAt(t)' /\ Honest(t)'
    BY <1>a, <2>1, <2>2, PageIsThread DEF KnownAt, Honest
  <2>4. \A u \in Threads \ {t} : SameCall(u)
    BY <2>1 DEF SameCall
  <2> QED  BY <1>a, <1>b, <2>1, <2>2, <2>3, <2>4, PageIsThread
<1>15. ASSUME NEW t \in Pages, Refused(t) PROVE Known' /\ AllHonest'
  <2>1. CASE Leaves(t)
    BY <1>r, <1>15, <2>1, RefusedEffect, PageIsThread DEF Keeps
  <2>2. CASE ~Leaves(t)
    BY <1>a, <1>g, <1>15, <2>2, RefusedEffect, PageIsThread DEF Keeps, Turns, KnownAt
  <2> QED  BY <2>1, <2>2
<1>16. ASSUME NEW t \in Pages, RenewReads(t) PROVE Known' /\ AllHonest'
  <2>1. CASE Leaves(t)
    BY <1>r, <1>16, <2>1, RenewReadsEffect, PageIsThread DEF Keeps
  <2>2. CASE ~Leaves(t)
    BY <1>a, <1>g, <1>16, <2>2, RenewReadsEffect, PageIsThread DEF Keeps, Turns, KnownAt
  <2> QED  BY <2>1, <2>2
<1>17. ASSUME NEW t \in Pages, Renewed(t) PROVE Known' /\ AllHonest'
  BY <1>a, <1>g, <1>17, RenewedEffect, PageIsThread DEF Keeps, Turns, KnownAt
<1>18. ASSUME NEW t \in Pages, RenewRefused(t) PROVE Known' /\ AllHonest'
  BY <1>r, <1>18, RenewRefusedEffect, PageIsThread DEF Keeps
<1>19. ASSUME NEW t \in Pages, Failed(t) PROVE Known' /\ AllHonest'
  BY <1>g, <1>m, <1>o, <1>r, <1>19, FailedEffect, PageIsThread DEF Turns, Keeps
<1>20. ASSUME NEW t \in Pages, ProfileCame(t) PROVE Known' /\ AllHonest'
  BY <1>g, <1>m, <1>o, <1>r, <1>20, ProfileEffect, PageIsThread DEF Turns, Keeps
<1>21. ASSUME NEW t \in Pages, AskAnswered(t) PROVE Known' /\ AllHonest'
  BY <1>g, <1>m, <1>o, <1>r, <1>21, AskEffect, PageIsThread DEF Turns, Keeps
<1>22. ASSUME NEW t \in Pages, ListCame(t) PROVE Known' /\ AllHonest'
  <2>1. /\ thr'[t].pc = "listed" /\ thr'[t].stage = "list" /\ thr'[t].list = DevicesOf(thr[t].tok)
        /\ \A u \in Threads \ {t} : thr'[u] = thr[u]
        /\ UNCHANGED <<store, devs, cur, torn, offered>> /\ thr[t].pc \in {"call", "recall"}
    BY <1>22, ListEffect, PageIsThread DEF Goes
  <2>2. DevsGrow /\ \A d : NotNew(d)' <=> NotNew(d)
    BY <2>1 DEF DevsGrow, NotNew
  <2>3. KnownAt(t)'
    BY <2>1, <2>2 DEF KnownAt, DevicesOf, NotNew
  <2>4. torn \/ Honest(t)'
    BY <1>a, <2>1, PageIsThread DEF Honest, DevicesOf
  <2>5. \A u \in Threads \ {t} : SameCall(u)
    BY <2>1 DEF SameCall
  <2> QED  BY <1>a, <1>b, <2>1, <2>2, <2>3, <2>4, <2>5, PageIsThread
<1>23. ASSUME NEW t \in Pages, AfterList(t) PROVE Known' /\ AllHonest'
  <2>1. CASE Rests(t)
    BY <1>r, <1>23, <2>1, AfterEffect, PageIsThread
  <2>2. CASE ~Rests(t)
    BY <1>g, <1>23, <2>2, AfterEffect, PageIsThread
  <2> QED  BY <2>1, <2>2
<1>24. ASSUME NEW t \in Pages, ForgetId(t) PROVE Known' /\ AllHonest'
  BY <1>a, <1>g, <1>24, ForgetIdEffect, PageIsThread DEF Keeps, Turns, KnownAt
<1>25. ASSUME NEW t \in Pages, ForgetConf(t) PROVE Known' /\ AllHonest'
  BY <1>m, <1>o, <1>25, ForgetConfEffect, PageIsThread DEF Keeps, Done
<1>26. ASSUME NEW t \in Pages, NothingToForget(t) PROVE Known' /\ AllHonest'
  BY <1>m, <1>o, <1>26, NothingEffect, PageIsThread DEF Done
<1>27. ASSUME NEW t \in Pages, RemoveCame(t) PROVE Known' /\ AllHonest'
  <2>1. /\ thr'[t].pc = "removed" /\ thr'[t].stage = "remove" /\ thr'[t].dev = thr[t].dev
        /\ thr'[t].list = thr[t].list /\ \A u \in Threads \ {t} : thr'[u] = thr[u]
        /\ UNCHANGED <<store, cur, torn, offered>> /\ thr[t].pc \in {"call", "recall"} /\ thr[t].stage = "remove"
    BY <1>27, RemoveEffect, PageIsThread DEF Goes, Turns
  <2>2. devs' = [d \in Devices |-> IF d \in DevicesOf(thr[t].tok) \cap {thr[t].dev} THEN "off" ELSE devs[d]]
    BY <1>27, RemoveEffect, PageIsThread
  <2>3. DevsGrow
    BY <2>2 DEF DevsGrow
  <2>4. KnownAt(t)'
    BY <1>a, <1>n, <2>1, <2>3, PageIsThread DEF KnownAt
  <2>5. torn \/ Honest(t)'
    <3>1. ASSUME ~torn PROVE thr[t].dev \notin DevicesOf(cur)'
      BY <1>a, <2>1, <2>2, <3>1, PageIsThread DEF DevicesOf
    <3> QED  BY <2>1, <3>1 DEF Honest
  <2>6. \A u \in Threads \ {t} : SameCall(u)
    BY <2>1 DEF SameCall
  <2> QED  BY <1>a, <1>b, <2>1, <2>3, <2>4, <2>5, <2>6, PageIsThread
<1>28. ASSUME NEW t \in Pages, CreateCame(t) PROVE Known' /\ AllHonest'
  <2>1. /\ GoesOn(t, "select") /\ devs' = [devs EXCEPT ![thr[t].dev] = "on"] /\ devs[thr[t].dev] = "new"
        /\ UNCHANGED <<store, cur, torn, offered>>
    BY <1>28, CreateEffect, PageIsThread
  <2>2. DevsGrow
    BY <2>1 DEF DevsGrow, TypeOK
  <2>3. /\ thr'[t] = Idle \/ (thr'[t].pc = "enter" /\ thr'[t].stage = "select" /\ thr'[t].list = thr[t].list)
        /\ \A u \in Threads \ {t} : thr'[u] = thr[u]
    BY <2>1 DEF GoesOn, Rests, Goes
  <2>4. KnownAt(t)' /\ Honest(t)'
    BY <1>a, <1>n, <2>2, <2>3, IdleFacts, PageIsThread DEF KnownAt, Honest
  <2>5. \A u \in Threads \ {t} : SameCall(u)
    BY <2>3 DEF SameCall
  <2> QED  BY <1>a, <1>b, <2>1, <2>2, <2>4, <2>5, PageIsThread
<1>29. ASSUME NEW t \in Pages, ConfigCame(t) PROVE Known' /\ AllHonest'
  <2>1. NotNew(thr[t].dev)
    BY <1>29, ConfigEffect, PageIsThread DEF DevicesOf, NotNew
  <2> QED  BY <1>a, <1>g, <1>29, <2>1, ConfigEffect, PageIsThread DEF Turns
<1>30. ASSUME NEW t \in Pages, SelectGone(t) PROVE Known' /\ AllHonest'
  BY <1>g, <1>m, <1>o, <1>r, <1>30, SelectGoneEffect, PageIsThread DEF Turns, Keeps
<1>31. ASSUME NEW t \in Pages, PutConf(t) PROVE Known' /\ AllHonest'
  BY <1>a, <1>g, <1>31, PutConfEffect, PageIsThread DEF Keeps, Turns, KnownAt
<1>32. ASSUME NEW t \in Pages, PutId(t) PROVE Known' /\ AllHonest'
  <2>1. /\ UNCHANGED <<devs, cur, torn, offered>> /\ store'.id = thr[t].dev /\ thr[t].pc = "putid"
        /\ thr'[t] = Idle \/ (thr'[t].pc = "enter" /\ thr'[t].stage = "follow" /\ thr'[t].list = thr[t].list)
    BY <1>32, PutIdEffect, PageIsThread DEF Keeps, Is
  <2>2. ASSUME NEW u \in Threads \ {t} PROVE SameCall(u) /\ (thr[u] = Idle \/ thr'[u].stale)
    BY <1>32, PutIdOthers, PageIsThread, IdleFacts DEF SameCall
  <2>3. DevsGrow
    BY <2>1 DEF DevsGrow
  <2>4. KnownAt(t)' /\ Honest(t)'
    BY <1>a, <1>n, <2>1, <2>3, IdleFacts, PageIsThread DEF KnownAt, Honest
  <2>5. NotNew(store'.id)
    BY <1>a, <2>1, PageIsThread DEF KnownAt
  <2> QED  BY <1>a, <1>b, <2>1, <2>2, <2>3, <2>4, <2>5, PageIsThread
<1>33. ASSUME NEW t \in Pages, Follow(t) PROVE Known' /\ AllHonest'
  BY <1>g, <1>o, <1>r, <1>33, FollowEffect, PageIsThread DEF Finishes, Ups
<1>34. ASSUME NEW t \in Pages, NEW d \in Devices, use(t, d) PROVE Known' /\ AllHonest'
  BY <1>s, <1>34, UseStarts, PageIsThread
<1>35. ASSUME NEW t \in Pages, NEW d \in Devices, add(t, d) PROVE Known' /\ AllHonest'
  BY <1>s, <1>35, AddStarts, PageIsThread
<1>36. ASSUME NEW t \in Pages, NEW d \in Devices, delete(t, d) PROVE Known' /\ AllHonest'
  BY <1>a, <1>s, <1>36, DeleteStarts, PageIsThread
<1>37. ASSUME NEW t \in Threads, Down(t) PROVE Known' /\ AllHonest'
  <2>1. /\ Rests(t) /\ UNCHANGED <<store, cur, devs, torn>> /\ offered' \in {offered, thr[t].list}
    BY <1>37, DownEffect
  <2> QED  BY <1>r, <2>1
<1>38. ASSUME NEW t \in Threads, ReadConf(t) PROVE Known' /\ AllHonest'
  BY <1>g, <1>r, <1>38, ReadConfEffect DEF Ups
<1>39. ASSUME NEW t \in Threads, Up(t) PROVE Known' /\ AllHonest'
  <2>1. UNCHANGED <<devs, cur, torn, offered, store>> /\ (Rests(t) \/ Loads(t))
    BY <1>39, UpEffect DEF Finishes
  <2> QED  BY <1>o, <1>r, <2>1
<1>40. CASE UNCHANGED vars
  BY <1>40 DEF vars, Known, AllHonest, KnownAt, Honest, NotNew, DevicesOf
<1> QED
  BY <1>1, <1>2, <1>3, <1>4, <1>5, <1>6, <1>7, <1>8, <1>9, <1>10, <1>11, <1>12, <1>13, <1>14, <1>15,
     <1>16, <1>17, <1>18, <1>19, <1>20, <1>21, <1>22, <1>23, <1>24, <1>25, <1>26, <1>27, <1>28,
     <1>29, <1>30, <1>31, <1>32, <1>33, <1>34, <1>35, <1>36, <1>37, <1>38, <1>39, <1>40, <1>41
  DEF Next, Operate

-----------------------------------------------------------------------------
(* Order                                                                   *)

LEMMA IdleOwn ==
  /\ \A t \in Threads : thr[t] = Idle =>
        Own(t) /\ ~Moving(t) /\ ~Showing(t) /\ ~Busy(t) /\ thr[t].pc \notin {"putid", "forget"}
  BY IdleFacts DEF Own, Moving, Showing, Busy

\* What an operation that runs alone may count on.
LEMMA Alone ==
  ASSUME TypeOK, Uncrossed, NEW t \in Threads, Others(t) = {}
  PROVE  /\ \A u \in Threads \ {t} : thr[u] = Idle
         /\ thr[t].pc \notin {"putid", "forget"} => store.conf = store.id /\ Selected(store) = store.id
         /\ Moving(t) \/ tunnel \in {NONE, Selected(store)}
         /\ Showing(t) \/ (signedIn /\ offered # {} => shown = Selected(store))
<1>1. \A u \in Threads \ {t} : thr[u] = Idle
  BY DEF Others, Busy
<1>2. \A u \in Threads \ {t} : ~Moving(u) /\ ~Showing(u) /\ thr[u].pc \notin {"putid", "forget"}
  BY <1>1, IdleOwn
<1> QED  BY <1>1, <1>2 DEF Uncrossed, Selected

LEMMA AloneStep ==
  ASSUME NEW t \in Threads, \A u \in Threads \ {t} : thr'[u] = Idle, Own(t)',
         store'.conf = store'.id \/ thr'[t].pc \in {"putid", "forget"},
         tunnel' \in {NONE, Selected(store')} \/ Moving(t)',
         signedIn' /\ offered' # {} => shown' = Selected(store') \/ Showing(t)',
         signedIn' \/ thr'[t] = Idle
  PROVE  Uncrossed'
<1>1. \A u \in Threads \ {t} : Own(u)' /\ ~Busy(u)'
  <2> SUFFICES ASSUME NEW u \in Threads \ {t} PROVE Own(u)' /\ ~Busy(u)'
    OBVIOUS
  <2> QED  BY IdleFacts DEF Own, Busy
<1> QED  BY <1>1 DEF Uncrossed, Busy

\* A step of one operation that leaves the selection alone.
LEMMA QuietStep ==
  ASSUME TypeOK, Uncrossed, NEW t \in Threads, \A u \in Threads \ {t} : thr'[u] = thr[u],
         store'.id = store.id, store'.conf = store.conf, tunnel' \in {tunnel, NONE}, signedIn' = signedIn,
         signedIn \/ thr[t] # Idle \/ thr'[t] = Idle, Own(t)', thr[t].pc \notin {"putid", "forget"},
         Moving(t)' \/ ~Moving(t) \/ tunnel' = NONE,
         \/ Showing(t)' \/ offered' = {} \/ shown' = Selected(store)
         \/ shown' = shown /\ offered' = offered /\ ~Showing(t)
  PROVE  Uncrossed'
<1>1. Selected(store)' = Selected(store)
  BY DEF Selected
<1>2. ASSUME NEW u \in Threads \ {t}
      PROVE  Own(u)' /\ Moving(u)' = Moving(u) /\ Showing(u)' = Showing(u) /\ (thr[u].pc = thr'[u].pc)
             /\ Busy(u)' = Busy(u)
  <2>1. thr'[u] = thr[u] /\ Own(u)
    BY <1>2 DEF Uncrossed
  <2>2. Own(u)'
    BY <1>1, <2>1 DEF Own
  <2> QED  BY <1>1, <2>1, <2>2 DEF Moving, Showing, Busy
<1>3. signedIn' \/ \A u \in Threads : ~Busy(u)'
  BY <1>2 DEF Uncrossed, Busy
<1>4. \A u \in Threads : Own(u)'
  BY <1>2
<1>5. store'.conf = store'.id \/ \E u \in Threads : thr'[u].pc \in {"putid", "forget"}
  BY <1>2 DEF Uncrossed
<1>6. tunnel' \in {NONE, Selected(store)} \/ \E u \in Threads : Moving(u)'
  BY <1>2 DEF Uncrossed
<1>7. signedIn' /\ offered' # {} => shown' = Selected(store) \/ \E u \in Threads : Showing(u)'
  BY <1>2 DEF Uncrossed
<1> QED  BY <1>1, <1>3, <1>4, <1>5, <1>6, <1>7 DEF Uncrossed

\* What crossed once stays so.
LEMMA CrossedStays == ASSUME TypeOK, crossed, [Next]_vars PROVE crossed'
<1>1. CASE signIn
  BY <1>1, SignInEffect
<1>41. CASE SignedIn
  BY <1>41, SignedInEffect
<1>2. CASE signOut
  BY <1>2, OutStarts
<1>3. CASE press
  BY <1>3, PressStarts
<1>4. CASE TurnPage
  BY <1>4, TurnPageEffect
<1>5. CASE Killed
  BY <1>5, KilledEffect
<1>6. CASE OutDown
  BY <1>6, OutDownEffect
<1>7. CASE Logout
  BY <1>7, LogoutEffect
<1>8. CASE Clear
  BY <1>8, ClearEffect
<1>9. CASE PortalDrops
  BY <1>9 DEF PortalDrops
<1>10. CASE SiteRemoves
  BY <1>10 DEF SiteRemoves
<1>11. CASE onStateChange
  BY <1>11 DEF onStateChange
<1>12. ASSUME NEW t \in Pages, load(t) PROVE crossed'
  BY <1>12, LoadStarts, PageIsThread
<1>13. ASSUME NEW t \in Pages, rename(t) PROVE crossed'
  BY <1>13, RenameStarts, PageIsThread
<1>14. ASSUME NEW t \in Pages, Enter(t) PROVE crossed'
  BY <1>14, EnterEffect, PageIsThread
<1>15. ASSUME NEW t \in Pages, Refused(t) PROVE crossed'
  BY <1>15, RefusedEffect, PageIsThread DEF Leaves
<1>16. ASSUME NEW t \in Pages, RenewReads(t) PROVE crossed'
  BY <1>16, RenewReadsEffect, PageIsThread DEF Leaves
<1>17. ASSUME NEW t \in Pages, Renewed(t) PROVE crossed'
  BY <1>17, RenewedEffect, PageIsThread
<1>18. ASSUME NEW t \in Pages, RenewRefused(t) PROVE crossed'
  BY <1>18, RenewRefusedEffect, PageIsThread DEF Leaves
<1>19. ASSUME NEW t \in Pages, Failed(t) PROVE crossed'
  BY <1>19, FailedEffect, PageIsThread
<1>20. ASSUME NEW t \in Pages, ProfileCame(t) PROVE crossed'
  BY <1>20, ProfileEffect, PageIsThread
<1>21. ASSUME NEW t \in Pages, AskAnswered(t) PROVE crossed'
  BY <1>21, AskEffect, PageIsThread
<1>22. ASSUME NEW t \in Pages, ListCame(t) PROVE crossed'
  BY <1>22, ListEffect, PageIsThread
<1>23. ASSUME NEW t \in Pages, AfterList(t) PROVE crossed'
  BY <1>23, AfterEffect, PageIsThread
<1>24. ASSUME NEW t \in Pages, ForgetId(t) PROVE crossed'
  BY <1>24, ForgetIdEffect, PageIsThread
<1>25. ASSUME NEW t \in Pages, ForgetConf(t) PROVE crossed'
  BY <1>25, ForgetConfEffect, PageIsThread
<1>26. ASSUME NEW t \in Pages, NothingToForget(t) PROVE crossed'
  BY <1>26, NothingEffect, PageIsThread
<1>27. ASSUME NEW t \in Pages, RemoveCame(t) PROVE crossed'
  BY <1>27, RemoveEffect, PageIsThread
<1>28. ASSUME NEW t \in Pages, CreateCame(t) PROVE crossed'
  BY <1>28, CreateEffect, PageIsThread
<1>29. ASSUME NEW t \in Pages, ConfigCame(t) PROVE crossed'
  BY <1>29, ConfigEffect, PageIsThread
<1>30. ASSUME NEW t \in Pages, SelectGone(t) PROVE crossed'
  BY <1>30, SelectGoneEffect, PageIsThread
<1>31. ASSUME NEW t \in Pages, PutConf(t) PROVE crossed'
  BY <1>31, PutConfEffect, PageIsThread
<1>32. ASSUME NEW t \in Pages, PutId(t) PROVE crossed'
  BY <1>32, PutIdEffect, PageIsThread
<1>33. ASSUME NEW t \in Pages, Follow(t) PROVE crossed'
  BY <1>33, FollowEffect, PageIsThread
<1>34. ASSUME NEW t \in Pages, NEW d \in Devices, use(t, d) PROVE crossed'
  BY <1>34, UseStarts, PageIsThread
<1>35. ASSUME NEW t \in Pages, NEW d \in Devices, add(t, d) PROVE crossed'
  BY <1>35, AddStarts, PageIsThread
<1>36. ASSUME NEW t \in Pages, NEW d \in Devices, delete(t, d) PROVE crossed'
  BY <1>36, DeleteStarts, PageIsThread
<1>37. ASSUME NEW t \in Threads, Down(t) PROVE crossed'
  BY <1>37, DownEffect
<1>38. ASSUME NEW t \in Threads, ReadConf(t) PROVE crossed'
  BY <1>38, ReadConfEffect
<1>39. ASSUME NEW t \in Threads, Up(t) PROVE crossed'
  BY <1>39, UpEffect
<1>40. CASE UNCHANGED vars
  BY <1>40 DEF vars
<1> QED
  BY <1>1, <1>2, <1>3, <1>4, <1>5, <1>6, <1>7, <1>8, <1>9, <1>10, <1>11, <1>12, <1>13, <1>14, <1>15,
     <1>16, <1>17, <1>18, <1>19, <1>20, <1>21, <1>22, <1>23, <1>24, <1>25, <1>26, <1>27, <1>28,
     <1>29, <1>30, <1>31, <1>32, <1>33, <1>34, <1>35, <1>36, <1>37, <1>38, <1>39, <1>40, <1>41
  DEF Next, Operate

LEMMA OrderStep ==
  ASSUME TypeOK, Shapes, HalfSeen, Uncrossed, ~crossed, ~crossed', [Next]_vars
  PROVE  Uncrossed'
<1>a. /\ \A t \in Threads : Own(t) /\ thr[t].orphan = FALSE
      /\ NONE \notin Devices
  BY AppAssumption, ThreadFacts DEF Uncrossed, Own
<1>p. \A t \in Pages : thr[t] = Idle \/ PieceOf(thr[t])
  BY PageIsThread DEF Shapes, Shape
<1>k. ASSUME NEW t \in Pages, thr[t].pc \in Renewing PROVE thr[t].stage \in Calls
  BY <1>p, <1>k, IdleFacts DEF PieceOf, Renewing, Calls
<1>s. store'.id = store.id /\ store'.conf = store.conf => Selected(store') = Selected(store)
  BY DEF Selected
<1>f. ASSUME NEW t \in Threads, thr[t] # Idle PROVE signedIn
  BY <1>f DEF Uncrossed, Busy
\* A call goes on.
<1>c. ASSUME NEW t \in Threads, \A u \in Threads \ {t} : thr'[u] = thr[u],
             thr[t].stage \in Calls, thr[t].pc \in {"call", "recall", "renew", "renewing"},
             thr'[t].stage = thr[t].stage,
             thr'[t].pc \in {"call", "recall", "renew", "renewing", "listed", "removed", "put"},
             thr'[t].dev = thr[t].dev, thr'[t].had = thr[t].had, thr'[t].orphan = thr[t].orphan,
             store'.id = store.id, store'.conf = store.conf, UNCHANGED <<tunnel, signedIn, shown, offered>>
      PROVE  Uncrossed'
  <2>1. Own(t) /\ Selected(store') = Selected(store) /\ thr[t] # Idle
    BY <1>a, <1>c, <1>s, IdleFacts
  <2>2. Own(t)'
    BY <1>c, <2>1 DEF Own, Calls
  <2>3. ~Moving(t) /\ ~Showing(t)
    BY <1>c DEF Moving, Showing, Calls
  <2> QED  BY <1>c, <2>1, <2>2, <2>3, QuietStep
\* A refused call ends the session.
<1>l. ASSUME NEW t \in Threads, Leaves(t), thr[t].stage \in Calls,
           thr[t].pc \in {"call", "recall", "renew", "renewing"},
             store'.id = store.id, store'.conf = store.conf, tunnel' = tunnel
      PROVE  Uncrossed'
  <2>1. /\ Others(t) = {} /\ signedIn' = FALSE /\ thr'[t] = Idle
        /\ \A u \in Threads \ {t} : thr[u] = Idle => thr'[u] = Idle
    BY <1>a, <1>l DEF Leaves
  <2>2. \A u \in Threads \ {t} : thr[u] = Idle
    BY <2>1, Alone
  <2>3. ~Moving(t)
    BY <1>l DEF Moving, Calls
  <2>4. store.conf = store.id /\ tunnel \in {NONE, Selected(store)}
    BY <1>l, <2>1, <2>3, Alone
  <2>5. Own(t)'
    BY <2>1, IdleFacts DEF Own
  <2> QED  BY <1>l, <1>s, <2>1, <2>2, <2>4, <2>5, AloneStep
\* The load that follows.
<1>d. ASSUME NEW t \in Threads, Loads(t), thr[t].pc \notin {"putid", "forget", "none"}, ~Moving(t) \/ tunnel' = NONE,
             UNCHANGED <<store, signedIn>>, tunnel' \in {tunnel, NONE}
      PROVE  Uncrossed'
  <2>1. /\ \A u \in Threads \ {t} : thr'[u] = thr[u]
        /\ thr'[t].stage = "profile" /\ thr'[t].pc = "enter" /\ thr'[t].orphan = FALSE
    BY <1>a, <1>d DEF Loads, Goes
  <2>2. Own(t)' /\ Showing(t)'
    BY <2>1 DEF Own, Showing
  <2>3. thr[t] # Idle
    BY <1>d, IdleFacts
  <2> QED  BY <1>d, <2>1, <2>2, <2>3, QuietStep
\* The end of an operation.
<1>r. ASSUME NEW t \in Threads, Rests(t), thr[t].pc \notin {"putid", "forget"}, ~Moving(t) \/ tunnel' = NONE,
             UNCHANGED <<store, signedIn>>, tunnel' \in {tunnel, NONE},
             \/ offered' = {} \/ shown' = Selected(store) \/ (UNCHANGED <<shown, offered>> /\ ~Showing(t))
      PROVE  Uncrossed'
  <2>1. thr'[t] = Idle /\ \A u \in Threads \ {t} : thr'[u] = thr[u]
    BY <1>r DEF Rests
  <2>2. Own(t)'
    BY <2>1, IdleFacts DEF Own
  <2> QED  BY <1>r, <2>1, <2>2, QuietStep
<1>b. ASSUME NEW t \in Threads, NEW op, NEW stage, NEW dev, NEW had, Starts(t, op, stage, dev, had),
             stage \in {"profile", "ask", "select", "create", "out", "conf", "stop"}
      PROVE  Uncrossed'
  <2>1. /\ (\A u \in Threads \ {t} : thr'[u] = thr[u]) /\ UNCHANGED <<store, tunnel, signedIn, shown, offered>>
        /\ thr'[t].stage = stage /\ thr'[t].pc = "enter" /\ thr'[t].orphan = thr[t].orphan
        /\ signedIn /\ thr[t] = Idle
    BY <1>b DEF Starts, Goes
  <2>2. Own(t)'
    BY <1>a, <1>b, <2>1 DEF Own
  <2>3. ~Moving(t) /\ ~Showing(t) /\ thr[t].pc \notin {"putid", "forget"}
    BY <2>1, IdleOwn
  <2> QED  BY <2>1, <2>2, <2>3, QuietStep
<1>1. CASE signIn
  <2>1. /\ store'.id = store.id /\ store'.conf = store.conf /\ UNCHANGED <<tunnel, thr, signedIn, shown, offered>>
    BY <1>1, SignInEffect DEF Keeps
  <2> QED  BY <1>s, <2>1 DEF Uncrossed, Own, Moving, Showing, Busy
<1>41. CASE SignedIn
  <2>1. /\ store'.id = store.id /\ store'.conf = store.conf /\ UNCHANGED <<tunnel, thr>> /\ offered' = {} /\ ~signedIn
        /\ signedIn' = TRUE
    BY <1>41, SignedInEffect DEF Keeps, HalfSeen
  <2>2. \A u \in Threads : thr[u] = Idle
    BY <2>1 DEF Uncrossed, Busy
  <2>3. "out" \in Threads /\ Others("out") = {}
    BY <2>2, PageIsThread DEF Others, Busy
  <2>4. store.conf = store.id /\ tunnel \in {NONE, Selected(store)}
    BY <2>2, <2>3, Alone, IdleOwn
  <2>5. Own("out")'
    BY <2>1, <2>2, <2>3, IdleFacts DEF Own
  <2> QED  BY <1>s, <2>1, <2>2, <2>3, <2>4, <2>5, AloneStep
<1>2. CASE signOut
  BY <1>b, <1>2, OutStarts, PageIsThread
<1>3. CASE press
  BY <1>b, <1>3, PressStarts, PageIsThread
<1>4. CASE TurnPage
  BY <1>4, TurnPageEffect
<1>5. CASE Killed
  <2>1. /\ UNCHANGED store /\ tunnel' = NONE /\ offered' = {} /\ \A u \in Threads : thr'[u] = Idle
        /\ \A u \in Threads : ~Inside(u)
    BY <1>5, KilledEffect
  <2>2. \A u \in Threads : thr[u].pc \notin {"putid", "forget"}
    BY <2>1, IdleFacts DEF Inside, Busy
  <2>3. store.conf = store.id
    BY <2>2 DEF Uncrossed
  <2>4. "out" \in Threads /\ Own("out")'
    BY <2>1, PageIsThread, IdleFacts DEF Own
  <2> QED  BY <2>1, <2>3, <2>4, AloneStep
<1>6. CASE OutDown
  <2>1. /\ "out" \in Threads /\ \A u \in Threads \ {"out"} : thr'[u] = thr[u]
        /\ thr["out"].stage = "out" /\ thr["out"].pc = "enter" /\ tunnel' = NONE
        /\ thr'["out"].stage = "out" /\ thr'["out"].pc = "logout" /\ thr'["out"].orphan = thr["out"].orphan
        /\ UNCHANGED <<store, signedIn, shown, offered>>
    BY <1>6, OutDownEffect, PageIsThread DEF Turns, Goes
  <2>2. Own("out")' /\ ~Moving("out") /\ ~Showing("out")
    BY <1>a, <2>1 DEF Own, Moving, Showing
  <2>3. thr["out"] # Idle
    BY <2>1, IdleFacts
  <2> QED  BY <2>1, <2>2, <2>3, QuietStep
<1>7. CASE Logout
  <2>1. /\ "out" \in Threads /\ \A u \in Threads \ {"out"} : thr'[u] = thr[u]
        /\ thr["out"].stage = "out" /\ thr["out"].pc = "logout"
        /\ thr'["out"].stage = "out" /\ thr'["out"].pc = "clear" /\ thr'["out"].orphan = thr["out"].orphan
        /\ UNCHANGED <<store, signedIn, tunnel, shown, offered>>
    BY <1>7, LogoutEffect, PageIsThread DEF Turns, Goes
  <2>2. Own("out")' /\ ~Moving("out") /\ ~Showing("out")
    BY <1>a, <2>1 DEF Own, Moving, Showing
  <2>3. thr["out"] # Idle
    BY <2>1, IdleFacts
  <2> QED  BY <2>1, <2>2, <2>3, QuietStep
<1>8. CASE Clear
  <2>1. /\ "out" \in Threads /\ Others("out") = {} /\ signedIn' = FALSE /\ thr["out"].pc = "clear" /\ tunnel' = tunnel
        /\ store'.id = NONE /\ store'.conf = NONE
    BY <1>a, <1>8, ClearEffect, PageIsThread DEF Keeps
  <2>2. \A u \in Threads \ {"out"} : thr[u] = Idle
    BY <2>1, Alone
  <2>3. \A u \in Threads \ {"out"} : thr'[u] = Idle
    BY <2>2, <1>8, ClearEffect DEF Rests
  <2>4. thr'["out"] = Idle
    BY <1>8, ClearEffect DEF Rests
  <2>5. tunnel = NONE
    BY <1>a, <2>1 DEF Own
  <2>6. Own("out")'
    BY <2>4, IdleFacts DEF Own
  <2> QED  BY <2>1, <2>3, <2>4, <2>5, <2>6, AloneStep
<1>9. CASE PortalDrops
  BY <1>9 DEF PortalDrops, Uncrossed, Own, Moving, Showing, Busy, Selected
<1>10. CASE SiteRemoves
  BY <1>10 DEF SiteRemoves, Uncrossed, Own, Moving, Showing, Busy, Selected
<1>11. CASE onStateChange
  <2>1. tunnel' = NONE /\ UNCHANGED <<store, signedIn, shown, offered, thr>>
    BY <1>11 DEF onStateChange
  <2>2. \A u \in Threads : Own(u)' /\ Showing(u)' = Showing(u) /\ Busy(u)' = Busy(u)
    BY <1>a, <2>1 DEF Own, Showing, Busy, Selected
  <2> QED  BY <2>1, <2>2 DEF Uncrossed
<1>12. ASSUME NEW t \in Pages, load(t) PROVE Uncrossed'
  BY <1>b, <1>12, LoadStarts, PageIsThread
<1>13. ASSUME NEW t \in Pages, rename(t) PROVE Uncrossed'
  BY <1>b, <1>13, RenameStarts, PageIsThread
<1>14. ASSUME NEW t \in Pages, Enter(t) PROVE Uncrossed'
  <2>1. /\ t \in Threads /\ \A u \in Threads \ {t} : thr'[u] = thr[u]
        /\ thr[t].pc = "enter" /\ thr[t].stage \in Calls
        /\ thr'[t].pc \in {"renew", "call"} /\ thr'[t].stage = thr[t].stage /\ thr'[t].dev = thr[t].dev
        /\ thr'[t].had = (IF thr[t].stage = "profile" THEN Selected(store) ELSE thr[t].had)
        /\ thr'[t].orphan = thr[t].orphan
        /\ shown' = (IF thr[t].stage = "profile" THEN Selected(store) ELSE shown)
        /\ tunnel' = (IF thr[t].stage = "remove" /\ thr[t].had # NONE THEN NONE ELSE tunnel)
        /\ UNCHANGED <<store, signedIn, offered>>
    BY <1>14, EnterEffect, PageIsThread DEF Goes
  <2>2. Own(t) /\ Selected(store') = Selected(store) /\ thr[t] # Idle
    BY <1>a, <2>1, IdleFacts
  <2>3. Own(t)'
    BY <2>1, <2>2 DEF Own, Calls
  <2>4. ~Moving(t) /\ (Showing(t) => thr[t].stage = "profile")
    BY <2>1 DEF Moving, Showing, Calls
  <2> QED  BY <2>1, <2>2, <2>3, <2>4, QuietStep
<1>15. ASSUME NEW t \in Pages, Refused(t) PROVE Uncrossed'
  <2>0. t \in Threads
    BY PageIsThread
  <2>1. CASE Leaves(t)
    <3>1. /\ thr[t].stage \in Calls /\ thr[t].pc \in {"call", "recall", "renew", "renewing"}
          /\ store'.id = store.id /\ store'.conf = store.conf /\ tunnel' = tunnel
      BY <1>k, <1>15, <2>0, RefusedEffect DEF Keeps, Renewing
    <3> QED  BY <1>l, <2>0, <2>1, <3>1
  <2>2. CASE ~Leaves(t)
    <3>1. /\ \A u \in Threads \ {t} : thr'[u] = thr[u]
          /\ thr[t].stage \in Calls /\ thr[t].pc \in {"call", "recall", "renew", "renewing"}
          /\ thr'[t].stage = thr[t].stage /\ thr'[t].pc \in {"renew", "renewing"}
          /\ thr'[t].dev = thr[t].dev /\ thr'[t].had = thr[t].had /\ thr'[t].orphan = thr[t].orphan
          /\ store'.id = store.id /\ store'.conf = store.conf /\ UNCHANGED <<tunnel, signedIn, shown, offered>>
      BY <1>k, <1>15, <2>0, <2>2, RefusedEffect DEF Goes, Turns, Keeps, Renewing
    <3> QED  BY <1>c, <2>0, <3>1
  <2> QED  BY <2>1, <2>2
<1>16. ASSUME NEW t \in Pages, RenewReads(t) PROVE Uncrossed'
  <2>0. t \in Threads
    BY PageIsThread
  <2>1. CASE Leaves(t)
    <3>1. /\ thr[t].stage \in Calls /\ thr[t].pc \in {"call", "recall", "renew", "renewing"}
          /\ store'.id = store.id /\ store'.conf = store.conf /\ tunnel' = tunnel
      BY <1>k, <1>16, <2>0, RenewReadsEffect DEF Keeps, Renewing
    <3> QED  BY <1>l, <2>0, <2>1, <3>1
  <2>2. CASE ~Leaves(t)
    <3>1. /\ \A u \in Threads \ {t} : thr'[u] = thr[u]
          /\ thr[t].stage \in Calls /\ thr[t].pc \in {"call", "recall", "renew", "renewing"}
          /\ thr'[t].stage = thr[t].stage /\ thr'[t].pc \in {"renew", "renewing"}
          /\ thr'[t].dev = thr[t].dev /\ thr'[t].had = thr[t].had /\ thr'[t].orphan = thr[t].orphan
          /\ store'.id = store.id /\ store'.conf = store.conf /\ UNCHANGED <<tunnel, signedIn, shown, offered>>
      BY <1>k, <1>16, <2>0, <2>2, RenewReadsEffect DEF Goes, Turns, Keeps, Renewing
    <3> QED  BY <1>c, <2>0, <3>1
  <2> QED  BY <2>1, <2>2
<1>17. ASSUME NEW t \in Pages, Renewed(t) PROVE Uncrossed'
  <2>0. t \in Threads
    BY PageIsThread
  <2>1. /\ \A u \in Threads \ {t} : thr'[u] = thr[u]
        /\ thr[t].stage \in Calls /\ thr[t].pc \in {"call", "recall", "renew", "renewing"}
        /\ thr'[t].stage = thr[t].stage
        /\ thr'[t].pc \in {"call", "recall", "renew", "renewing", "listed", "removed", "put"}
        /\ thr'[t].dev = thr[t].dev /\ thr'[t].had = thr[t].had /\ thr'[t].orphan = thr[t].orphan
        /\ store'.id = store.id /\ store'.conf = store.conf /\ UNCHANGED <<tunnel, signedIn, shown, offered>>
    BY <1>k, <1>17, <2>0, RenewedEffect DEF Goes, Turns, Keeps, Renewing, Calls
  <2> QED  BY <1>c, <2>0, <2>1
<1>18. ASSUME NEW t \in Pages, RenewRefused(t) PROVE Uncrossed'
  <2>0. t \in Threads
    BY PageIsThread
  <2>1. CASE Leaves(t)
    <3>1. /\ thr[t].stage \in Calls /\ thr[t].pc \in {"call", "recall", "renew", "renewing"}
          /\ store'.id = store.id /\ store'.conf = store.conf /\ tunnel' = tunnel
      BY <1>k, <1>18, <2>0, RenewRefusedEffect DEF Keeps, Renewing
    <3> QED  BY <1>l, <2>0, <2>1, <3>1
  <2> QED  BY <1>18, <2>0, <2>1, RenewRefusedEffect
<1>19. ASSUME NEW t \in Pages, Failed(t) PROVE Uncrossed'
  <2>1. /\ t \in Threads /\ Rests(t) /\ thr[t].pc \in {"call", "recall", "renewing"} /\ thr[t].stage \in Calls
        /\ offered' \in {offered, {}} /\ UNCHANGED <<store, tunnel, signedIn, shown>>
    BY <1>k, <1>19, FailedEffect, PageIsThread DEF Renewing
  <2>2. ~Moving(t) /\ ~Showing(t)
    BY <2>1 DEF Moving, Showing, Calls
  <2> QED  BY <1>r, <2>1, <2>2
<1>20. ASSUME NEW t \in Pages, ProfileCame(t) PROVE Uncrossed'
  <2>1. /\ t \in Threads /\ thr[t].pc \in {"call", "recall"} /\ thr[t].stage = "profile"
        /\ GoesOn(t, "list") \/ Rests(t)
        /\ offered' \in {offered, {}} /\ UNCHANGED <<store, tunnel, signedIn, shown>>
    BY <1>20, ProfileEffect, PageIsThread
  <2>2. ~Moving(t) /\ ~Showing(t)
    BY <2>1 DEF Moving, Showing
  <2>3. CASE Rests(t)
    BY <1>r, <2>1, <2>2, <2>3
  <2>4. CASE ~Rests(t)
    <3>1. /\ (\A u \in Threads \ {t} : thr'[u] = thr[u]) /\ thr'[t].stage = "list" /\ thr'[t].pc = "enter"
          /\ thr'[t].had = thr[t].had /\ thr'[t].orphan = thr[t].orphan
      BY <2>1, <2>4 DEF GoesOn, Goes
    <3>2. Own(t) /\ Selected(store') = Selected(store) /\ thr[t] # Idle
      BY <1>a, <2>1, IdleFacts
    <3>3. Own(t)'
      BY <2>1, <3>1, <3>2 DEF Own
    <3> QED  BY <2>1, <2>2, <3>1, <3>2, <3>3, QuietStep
  <2> QED  BY <2>3, <2>4
<1>21. ASSUME NEW t \in Pages, AskAnswered(t) PROVE Uncrossed'
  <2>1. t \in Threads /\ Loads(t) /\ thr[t].pc \in {"call", "recall"} /\ thr[t].stage = "ask"
        /\ UNCHANGED <<store, tunnel, signedIn>>
    BY <1>21, AskEffect, PageIsThread
  <2>2. ~Moving(t)
    BY <2>1 DEF Moving
  <2> QED  BY <1>d, <2>1, <2>2
<1>22. ASSUME NEW t \in Pages, ListCame(t) PROVE Uncrossed'
  <2>0. t \in Threads
    BY PageIsThread
  <2>1. /\ \A u \in Threads \ {t} : thr'[u] = thr[u]
        /\ thr[t].stage \in Calls /\ thr[t].pc \in {"call", "recall", "renew", "renewing"}
        /\ thr'[t].stage = thr[t].stage
        /\ thr'[t].pc \in {"call", "recall", "renew", "renewing", "listed", "removed", "put"}
        /\ thr'[t].dev = thr[t].dev /\ thr'[t].had = thr[t].had /\ thr'[t].orphan = thr[t].orphan
        /\ store'.id = store.id /\ store'.conf = store.conf /\ UNCHANGED <<tunnel, signedIn, shown, offered>>
    BY <1>k, <1>22, <2>0, ListEffect DEF Goes, Turns, Keeps, Renewing, Calls
  <2> QED  BY <1>c, <2>0, <2>1
<1>23. ASSUME NEW t \in Pages, AfterList(t) PROVE Uncrossed'
  <2>0. t \in Threads /\ thr[t].stage = "after" /\ thr[t].pc = "enter" /\ UNCHANGED <<store, tunnel, signedIn>>
    BY <1>23, AfterEffect, PageIsThread
  <2>1. CASE thr[t].had # NONE /\ Selected(store) = NONE
    <3>1. /\ (\A u \in Threads \ {t} : thr'[u] = thr[u]) /\ thr'[t].stage = "down" /\ thr'[t].pc = "enter"
          /\ thr'[t].orphan = thr[t].orphan
      BY <1>23, <2>0, <2>1, AfterEffect DEF Goes
    <3>2. Own(t)' /\ Moving(t)' /\ Showing(t)'
      BY <1>a, <2>0, <2>1, <3>1 DEF Own, Moving, Showing
    <3>3. thr[t] # Idle
      BY <2>0, IdleFacts
    <3> QED  BY <2>0, <3>1, <3>2, <3>3, QuietStep
  <2>2. CASE ~(thr[t].had # NONE /\ Selected(store) = NONE)
    <3>1. Rests(t) /\ shown' = Selected(store)
      BY <1>23, <2>0, <2>2, AfterEffect
    <3>2. ~Moving(t)
      BY <2>0, <2>2 DEF Moving
    <3> QED  BY <1>r, <2>0, <3>1, <3>2
  <2> QED  BY <2>1, <2>2
<1>24. ASSUME NEW t \in Pages, ForgetId(t) PROVE Uncrossed'
  <2>1. /\ t \in Threads /\ ((thr[t].pc = "listed" /\ Missing(t)) \/ (thr[t].pc = "removed" /\ IsOwn(t)))
        /\ Others(t) = {} /\ store'.id = NONE /\ store'.conf = store.conf
        /\ UNCHANGED <<tunnel, signedIn, shown, offered>>
        /\ (\A u \in Threads \ {t} : thr'[u] = thr[u]) /\ thr'[t].stage = thr[t].stage /\ thr'[t].pc = "forget"
        /\ thr'[t].dev = thr[t].dev /\ thr'[t].had = thr[t].had /\ thr'[t].orphan = thr[t].orphan
    BY <1>24, ForgetIdEffect, PageIsThread DEF Keeps, Turns, Goes
  <2>2. thr[t] # Idle /\ Own(t)
    BY <1>a, <2>1, IdleFacts
  <2>3. IF thr[t].pc = "listed" THEN thr[t].stage = "list" ELSE thr[t].stage = "remove" /\ thr[t].dev \in Devices
    BY <1>p, <1>24, <2>1, <2>2 DEF PieceOf, Renewing
  <2>4. \A u \in Threads \ {t} : thr[u] = Idle
    BY <2>1, Alone
  <2>5. Selected(store) = store.id
    BY <2>1, Alone
  <2>6. CASE thr[t].pc = "listed"
    <3>1. thr[t].had # NONE
      BY <2>1, <2>2, <2>3, <2>5, <2>6 DEF Own, Missing
    <3>2. Own(t)' /\ Moving(t)' /\ Showing(t)'
      BY <2>1, <2>2, <2>3, <2>6, <3>1 DEF Own, Moving, Showing
    <3> QED  BY <1>f, <2>1, <2>2, <2>4, <3>2, AloneStep
  <2>7. CASE thr[t].pc = "removed"
    <3>1. tunnel = NONE
      BY <2>1, <2>2, <2>3, <2>7 DEF Own, IsOwn
    <3>2. Own(t)' /\ Showing(t)'
      BY <2>1, <2>2, <2>3, <2>7, <3>1 DEF Own, Showing
    <3> QED  BY <1>f, <2>1, <2>2, <2>4, <3>1, <3>2, AloneStep
  <2> QED  BY <2>1, <2>6, <2>7
<1>25. ASSUME NEW t \in Pages, ForgetConf(t) PROVE Uncrossed'
  <2>1. /\ t \in Threads /\ thr[t].pc = "forget" /\ Others(t) = {} /\ store'.id = store.id /\ store'.conf = NONE
        /\ UNCHANGED <<tunnel, signedIn, offered>> /\ Done(t)
    BY <1>25, ForgetConfEffect, PageIsThread DEF Keeps
  <2>2. thr[t] # Idle /\ Own(t)
    BY <1>a, <2>1, IdleFacts
  <2>3. thr[t].stage \in {"list", "remove"}
    BY <1>p, <1>25, <2>1, <2>2 DEF PieceOf, Renewing
  <2>4. \A u \in Threads \ {t} : thr[u] = Idle
    BY <2>1, Alone
  <2>5. store.id = NONE
    BY <2>1, <2>2 DEF Own
  <2>6. CASE thr[t].stage = "list"
    <3>1. /\ (\A u \in Threads \ {t} : thr'[u] = thr[u]) /\ thr'[t].stage = "after" /\ thr'[t].pc = "enter"
          /\ thr'[t].had = thr[t].had /\ thr'[t].orphan = thr[t].orphan
      BY <1>a, <2>1, <2>6 DEF Done, GoesOn, Goes
    <3>2. thr[t].had # NONE /\ Selected(store') = NONE
      BY <2>1, <2>2, <2>5, <2>6 DEF Own, Selected
    <3>3. Own(t)' /\ Moving(t)' /\ Showing(t)'
      BY <1>a, <2>1, <3>1, <3>2 DEF Own, Moving, Showing
    <3> QED  BY <1>f, <2>1, <2>2, <2>4, <2>5, <3>1, <3>3, AloneStep
  <2>7. CASE thr[t].stage = "remove"
    <3>1. /\ (\A u \in Threads \ {t} : thr'[u] = thr[u]) /\ thr'[t].stage = "profile" /\ thr'[t].pc = "enter"
          /\ thr'[t].orphan = thr[t].orphan
      BY <1>a, <2>1, <2>7 DEF Done, Loads, Goes
    <3>2. tunnel = NONE
      BY <2>1, <2>2, <2>7 DEF Own
    <3>3. Own(t)' /\ Showing(t)'
      BY <1>a, <2>1, <3>1 DEF Own, Showing
    <3> QED  BY <1>f, <2>1, <2>2, <2>4, <2>5, <3>1, <3>2, <3>3, AloneStep
  <2> QED  BY <2>3, <2>6, <2>7
<1>26. ASSUME NEW t \in Pages, NothingToForget(t) PROVE Uncrossed'
  <2>1. /\ t \in Threads /\ thr[t].pc \in {"listed", "removed"} /\ Done(t)
        /\ UNCHANGED <<store, tunnel, signedIn, offered>>
    BY <1>26, NothingEffect, PageIsThread
  <2>2. thr[t] # Idle /\ Own(t)
    BY <1>a, <2>1, IdleFacts
  <2>3. thr[t].stage \in {"list", "remove"}
    BY <1>p, <1>26, <2>1, <2>2 DEF PieceOf, Renewing
  <2>4. ~Moving(t)
    BY <2>1, <2>3 DEF Moving
  <2>5. CASE thr[t].stage = "list"
    <3>1. /\ (\A u \in Threads \ {t} : thr'[u] = thr[u]) /\ thr'[t].stage = "after" /\ thr'[t].pc = "enter"
          /\ thr'[t].had = thr[t].had /\ thr'[t].orphan = thr[t].orphan
      BY <1>a, <2>1, <2>5 DEF Done, GoesOn, Goes
    <3>2. Selected(store') = Selected(store)
      BY <2>1
    <3>3. Own(t)' /\ Showing(t)'
      BY <2>1, <2>2, <2>5, <3>1, <3>2 DEF Own, Showing
    <3> QED  BY <2>1, <2>2, <2>4, <3>1, <3>3, QuietStep
  <2>6. CASE thr[t].stage = "remove"
    BY <1>d, <2>1, <2>4, <2>6 DEF Done
  <2> QED  BY <2>3, <2>5, <2>6
<1>27. ASSUME NEW t \in Pages, RemoveCame(t) PROVE Uncrossed'
  <2>0. t \in Threads
    BY PageIsThread
  <2>1. /\ \A u \in Threads \ {t} : thr'[u] = thr[u]
        /\ thr[t].stage \in Calls /\ thr[t].pc \in {"call", "recall", "renew", "renewing"}
        /\ thr'[t].stage = thr[t].stage
        /\ thr'[t].pc \in {"call", "recall", "renew", "renewing", "listed", "removed", "put"}
        /\ thr'[t].dev = thr[t].dev /\ thr'[t].had = thr[t].had /\ thr'[t].orphan = thr[t].orphan
        /\ store'.id = store.id /\ store'.conf = store.conf /\ UNCHANGED <<tunnel, signedIn, shown, offered>>
    BY <1>k, <1>27, <2>0, RemoveEffect DEF Goes, Turns, Keeps, Renewing, Calls
  <2> QED  BY <1>c, <2>0, <2>1
<1>28. ASSUME NEW t \in Pages, CreateCame(t) PROVE Uncrossed'
  <2>1. /\ t \in Threads /\ thr[t].pc \in {"call", "recall"} /\ thr[t].stage = "create" /\ GoesOn(t, "select")
        /\ UNCHANGED <<store, tunnel, signedIn, shown, offered>>
    BY <1>28, CreateEffect, PageIsThread
  <2>2. /\ (\A u \in Threads \ {t} : thr'[u] = thr[u]) /\ thr'[t].stage = "select" /\ thr'[t].pc = "enter"
        /\ thr'[t].orphan = thr[t].orphan
    BY <1>a, <2>1 DEF GoesOn, Goes
  <2>3. ~Moving(t) /\ ~Showing(t) /\ thr[t] # Idle
    BY <2>1, IdleFacts DEF Moving, Showing
  <2>4. Own(t)'
    BY <1>a, <2>1, <2>2 DEF Own
  <2> QED  BY <2>1, <2>2, <2>3, <2>4, QuietStep
<1>29. ASSUME NEW t \in Pages, ConfigCame(t) PROVE Uncrossed'
  <2>0. t \in Threads
    BY PageIsThread
  <2>1. /\ \A u \in Threads \ {t} : thr'[u] = thr[u]
        /\ thr[t].stage \in Calls /\ thr[t].pc \in {"call", "recall", "renew", "renewing"}
        /\ thr'[t].stage = thr[t].stage
        /\ thr'[t].pc \in {"call", "recall", "renew", "renewing", "listed", "removed", "put"}
        /\ thr'[t].dev = thr[t].dev /\ thr'[t].had = thr[t].had /\ thr'[t].orphan = thr[t].orphan
        /\ store'.id = store.id /\ store'.conf = store.conf /\ UNCHANGED <<tunnel, signedIn, shown, offered>>
    BY <1>k, <1>29, <2>0, ConfigEffect DEF Goes, Turns, Keeps, Renewing, Calls
  <2> QED  BY <1>c, <2>0, <2>1
<1>30. ASSUME NEW t \in Pages, SelectGone(t) PROVE Uncrossed'
  <2>1. t \in Threads /\ Loads(t) /\ thr[t].pc \in {"call", "recall"} /\ thr[t].stage = "select"
        /\ UNCHANGED <<store, tunnel, signedIn>>
    BY <1>30, SelectGoneEffect, PageIsThread
  <2>2. ~Moving(t)
    BY <2>1 DEF Moving
  <2> QED  BY <1>d, <2>1, <2>2
<1>31. ASSUME NEW t \in Pages, PutConf(t) PROVE Uncrossed'
  <2>1. /\ t \in Threads /\ thr[t].pc = "put" /\ Others(t) = {} /\ store'.id = store.id /\ store'.conf = thr[t].dev
        /\ UNCHANGED <<tunnel, signedIn, shown, offered>>
        /\ (\A u \in Threads \ {t} : thr'[u] = thr[u]) /\ thr'[t].stage = thr[t].stage /\ thr'[t].pc = "putid"
        /\ thr'[t].dev = thr[t].dev /\ thr'[t].orphan = thr[t].orphan
    BY <1>31, PutConfEffect, PageIsThread DEF Keeps, Turns, Goes
  <2>2. thr[t] # Idle
    BY <2>1, IdleFacts
  <2>3. thr[t].stage = "select" /\ thr[t].dev \in Devices
    BY <1>p, <1>31, <2>1, <2>2 DEF PieceOf, Renewing
  <2>4. \A u \in Threads \ {t} : thr[u] = Idle
    BY <2>1, Alone
  <2>5. ~Moving(t) /\ ~Showing(t)
    BY <2>1, <2>3 DEF Moving, Showing
  <2>6. /\ Selected(store) = store.id /\ tunnel \in {NONE, Selected(store)}
        /\ signedIn /\ offered # {} => shown = Selected(store)
    BY <2>1, <2>5, Alone
  <2>7. Selected(store') = Selected(store)
    BY <1>a, <2>1, <2>3, <2>6 DEF Selected
  <2>8. Own(t)'
    BY <1>a, <2>1, <2>3 DEF Own
  <2> QED  BY <1>f, <2>1, <2>2, <2>4, <2>6, <2>7, <2>8, AloneStep
<1>32. ASSUME NEW t \in Pages, PutId(t) PROVE Uncrossed'
  <2>1. /\ t \in Threads /\ thr[t].pc = "putid" /\ Others(t) = {} /\ store'.id = thr[t].dev /\ store'.conf = store.conf
        /\ UNCHANGED <<tunnel, signedIn, shown, offered>>
        /\ \A u \in Threads \ {t} : thr[u] = Idle => thr'[u] = Idle
    BY <1>32, PutIdEffect, PageIsThread DEF Keeps
  <2>2. thr'[t].stage = "follow" /\ thr'[t].pc = "enter" /\ thr'[t].dev = thr[t].dev /\ thr'[t].orphan = FALSE
    BY <1>a, <1>32, <2>1, PutIdEffect DEF Is
  <2>3. thr[t] # Idle /\ Own(t)
    BY <1>a, <2>1, IdleFacts
  <2>4. \A u \in Threads \ {t} : thr[u] = Idle
    BY <2>1, Alone
  <2>5. store.conf = thr[t].dev
    BY <2>1, <2>3 DEF Own
  <2>6. Own(t)' /\ Moving(t)' /\ Showing(t)'
    BY <2>1, <2>2, <2>5 DEF Own, Moving, Showing
  <2> QED  BY <1>f, <2>1, <2>3, <2>4, <2>5, <2>6, AloneStep
<1>33. ASSUME NEW t \in Pages, Follow(t) PROVE Uncrossed'
  <2>1. /\ t \in Threads /\ thr[t].stage = "follow" /\ thr[t].pc = "enter"
        /\ shown' = (IF thr[t].op = "use" THEN Selected(store) ELSE shown)
        /\ UNCHANGED <<store, tunnel, signedIn, offered>>
    BY <1>33, FollowEffect, PageIsThread
  <2>2. thr[t] # Idle /\ Own(t)
    BY <1>a, <2>1, IdleFacts
  <2>3. thr[t].op \in {"use", "add"} /\ thr[t].dev \in Devices
    BY <1>p, <1>33, <2>1, <2>2 DEF PieceOf
  <2>4. store.id = thr[t].dev /\ store.conf = thr[t].dev /\ StoredConfig = store.conf /\ StoredConfig # NONE
    BY <1>a, <2>1, <2>2, <2>3 DEF Own, StoredConfig, Selected
  <2>5. CASE tunnel = NONE
    <3>1. Finishes(t)
      BY <1>33, <2>1, <2>5, FollowEffect
    <3>2. CASE thr[t].op = "add"
      BY <1>d, <2>1, <2>5, <3>1, <3>2 DEF Finishes
    <3>3. CASE thr[t].op = "use"
      BY <1>r, <2>1, <2>5, <3>1, <3>3 DEF Finishes
    <3> QED  BY <2>3, <3>2, <3>3
  <2>6. CASE tunnel # NONE
    <3>1. Ups(t)
      BY <1>33, <2>1, <2>4, <2>6, FollowEffect
    <3>2. /\ (\A u \in Threads \ {t} : thr'[u] = thr[u]) /\ thr'[t].stage = "follow" /\ thr'[t].pc = "upping"
          /\ thr'[t].dev = StoredConfig /\ thr'[t].orphan = thr[t].orphan /\ thr'[t].op = thr[t].op
      BY <2>1, <3>1 DEF Ups, Goes
    <3>3. Own(t)' /\ Moving(t)'
      BY <1>a, <2>1, <2>4, <3>2 DEF Own, Moving
    <3>4. Showing(t)' \/ shown' = Selected(store)
      BY <2>1, <2>3, <3>2 DEF Showing
    <3> QED  BY <2>1, <2>2, <3>2, <3>3, <3>4, QuietStep
  <2> QED  BY <2>5, <2>6
<1>34. ASSUME NEW t \in Pages, NEW d \in Devices, use(t, d) PROVE Uncrossed'
  BY <1>b, <1>34, UseStarts, PageIsThread
<1>35. ASSUME NEW t \in Pages, NEW d \in Devices, add(t, d) PROVE Uncrossed'
  BY <1>b, <1>35, AddStarts, PageIsThread
<1>36. ASSUME NEW t \in Pages, NEW d \in Devices, delete(t, d) PROVE Uncrossed'
  <2>1. PICK h \in {d, NONE} : /\ h = NONE => shown # d
                               /\ Starts(t, "delete", "remove", d, h) /\ d \in offered
                               /\ crossed' = (crossed \/ Others(t) # {})
    BY <1>36, DeleteStarts
  <2>2. /\ t \in Threads /\ Others(t) = {} /\ \A u \in Threads \ {t} : thr'[u] = thr[u]
        /\ UNCHANGED <<store, tunnel, signedIn, shown, offered>> /\ signedIn /\ thr[t] = Idle
        /\ thr'[t].stage = "remove" /\ thr'[t].pc = "enter" /\ thr'[t].orphan = thr[t].orphan
        /\ thr'[t].dev = d /\ thr'[t].had = h
    BY <2>1, PageIsThread DEF Starts, Goes
  <2>3. ~Moving(t) /\ ~Showing(t) /\ thr[t].pc \notin {"putid", "forget"}
    BY <2>2, IdleOwn
  <2>4. shown = store.id
    BY <2>1, <2>2, <2>3, Alone
  <2>5. Own(t)'
    BY <1>a, <2>1, <2>2, <2>4 DEF Own
  <2> QED  BY <2>2, <2>3, <2>5, QuietStep
<1>37. ASSUME NEW t \in Threads, Down(t) PROVE Uncrossed'
  <2>1. /\ thr[t].pc = "enter" /\ thr[t].stage \in {"down", "stop"} /\ tunnel' = NONE /\ Rests(t)
        /\ IF thr[t].stage = "down" THEN shown' = NONE /\ offered' = thr[t].list ELSE UNCHANGED <<shown, offered>>
        /\ UNCHANGED <<store, signedIn>>
    BY <1>37, DownEffect
  <2>2. CASE thr[t].stage = "down"
    <3>1. Selected(store) = NONE
      BY <1>a, <2>2 DEF Own
    <3> QED  BY <1>r, <2>1, <2>2, <3>1
  <2>3. CASE thr[t].stage = "stop"
    <3>1. ~Showing(t)
      BY <2>1, <2>3 DEF Showing
    <3> QED  BY <1>r, <2>1, <2>3, <3>1
  <2> QED  BY <2>1, <2>2, <2>3
<1>38. ASSUME NEW t \in Threads, ReadConf(t) PROVE Uncrossed'
  <2>1. /\ thr[t].pc = "enter" /\ thr[t].stage = "conf" /\ (Rests(t) \/ (StoredConfig # NONE /\ Ups(t)))
        /\ UNCHANGED <<store, tunnel, signedIn, shown, offered>>
    BY <1>38, ReadConfEffect
  <2>2. ~Moving(t) /\ ~Showing(t) /\ thr[t] # Idle
    BY <2>1, IdleFacts DEF Moving, Showing
  <2>3. CASE Rests(t)
    BY <1>r, <2>1, <2>2, <2>3
  <2>4. CASE ~Rests(t)
    <3>1. /\ (\A u \in Threads \ {t} : thr'[u] = thr[u]) /\ thr'[t].stage = "conf" /\ thr'[t].pc = "upping"
          /\ thr'[t].dev = StoredConfig /\ thr'[t].orphan = thr[t].orphan /\ StoredConfig # NONE
      BY <2>1, <2>4 DEF Ups, Goes
    <3>2. StoredConfig = store.conf
      BY <3>1 DEF StoredConfig
    <3>3. Own(t)'
      BY <1>a, <2>1, <3>1, <3>2 DEF Own
    <3> QED  BY <2>1, <2>2, <3>1, <3>3, QuietStep
  <2> QED  BY <2>3, <2>4
<1>39. ASSUME NEW t \in Threads, Up(t) PROVE Uncrossed'
  <2>1. /\ thr[t].pc = "upping" /\ Finishes(t) /\ tunnel' = thr[t].dev /\ Others(t) = {}
        /\ UNCHANGED <<store, signedIn, shown, offered>>
    BY <1>39, UpEffect
  <2>2. Own(t) /\ thr[t] # Idle
    BY <1>a, <2>1, IdleFacts
  <2>3. \A u \in Threads \ {t} : thr[u] = Idle
    BY <2>1, Alone
  <2>4. thr[t].dev = store.conf /\ store.conf = store.id /\ Selected(store) = store.id
    BY <2>1, <2>2, Alone DEF Own
  <2>5. CASE thr[t].op = "add"
    <3>1. /\ (\A u \in Threads \ {t} : thr'[u] = thr[u]) /\ thr'[t].stage = "profile" /\ thr'[t].pc = "enter"
          /\ thr'[t].orphan = FALSE
      BY <1>a, <2>1, <2>5 DEF Finishes, Loads, Goes
    <3>2. Own(t)' /\ Showing(t)'
      BY <3>1 DEF Own, Showing
    <3> QED  BY <1>f, <2>1, <2>2, <2>3, <2>4, <3>1, <3>2, AloneStep
  <2>6. CASE thr[t].op # "add"
    <3>1. thr'[t] = Idle /\ \A u \in Threads \ {t} : thr'[u] = thr[u]
      BY <2>1, <2>6 DEF Finishes, Rests
    <3>2. thr[t].stage \in {"follow", "conf"}
      BY <2>1, <2>2, IdleFacts DEF Shapes, Shape, PieceOf, Threads, Renewing
    <3>3. ~Showing(t)
      BY <2>1, <2>6, <3>2 DEF Showing
    <3>4. signedIn /\ offered # {} => shown = Selected(store)
      BY <2>1, <3>3, Alone
    <3>5. Own(t)'
      BY <3>1, IdleFacts DEF Own
    <3> QED  BY <1>f, <2>1, <2>2, <2>3, <2>4, <3>1, <3>4, <3>5, AloneStep
  <2> QED  BY <2>5, <2>6
<1>40. CASE UNCHANGED vars
  BY <1>40 DEF vars, Uncrossed, Own, Moving, Showing, Busy, Selected
<1> QED
  BY <1>1, <1>2, <1>3, <1>4, <1>5, <1>6, <1>7, <1>8, <1>9, <1>10, <1>11, <1>12, <1>13, <1>14, <1>15,
     <1>16, <1>17, <1>18, <1>19, <1>20, <1>21, <1>22, <1>23, <1>24, <1>25, <1>26, <1>27, <1>28,
     <1>29, <1>30, <1>31, <1>32, <1>33, <1>34, <1>35, <1>36, <1>37, <1>38, <1>39, <1>40, <1>41
  DEF Next, Operate

-----------------------------------------------------------------------------
(* The theorems                                                            *)

Kept ==
    \/ store' = Empty \/ torn
    \/ \E t \in Pages : thr[t] # thr'[t] /\ thr[t].pc = "listed" /\ thr[t].stale

LEMMA ChosenStep ==
  ASSUME TypeOK, Shapes, AllHonest, [Next]_vars, NEW d \in DevicesOf(cur), store.id = d, store'.id = NONE
  PROVE  Kept
<1>a. store'.id # store.id /\ store.id \in DevicesOf(cur) /\ store'.id = NONE
  BY AppAssumption DEF DevicesOf
<1>1. CASE signIn
  BY <1>a, <1>1, SignInEffect DEF Keeps
<1>41. CASE SignedIn
  BY <1>a, <1>41, SignedInEffect DEF Keeps
<1>2. CASE signOut
  BY <1>a, <1>2, OutStarts DEF Starts
<1>3. CASE press
  BY <1>a, <1>3, PressStarts DEF Starts
<1>4. CASE TurnPage
  BY <1>a, <1>4, TurnPageEffect
<1>5. CASE Killed
  BY <1>a, <1>5, KilledEffect
<1>6. CASE OutDown
  BY <1>a, <1>6, OutDownEffect
<1>7. CASE Logout
  BY <1>a, <1>7, LogoutEffect
<1>8. CASE Clear
  BY <1>8, ClearEffect DEF Kept
<1>9. CASE PortalDrops
  BY <1>a, <1>9 DEF PortalDrops
<1>10. CASE SiteRemoves
  BY <1>a, <1>10 DEF SiteRemoves
<1>11. CASE onStateChange
  BY <1>a, <1>11 DEF onStateChange
<1>12. ASSUME NEW t \in Pages, load(t) PROVE Kept
  BY <1>a, <1>12, LoadStarts, PageIsThread DEF Starts
<1>13. ASSUME NEW t \in Pages, rename(t) PROVE Kept
  BY <1>a, <1>13, RenameStarts, PageIsThread DEF Starts
<1>14. ASSUME NEW t \in Pages, Enter(t) PROVE Kept
  BY <1>a, <1>14, EnterEffect, PageIsThread
<1>15. ASSUME NEW t \in Pages, Refused(t) PROVE Kept
  BY <1>a, <1>15, RefusedEffect, PageIsThread DEF Keeps
<1>16. ASSUME NEW t \in Pages, RenewReads(t) PROVE Kept
  BY <1>a, <1>16, RenewReadsEffect, PageIsThread
<1>17. ASSUME NEW t \in Pages, Renewed(t) PROVE Kept
  BY <1>a, <1>17, RenewedEffect, PageIsThread DEF Keeps
<1>18. ASSUME NEW t \in Pages, RenewRefused(t) PROVE Kept
  BY <1>a, <1>18, RenewRefusedEffect, PageIsThread DEF Keeps
<1>19. ASSUME NEW t \in Pages, Failed(t) PROVE Kept
  BY <1>a, <1>19, FailedEffect, PageIsThread
<1>20. ASSUME NEW t \in Pages, ProfileCame(t) PROVE Kept
  BY <1>a, <1>20, ProfileEffect, PageIsThread
<1>21. ASSUME NEW t \in Pages, AskAnswered(t) PROVE Kept
  BY <1>a, <1>21, AskEffect, PageIsThread
<1>22. ASSUME NEW t \in Pages, ListCame(t) PROVE Kept
  BY <1>a, <1>22, ListEffect, PageIsThread
<1>23. ASSUME NEW t \in Pages, AfterList(t) PROVE Kept
  BY <1>a, <1>23, AfterEffect, PageIsThread
<1>24. ASSUME NEW t \in Pages, ForgetId(t) PROVE Kept
  <2>1. /\ t \in Threads /\ thr'[t].pc = "forget"
        /\ (thr[t].pc = "listed" /\ Missing(t)) \/ (thr[t].pc = "removed" /\ IsOwn(t))
    BY <1>24, ForgetIdEffect, PageIsThread DEF Turns, Goes
  <2>2. torn \/ Honest(t)
    BY <2>1 DEF AllHonest
  <2>3. thr[t] # thr'[t]
    BY <2>1
  <2>4. thr[t].pc # "removed" \/ torn
    BY <1>a, <2>1, <2>2 DEF Honest, IsOwn
  <2>5. thr[t].stale \/ torn
    BY <1>a, <2>1, <2>2, <2>4 DEF Honest, Missing
  <2> QED  BY <1>24, <2>1, <2>3, <2>4, <2>5 DEF Kept
<1>25. ASSUME NEW t \in Pages, ForgetConf(t) PROVE Kept
  BY <1>a, <1>25, ForgetConfEffect, PageIsThread DEF Keeps
<1>26. ASSUME NEW t \in Pages, NothingToForget(t) PROVE Kept
  BY <1>a, <1>26, NothingEffect, PageIsThread
<1>27. ASSUME NEW t \in Pages, RemoveCame(t) PROVE Kept
  BY <1>a, <1>27, RemoveEffect, PageIsThread
<1>28. ASSUME NEW t \in Pages, CreateCame(t) PROVE Kept
  BY <1>a, <1>28, CreateEffect, PageIsThread
<1>29. ASSUME NEW t \in Pages, ConfigCame(t) PROVE Kept
  BY <1>a, <1>29, ConfigEffect, PageIsThread
<1>30. ASSUME NEW t \in Pages, SelectGone(t) PROVE Kept
  BY <1>a, <1>30, SelectGoneEffect, PageIsThread
<1>31. ASSUME NEW t \in Pages, PutConf(t) PROVE Kept
  BY <1>a, <1>31, PutConfEffect, PageIsThread DEF Keeps
<1>32. ASSUME NEW t \in Pages, PutId(t) PROVE Kept
  <2>1. t \in Threads /\ thr[t].pc = "putid" /\ store'.id = thr[t].dev
    BY <1>32, PutIdEffect, PageIsThread DEF Keeps
  <2>2. thr[t].dev \in Devices
    BY <2>1, <1>32, IdleFacts DEF Shapes, Shape, PieceOf, Renewing
  <2> QED  BY <1>a, <2>1, <2>2, AppAssumption
<1>33. ASSUME NEW t \in Pages, Follow(t) PROVE Kept
  BY <1>a, <1>33, FollowEffect, PageIsThread
<1>34. ASSUME NEW t \in Pages, NEW e \in Devices, use(t, e) PROVE Kept
  BY <1>a, <1>34, UseStarts, PageIsThread DEF Starts
<1>35. ASSUME NEW t \in Pages, NEW e \in Devices, add(t, e) PROVE Kept
  BY <1>a, <1>35, AddStarts, PageIsThread DEF Starts
<1>36. ASSUME NEW t \in Pages, NEW e \in Devices, delete(t, e) PROVE Kept
  BY <1>a, <1>36, DeleteStarts, PageIsThread DEF Starts
<1>37. ASSUME NEW t \in Threads, Down(t) PROVE Kept
  BY <1>a, <1>37, DownEffect
<1>38. ASSUME NEW t \in Threads, ReadConf(t) PROVE Kept
  BY <1>a, <1>38, ReadConfEffect
<1>39. ASSUME NEW t \in Threads, Up(t) PROVE Kept
  BY <1>a, <1>39, UpEffect
<1>40. CASE UNCHANGED vars
  BY <1>a, <1>40 DEF vars
<1> QED
  BY <1>1, <1>2, <1>3, <1>4, <1>5, <1>6, <1>7, <1>8, <1>9, <1>10, <1>11, <1>12, <1>13, <1>14, <1>15,
     <1>16, <1>17, <1>18, <1>19, <1>20, <1>21, <1>22, <1>23, <1>24, <1>25, <1>26, <1>27, <1>28,
     <1>29, <1>30, <1>31, <1>32, <1>33, <1>34, <1>35, <1>36, <1>37, <1>38, <1>39, <1>40, <1>41
  DEF Next, Operate

LEMMA StartsSafe == Init => TypeOK /\ Shapes /\ Sessions /\ Known /\ AllHonest /\ Orderly
<1> SUFFICES ASSUME Init PROVE TypeOK /\ Shapes /\ Sessions /\ Known /\ AllHonest /\ Orderly
  OBVIOUS
<1>1. /\ store = Empty /\ tunnel = NONE /\ signedIn = FALSE /\ shown = NONE /\ offered = {} /\ cur = 0 /\ alive = {}
      /\ \A t \in Threads : thr[t] = Idle
  BY DEF Init
<1>2. /\ store \in Store /\ store.token = 0 /\ store.refresh = 0 /\ store.conf = NONE /\ store.id = NONE
  BY <1>1, PcFacts DEF Empty, Store
<1>3. TypeOK
  <2>1. thr \in [Threads -> Thread]
    BY IdleFacts, Zenon DEF Init
  <2>2. devs \in [Devices -> {"new", "on", "off"}]
    BY DEF Init
  <2> QED  BY <1>1, <1>2, <2>1, <2>2, PcFacts DEF Init, TypeOK, Store
<1>4. Shapes
  BY <1>1, IdleFacts DEF Shapes, Shape
<1>5. Sessions
  BY <1>1, <1>2, IdleFacts DEF Sessions, TokensAreCurrent, CallsCurrent, HalfSeen, Init
<1>6. Known
  BY <1>1, <1>2, IdleFacts, AppAssumption DEF Known, KnownAt, NotNew
<1>7. AllHonest
  BY <1>1, IdleFacts DEF AllHonest, Honest
<1>8. Orderly
  BY <1>1, <1>2, IdleOwn DEF Orderly, Uncrossed
<1> QED  BY <1>3, <1>4, <1>5, <1>6, <1>7, <1>8

LEMMA SafeStep ==
  ASSUME TypeOK, Shapes, Sessions, Known, AllHonest, Orderly, [Next]_vars
  PROVE  (TypeOK /\ Shapes /\ Sessions /\ Known /\ AllHonest /\ Orderly)'
<1>1. TypeOK' /\ Shapes'
  BY TypeStep, ShapeStep
<1>2. Sessions'
  BY SessionStep
<1>3. Known' /\ AllHonest'
  BY DeviceStep
<1>4. Orderly'
  BY CrossedStays, OrderStep DEF Orderly, Sessions
<1> QED  BY <1>1, <1>2, <1>3, <1>4

Safe == Shapes /\ Sessions /\ Known /\ AllHonest /\ Orderly

\* The invariant of the app.  Types; an operation is at a piece its function
\* has (Shapes); every call carries the newest sign-in's token unless the
\* session was torn under it, and a sign-in cut in half is marked as torn
\* (Sessions); what the phone names was made by the
\* portal and a list or a removal says the truth of the selection until the
\* selection is made anew (Known, AllHonest); and while nothing has crossed,
\* each half-done selection, removal or move of the tunnel is in the hands of
\* an operation that will finish it (Orderly).
THEOREM AppIsSafe == Spec => [](TypeOK /\ Safe)
<1>1. Init => TypeOK /\ Safe
  BY StartsSafe DEF Safe
<1>2. TypeOK /\ Safe /\ [Next]_vars => (TypeOK /\ Safe)'
  BY SafeStep DEF Safe
<1> QED  BY <1>1, <1>2, PTL DEF Spec

\* Session.kt: the tokens on the phone are of its newest sign-in, whatever
\* renewals, refusals, sign-outs and restarts interleave.  The exceptions: a
\* sign-in between its two writes, or killed there over an older refresh token;
\* and the access token once the session was wiped or replaced under a call in
\* flight.
THEOREM TokensStayCurrent == Spec => []TokensAreCurrent
<1>1. TypeOK /\ Safe => TokensAreCurrent
  BY DEF Safe, Sessions
<1> QED  BY <1>1, AppIsSafe, PTL

\* AccountModel.load and delete give up a selection whose device is still on
\* the account only at sign-out, on a list asked for before it was made, or in a
\* session that was torn.
THEOREM ChosenStaysKept == Spec => ChosenIsKept
<1>1. /\ TypeOK /\ Safe /\ [Next]_vars
      => [\A d \in DevicesOf(cur) : store.id = d /\ store'.id = NONE =>
            \/ store' = Empty
            \/ torn
            \/ \E t \in Pages : thr[t] # thr'[t] /\ thr[t].pc = "listed" /\ thr[t].stale]_vars
  BY ChosenStep DEF Safe, Kept
<1> QED  BY <1>1, AppIsSafe, PTL DEF Spec, ChosenIsKept

\* With nothing under way, and nothing ever overlapped or cut short, the stored
\* config is the selected device's and the tunnel is off or runs on it.
THEOREM TunnelStaysOnSelected == Spec => []TunnelOnSelected
<1>1. TypeOK /\ Safe => TunnelOnSelected
  <2> SUFFICES ASSUME TypeOK, Safe, \A t \in Threads : ~Busy(t), ~crossed
               PROVE  (Selected(store) # NONE => store.conf = store.id) /\ tunnel \in {NONE, Selected(store)}
    BY DEF TunnelOnSelected
  <2>1. Uncrossed /\ \A t \in Threads : thr[t] = Idle
    BY DEF Safe, Orderly, Busy
  <2> QED  BY <2>1, IdleOwn DEF Uncrossed
<1> QED  BY <1>1, AppIsSafe, PTL

=============================================================================
