----------------------------- MODULE NodeProofs -----------------------------
(***************************************************************************)
(* The answers of the wrappers and the agreement of file, interface and    *)
(* rows, for any keys, addresses, requests and reboots.                    *)
(*                                                                         *)
(* Everything is said of a key k whose wrappers never overlapped with      *)
(* another (~Met(k)).  Such a key is safe from the others because every    *)
(* copy of the file that a running wrapper may still write back agrees     *)
(* with the file on k's blocks (CopiesAgree), and because no running       *)
(* pwa-add-peer holds an address of k (AddersClear).                       *)
(***************************************************************************)
EXTENDS Node, TLAPS

BlocksOf(k, blocks) == {b \in blocks : b[1] = k}

\* An address is in one block, as far as k is concerned.
OneBlock(k, blocks) == \A b, d \in blocks : b[1] = k /\ b[2] = d[2] => b = d

\* From a new key to the row of its device.
Issuing == {"pick", "check", "row"} \cup Adding

\* A wrapper that holds a copy of the file.
HasCopy(p) == proc[p].pc \in {"append", "set", "restore", "write"}

\* Two wrappers that run at one time have met.
OverlapSeen ==
    \A p, q \in Procs : p # q /\ Running(p) /\ Running(q) => {proc[p].key, proc[q].key} \in met

\* A key is issued by one request, and neither in a row nor removed before it is.
KeysInv ==
    /\ KeysOf(rows) \subseteq used /\ gone \subseteq used
    /\ \A p \in Procs :
        /\ IF proc[p].pc = "idle" THEN proc[p].key = None ELSE proc[p].key \in used
        /\ proc[p].pc \in Issuing =>
              /\ proc[p].key \notin KeysOf(rows) \cup gone
              /\ \A q \in Procs \ {p} : proc[q].key # proc[p].key
        /\ proc[p].pc \in Adding \cup {"check", "row"} => proc[p].ip \in IPs
        /\ proc[p].pc \in Removing => proc[p].key \notin KeysOf(added)

\* A copy of the file says of k what the file says, whoever holds it.
CopiesAgree(k) ==
    \A p \in Procs : HasCopy(p) =>
        /\ OneBlock(k, proc[p].copy)
        /\ proc[p].key # k => BlocksOf(k, proc[p].copy) = BlocksOf(k, file)

\* A running pwa-add-peer is at nobody's address.
AddersClear(k) ==
    \A p \in Procs : proc[p].pc \in Adding /\ proc[p].key # k =>
        route[proc[p].ip] # k /\ <<k, proc[p].ip>> \notin file

\* Where k is while a request works on it.
NotThere(k) == k \notin KeysOf(file) /\ k \notin live

AtWork(k, p) ==
    LET ip == proc[p].ip
        pc == proc[p].pc
    IN  /\ pc \in {"pick", "check", "backup", "append"} => NotThere(k)
        /\ pc \in {"backup", "append"} => ip \notin IPsOf(file)
        /\ pc \in {"set", "restore"} => BlocksOf(k, file) = {<<k, ip>>} /\ k \notin live
        /\ pc \in {"append", "set", "restore", "write"} => BlocksOf(k, proc[p].copy) = {}
        /\ pc \in Removing /\ proc[p].allowed = "absent" => k \notin live
        /\ pc = "runtime" => k \notin KeysOf(file)

\* Where k is in the end.
Settled(k) ==
    /\ k \notin used => NotThere(k)
    /\ k \in gone => NotThere(k)
    /\ OneBlock(k, file)
    /\ k \in live => \E i \in IPs : route[i] = k
    /\ k \in half \/ (k \in KeysOf(file) <=> k \in live)
          \/ \E p \in Procs : proc[p].key = k /\ proc[p].pc \in {"set", "restore", "runtime"}

\* A device of k that the node confirmed is there.
Works(k) ==
    \A b \in added : b[1] = k => b \in file /\ k \in live /\ route[b[2]] = k

Untroubled(k) ==
    /\ CopiesAgree(k) /\ AddersClear(k) /\ Settled(k) /\ Works(k)
    /\ \A p \in Procs : proc[p].key = k => AtWork(k, p)

\* Together with TypeOK, the inductive invariant.
Safe == OverlapSeen /\ KeysInv /\ \A k \in Keys : ~Met(k) => Untroubled(k)

-----------------------------------------------------------------------------
(* Types                                                                   *)

Proc == [pc : Steps, key : Keys \cup {None}, ip : IPs \cup {None},
         tried : SUBSET IPs, tries : 0..MaxTries,
         copy : SUBSET (Keys \X IPs), allowed : {"absent", "client", "(none)"}]

LEMMA IdleFacts ==
  /\ Idle \in Proc
  /\ Idle.pc = "idle" /\ Idle.key = None /\ Idle.ip = None /\ Idle.tried = {}
  /\ Idle.tries = 0 /\ Idle.copy = {} /\ Idle.allowed = "absent"
  BY NodeAssumption DEF Idle, Proc, Steps

LEMMA BlockKeys ==
  ASSUME NEW S \in SUBSET (Keys \X IPs)
  PROVE  KeysOf(S) \subseteq Keys /\ IPsOf(S) \subseteq IPs
  BY DEF KeysOf, IPsOf

LEMMA RunningKeys ==
  ASSUME TypeOK, KeysInv, NEW p \in Procs, Running(p)
  PROVE  proc[p].key \in Keys
  BY DEF TypeOK, KeysInv, Running, Adding, Removing

-----------------------------------------------------------------------------
(* What a step makes of the request that takes it, field by field, and of   *)
(* the node.                                                               *)

Step(p) == Wrapper(p) \/ Portal(p)

Moves(p, pc, key, ip, copy, allowed) ==
    /\ proc' \in [Procs -> Proc]
    /\ \A q \in Procs \ {p} : proc'[q] = proc[q]
    /\ proc'[p].pc = pc /\ proc'[p].key = key /\ proc'[p].ip = ip
    /\ proc'[p].copy = copy /\ proc'[p].allowed = allowed

Rests(p) == Moves(p, "idle", None, None, {}, "absent")

\* One request moves, to r.
LEMMA MovesTo ==
  ASSUME TypeOK, NEW p \in Procs, NEW r \in Proc, proc' = [proc EXCEPT ![p] = r]
  PROVE  Moves(p, r.pc, r.key, r.ip, r.copy, r.allowed)
  BY DEF Moves, TypeOK, Proc

\* Some of its fields change.
LEMMA FieldsMove ==
  ASSUME TypeOK, NEW p \in Procs, NEW c \in Steps
  PROVE  /\ proc' = [proc EXCEPT ![p].pc = c]
              => Moves(p, c, proc[p].key, proc[p].ip, proc[p].copy, proc[p].allowed)
         /\ \A ip \in IPs, n \in 0..MaxTries :
              proc' = [proc EXCEPT ![p].pc = c, ![p].ip = ip, ![p].tries = n]
              => Moves(p, c, proc[p].key, ip, proc[p].copy, proc[p].allowed)
         /\ \A t \in SUBSET IPs : proc' = [proc EXCEPT ![p].pc = c, ![p].tried = t]
              => Moves(p, c, proc[p].key, proc[p].ip, proc[p].copy, proc[p].allowed)
         /\ \A f \in SUBSET (Keys \X IPs) : proc' = [proc EXCEPT ![p].pc = c, ![p].copy = f]
              => Moves(p, c, proc[p].key, proc[p].ip, f, proc[p].allowed)
<1>0. proc[p] \in Proc /\ p \in DOMAIN proc
  BY DEF TypeOK, Proc
<1>1. ASSUME proc' = [proc EXCEPT ![p].pc = c]
      PROVE  Moves(p, c, proc[p].key, proc[p].ip, proc[p].copy, proc[p].allowed)
  <2> DEFINE r == [proc[p] EXCEPT !.pc = c]
  <2>1. /\ r \in Proc /\ r.pc = c /\ r.key = proc[p].key /\ r.ip = proc[p].ip
        /\ r.copy = proc[p].copy /\ r.allowed = proc[p].allowed
    BY <1>0, Zenon DEF Proc
  <2>2. proc' = [proc EXCEPT ![p] = r]
    BY <1>0, <1>1, Zenon
  <2> QED  BY <2>1, <2>2, MovesTo
<1>2. ASSUME NEW ip \in IPs, NEW n \in 0..MaxTries,
             proc' = [proc EXCEPT ![p].pc = c, ![p].ip = ip, ![p].tries = n]
      PROVE  Moves(p, c, proc[p].key, ip, proc[p].copy, proc[p].allowed)
  <2> DEFINE r == [proc[p] EXCEPT !.pc = c, !.ip = ip, !.tries = n]
  <2>1. /\ r \in Proc /\ r.pc = c /\ r.key = proc[p].key /\ r.ip = ip
        /\ r.copy = proc[p].copy /\ r.allowed = proc[p].allowed
    BY <1>0, Zenon DEF Proc
  <2>2. proc' = [proc EXCEPT ![p] = r]
    BY <1>0, <1>2, Zenon
  <2> QED  BY <2>1, <2>2, MovesTo
<1>3. ASSUME NEW t \in SUBSET IPs, proc' = [proc EXCEPT ![p].pc = c, ![p].tried = t]
      PROVE  Moves(p, c, proc[p].key, proc[p].ip, proc[p].copy, proc[p].allowed)
  <2> DEFINE r == [proc[p] EXCEPT !.pc = c, !.tried = t]
  <2>1. /\ r \in Proc /\ r.pc = c /\ r.key = proc[p].key /\ r.ip = proc[p].ip
        /\ r.copy = proc[p].copy /\ r.allowed = proc[p].allowed
    BY <1>0, Zenon DEF Proc
  <2>2. proc' = [proc EXCEPT ![p] = r]
    BY <1>0, <1>3, Zenon
  <2> QED  BY <2>1, <2>2, MovesTo
<1>4. ASSUME NEW f \in SUBSET (Keys \X IPs), proc' = [proc EXCEPT ![p].pc = c, ![p].copy = f]
      PROVE  Moves(p, c, proc[p].key, proc[p].ip, f, proc[p].allowed)
  <2> DEFINE r == [proc[p] EXCEPT !.pc = c, !.copy = f]
  <2>1. /\ r \in Proc /\ r.pc = c /\ r.key = proc[p].key /\ r.ip = proc[p].ip
        /\ r.copy = f /\ r.allowed = proc[p].allowed
    BY <1>0, Zenon DEF Proc
  <2>2. proc' = [proc EXCEPT ![p] = r]
    BY <1>0, <1>4, Zenon
  <2> QED  BY <2>1, <2>2, MovesTo
<1> QED  BY <1>1, <1>2, <1>3, <1>4, Zenon

LEMMA LookEffect ==
  ASSUME TypeOK, KeysInv, NEW p \in Procs, NEW k \in Keys, NEW answered, IssueLook(p, k, answered)
  PROVE  /\ proc[p].pc = "idle" /\ k \notin used /\ used' = used \cup {k}
         /\ Moves(p, "pick", k, None, {}, "absent")
         /\ UNCHANGED <<file, live, route, rows, reboots, added, gone, half, met>>
  BY IdleFacts DEF IssueLook, TypeOK, Proc, Steps, Adding, Removing, Moves

LEMMA PickEffect ==
  ASSUME TypeOK, KeysInv, NEW p \in Procs, IssuePick(p)
  PROVE  /\ proc[p].pc = "pick"
         /\ Rests(p) \/ \E ip \in IPs : Moves(p, "check", proc[p].key, ip, proc[p].copy, proc[p].allowed)
         /\ UNCHANGED <<file, live, route, rows, used, reboots, added, gone, half, met>>
<1>1. CASE proc' = [proc EXCEPT ![p] = Idle]
  BY <1>1, IdleFacts, MovesTo DEF IssuePick, Rests
<1>2. ASSUME NEW ip \in FreeIPs(proc[p].tried), proc[p].tries < MaxTries,
             proc' = [proc EXCEPT ![p].pc = "check", ![p].ip = ip, ![p].tries = @ + 1]
      PROVE  ip \in IPs /\ Moves(p, "check", proc[p].key, ip, proc[p].copy, proc[p].allowed)
  <2>1. proc[p].tries \in 0..MaxTries
    BY DEF TypeOK
  <2>2. ip \in IPs /\ proc[p].tries + 1 \in 0..MaxTries
    BY <1>2, <2>1, NodeAssumption DEF FreeIPs
  <2>3. "check" \in Steps
    BY DEF Steps
  <2> QED  BY <1>2, <2>2, <2>3, FieldsMove, Zenon
<1>3. proc[p].pc = "pick" /\ UNCHANGED <<file, live, route, rows, used, reboots, added, gone, half, met>>
  BY DEF IssuePick
<1>4. \/ proc' = [proc EXCEPT ![p] = Idle]
      \/ \E ip \in FreeIPs(proc[p].tried) :
            /\ proc[p].tries < MaxTries
            /\ proc' = [proc EXCEPT ![p].pc = "check", ![p].ip = ip, ![p].tries = @ + 1]
  BY Zenon DEF IssuePick
<1> QED  BY <1>1, <1>2, <1>3, <1>4, Zenon

LEMMA CheckEffect ==
  ASSUME TypeOK, KeysInv, NEW p \in Procs, AddCheck(p)
  PROVE  /\ proc[p].pc = "check"
         /\ \/ Moves(p, "pick", proc[p].key, proc[p].ip, proc[p].copy, proc[p].allowed) /\ UNCHANGED met
            \/ Moves(p, "backup", proc[p].key, proc[p].ip, proc[p].copy, proc[p].allowed)
               /\ ~IPTaken(proc[p].ip) /\ met' = Meets(p, proc[p].key)
         /\ UNCHANGED <<file, live, route, rows, used, reboots, added, gone, half>>
<1>1. "pick" \in Steps /\ "backup" \in Steps
  BY DEF Steps, Adding
<1>2. ASSUME proc' = [proc EXCEPT ![p].pc = "pick", ![p].tried = @ \cup {proc[p].ip}]
      PROVE  Moves(p, "pick", proc[p].key, proc[p].ip, proc[p].copy, proc[p].allowed)
  <2>1. proc[p].tried \cup {proc[p].ip} \in SUBSET IPs
    BY DEF AddCheck, TypeOK, KeysInv
  <2> QED  BY <1>1, <1>2, <2>1, FieldsMove, Zenon
<1>3. ASSUME proc' = [proc EXCEPT ![p].pc = "backup"]
      PROVE  Moves(p, "backup", proc[p].key, proc[p].ip, proc[p].copy, proc[p].allowed)
  BY <1>1, <1>3, FieldsMove, Zenon
<1> QED  BY <1>2, <1>3, Zenon DEF AddCheck

LEMMA BackupEffect ==
  ASSUME TypeOK, KeysInv, NEW p \in Procs, AddBackup(p)
  PROVE  /\ proc[p].pc = "backup"
         /\ Moves(p, "append", proc[p].key, proc[p].ip, file, proc[p].allowed)
         /\ UNCHANGED <<file, live, route, rows, used, reboots, added, gone, half, met>>
<1>1. "append" \in Steps /\ file \in SUBSET (Keys \X IPs)
  BY DEF Steps, Adding, Removing, TypeOK
<1> QED  BY <1>1, FieldsMove, Zenon DEF AddBackup

LEMMA AppendEffect ==
  ASSUME TypeOK, KeysInv, NEW p \in Procs, AddAppend(p)
  PROVE  /\ proc[p].pc = "append"
         /\ Moves(p, "set", proc[p].key, proc[p].ip, proc[p].copy, proc[p].allowed)
         /\ file' = file \cup {<<proc[p].key, proc[p].ip>>}
         /\ UNCHANGED <<live, route, rows, used, reboots, added, gone, half, met>>
<1>1. "set" \in Steps
  BY DEF Steps, Adding, Removing
<1> QED  BY <1>1, FieldsMove, Zenon DEF AddAppend, WithBlock

LEMMA SetEffect ==
  ASSUME TypeOK, KeysInv, NEW p \in Procs, AddSet(p)
  PROVE  /\ proc[p].pc = "set"
         /\ Moves(p, "row", proc[p].key, proc[p].ip, {}, "absent")
         /\ live' = live \cup {proc[p].key}
         /\ route' = [route EXCEPT ![proc[p].ip] = proc[p].key]
         /\ added' = added \cup {<<proc[p].key, proc[p].ip>>}
         /\ UNCHANGED <<file, rows, used, reboots, gone, half, met>>
  BY IdleFacts DEF AddSet, Rests, TypeOK, Proc, Steps, Adding, Removing, Moves

LEMMA SetFailsEffect ==
  ASSUME TypeOK, KeysInv, NEW p \in Procs, AddSetFails(p)
  PROVE  /\ proc[p].pc = "set"
         /\ Moves(p, "restore", proc[p].key, proc[p].ip, proc[p].copy, proc[p].allowed)
         /\ UNCHANGED <<file, live, route, rows, used, reboots, added, gone, half, met>>
<1>1. "restore" \in Steps
  BY DEF Steps, Adding, Removing
<1> QED  BY <1>1, FieldsMove, Zenon DEF AddSetFails

LEMMA RestoreEffect ==
  ASSUME TypeOK, KeysInv, NEW p \in Procs, AddRestore(p)
  PROVE  /\ proc[p].pc = "restore"
         /\ Rests(p)
         /\ file' = proc[p].copy
         /\ UNCHANGED <<live, route, rows, used, reboots, added, gone, half, met>>
  BY IdleFacts DEF AddRestore, Rests, TypeOK, Proc, Steps, Adding, Removing, Moves, Restored

LEMMA RowWrittenEffect ==
  ASSUME TypeOK, KeysInv, NEW p \in Procs, RowWritten(p)
  PROVE  /\ proc[p].pc = "row"
         /\ Rests(p)
         /\ rows' = rows \cup {<<proc[p].key, proc[p].ip>>}
         /\ UNCHANGED <<file, live, route, used, reboots, added, gone, half, met>>
  BY IdleFacts DEF RowWritten, Rests, TypeOK, Proc, Steps, Adding, Removing, Moves

LEMMA LostEffect ==
  ASSUME TypeOK, KeysInv, NEW p \in Procs, AnswerLost(p)
  PROVE  /\ proc[p].pc \in {"row", "unrow"}
         /\ Rests(p)
         /\ UNCHANGED <<file, live, route, rows, used, reboots, added, gone, half, met>>
  BY IdleFacts DEF AnswerLost, Rests, TypeOK, Proc, Steps, Adding, Removing, Moves

LEMMA DelCheckEffect ==
  ASSUME TypeOK, KeysInv, NEW p \in Procs, NEW k \in Keys, DelCheck(p, k)
  PROVE  /\ proc[p].pc = "idle" /\ k \in KeysOf(rows)
         /\ \E pc \in {"rewrite", "runtime"} :
               /\ pc = "runtime" <=> k \notin KeysOf(file)
               /\ Moves(p, pc, k, None, {}, AllowedOf(k))
         /\ added' = {b \in added : b[1] # k} /\ met' = Meets(p, k)
         /\ UNCHANGED <<file, live, route, rows, used, reboots, gone, half>>
<1>1. AllowedOf(k) \in {"absent", "client", "(none)"}
  BY DEF AllowedOf
<1>2. PICK pc \in {"rewrite", "runtime"} : pc = IF k \in KeysOf(file) THEN "rewrite" ELSE "runtime"
  OBVIOUS
<1>3. proc' = [proc EXCEPT ![p] = [Idle EXCEPT !.pc = pc, !.key = k, !.allowed = AllowedOf(k)]]
  BY <1>2 DEF DelCheck
<1>4. Moves(p, pc, k, None, {}, AllowedOf(k))
  BY <1>1, <1>3, IdleFacts DEF TypeOK, Proc, Steps, Adding, Removing, Moves
<1> QED  BY <1>2, <1>4 DEF DelCheck

LEMMA RewriteEffect ==
  ASSUME TypeOK, KeysInv, NEW p \in Procs, DelRewrite(p)
  PROVE  /\ proc[p].pc = "rewrite"
         /\ Rests(p) \/ Moves(p, "write", proc[p].key, proc[p].ip, WithoutBlock(proc[p].key), proc[p].allowed)
         /\ UNCHANGED <<file, live, route, rows, used, reboots, added, gone, half, met>>
<1>1. WithoutBlock(proc[p].key) \in SUBSET (Keys \X IPs)
  BY DEF WithoutBlock, TypeOK
<1>2. "write" \in Steps
  BY DEF Steps, Removing
<1>3. CASE proc' = [proc EXCEPT ![p] = Idle]
  BY <1>3, IdleFacts, MovesTo DEF DelRewrite, Rests
<1>4. CASE proc' = [proc EXCEPT ![p].pc = "write", ![p].copy = WithoutBlock(proc[p].key)]
  BY <1>1, <1>2, <1>4, FieldsMove, Zenon DEF DelRewrite
<1>5. p \in DOMAIN proc
  BY DEF TypeOK
<1> QED  BY <1>3, <1>4, <1>5, Zenon DEF DelRewrite

LEMMA WriteEffect ==
  ASSUME TypeOK, KeysInv, NEW p \in Procs, DelWrite(p)
  PROVE  /\ proc[p].pc = "write"
         /\ Moves(p, "runtime", proc[p].key, proc[p].ip, {}, proc[p].allowed)
         /\ file' = proc[p].copy
         /\ UNCHANGED <<live, route, rows, used, reboots, added, gone, half, met>>
<1>1. "runtime" \in Steps /\ {} \in SUBSET (Keys \X IPs)
  BY DEF Steps, Adding, Removing, TypeOK
<1> QED  BY <1>1, FieldsMove, Zenon DEF DelWrite, Rewritten

LEMMA RuntimeEffect ==
  ASSUME TypeOK, KeysInv, NEW p \in Procs, DelRuntime(p)
  PROVE  /\ proc[p].pc = "runtime"
         /\ Moves(p, "unrow", proc[p].key, None, {}, "absent")
         /\ live' = IF proc[p].allowed = "absent" THEN live ELSE live \ {proc[p].key}
         /\ route' = IF proc[p].allowed = "absent" THEN route ELSE Unrouted(proc[p].key)
         /\ gone' = gone \cup {proc[p].key} /\ half' = half \ {proc[p].key}
         /\ UNCHANGED <<file, rows, used, reboots, added, met>>
  BY IdleFacts DEF DelRuntime, Rests, TypeOK, Proc, Steps, Adding, Removing, Moves

LEMMA RuntimeFailsEffect ==
  ASSUME TypeOK, KeysInv, NEW p \in Procs, DelRuntimeFails(p)
  PROVE  /\ proc[p].pc = "runtime" /\ proc[p].allowed # "absent"
         /\ Rests(p)
         /\ half' = half \cup {proc[p].key}
         /\ UNCHANGED <<file, live, route, rows, used, reboots, added, gone, met>>
  BY IdleFacts DEF DelRuntimeFails, Rests, TypeOK, Proc, Steps, Adding, Removing, Moves

LEMMA RevokedEffect ==
  ASSUME TypeOK, KeysInv, NEW p \in Procs, RowRevoked(p)
  PROVE  /\ proc[p].pc = "unrow"
         /\ Rests(p)
         /\ rows' = {b \in rows : b[1] # proc[p].key}
         /\ UNCHANGED <<file, live, route, used, reboots, added, gone, half, met>>
  BY IdleFacts DEF RowRevoked, Rests, TypeOK, Proc, Steps, Adding, Removing, Moves

LEMMA RebootEffect ==
  ASSUME TypeOK, Reboot
  PROVE  /\ proc' \in [Procs -> Proc]
         /\ \A q \in Procs : Running(q) => proc'[q] = Idle
         /\ \A q \in Procs : ~Running(q) => proc'[q] = proc[q]
         /\ live' = KeysOf(file) /\ route' \in [IPs -> KeysOf(file) \cup {None}]
         /\ \A i \in IPs : IF i \in IPsOf(file) THEN <<route'[i], i>> \in file ELSE route'[i] = None
         /\ reboots < MaxReboots /\ reboots' = reboots + 1 /\ half' = {}
         /\ UNCHANGED <<file, rows, used, added, gone, met>>
  BY IdleFacts DEF Reboot, TypeOK, Proc

\* A step, as far as the overlaps go.  Only wrappers touch the node, and a
\* wrapper that begins meets those that run.
Frame(p) ==
    /\ proc' \in [Procs -> Proc]
    /\ \A q \in Procs \ {p} : proc'[q] = proc[q]
    /\ met \subseteq met' /\ reboots' = reboots /\ used \subseteq used'
    /\ Running(p)' => \/ Running(p) /\ proc'[p].key = proc[p].key
                      \/ ~Running(p) /\ met' = Meets(p, proc'[p].key)
    /\ ~Running(p) => UNCHANGED <<file, live, route, gone, half>> /\ added' \subseteq added
    /\ Running(p) => proc'[p].key \in {None, proc[p].key}

LEMMA StepFrame ==
  ASSUME TypeOK, KeysInv, NEW p \in Procs, Step(p)
  PROVE  Frame(p)
<1> USE DEF Frame, Moves, Rests, Running, Adding, Removing, Meets
<1>1. ASSUME NEW k \in Keys, NEW answered, IssueLook(p, k, answered) PROVE Frame(p)
  BY <1>1, LookEffect
<1>2. CASE IssuePick(p)
  BY <1>2, PickEffect
<1>3. CASE AddCheck(p)
  BY <1>3, CheckEffect
<1>4. CASE AddBackup(p)
  BY <1>4, BackupEffect
<1>5. CASE AddAppend(p)
  BY <1>5, AppendEffect
<1>6. CASE AddSet(p)
  BY <1>6, SetEffect
<1>7. CASE AddSetFails(p)
  BY <1>7, SetFailsEffect
<1>8. CASE AddRestore(p)
  BY <1>8, RestoreEffect
<1>9. CASE RowWritten(p)
  BY <1>9, RowWrittenEffect
<1>10. CASE AnswerLost(p)
  BY <1>10, LostEffect
<1>11. ASSUME NEW k \in Keys, DelCheck(p, k) PROVE Frame(p)
  BY <1>11, DelCheckEffect
<1>12. CASE DelRewrite(p)
  BY <1>12, RewriteEffect
<1>13. CASE DelWrite(p)
  BY <1>13, WriteEffect
<1>14. CASE DelRuntime(p)
  BY <1>14, RuntimeEffect
<1>15. CASE DelRuntimeFails(p)
  BY <1>15, RuntimeFailsEffect
<1>16. CASE RowRevoked(p)
  BY <1>16, RevokedEffect
<1> QED
  BY <1>1, <1>2, <1>3, <1>4, <1>5, <1>6, <1>7, <1>8, <1>9, <1>10, <1>11, <1>12, <1>13, <1>14, <1>15, <1>16
  DEF Step, Wrapper, Portal

LEMMA TypeStep == ASSUME TypeOK, KeysInv, [Next]_vars PROVE TypeOK'
<1> USE DEF Moves, Rests
<1>0. TypeOK' <=> /\ file' \subseteq Keys \X IPs /\ live' \subseteq Keys
                  /\ route' \in [IPs -> Keys \cup {None}] /\ rows' \subseteq Keys \X IPs
                  /\ proc' \in [Procs -> Proc]
                  /\ used' \subseteq Keys /\ reboots' \in 0..MaxReboots /\ added' \subseteq Keys \X IPs
                  /\ gone' \subseteq Keys /\ half' \subseteq Keys /\ met' \subseteq SUBSET Keys
  BY DEF TypeOK, Proc
<1>a. /\ file \subseteq Keys \X IPs /\ live \subseteq Keys
      /\ route \in [IPs -> Keys \cup {None}] /\ rows \subseteq Keys \X IPs
      /\ proc \in [Procs -> Proc]
      /\ used \subseteq Keys /\ reboots \in 0..MaxReboots /\ added \subseteq Keys \X IPs
      /\ gone \subseteq Keys /\ half \subseteq Keys /\ met \subseteq SUBSET Keys
  BY DEF TypeOK, Proc
<1>b. \A p \in Procs :
        /\ proc[p].copy \subseteq Keys \X IPs
        /\ proc[p].pc # "idle" => proc[p].key \in Keys
        /\ proc[p].pc \in {"backup", "append", "set", "restore", "check", "row"} => proc[p].ip \in IPs
  BY <1>a DEF KeysInv, Adding, Proc
<1>d. /\ used \subseteq Keys /\ live \subseteq Keys /\ gone \subseteq Keys /\ half \subseteq Keys
      /\ added \subseteq Keys \X IPs /\ rows \subseteq Keys \X IPs
  BY <1>a
<1>c. ASSUME NEW p \in Procs, NEW k \in Keys PROVE Meets(p, k) \subseteq SUBSET Keys
  BY <1>a, RunningKeys DEF Meets
<1>1. CASE UNCHANGED vars
  BY <1>1 DEF vars, TypeOK
<1>2. CASE Reboot
  <2>1. live' \subseteq Keys /\ route' \in [IPs -> Keys \cup {None}]
    BY <1>2, <1>a, BlockKeys, RebootEffect
  <2>2. reboots' \in 0..MaxReboots
    BY <1>2, <1>a, RebootEffect, NodeAssumption
  <2> QED  BY <1>0, <1>a, <1>2, <2>1, <2>2, RebootEffect
<1>3. ASSUME NEW p \in Procs, Step(p) PROVE TypeOK'
  <2>1. ASSUME NEW k \in Keys, NEW answered, IssueLook(p, k, answered) PROVE TypeOK'
    <3>0. used' = used \cup {k}
      BY <2>1, LookEffect, Zenon
    <3>1. used' \subseteq Keys
      BY <1>d, <3>0
    <3> QED  BY <1>0, <1>a, <3>1, <2>1, LookEffect, Zenon
  <2>2. CASE IssuePick(p)
    BY <1>0, <1>a, <2>2, PickEffect
  <2>3. CASE AddCheck(p)
    BY <1>0, <1>a, <1>b, <1>c, <2>3, CheckEffect
  <2>4. CASE AddBackup(p)
    BY <1>0, <1>a, <2>4, BackupEffect
  <2>5. CASE AddAppend(p)
    BY <1>0, <1>a, <1>b, <2>5, AppendEffect
  <2>6. CASE AddSet(p)
    <3>1. proc[p].key \in Keys /\ proc[p].ip \in IPs
      BY <1>b, <2>6, SetEffect
    <3>2. live' \subseteq Keys /\ added' \subseteq Keys \X IPs
      <4>1. live' = live \cup {proc[p].key} /\ added' = added \cup {<<proc[p].key, proc[p].ip>>}
        BY <2>6, SetEffect, Zenon
      <4> QED  BY <1>d, <3>1, <4>1
    <3>3. route' \in [IPs -> Keys \cup {None}]
      BY <2>6, <3>1, SetEffect, Zenon DEF TypeOK
    <3> QED  BY <1>0, <1>a, <3>2, <3>3, <2>6, SetEffect, Zenon
  <2>7. CASE AddSetFails(p)
    BY <1>0, <1>a, <2>7, SetFailsEffect
  <2>8. CASE AddRestore(p)
    BY <1>0, <1>a, <1>b, <2>8, RestoreEffect
  <2>9. CASE RowWritten(p)
    <3>1. proc[p].key \in Keys /\ proc[p].ip \in IPs
      BY <1>b, <2>9, RowWrittenEffect
    <3>2. rows' \subseteq Keys \X IPs
      <4>1. rows' = rows \cup {<<proc[p].key, proc[p].ip>>}
        BY <2>9, RowWrittenEffect, Zenon
      <4> QED  BY <1>d, <3>1, <4>1
    <3> QED  BY <1>0, <1>a, <3>2, <2>9, RowWrittenEffect, Zenon
  <2>10. CASE AnswerLost(p)
    BY <1>0, <1>a, <2>10, LostEffect
  <2>11. ASSUME NEW k \in Keys, DelCheck(p, k) PROVE TypeOK'
    BY <1>0, <1>a, <1>c, <2>11, DelCheckEffect
  <2>12. CASE DelRewrite(p)
    BY <1>0, <1>a, <2>12, RewriteEffect
  <2>13. CASE DelWrite(p)
    BY <1>0, <1>a, <1>b, <2>13, WriteEffect
  <2>14. CASE DelRuntime(p)
    <3>1. proc[p].key \in Keys
      BY <1>b, <2>14, RuntimeEffect
    <3>2. Unrouted(proc[p].key) \in [IPs -> Keys \cup {None}]
      BY <1>a DEF Unrouted
    <3>3. live' \subseteq Keys /\ gone' \subseteq Keys /\ half' \subseteq Keys
      <4>1. live' \subseteq live /\ gone' = gone \cup {proc[p].key} /\ half' \subseteq half
        BY <2>14, RuntimeEffect
      <4> QED  BY <1>d, <3>1, <4>1
    <3>4. route' \in [IPs -> Keys \cup {None}]
      BY <1>a, <2>14, <3>2, RuntimeEffect, Zenon
    <3> QED  BY <1>0, <1>a, <3>3, <3>4, <2>14, RuntimeEffect, Zenon
  <2>15. CASE DelRuntimeFails(p)
    <3>1. proc[p].key \in Keys
      BY <1>b, <2>15, RuntimeFailsEffect
    <3>2. half' \subseteq Keys
      <4>1. half' = half \cup {proc[p].key}
        BY <2>15, RuntimeFailsEffect, Zenon
      <4> QED  BY <1>d, <3>1, <4>1
    <3> QED  BY <1>0, <1>a, <3>2, <2>15, RuntimeFailsEffect, Zenon
  <2>16. CASE RowRevoked(p)
    BY <1>0, <1>a, <2>16, RevokedEffect
  <2> QED
    BY <1>3, <2>1, <2>2, <2>3, <2>4, <2>5, <2>6, <2>7, <2>8, <2>9, <2>10, <2>11, <2>12, <2>13, <2>14,
       <2>15, <2>16 DEF Step, Wrapper, Portal
<1> QED
  BY <1>1, <1>2, <1>3 DEF Next, Step

-----------------------------------------------------------------------------
(* Overlaps                                                                *)

LEMMA MetGrows == ASSUME NEW k, met \subseteq met', ~Met(k)' PROVE ~Met(k)
  BY DEF Met

\* Of two wrappers that run at one time, both have met.
LEMMA BothMet ==
  ASSUME TypeOK, KeysInv, OverlapSeen, NEW p \in Procs, NEW q \in Procs, p # q, Running(p), Running(q)
  PROVE  Met(proc[p].key) /\ Met(proc[q].key)
<1>1. proc[p].key \in Keys /\ proc[q].key \in Keys
  BY RunningKeys
<1>2. {proc[p].key, proc[q].key} \in met
  BY DEF OverlapSeen
<1>3. {proc[q].key, proc[p].key} \in met
  <2>1. {proc[q].key, proc[p].key} = {proc[p].key, proc[q].key}
    OBVIOUS
  <2> QED  BY <1>2, <2>1
<1> QED  BY <1>1, <1>2, <1>3 DEF Met

LEMMA OverlapStep == ASSUME TypeOK, KeysInv, OverlapSeen, [Next]_vars PROVE OverlapSeen'
<1>1. CASE UNCHANGED vars
  BY <1>1 DEF vars, OverlapSeen, Running
<1>2. CASE Reboot
  <2>1. \A q \in Procs : ~Running(q)'
    BY <1>2, RebootEffect, IdleFacts DEF Running, Adding, Removing
  <2> QED  BY <2>1 DEF OverlapSeen
<1>3. ASSUME NEW p \in Procs, Step(p) PROVE OverlapSeen'
  <2>1. Frame(p)
    BY <1>3, StepFrame
  <2>2. ASSUME NEW q \in Procs \ {p}, Running(p)', Running(q)'
        PROVE  {proc'[p].key, proc'[q].key} \in met' /\ {proc'[q].key, proc'[p].key} \in met'
    <3>1. proc'[q] = proc[q] /\ Running(q)
      BY <2>1, <2>2 DEF Frame, Running
    <3>2. CASE Running(p) /\ proc'[p].key = proc[p].key
      BY <2>1, <3>1, <3>2 DEF Frame, OverlapSeen
    <3>3. CASE met' = Meets(p, proc'[p].key)
      <4>1. {proc'[p].key, proc[q].key} \in met'
        BY <3>1, <3>3 DEF Meets
      <4>2. {proc'[p].key, proc[q].key} = {proc[q].key, proc'[p].key}
        OBVIOUS
      <4> QED  BY <3>1, <4>1, <4>2
    <3> QED  BY <2>1, <2>2, <3>2, <3>3 DEF Frame
  <2>3. ASSUME NEW q \in Procs \ {p}, NEW r \in Procs \ {p}, q # r, Running(q)', Running(r)'
        PROVE  {proc'[q].key, proc'[r].key} \in met'
    BY <2>1, <2>3 DEF Frame, OverlapSeen, Running
  <2> QED  BY <2>2, <2>3 DEF OverlapSeen
<1> QED
  BY <1>1, <1>2, <1>3 DEF Next, Step

-----------------------------------------------------------------------------
(* Keys                                                                    *)

KeyInv(p) ==
    /\ IF proc[p].pc = "idle" THEN proc[p].key = None ELSE proc[p].key \in used
    /\ proc[p].pc \in Issuing =>
          /\ proc[p].key \notin KeysOf(rows) \cup gone
          /\ \A q \in Procs \ {p} : proc[q].key # proc[p].key
    /\ proc[p].pc \in Adding \cup {"check", "row"} => proc[p].ip \in IPs
    /\ proc[p].pc \in Removing => proc[p].key \notin KeysOf(added)

LEMMA KeysAdded ==
  ASSUME NEW S, NEW k, NEW ip
  PROVE  KeysOf(S \cup {<<k, ip>>}) = KeysOf(S) \cup {k}
<1>1. <<k, ip>>[1] = k
  OBVIOUS
<1>2. ASSUME NEW j PROVE j \in KeysOf(S \cup {<<k, ip>>}) <=> j \in KeysOf(S) \cup {k}
  <2>1. j \in KeysOf(S \cup {<<k, ip>>}) <=> \E b \in S \cup {<<k, ip>>} : j = b[1]
    BY DEF KeysOf
  <2>2. j \in KeysOf(S) <=> \E b \in S : j = b[1]
    BY DEF KeysOf
  <2> QED  BY <1>1, <2>1, <2>2, Zenon
<1> QED  BY <1>2

LEMMA KeysRemoved ==
  ASSUME NEW S, NEW k
  PROVE  KeysOf({b \in S : b[1] # k}) = KeysOf(S) \ {k}
  BY DEF KeysOf

LEMMA KeysStep == ASSUME TypeOK, KeysInv, [Next]_vars PROVE KeysInv'
<1> USE DEF Moves, Rests, Issuing, Adding, Removing
<1>a. /\ KeysOf(rows) \subseteq used /\ gone \subseteq used /\ None \notin used
      /\ \A p \in Procs : KeyInv(p)
      /\ \A p \in Procs : IF proc[p].pc = "idle" THEN proc[p].key = None ELSE proc[p].key \in used
  BY NodeAssumption DEF KeysInv, KeyInv, TypeOK
<1>b. ASSUME KeysOf(rows') \subseteq used', gone' \subseteq used', \A p \in Procs : KeyInv(p)' PROVE KeysInv'
  BY <1>b DEF KeysInv, KeyInv
<1>1. CASE UNCHANGED vars
  BY <1>1 DEF vars, KeysInv, KeysOf
<1>2. CASE Reboot
  <2>1. UNCHANGED <<rows, gone, used, added>>
    BY <1>2, RebootEffect
  <2>a. \A q \in Procs : proc'[q] = Idle \/ proc'[q] = proc[q]
    BY <1>2, RebootEffect, Zenon
  <2>2. \A q \in Procs : proc'[q] = proc[q] \/ (proc'[q].pc = "idle" /\ proc'[q].key = None)
    BY <2>a, IdleFacts, Zenon
  <2>3. ASSUME NEW q \in Procs PROVE KeyInv(q)'
    BY <1>a, <2>1, <2>2 DEF KeyInv
  <2> QED  BY <1>a, <1>b, <2>1, <2>3
\* What a step must not do to the keys of the others.
<1>3. ASSUME NEW p \in Procs, Step(p), KeysOf(rows') \subseteq used', gone' \subseteq used', KeyInv(p)',
             \A q \in Procs \ {p} :
                /\ proc[q].pc \in Issuing => /\ proc[q].key \notin KeysOf(rows') \cup gone'
                                             /\ proc'[p].key # proc[q].key
                /\ proc[q].pc \in Removing => proc[q].key \notin KeysOf(added')
      PROVE  KeysInv'
  <2>1. used \subseteq used' /\ \A q \in Procs \ {p} : proc'[q] = proc[q]
    BY <1>3, StepFrame DEF Frame
  <2>2. ASSUME NEW q \in Procs \ {p} PROVE KeyInv(q)'
    <3>1. IF proc[q].pc = "idle" THEN proc[q].key = None ELSE proc[q].key \in used'
      BY <1>a, <2>1
    <3>2. proc[q].pc \in Issuing => \A r \in Procs \ {q} : proc'[r].key # proc[q].key
      BY <1>a, <1>3, <2>1 DEF KeyInv
    <3>3. proc[q].pc \in Adding \cup {"check", "row"} => proc[q].ip \in IPs
      BY <1>a DEF KeyInv
    <3> QED  BY <1>3, <2>1, <3>1, <3>2, <3>3 DEF KeyInv
  <2> QED  BY <1>b, <1>3, <2>2
<1>4. ASSUME NEW p \in Procs, Step(p) PROVE KeysInv'
  <2>1. ASSUME NEW k \in Keys, NEW answered, IssueLook(p, k, answered) PROVE KeysInv'
    <3>1. KeysOf(rows') = KeysOf(rows) /\ KeysOf(added') = KeysOf(added)
      BY <2>1, LookEffect
    <3>a. /\ proc'[p].pc = "pick" /\ proc'[p].key = k /\ used' = used \cup {k} /\ k \notin used
          /\ gone' = gone /\ \A q \in Procs \ {p} : proc'[q] = proc[q]
      BY <2>1, LookEffect
    <3>b. k \in used' /\ used \subseteq used'
      BY <3>a
    <3>c. \A q \in Procs : proc[q].key # k
      BY <1>a, <3>a, NodeAssumption
    <3>2. KeyInv(p)'
      BY <1>a, <3>1, <3>a, <3>b, <3>c DEF KeyInv
    <3>3. KeysOf(rows') \subseteq used' /\ gone' \subseteq used'
      BY <1>a, <3>1, <3>a, <3>b
    <3> QED  BY <1>a, <1>3, <1>4, <3>1, <3>2, <3>3, <3>a, <3>c DEF KeyInv
  <2>2. CASE IssuePick(p)
    <3>1. KeysOf(rows') = KeysOf(rows) /\ KeysOf(added') = KeysOf(added)
      BY <2>2, PickEffect
    <3>2. KeyInv(p)'
      BY <1>a, <2>2, <3>1, PickEffect DEF KeyInv
    <3> QED  BY <1>a, <1>3, <1>4, <2>2, <3>1, <3>2, PickEffect DEF KeyInv
  <2>3. CASE AddCheck(p)
    <3>1. KeysOf(rows') = KeysOf(rows) /\ KeysOf(added') = KeysOf(added)
      BY <2>3, CheckEffect
    <3>2. KeyInv(p)'
      BY <1>a, <2>3, <3>1, CheckEffect DEF KeyInv
    <3> QED  BY <1>a, <1>3, <1>4, <2>3, <3>1, <3>2, CheckEffect DEF KeyInv
  <2>4. CASE AddBackup(p)
    <3>1. KeysOf(rows') = KeysOf(rows) /\ KeysOf(added') = KeysOf(added)
      BY <2>4, BackupEffect
    <3>2. KeyInv(p)'
      BY <1>a, <2>4, <3>1, BackupEffect DEF KeyInv
    <3> QED  BY <1>a, <1>3, <1>4, <2>4, <3>1, <3>2, BackupEffect DEF KeyInv
  <2>5. CASE AddAppend(p)
    <3>1. KeysOf(rows') = KeysOf(rows) /\ KeysOf(added') = KeysOf(added)
      BY <2>5, AppendEffect
    <3>2. KeyInv(p)'
      BY <1>a, <2>5, <3>1, AppendEffect DEF KeyInv
    <3> QED  BY <1>a, <1>3, <1>4, <2>5, <3>1, <3>2, AppendEffect DEF KeyInv
  <2>6. CASE AddSet(p)
    <3>1. KeysOf(rows') = KeysOf(rows) /\ KeysOf(added') = KeysOf(added) \cup {proc[p].key}
      <4>1. rows' = rows /\ added' = added \cup {<<proc[p].key, proc[p].ip>>}
        BY <2>6, SetEffect
      <4> QED  BY <4>1, KeysAdded
    <3>2. KeyInv(p)'
      BY <1>a, <2>6, <3>1, SetEffect DEF KeyInv
    <3> QED  BY <1>a, <1>3, <1>4, <2>6, <3>1, <3>2, SetEffect DEF KeyInv
  <2>7. CASE AddSetFails(p)
    <3>1. KeysOf(rows') = KeysOf(rows) /\ KeysOf(added') = KeysOf(added)
      BY <2>7, SetFailsEffect
    <3>2. KeyInv(p)'
      BY <1>a, <2>7, <3>1, SetFailsEffect DEF KeyInv
    <3> QED  BY <1>a, <1>3, <1>4, <2>7, <3>1, <3>2, SetFailsEffect DEF KeyInv
  <2>8. CASE AddRestore(p)
    <3>1. KeysOf(rows') = KeysOf(rows) /\ KeysOf(added') = KeysOf(added)
      BY <2>8, RestoreEffect
    <3>2. KeyInv(p)'
      BY <1>a, <2>8, <3>1, RestoreEffect DEF KeyInv
    <3> QED  BY <1>a, <1>3, <1>4, <2>8, <3>1, <3>2, RestoreEffect DEF KeyInv
  <2>9. CASE RowWritten(p)
    <3>1. KeysOf(rows') = KeysOf(rows) \cup {proc[p].key} /\ KeysOf(added') = KeysOf(added)
      <4>1. added' = added /\ rows' = rows \cup {<<proc[p].key, proc[p].ip>>}
        BY <2>9, RowWrittenEffect
      <4> QED  BY <4>1, KeysAdded
    <3>2. KeyInv(p)'
      BY <1>a, <2>9, <3>1, RowWrittenEffect DEF KeyInv
    <3> QED  BY <1>a, <1>3, <1>4, <2>9, <3>1, <3>2, RowWrittenEffect DEF KeyInv
  <2>10. CASE AnswerLost(p)
    <3>1. KeysOf(rows') = KeysOf(rows) /\ KeysOf(added') = KeysOf(added)
      BY <2>10, LostEffect
    <3>2. KeyInv(p)'
      BY <1>a, <2>10, <3>1, LostEffect DEF KeyInv
    <3> QED  BY <1>a, <1>3, <1>4, <2>10, <3>1, <3>2, LostEffect DEF KeyInv
  <2>11. CASE DelRewrite(p)
    <3>1. KeysOf(rows') = KeysOf(rows) /\ KeysOf(added') = KeysOf(added)
      BY <2>11, RewriteEffect
    <3>2. KeyInv(p)'
      BY <1>a, <2>11, <3>1, RewriteEffect DEF KeyInv
    <3> QED  BY <1>a, <1>3, <1>4, <2>11, <3>1, <3>2, RewriteEffect DEF KeyInv
  <2>12. CASE DelWrite(p)
    <3>1. KeysOf(rows') = KeysOf(rows) /\ KeysOf(added') = KeysOf(added)
      BY <2>12, WriteEffect
    <3>2. KeyInv(p)'
      BY <1>a, <2>12, <3>1, WriteEffect DEF KeyInv
    <3> QED  BY <1>a, <1>3, <1>4, <2>12, <3>1, <3>2, WriteEffect DEF KeyInv
  <2>13. CASE DelRuntime(p)
    <3>1. KeysOf(rows') = KeysOf(rows) /\ KeysOf(added') = KeysOf(added)
      BY <2>13, RuntimeEffect
    <3>2. KeyInv(p)'
      BY <1>a, <2>13, <3>1, RuntimeEffect DEF KeyInv
    <3> QED  BY <1>a, <1>3, <1>4, <2>13, <3>1, <3>2, RuntimeEffect DEF KeyInv
  <2>14. CASE DelRuntimeFails(p)
    <3>1. KeysOf(rows') = KeysOf(rows) /\ KeysOf(added') = KeysOf(added)
      BY <2>14, RuntimeFailsEffect
    <3>2. KeyInv(p)'
      BY <1>a, <2>14, <3>1, RuntimeFailsEffect DEF KeyInv
    <3> QED  BY <1>a, <1>3, <1>4, <2>14, <3>1, <3>2, RuntimeFailsEffect DEF KeyInv
  <2>15. CASE RowRevoked(p)
    <3>1. KeysOf(rows') = KeysOf(rows) \ {proc[p].key} /\ KeysOf(added') = KeysOf(added)
      <4>1. added' = added /\ rows' = {b \in rows : b[1] # proc[p].key}
        BY <2>15, RevokedEffect
      <4> QED  BY <4>1, KeysRemoved
    <3>2. KeyInv(p)'
      BY <1>a, <2>15, <3>1, RevokedEffect DEF KeyInv
    <3> QED  BY <1>a, <1>3, <1>4, <2>15, <3>1, <3>2, RevokedEffect DEF KeyInv
  <2>16. ASSUME NEW k \in Keys, DelCheck(p, k) PROVE KeysInv'
    <3>1. KeysOf(rows') = KeysOf(rows) /\ KeysOf(added') = KeysOf(added) \ {k}
      <4>1. rows' = rows /\ added' = {b \in added : b[1] # k}
        BY <2>16, DelCheckEffect
      <4> QED  BY <4>1, KeysRemoved
    <3>2. KeyInv(p)'
      BY <1>a, <2>16, <3>1, DelCheckEffect DEF KeyInv
    <3> QED  BY <1>a, <1>3, <1>4, <2>16, <3>1, <3>2, DelCheckEffect DEF KeyInv
  <2> QED
    BY <1>4, <2>1, <2>2, <2>3, <2>4, <2>5, <2>6, <2>7, <2>8, <2>9, <2>10, <2>11, <2>12, <2>13, <2>14, <2>15, <2>16
    DEF Step, Wrapper, Portal
<1> QED
  BY <1>1, <1>2, <1>4 DEF Next, Step

-----------------------------------------------------------------------------
(* What a step leaves alone                                                *)

Untouched(k) ==
    /\ BlocksOf(k, file') = BlocksOf(k, file) /\ OneBlock(k, file')
    /\ (k \in live' <=> k \in live) /\ \A i \in IPs : route'[i] = k <=> route[i] = k
    /\ (k \in gone' <=> k \in gone) /\ (k \in half' <=> k \in half)
    /\ \A b \in added' : b[1] = k => b \in added

\* Blocks and keys: a key is in the file when it has a block there.
LEMMA HasBlock ==
  ASSUME NEW S, NEW k PROVE k \in KeysOf(S) <=> BlocksOf(k, S) # {}
  BY DEF KeysOf, BlocksOf

LEMMA BlockShape ==
  ASSUME NEW S \in SUBSET (Keys \X IPs), NEW b \in S
  PROVE  b[1] \in Keys /\ b[2] \in IPs /\ b = <<b[1], b[2]>>
  OBVIOUS

\* Two wrappers that run have met, so an untroubled one runs alone.
LEMMA Alone ==
  ASSUME TypeOK, KeysInv, OverlapSeen, NEW p \in Procs, Running(p), ~Met(proc[p].key)
  PROVE  \A q \in Procs \ {p} : ~Running(q)
  BY BothMet

\* A wrapper for another key leaves k alone: what it writes back says the same
\* of k, and the address it takes is not k's.
LEMMA OthersLeave ==
  ASSUME TypeOK, KeysInv, NEW p \in Procs, Step(p), NEW k \in Keys, Untroubled(k),
         ~Running(p) \/ proc[p].key # k
  PROVE  Untouched(k)
<1> USE DEF Untouched
<1>0. /\ CopiesAgree(k) /\ AddersClear(k) /\ OneBlock(k, file)
      /\ file \in SUBSET (Keys \X IPs) /\ route \in [IPs -> Keys \cup {None}] /\ k # None
  BY NodeAssumption DEF Untroubled, Settled, TypeOK
<1>1. CASE ~Running(p)
  BY <1>0, <1>1, StepFrame DEF Frame
<1>2. CASE Running(p) /\ proc[p].key # k
  <2>1. CASE UNCHANGED <<file, live, route, gone, half, added>>
    BY <1>0, <2>1
  <2>2. ASSUME HasCopy(p), file' = proc[p].copy, UNCHANGED <<live, route, gone, half, added>>
        PROVE  Untouched(k)
    BY <1>0, <1>2, <2>2 DEF CopiesAgree
  <2>3. CASE AddAppend(p)
    <3>1. /\ proc[p].pc = "append" /\ file' = file \cup {<<proc[p].key, proc[p].ip>>}
          /\ UNCHANGED <<live, route, gone, half, added>>
      BY <2>3, AppendEffect
    <3>2. <<k, proc[p].ip>> \notin file
      BY <1>0, <1>2, <3>1 DEF AddersClear, Adding
    <3>3. BlocksOf(k, file') = BlocksOf(k, file)
      BY <1>2, <3>1 DEF BlocksOf
    <3>4. ASSUME NEW b \in file', NEW d \in file', b[1] = k, b[2] = d[2] PROVE b = d
      <4>1. b \in file
        BY <1>2, <3>1, <3>4
      <4>2. CASE d = <<proc[p].key, proc[p].ip>>
        BY <1>0, <3>2, <3>4, <4>1, <4>2, BlockShape
      <4> QED  BY <1>0, <3>1, <3>4, <4>1, <4>2 DEF OneBlock
    <3>5. OneBlock(k, file')
      BY <3>4 DEF OneBlock
    <3> QED  BY <3>1, <3>3, <3>5
  <2>4. CASE AddSet(p)
    <3>1. /\ proc[p].pc = "set" /\ live' = live \cup {proc[p].key}
          /\ route' = [route EXCEPT ![proc[p].ip] = proc[p].key]
          /\ added' = added \cup {<<proc[p].key, proc[p].ip>>}
          /\ UNCHANGED <<file, gone, half>>
      BY <2>4, SetEffect
    <3>2. route[proc[p].ip] # k
      BY <1>0, <1>2, <3>1 DEF AddersClear, Adding
    <3>3. \A i \in IPs : route'[i] = k <=> route[i] = k
      BY <1>0, <1>2, <3>1, <3>2
    <3>4. \A b \in added' : b[1] = k => b \in added
      BY <1>2, <3>1
    <3>5. k \in live' <=> k \in live
      BY <1>2, <3>1
    <3> QED  BY <1>0, <3>1, <3>3, <3>4, <3>5
  <2>5. CASE DelRuntime(p)
    <3>1. /\ live' = IF proc[p].allowed = "absent" THEN live ELSE live \ {proc[p].key}
          /\ route' = IF proc[p].allowed = "absent" THEN route ELSE Unrouted(proc[p].key)
          /\ gone' = gone \cup {proc[p].key} /\ half' = half \ {proc[p].key}
          /\ UNCHANGED <<file, added>>
      BY <2>5, RuntimeEffect
    <3>2. \A i \in IPs : route'[i] = k <=> route[i] = k
      BY <1>0, <1>2, <3>1 DEF Unrouted
    <3>3. (k \in live' <=> k \in live) /\ (k \in gone' <=> k \in gone) /\ (k \in half' <=> k \in half)
      BY <1>2, <3>1
    <3> QED  BY <1>0, <3>1, <3>2, <3>3
  <2>6. CASE DelRuntimeFails(p)
    <3>1. half' = half \cup {proc[p].key} /\ UNCHANGED <<file, live, route, gone, added>>
      BY <2>6, RuntimeFailsEffect
    <3> QED  BY <1>0, <1>2, <3>1
  <2>7. CASE AddRestore(p)
    BY <2>2, <2>7, RestoreEffect DEF HasCopy
  <2>8. CASE DelWrite(p)
    BY <2>2, <2>8, WriteEffect DEF HasCopy
  <2>9. CASE AddBackup(p) \/ AddSetFails(p) \/ DelRewrite(p)
    BY <2>1, <2>9, BackupEffect, SetFailsEffect, RewriteEffect
  <2>10. ~AddCheck(p) /\ ~Portal(p)
    BY <1>2 DEF Running, Adding, Removing, AddCheck, Portal, IssueLook, DelCheck, IssuePick, RowWritten,
                RowRevoked, AnswerLost
  <2> QED  BY <2>3, <2>4, <2>5, <2>6, <2>7, <2>8, <2>9, <2>10 DEF Step, Wrapper
<1> QED  BY <1>1, <1>2

\* A wrapper keeps its copy, or has just made one of the file as it stands.
LEMMA CopyMoves ==
  ASSUME TypeOK, KeysInv, NEW p \in Procs, Step(p), HasCopy(p)'
  PROVE  /\ Running(p) /\ proc'[p].key = proc[p].key
         /\ \/ HasCopy(p) /\ proc'[p].copy = proc[p].copy
            \/ proc'[p].copy \in {file, WithoutBlock(proc[p].key)} /\ file' = file
<1> USE DEF Moves, Rests, Running, Adding, Removing, HasCopy
<1>1. ~IssuePick(p) /\ ~AddCheck(p) /\ ~RowWritten(p) /\ ~RowRevoked(p) /\ ~AnswerLost(p)
  BY PickEffect, CheckEffect, RowWrittenEffect, RevokedEffect, LostEffect
<1>2. ~AddSet(p) /\ ~AddRestore(p) /\ ~DelWrite(p) /\ ~DelRuntime(p) /\ ~DelRuntimeFails(p)
  BY SetEffect, RestoreEffect, WriteEffect, RuntimeEffect, RuntimeFailsEffect
<1>3. \A k \in Keys : ~DelCheck(p, k) /\ \A a \in BOOLEAN : ~IssueLook(p, k, a)
  BY DelCheckEffect, LookEffect
<1>4. CASE AddBackup(p)
  BY <1>4, BackupEffect
<1>5. CASE AddAppend(p)
  BY <1>5, AppendEffect
<1>6. CASE AddSetFails(p)
  BY <1>6, SetFailsEffect
<1>7. CASE DelRewrite(p)
  BY <1>7, RewriteEffect
<1> QED  BY <1>1, <1>2, <1>3, <1>4, <1>5, <1>6, <1>7 DEF Step, Wrapper, Portal

\* A running pwa-add-peer keeps its address, or has just found it free.
LEMMA AdderMoves ==
  ASSUME TypeOK, KeysInv, NEW p \in Procs, Step(p), proc'[p].pc \in Adding
  PROVE  /\ proc'[p].key = proc[p].key /\ proc'[p].ip = proc[p].ip /\ proc[p].ip \in IPs
         /\ \/ proc[p].pc \in Adding
            \/ proc[p].pc = "check" /\ ~IPTaken(proc[p].ip) /\ UNCHANGED <<file, route>>
<1> USE DEF Moves, Rests, Adding
<1>0. proc[p].pc \in Adding \cup {"check"} => proc[p].ip \in IPs
  BY DEF KeysInv
<1>1. ~IssuePick(p) /\ ~RowWritten(p) /\ ~RowRevoked(p) /\ ~AnswerLost(p)
  BY PickEffect, RowWrittenEffect, RevokedEffect, LostEffect
<1>2. ~AddSet(p) /\ ~AddRestore(p) /\ ~DelWrite(p) /\ ~DelRuntime(p) /\ ~DelRuntimeFails(p) /\ ~DelRewrite(p)
  BY SetEffect, RestoreEffect, WriteEffect, RuntimeEffect, RuntimeFailsEffect, RewriteEffect
<1>3. \A k \in Keys : ~DelCheck(p, k) /\ \A a \in BOOLEAN : ~IssueLook(p, k, a)
  BY DelCheckEffect, LookEffect
<1>4. CASE AddBackup(p)
  BY <1>0, <1>4, BackupEffect
<1>5. CASE AddAppend(p)
  BY <1>0, <1>5, AppendEffect
<1>6. CASE AddSetFails(p)
  BY <1>0, <1>6, SetFailsEffect
<1>7. CASE AddCheck(p)
  BY <1>0, <1>7, CheckEffect
<1> QED  BY <1>1, <1>2, <1>3, <1>4, <1>5, <1>6, <1>7 DEF Step, Wrapper, Portal

\* Where a request finds itself that no wrapper was running for.
LEMMA PortalMoves ==
  ASSUME TypeOK, KeysInv, NEW p \in Procs, Step(p), ~Running(p), NEW k \in Keys, Untroubled(k),
         proc'[p].key = k
  PROVE  AtWork(k, p)'
<1> USE DEF Moves, Rests, AtWork, NotThere, Removing
<1>0. k # None
  BY NodeAssumption
<1>1. ASSUME NEW j \in Keys, NEW answered, IssueLook(p, j, answered) PROVE AtWork(k, p)'
  <2>1. proc'[p].pc = "pick" /\ k \notin used /\ UNCHANGED <<file, live>>
    BY <1>1, LookEffect
  <2> QED  BY <2>1 DEF Untroubled, Settled
<1>2. CASE IssuePick(p)
  <2>1. /\ proc'[p].pc = "check" /\ proc[p].pc = "pick" /\ proc[p].key = k
        /\ UNCHANGED <<file, live>>
    BY <1>0, <1>2, PickEffect
  <2> QED  BY <2>1 DEF Untroubled
<1>3. CASE AddCheck(p)
  <2>1. /\ proc'[p].pc \in {"pick", "backup"} /\ proc[p].pc = "check" /\ proc[p].key = k
        /\ proc'[p].ip = proc[p].ip /\ (proc'[p].pc = "backup" => ~IPTaken(proc[p].ip))
        /\ UNCHANGED <<file, live>>
    BY <1>3, CheckEffect
  <2> QED  BY <2>1 DEF Untroubled, IPTaken
<1>4. ASSUME NEW j \in Keys, DelCheck(p, j) PROVE AtWork(k, p)'
  <2>1. /\ proc'[p].pc \in {"rewrite", "runtime"} /\ j = k
        /\ (proc'[p].pc = "runtime" => k \notin KeysOf(file)) /\ proc'[p].allowed = AllowedOf(k)
        /\ UNCHANGED <<file, live>>
    BY <1>4, DelCheckEffect
  <2> QED  BY <2>1 DEF AllowedOf
<1>5. CASE RowWritten(p) \/ RowRevoked(p) \/ AnswerLost(p)
  BY <1>0, <1>5, RowWrittenEffect, RevokedEffect, LostEffect
<1>6. ~AddBackup(p) /\ ~AddAppend(p) /\ ~AddSet(p) /\ ~AddSetFails(p) /\ ~AddRestore(p) /\ ~DelRewrite(p)
      /\ ~DelWrite(p) /\ ~DelRuntime(p) /\ ~DelRuntimeFails(p)
  BY DEF Running, Adding, AddBackup, AddAppend, AddSet, AddSetFails, AddRestore, DelRewrite, DelWrite,
         DelRuntime, DelRuntimeFails
<1> QED  BY <1>1, <1>2, <1>3, <1>4, <1>5, <1>6 DEF Step, Wrapper, Portal

LEMMA OthersSafe ==
  ASSUME TypeOK, KeysInv, OverlapSeen, NEW p \in Procs, Step(p), NEW k \in Keys, Untroubled(k), ~Met(k),
         ~Running(p) \/ proc[p].key # k
  PROVE  Untroubled(k)'
<1>1. Untouched(k) /\ Frame(p)
  BY OthersLeave, StepFrame
<1>2. \A q \in Procs \ {p} : proc'[q] = proc[q]
  BY <1>1 DEF Frame
<1>3. (k \in KeysOf(file') <=> k \in KeysOf(file)) /\ \A i : <<k, i>> \in file' <=> <<k, i>> \in file
  BY <1>1, HasBlock DEF Untouched, BlocksOf
<1>4. ASSUME NEW q \in Procs, HasCopy(q)'
      PROVE  /\ OneBlock(k, proc'[q].copy)
             /\ proc'[q].key # k => BlocksOf(k, proc'[q].copy) = BlocksOf(k, file')
  <2>0. CopiesAgree(k) /\ OneBlock(k, file)
    BY DEF Untroubled, Settled
  <2>1. CASE q # p
    <3>1. HasCopy(q)
      BY <1>2, <1>4, <2>1 DEF HasCopy
    <3> QED  BY <1>1, <1>2, <2>0, <2>1, <3>1 DEF CopiesAgree, Untouched
  <2>2. CASE q = p
    <3>1. Running(p) /\ proc[p].key # k
      BY <1>4, <2>2, CopyMoves
    <3>2. OneBlock(k, WithoutBlock(proc[p].key)) /\ BlocksOf(k, WithoutBlock(proc[p].key)) = BlocksOf(k, file)
      BY <2>0, <3>1 DEF WithoutBlock, OneBlock, BlocksOf
    <3> QED  BY <1>1, <1>4, <2>0, <2>2, <3>1, <3>2, CopyMoves DEF CopiesAgree, Untouched
  <2> QED  BY <2>1, <2>2
<1>5. ASSUME NEW q \in Procs, proc'[q].pc \in Adding, proc'[q].key # k
      PROVE  route'[proc'[q].ip] # k /\ <<k, proc'[q].ip>> \notin file'
  <2>0. AddersClear(k) /\ k # None
    BY NodeAssumption DEF Untroubled
  <2>1. ASSUME proc[q].pc \in Adding, proc[q].key # k, proc[q].ip \in IPs, proc'[q].ip = proc[q].ip
        PROVE  route'[proc'[q].ip] # k /\ <<k, proc'[q].ip>> \notin file'
    BY <1>1, <1>3, <2>0, <2>1 DEF AddersClear, Untouched
  <2>2. CASE q # p
    BY <1>2, <1>5, <2>1, <2>2 DEF KeysInv
  <2>3. ASSUME q = p, ~IPTaken(proc[p].ip), proc'[p].ip = proc[p].ip, UNCHANGED <<file, route>>
        PROVE  route'[proc'[q].ip] # k /\ <<k, proc'[q].ip>> \notin file'
    <3>1. proc[p].ip \notin IPsOf(file) /\ route[proc[p].ip] = None
      BY <2>3 DEF IPTaken
    <3>2. <<k, proc[p].ip>> \notin file
      BY <3>1 DEF IPsOf
    <3> QED  BY <2>0, <2>3, <3>1, <3>2
  <2> QED  BY <1>5, <2>1, <2>2, <2>3, AdderMoves
<1>6. ASSUME NEW q \in Procs, proc'[q].key = k PROVE AtWork(k, q)'
  <2>1. CASE q = p
    <3>1. CASE Running(p)
      <4>1. proc[p].key # k
        BY <3>1
      <4>2. proc'[p].key \in {None, proc[p].key}
        BY <1>1, <3>1 DEF Frame
      <4> QED  BY <1>6, <2>1, <4>1, <4>2, NodeAssumption
    <3> QED  BY <1>6, <2>1, <3>1, PortalMoves
  <2>2. CASE q # p
    <3>1. proc'[q] = proc[q] /\ AtWork(k, q)
      BY <1>2, <1>6, <2>2 DEF Untroubled
    <3>2. CASE Running(q)
      <4>1. UNCHANGED <<file, live>>
        BY <1>1, <1>6, <2>2, <3>1, <3>2, BothMet DEF Frame
      <4> QED  BY <3>1, <4>1 DEF AtWork, NotThere
    <3>3. CASE ~Running(q)
      BY <1>1, <1>3, <3>1, <3>3 DEF AtWork, NotThere, Running, Adding, Removing, Untouched
    <3> QED  BY <3>2, <3>3
  <2> QED  BY <2>1, <2>2
<1>7. Settled(k)'
  <2>1. k \notin used' => k \notin used
    BY <1>1 DEF Frame
  <2>2. ASSUME NEW q \in Procs, proc[q].key = k, proc[q].pc \in {"set", "restore", "runtime"}
        PROVE  proc'[q] = proc[q]
    BY <1>2, <2>2 DEF Running, Adding, Removing
  <2> QED  BY <1>1, <1>3, <2>1, <2>2 DEF Untroubled, Settled, NotThere, Untouched
<1>8. Works(k)'
  <2>1. ASSUME NEW b \in added', b[1] = k PROVE b \in file' /\ k \in live' /\ route'[b[2]] = k
    <3>1. b \in added /\ b \in file /\ k \in live /\ route[b[2]] = k
      BY <1>1, <2>1 DEF Untouched, Untroubled, Works
    <3>2. b[2] \in IPs /\ b \in BlocksOf(k, file)
      BY <2>1, <3>1 DEF TypeOK, BlocksOf
    <3> QED  BY <1>1, <3>1, <3>2 DEF Untouched, BlocksOf
  <2> QED  BY <2>1 DEF Works
<1>9. CopiesAgree(k)'
  BY <1>4 DEF CopiesAgree
<1>10. AddersClear(k)'
  BY <1>5 DEF AddersClear
<1> QED  BY <1>6, <1>7, <1>8, <1>9, <1>10 DEF Untroubled

-----------------------------------------------------------------------------
(* A wrapper for k itself, which runs alone                                *)

LEMMA OwnSafe ==
  ASSUME TypeOK, KeysInv, KeysInv', OverlapSeen, NEW p \in Procs, Step(p), NEW k \in Keys,
         Untroubled(k), ~Met(k), Running(p), proc[p].key = k
  PROVE  Untroubled(k)'
<1> USE DEF Moves, Rests
<1>0. /\ file \in SUBSET (Keys \X IPs) /\ route \in [IPs -> Keys \cup {None}] /\ k # None /\ k \in used
      /\ \A b \in added : b[2] \in IPs
  BY NodeAssumption DEF TypeOK, KeysInv, Running, Adding, Removing
<1>1. \A q \in Procs \ {p} : proc'[q] = proc[q] /\ ~Running(q) /\ ~Running(q)'
  BY Alone, StepFrame DEF Frame, Running
<1>2. \A q \in Procs \ {p} : proc'[q].key = k => AtWork(k, q)'
  <2>1. ASSUME NEW q \in Procs \ {p}, proc[q].key = k PROVE proc[q].pc \notin Issuing \cup Removing
    <3>1. proc[q].pc \notin Adding \cup Removing
      BY <1>1 DEF Running
    <3>2. ~(proc[q].pc \in Issuing)
      BY <2>1 DEF KeysInv
    <3> QED  BY <3>1, <3>2
  <2> QED  BY <1>1, <2>1 DEF AtWork, Issuing, Adding, Removing
<1>3. /\ AtWork(k, p) /\ Settled(k) /\ Works(k) /\ (HasCopy(p) => OneBlock(k, proc[p].copy))
      /\ OneBlock(k, file)
      /\ k \in half \/ (k \in KeysOf(file) <=> k \in live) \/ proc[p].pc \in {"set", "restore", "runtime"}
  <2>1. \A q \in Procs \ {p} : proc[q].pc \notin {"set", "restore", "runtime"}
    BY <1>1 DEF Running, Adding, Removing
  <2> QED  BY <2>1 DEF Untroubled, CopiesAgree, Settled
\* What is left to show of a step of p.
<1>4. ASSUME AtWork(k, p)', Works(k)', Settled(k)', HasCopy(p)' => OneBlock(k, proc'[p].copy),
             HasCopy(p)' \/ proc'[p].pc \in Adding => proc'[p].key = k
      PROVE  Untroubled(k)'
  <2>1. CopiesAgree(k)'
    BY <1>1, <1>4 DEF CopiesAgree, HasCopy, Running, Adding, Removing
  <2>2. AddersClear(k)'
    BY <1>1, <1>4 DEF AddersClear, Running
  <2> QED  BY <1>2, <1>4, <2>1, <2>2 DEF Untroubled
\* Nothing of k is confirmed while it is added or removed.
<1>5. \A b \in added : b[1] # k
  <2>1. CASE proc[p].pc \in Adding
    BY <1>3, <2>1 DEF AtWork, Works, NotThere, Adding
  <2>2. CASE proc[p].pc \in Removing
    BY <2>2 DEF KeysInv, KeysOf
  <2> QED  BY <2>1, <2>2 DEF Running
<1>6. added' = added => Works(k)'
  BY <1>5 DEF Works
<1>7. CASE AddBackup(p)
  <2>1. /\ proc[p].pc = "backup" /\ proc'[p].pc = "append" /\ proc'[p].key = k /\ proc'[p].ip = proc[p].ip
        /\ proc'[p].copy = file /\ UNCHANGED <<file, live, route, used, added, gone, half>>
    BY <1>7, BackupEffect
  <2>2. BlocksOf(k, file) = {}
    BY <1>3, <2>1, HasBlock DEF AtWork, NotThere
  <2>3. AtWork(k, p)'
    BY <1>3, <2>1, <2>2 DEF AtWork, NotThere, Removing
  <2>4. Settled(k)'
    BY <1>3, <2>1 DEF Settled, NotThere
  <2> QED  BY <1>3, <1>4, <1>6, <2>1, <2>3, <2>4
<1>8. CASE AddAppend(p)
  <2>1. /\ proc[p].pc = "append" /\ proc'[p].pc = "set" /\ proc'[p].key = k /\ proc'[p].ip = proc[p].ip
        /\ proc'[p].copy = proc[p].copy /\ file' = file \cup {<<k, proc[p].ip>>}
        /\ UNCHANGED <<live, route, used, added, gone, half>>
    BY <1>8, AppendEffect
  <2>2. BlocksOf(k, file) = {} /\ k \notin live /\ proc[p].ip \notin IPsOf(file)
    BY <1>3, <2>1, HasBlock DEF AtWork, NotThere
  <2>3. BlocksOf(k, file') = {<<k, proc[p].ip>>}
    BY <2>1, <2>2 DEF BlocksOf
  <2>4. ASSUME NEW b \in file', NEW d \in file', b[1] = k, b[2] = d[2] PROVE b = d
    <3>1. b = <<k, proc[p].ip>>
      BY <2>3, <2>4 DEF BlocksOf
    <3>2. d \notin file
      BY <2>2, <2>4, <3>1 DEF IPsOf
    <3> QED  BY <2>1, <3>1, <3>2
  <2>5. OneBlock(k, file')
    BY <2>4 DEF OneBlock
  <2>6. AtWork(k, p)'
    BY <1>3, <2>1, <2>2, <2>3 DEF AtWork, Removing
  <2>7. k \notin gone
    BY <2>1 DEF KeysInv, Issuing, Adding
  <2>8. Settled(k)'
    BY <1>0, <2>1, <2>2, <2>5, <2>7 DEF Settled
  <2> QED  BY <1>3, <1>4, <1>6, <2>1, <2>6, <2>8 DEF HasCopy
<1>9. CASE AddSet(p)
  <2>1. /\ proc[p].pc = "set" /\ proc'[p].pc = "row" /\ live' = live \cup {k}
        /\ route' = [route EXCEPT ![proc[p].ip] = k] /\ added' = added \cup {<<k, proc[p].ip>>}
        /\ UNCHANGED <<file, used, gone, half>>
    BY <1>9, SetEffect
  <2>2. BlocksOf(k, file) = {<<k, proc[p].ip>>} /\ proc[p].ip \in IPs /\ k \notin gone
    BY <1>3, <2>1 DEF AtWork, KeysInv, Adding, Issuing
  <2>3. <<k, proc[p].ip>> \in file /\ k \in KeysOf(file') /\ k \in live' /\ route'[proc[p].ip] = k
    BY <1>0, <2>1, <2>2, HasBlock DEF BlocksOf
  <2>4. Works(k)'
    BY <1>5, <2>1, <2>3 DEF Works
  <2>5. Settled(k)'
    BY <1>0, <1>3, <2>1, <2>2, <2>3 DEF Settled
  <2>6. AtWork(k, p)'
    BY <2>1 DEF AtWork, Removing
  <2> QED  BY <1>4, <2>1, <2>4, <2>5, <2>6 DEF HasCopy, Adding
<1>10. CASE AddSetFails(p)
  <2>1. /\ proc[p].pc = "set" /\ proc'[p].pc = "restore" /\ proc'[p].key = k /\ proc'[p].ip = proc[p].ip
        /\ proc'[p].copy = proc[p].copy /\ UNCHANGED <<file, live, route, used, added, gone, half>>
    BY <1>10, SetFailsEffect
  <2>2. AtWork(k, p)'
    BY <1>3, <2>1 DEF AtWork, Removing
  <2>3. Settled(k)'
    BY <1>3, <2>1 DEF Settled, NotThere
  <2> QED  BY <1>3, <1>4, <1>6, <2>1, <2>2, <2>3 DEF HasCopy
<1>11. CASE AddRestore(p)
  <2>1. /\ proc[p].pc = "restore" /\ proc'[p].pc = "idle" /\ file' = proc[p].copy
        /\ UNCHANGED <<live, route, used, added, gone, half>>
    BY <1>11, RestoreEffect
  <2>2. k \notin KeysOf(file') /\ k \notin live' /\ OneBlock(k, file')
    BY <1>3, <2>1, HasBlock DEF AtWork, HasCopy
  <2>3. Settled(k)'
    BY <2>2 DEF Settled, NotThere
  <2>4. AtWork(k, p)'
    BY <2>1 DEF AtWork, Removing
  <2> QED  BY <1>4, <1>6, <2>1, <2>3, <2>4 DEF HasCopy, Adding
<1>12. CASE DelRewrite(p)
  <2>1. /\ proc[p].pc = "rewrite" /\ UNCHANGED <<file, live, route, used, added, gone, half>>
        /\ proc'[p].pc \in {"idle", "write"}
        /\ proc'[p].pc = "write" => /\ proc'[p].key = k /\ proc'[p].copy = WithoutBlock(k)
                                    /\ proc'[p].allowed = proc[p].allowed
    BY <1>12, RewriteEffect
  <2>2. BlocksOf(k, WithoutBlock(k)) = {} /\ OneBlock(k, WithoutBlock(k))
    BY DEF BlocksOf, WithoutBlock, OneBlock
  <2>3. AtWork(k, p)'
    BY <1>3, <2>1, <2>2 DEF AtWork, Removing
  <2>4. Settled(k)'
    BY <1>3, <2>1 DEF Settled, NotThere
  <2> QED  BY <1>4, <1>6, <2>1, <2>2, <2>3, <2>4 DEF HasCopy, Adding
<1>13. CASE DelWrite(p)
  <2>1. /\ proc[p].pc = "write" /\ proc'[p].pc = "runtime" /\ file' = proc[p].copy /\ proc'[p].key = k
        /\ proc'[p].allowed = proc[p].allowed /\ UNCHANGED <<live, route, used, added, gone, half>>
    BY <1>13, WriteEffect
  <2>2. k \notin KeysOf(file') /\ OneBlock(k, file')
    BY <1>3, <2>1, HasBlock DEF AtWork, HasCopy
  <2>3. Settled(k)'
    BY <1>0, <1>3, <2>1, <2>2 DEF Settled, NotThere
  <2>4. AtWork(k, p)'
    BY <1>3, <2>1, <2>2 DEF AtWork, Removing
  <2> QED  BY <1>4, <1>6, <2>1, <2>3, <2>4 DEF HasCopy, Adding
<1>14. CASE DelRuntime(p)
  <2>1. /\ proc[p].pc = "runtime" /\ proc'[p].pc = "unrow"
        /\ live' = IF proc[p].allowed = "absent" THEN live ELSE live \ {k}
        /\ UNCHANGED <<file, used, added>>
    BY <1>14, RuntimeEffect
  <2>2. k \notin KeysOf(file') /\ k \notin live'
    BY <1>3, <2>1 DEF AtWork, Removing
  <2>3. Settled(k)'
    BY <1>3, <2>1, <2>2 DEF Settled, NotThere
  <2>4. AtWork(k, p)'
    BY <2>1 DEF AtWork, Removing
  <2> QED  BY <1>4, <1>6, <2>1, <2>3, <2>4 DEF HasCopy, Adding
<1>15. CASE DelRuntimeFails(p)
  <2>1. /\ proc[p].pc = "runtime" /\ proc'[p].pc = "idle" /\ half' = half \cup {k}
        /\ UNCHANGED <<file, live, route, used, added, gone>>
    BY <1>15, RuntimeFailsEffect
  <2>2. Settled(k)'
    BY <1>3, <2>1 DEF Settled, NotThere
  <2>3. AtWork(k, p)'
    BY <2>1 DEF AtWork, Removing
  <2> QED  BY <1>4, <1>6, <2>1, <2>2, <2>3 DEF HasCopy, Adding
<1>16. ~AddCheck(p) /\ ~Portal(p)
  BY DEF Running, Adding, Removing, AddCheck, Portal, IssueLook, DelCheck, IssuePick, RowWritten,
         RowRevoked, AnswerLost
<1> QED
  BY <1>7, <1>8, <1>9, <1>10, <1>11, <1>12, <1>13, <1>14, <1>15, <1>16 DEF Step, Wrapper

-----------------------------------------------------------------------------
(* The interface set up from the file                                      *)

\* Every block of k that shares its address with no other gets it.
LEMMA SetUp ==
  ASSUME file \in SUBSET (Keys \X IPs), NEW k, OneBlock(k, file), NEW r,
         \A i \in IPs : IF i \in IPsOf(file) THEN <<r[i], i>> \in file ELSE r[i] = None
  PROVE  /\ \A b \in file : b[1] = k => r[b[2]] = k
         /\ k \in KeysOf(file) => \E i \in IPs : r[i] = k
<1>1. ASSUME NEW b \in file, b[1] = k PROVE b[2] \in IPs /\ r[b[2]] = k
  <2>1. b[2] \in IPs /\ b[2] \in IPsOf(file)
    BY BlockShape DEF IPsOf
  <2>2. <<r[b[2]], b[2]>> \in file
    BY <2>1
  <2>3. b = <<r[b[2]], b[2]>>
    BY <1>1, <2>2 DEF OneBlock
  <2>4. <<r[b[2]], b[2]>>[1] = r[b[2]]
    OBVIOUS
  <2> QED  BY <1>1, <2>1, <2>3, <2>4
<1> QED  BY <1>1 DEF KeysOf

LEMMA RebootSafe ==
  ASSUME TypeOK, KeysInv, Reboot, NEW k \in Keys, Untroubled(k)
  PROVE  Untroubled(k)'
<1>1. /\ live' = KeysOf(file) /\ UNCHANGED <<file, used, added, gone>>
      /\ \A i \in IPs : IF i \in IPsOf(file) THEN <<route'[i], i>> \in file ELSE route'[i] = None
  BY RebootEffect
<1>2. \A q \in Procs : proc'[q] = Idle \/ (proc'[q] = proc[q] /\ ~Running(q))
  BY RebootEffect, Zenon
<1>3. \A q \in Procs : ~Running(q)'
  BY <1>2, IdleFacts DEF Running, Adding, Removing
<1>4. /\ \A b \in file : b[1] = k => route'[b[2]] = k
      /\ k \in KeysOf(file) => \E i \in IPs : route'[i] = k
  BY <1>1, SetUp DEF Untroubled, Settled, TypeOK
<1>5. CopiesAgree(k)' /\ AddersClear(k)'
  BY <1>3 DEF CopiesAgree, AddersClear, HasCopy, Running, Adding, Removing
<1>6. Settled(k)'
  <2>1. NotThere(k) => NotThere(k)'
    BY <1>1 DEF NotThere
  <2>2. OneBlock(k, file') /\ (k \in KeysOf(file') <=> k \in live')
    BY <1>1 DEF Untroubled, Settled
  <2> QED  BY <1>1, <1>4, <2>1, <2>2 DEF Untroubled, Settled
<1>7. Works(k)'
  BY <1>1, <1>4, HasBlock DEF Untroubled, Works, KeysOf
<1>8. ASSUME NEW q \in Procs, proc'[q].key = k PROVE AtWork(k, q)'
  <2>1. CASE proc'[q] = Idle
    BY <2>1, IdleFacts DEF AtWork, Removing
  <2>2. CASE proc'[q] = proc[q] /\ ~Running(q)
    <3>1. AtWork(k, q)
      BY <1>8, <2>2 DEF Untroubled
    <3> QED  BY <1>1, <2>2, <3>1 DEF AtWork, Running, Adding, Removing, NotThere
  <2> QED  BY <1>2, <2>1, <2>2
<1> QED  BY <1>5, <1>6, <1>7, <1>8 DEF Untroubled

LEMMA SafeStep == ASSUME TypeOK, Safe, [Next]_vars PROVE Safe'
<1>0. OverlapSeen /\ KeysInv /\ OverlapSeen' /\ KeysInv'
  BY OverlapStep, KeysStep DEF Safe
<1>1. ASSUME NEW k \in Keys, ~Met(k)' PROVE Untroubled(k)'
  <2>1. CASE UNCHANGED vars
    <3>1. Untroubled(k)
      BY <1>1, <2>1 DEF Safe, vars, Met
    <3> QED
      BY <2>1, <3>1 DEF vars, Untroubled, CopiesAgree, AddersClear, Settled, Works, AtWork, NotThere, HasCopy,
                        KeysOf, IPsOf, BlocksOf, OneBlock
  <2>2. CASE Reboot
    <3>1. ~Met(k)
      BY <1>1, <2>2, RebootEffect DEF Met
    <3> QED  BY <1>0, <2>2, <3>1, RebootSafe DEF Safe
  <2>3. ASSUME NEW p \in Procs, Step(p) PROVE Untroubled(k)'
    <3>1. met \subseteq met'
      BY <1>0, <2>3, StepFrame DEF Frame
    <3>2. ~Met(k) /\ Untroubled(k)
      BY <1>1, <3>1, MetGrows DEF Safe
    <3> QED  BY <1>0, <2>3, <3>2, OthersSafe, OwnSafe
  <2> QED  BY <2>1, <2>2, <2>3 DEF Next, Step
<1> QED  BY <1>0, <1>1 DEF Safe

LEMMA InitSafe == ASSUME Init PROVE TypeOK /\ Safe
<1>1. /\ file = Start /\ live = KeysOf(Start) /\ rows = Start /\ used = KeysOf(Start) /\ added = Start
      /\ gone = {} /\ half = {} /\ met = {} /\ reboots = 0 /\ proc = [p \in Procs |-> Idle]
      /\ route \in [IPs -> Keys \cup {None}]
      /\ \A i \in IPs : IF i \in IPsOf(Start) THEN <<route[i], i>> \in Start ELSE route[i] = None
  BY DEF Init
<1>2. Start \in SUBSET (Keys \X IPs) /\ MaxReboots \in Nat
  BY NodeAssumption
<1>3. proc \in [Procs -> Proc] /\ \A p \in Procs : proc[p].pc = "idle" /\ proc[p].key = None
  BY <1>1, IdleFacts
<1>4. TypeOK
  <2>1. KeysOf(Start) \subseteq Keys
    BY <1>2, BlockKeys
  <2>2. 0 \in 0..MaxReboots
    BY <1>2
  <2> QED  BY <1>1, <1>2, <1>3, <2>1, <2>2 DEF TypeOK, Proc
<1>5. OverlapSeen
  BY <1>3 DEF OverlapSeen, Running, Adding, Removing
<1>6. KeysInv
  BY <1>1, <1>3 DEF KeysInv, Issuing, Adding, Removing
<1>7. ASSUME NEW k \in Keys PROVE Untroubled(k)
  <2>1. OneBlock(k, file)
    BY <1>1, NodeAssumption DEF OneBlock
  <2>2. /\ \A b \in file : b[1] = k => route[b[2]] = k
        /\ k \in KeysOf(file) => \E i \in IPs : route[i] = k
    BY <1>1, <1>2, <2>1, SetUp
  <2>3. CopiesAgree(k) /\ AddersClear(k) /\ \A p \in Procs : AtWork(k, p)
    BY <1>3 DEF CopiesAgree, AddersClear, AtWork, HasCopy, Adding, Removing
  <2>4. Works(k)
    BY <1>1, <2>2 DEF Works, KeysOf
  <2>5. Settled(k)
    BY <1>1, <2>1, <2>2 DEF Settled, NotThere
  <2> QED  BY <2>3, <2>4, <2>5 DEF Untroubled
<1> QED  BY <1>4, <1>5, <1>6, <1>7 DEF Safe

-----------------------------------------------------------------------------
(* Theorems                                                                *)

\* The inductive invariant, for any number of requests, keys and reboots.
THEOREM NodeIsSafe == Spec => [](TypeOK /\ Safe)
<1>1. Init => TypeOK /\ Safe
  BY InitSafe
<1>2. TypeOK /\ Safe /\ [Next]_vars => (TypeOK /\ Safe)'
  BY TypeStep, SafeStep DEF Safe
<1> QED  BY <1>1, <1>2, PTL DEF Spec

\* "ok: added" and "ok: removed" stay true of every device whose wrappers never
\* overlapped with another, whatever fails or reboots after them.
THEOREM AnswersHold == Spec => []AnswersStayTrue
<1>1. TypeOK /\ Safe => AnswersStayTrue
  <2> SUFFICES ASSUME TypeOK, Safe PROVE AddedWorks /\ RemovedIsGone
    BY DEF AnswersStayTrue
  <2>1. ASSUME NEW b \in added, ~Met(b[1]) PROVE b \in file /\ b[1] \in live /\ route[b[2]] = b[1]
    <3>1. b[1] \in Keys
      BY DEF TypeOK
    <3> QED  BY <2>1, <3>1 DEF Safe, Untroubled, Works
  <2>2. ASSUME NEW k \in gone, ~Met(k) PROVE k \notin KeysOf(file) /\ k \notin live
    BY <2>2 DEF Safe, Untroubled, Settled, NotThere, TypeOK
  <2> QED  BY <2>1, <2>2 DEF AddedWorks, RemovedIsGone
<1> QED  BY <1>1, NodeIsSafe, PTL

\* File and interface agree, peer by peer and address by address, but for keys
\* whose wrappers overlapped with another and removals the interface refused.
THEOREM FileAndInterfaceHold == Spec => []FileAndInterfaceAgree
<1>1. TypeOK /\ Safe => FileAndInterfaceAgree
  <2> SUFFICES ASSUME TypeOK, Safe PROVE NoHalfPeers /\ AddressInOneBlock /\ PeersHaveAddresses
    BY DEF FileAndInterfaceAgree
  <2>1. NoHalfPeers
    <3>1. ASSUME NEW k \in Keys, \A p \in Procs : Running(p) => proc[p].key # k, ~Met(k), k \notin half
          PROVE  k \in KeysOf(file) <=> k \in live
      <4>1. Settled(k)
        BY <3>1 DEF Safe, Untroubled
      <4>2. \A p \in Procs : ~(proc[p].key = k /\ proc[p].pc \in {"set", "restore", "runtime"})
        BY <3>1 DEF Running, Adding, Removing
      <4> QED  BY <3>1, <4>1, <4>2 DEF Settled
    <3> QED  BY <3>1 DEF NoHalfPeers
  <2>2. AddressInOneBlock
    <3>1. ASSUME NEW b \in file, NEW d \in file, b[2] = d[2], ~Met(b[1]) PROVE b = d
      <4>1. b[1] \in Keys
        BY DEF TypeOK
      <4>2. OneBlock(b[1], file)
        BY <3>1, <4>1 DEF Safe, Untroubled, Settled
      <4> QED  BY <3>1, <4>2 DEF OneBlock
    <3> QED  BY <3>1 DEF AddressInOneBlock
  <2>3. PeersHaveAddresses
    BY DEF PeersHaveAddresses, AllowedOf, Safe, Untroubled, Settled, TypeOK
  <2> QED  BY <2>1, <2>2, <2>3
<1> QED  BY <1>1, NodeIsSafe, PTL

=============================================================================
