-------------------------------- MODULE Node --------------------------------
(***************************************************************************)
(* The peers of one entry node: the wrappers pwa-add-peer and pwa-del-peer *)
(* (infrastructure/wrappers), and how the portal drives them               *)
(* (services/provisioner.py: issue_config, remove_peer_for).               *)
(*                                                                         *)
(* A peer lives in two places, the config file (what survives a reboot)    *)
(* and the running interface (what carries traffic), and its device in a   *)
(* third, a row of the portal.  A wrapper reads both, edits the file, then *)
(* the interface, and puts the file back if the interface refuses.  No     *)
(* lock keeps two wrappers apart: a purchase, a customer adding a device   *)
(* and the hourly sweep may all be at it.  The relation `met' remembers    *)
(* whose wrappers overlapped; the properties say that nothing else can     *)
(* come between the node's answer and the truth.                           *)
(***************************************************************************)
EXTENDS Naturals, FiniteSets

CONSTANTS
    Keys,         \* public keys, one per device
    IPs,          \* the addresses of a pool, in the order they are tried
    Procs,        \* portal requests and sweeps that call the node
    None,
    Start,        \* blocks on the node at first: pairs of a key and an address
    MaxTries,     \* how often issue_config tries an address (10 in the code)
    MaxReboots    \* bound: reboots of the node

ASSUME NodeAssumption ==
    /\ IPs \subseteq Nat /\ IPs # {} /\ IsFiniteSet(IPs)
    /\ None \notin Keys \cup IPs
    /\ Start \subseteq Keys \X IPs
    /\ \A b, d \in Start : b # d => b[1] # d[1] /\ b[2] # d[2]
    /\ MaxTries \in Nat \ {0} /\ MaxReboots \in Nat

VARIABLES
    file,      \* blocks of awg0.conf: pairs of a key and an address
    live,      \* peers of the running interface
    route,     \* [IPs -> Keys \cup {None}]: whose allowed-ips an address is in
    rows,      \* active rows of the portal: pairs of a key and an address
    proc,      \* what each request is at
    used,      \* keys generated so far
    reboots,
    added,     \* history: blocks the node confirmed and nobody has begun to remove
    gone,      \* history: keys the node confirmed as removed
    half,      \* history: keys whose removal failed at the interface
    met        \* history: {k, q} when wrappers for k and for q overlapped

vars == <<file, live, route, rows, proc, used, reboots, added, gone, half, met>>

-----------------------------------------------------------------------------
Idle == [pc |-> "idle", key |-> None, ip |-> None, tried |-> {}, tries |-> 0,
         copy |-> {}, allowed |-> "absent"]

\* A wrapper is between its first look at the node and its answer.
Adding   == {"backup", "append", "set", "restore"}
Removing == {"rewrite", "write", "runtime"}
Running(p) == proc[p].pc \in Adding \cup Removing

Steps == {"idle", "pick", "check", "row", "unrow"} \cup Adding \cup Removing

TypeOK ==
    /\ file \subseteq Keys \X IPs
    /\ live \subseteq Keys
    /\ route \in [IPs -> Keys \cup {None}]
    /\ rows \subseteq Keys \X IPs
    /\ proc \in [Procs -> [pc : Steps, key : Keys \cup {None}, ip : IPs \cup {None},
                           tried : SUBSET IPs, tries : 0..MaxTries,
                           copy : SUBSET (Keys \X IPs),
                           allowed : {"absent", "client", "(none)"}]]
    /\ used \subseteq Keys
    /\ reboots \in 0..MaxReboots
    /\ added \subseteq Keys \X IPs
    /\ gone \subseteq Keys
    /\ half \subseteq Keys
    /\ met \subseteq SUBSET Keys

KeysOf(blocks) == {b[1] : b \in blocks}
IPsOf(blocks)  == {b[2] : b \in blocks}

-----------------------------------------------------------------------------
(* What the wrappers and the portal compute                                *)

\* _find_free_ip: the first address neither excluded nor in an active row.
FreeIPs(tried) == IPs \ (tried \cup IPsOf(rows))

\* pwa-add-peer's check for a duplicate address, in the runtime and in the file.
\* (A duplicate key, which it refuses as well, cannot be: issue_config generates
\* one for each device.)
IPTaken(ip) == route[ip] # None \/ ip \in IPsOf(file)

\* Its block appended to the file, and the file put back from the backup.
\* (Names with an underscore are faulty variants, which the properties catch.)
WithBlock(k, ip) == file \cup {<<k, ip>>}
Restored_Not(p) == file
Restored(p) == proc[p].copy

\* pwa-del-peer's rewrite: every block but those of the key.
WithoutBlock(k) == {b \in file : b[1] # k}

\* What `awg show allowed-ips' says of a key.  Of a key that is no peer it says
\* nothing ("absent"); a peer whose only address went to another peer is still
\* listed, with "(none)".
AllowedOf(k) ==
    IF k \notin live THEN "absent"
    ELSE IF \E i \in IPs : route[i] = k THEN "client" ELSE "(none)"

\* "remove" in `awg set'.
Unrouted(k) == [i \in IPs |-> IF route[i] = k THEN None ELSE route[i]]

Meets(p, k) == met \cup {{k, proc[q].key} : q \in {r \in Procs \ {p} : Running(r)}}

-----------------------------------------------------------------------------
Init ==
    /\ file = Start
    /\ live = KeysOf(Start)
    /\ route \in [IPs -> Keys \cup {None}]
    /\ \A i \in IPs : IF i \in IPsOf(Start) THEN <<route[i], i>> \in Start ELSE route[i] = None
    /\ rows = Start
    /\ proc = [p \in Procs |-> Idle]
    /\ used = KeysOf(Start)
    /\ reboots = 0
    /\ added = Start
    /\ gone = {}
    /\ half = {}
    /\ met = {}

\* issue_config: a new key, and the node's own list of addresses.  The list is
\* empty when the node cannot be asked (_entry_used_ips).
IssueLook(p, k, answered) ==
    /\ proc[p].pc = "idle"
    /\ k \in Keys \ used
    /\ used' = used \cup {k}
    /\ proc' = [proc EXCEPT ![p] = [Idle EXCEPT !.pc = "pick", !.key = k,
                    !.tried = IF answered THEN {i \in IPs : route[i] # None} ELSE {}]]
    /\ UNCHANGED <<file, live, route, rows, reboots, added, gone, half, met>>

\* ... the first free address, or none left, or ten tries made.
IssuePick(p) ==
    LET free == FreeIPs(proc[p].tried) IN
    /\ proc[p].pc = "pick"
    /\ \/ /\ free = {} \/ proc[p].tries = MaxTries
          /\ proc' = [proc EXCEPT ![p] = Idle]
       \/ \E ip \in free :
             /\ proc[p].tries < MaxTries /\ \A i \in free : ip <= i
             /\ proc' = [proc EXCEPT ![p].pc = "check", ![p].ip = ip, ![p].tries = @ + 1]
    /\ UNCHANGED <<file, live, route, rows, used, reboots, added, gone, half, met>>

\* pwa-add-peer: a duplicate is refused, and "ip in use" makes the portal try
\* the next address.
AddCheck(p) ==
    LET k == proc[p].key
        ip == proc[p].ip
    IN
    /\ proc[p].pc = "check"
    /\ \/ /\ IPTaken(ip)
          /\ proc' = [proc EXCEPT ![p].pc = "pick", ![p].tried = @ \cup {ip}]
          /\ UNCHANGED met
       \/ /\ ~IPTaken(ip)
          /\ proc' = [proc EXCEPT ![p].pc = "backup"]
          /\ met' = Meets(p, k)
    /\ UNCHANGED <<file, live, route, rows, used, reboots, added, gone, half>>

AddBackup(p) ==
    /\ proc[p].pc = "backup"
    /\ proc' = [proc EXCEPT ![p].pc = "append", ![p].copy = file]
    /\ UNCHANGED <<file, live, route, rows, used, reboots, added, gone, half, met>>

AddAppend(p) ==
    /\ proc[p].pc = "append"
    /\ file' = WithBlock(proc[p].key, proc[p].ip)
    /\ proc' = [proc EXCEPT ![p].pc = "set"]
    /\ UNCHANGED <<live, route, rows, used, reboots, added, gone, half, met>>

\* `awg set ... allowed-ips' takes the address from whoever has it.
AddSet(p) ==
    LET k == proc[p].key
        ip == proc[p].ip
    IN
    /\ proc[p].pc = "set"
    /\ live' = live \cup {k}
    /\ route' = [route EXCEPT ![ip] = k]
    /\ added' = added \cup {<<k, ip>>}
    /\ proc' = [proc EXCEPT ![p] = [Idle EXCEPT !.pc = "row", !.key = k, !.ip = ip]]
    /\ UNCHANGED <<file, rows, used, reboots, gone, half, met>>

AddSetFails(p) ==
    /\ proc[p].pc = "set"
    /\ proc' = [proc EXCEPT ![p].pc = "restore"]
    /\ UNCHANGED <<file, live, route, rows, used, reboots, added, gone, half, met>>

AddRestore(p) ==
    /\ proc[p].pc = "restore"
    /\ file' = Restored(p)
    /\ proc' = [proc EXCEPT ![p] = Idle]
    /\ UNCHANGED <<live, route, rows, used, reboots, added, gone, half, met>>

\* The portal commits the row of a device the node confirmed.
RowWritten(p) ==
    /\ proc[p].pc = "row"
    /\ rows' = rows \cup {<<proc[p].key, proc[p].ip>>}
    /\ proc' = [proc EXCEPT ![p] = Idle]
    /\ UNCHANGED <<file, live, route, used, reboots, added, gone, half, met>>

\* The answer is lost: the SSH call timed out or the portal died first.
AnswerLost(p) ==
    /\ proc[p].pc \in {"row", "unrow"}
    /\ proc' = [proc EXCEPT ![p] = Idle]
    /\ UNCHANGED <<file, live, route, rows, used, reboots, added, gone, half, met>>

\* pwa-del-peer, for the device of an active row (by the sweep, a purchase that
\* ends a trial, or the customer): it must be somewhere, and a runtime peer must
\* have a client address.
DelCheck(p, k) ==
    LET allowed == AllowedOf(k)
        filed   == k \in KeysOf(file)
    IN
    /\ proc[p].pc = "idle"
    /\ k \in KeysOf(rows)
    /\ allowed # "absent" \/ filed
    /\ allowed # "(none)"
    /\ proc' = [proc EXCEPT ![p] =
                   [Idle EXCEPT !.pc = IF filed THEN "rewrite" ELSE "runtime",
                                !.key = k, !.allowed = allowed]]
    /\ added' = {b \in added : b[1] # k}
    /\ met' = Meets(p, k)
    /\ UNCHANGED <<file, live, route, rows, used, reboots, gone, half>>

\* The file without the block, written to a temporary file; refused unless
\* exactly one block went.
DelRewrite(p) ==
    LET k == proc[p].key IN
    /\ proc[p].pc = "rewrite"
    /\ proc' = [proc EXCEPT ![p] =
                   IF Cardinality(WithoutBlock(k)) = Cardinality(file) - 1
                   THEN [@ EXCEPT !.pc = "write", !.copy = WithoutBlock(k)]
                   ELSE Idle]
    /\ UNCHANGED <<file, live, route, rows, used, reboots, added, gone, half, met>>

\* The name of what the written file holds, for a faulty variant.
Rewritten_Kept(p) == file
Rewritten(p) == proc[p].copy

DelWrite(p) ==
    /\ proc[p].pc = "write"
    /\ file' = Rewritten(p)
    /\ proc' = [proc EXCEPT ![p].pc = "runtime", ![p].copy = {}]
    /\ UNCHANGED <<live, route, rows, used, reboots, added, gone, half, met>>

\* ... and the runtime, if the peer was there when the wrapper looked.
DelRuntime(p) ==
    LET k == proc[p].key IN
    /\ proc[p].pc = "runtime"
    /\ live'  = IF proc[p].allowed = "absent" THEN live ELSE live \ {k}
    /\ route' = IF proc[p].allowed = "absent" THEN route ELSE Unrouted(k)
    /\ gone' = gone \cup {k}
    /\ half' = half \ {k}
    /\ proc' = [proc EXCEPT ![p] = [Idle EXCEPT !.pc = "unrow", !.key = k]]
    /\ UNCHANGED <<file, rows, used, reboots, added, met>>

DelRuntimeFails(p) ==
    /\ proc[p].pc = "runtime"
    /\ proc[p].allowed # "absent"
    /\ half' = half \cup {proc[p].key}
    /\ proc' = [proc EXCEPT ![p] = Idle]
    /\ UNCHANGED <<file, live, route, rows, used, reboots, added, gone, met>>

\* The portal marks the row inactive once the node confirmed.
RowRevoked(p) ==
    /\ proc[p].pc = "unrow"
    /\ rows' = {b \in rows : b[1] # proc[p].key}
    /\ proc' = [proc EXCEPT ![p] = Idle]
    /\ UNCHANGED <<file, live, route, used, reboots, added, gone, half, met>>

\* The node reboots: wrappers die where they are, and the interface is set up
\* from the file, where a later block takes an address from an earlier one.
Reboot ==
    /\ reboots < MaxReboots
    /\ reboots' = reboots + 1
    /\ live' = KeysOf(file)
    /\ route' \in [IPs -> KeysOf(file) \cup {None}]
    /\ \A i \in IPs : IF i \in IPsOf(file) THEN <<route'[i], i>> \in file ELSE route'[i] = None
    /\ proc' = [p \in Procs |-> IF Running(p) THEN Idle ELSE proc[p]]
    /\ half' = {}
    /\ UNCHANGED <<file, rows, used, added, gone, met>>

Wrapper(p) ==
    \/ AddCheck(p) \/ AddBackup(p) \/ AddAppend(p) \/ AddSet(p) \/ AddSetFails(p) \/ AddRestore(p)
    \/ DelRewrite(p) \/ DelWrite(p) \/ DelRuntime(p) \/ DelRuntimeFails(p)

Portal(p) ==
    \/ \E k \in Keys, answered \in BOOLEAN : IssueLook(p, k, answered)
    \/ \E k \in Keys : DelCheck(p, k)
    \/ IssuePick(p) \/ RowWritten(p) \/ RowRevoked(p) \/ AnswerLost(p)

Next == Reboot \/ \E p \in Procs : Wrapper(p) \/ Portal(p)

Spec == Init /\ [][Next]_vars

-----------------------------------------------------------------------------
(* Properties                                                              *)

\* A wrapper for this key overlapped with another one, perhaps for the same key.
Met(k) == \E q \in Keys : {k, q} \in met

\* "ok: added" stays true: the device is in the file, on the interface and has
\* its address, through failures of other calls and reboots, unless its wrapper
\* overlapped with another (pwa-add-peer, rule 2: "Config and runtime change
\* together").
AddedWorks ==
    \A b \in added : Met(b[1]) \/ (b \in file /\ b[1] \in live /\ route[b[2]] = b[1])

\* "ok: removed" stays true: no reboot and no other call brings the peer back
\* (pwa-del-peer 13-15), unless its wrapper overlapped with another.
RemovedIsGone ==
    \A k \in gone : Met(k) \/ (k \notin KeysOf(file) /\ k \notin live)

\* Both answers of the wrappers stay true, whatever happens after them.
AnswersStayTrue == AddedWorks /\ RemovedIsGone

\* A wrapper that fails leaves neither a runtime-only peer nor a config-only one
\* (pwa-add-peer 15-18), but for the removal that the interface refused.
NoHalfPeers ==
    \A k \in Keys : (\A p \in Procs : Running(p) => proc[p].key # k) =>
        Met(k) \/ k \in half \/ (k \in KeysOf(file) <=> k \in live)

\* Two blocks of the file name the same address, of which a reboot would serve
\* one, only after an overlap: the list the portal read may be empty or stale,
\* the wrapper's own check decides (provisioner.py 143-144).
AddressInOneBlock ==
    \A b, d \in file : b # d /\ b[2] = d[2] => Met(b[1]) \/ Met(d[1])

\* A peer on the interface can be removed: it has an address.  (One without is
\* refused by pwa-del-peer as outside the client subnets, for ever.)
PeersHaveAddresses == \A k \in live : Met(k) \/ AllowedOf(k) = "client"

\* File and interface agree, peer by peer and address by address.
FileAndInterfaceAgree == NoHalfPeers /\ AddressInOneBlock /\ PeersHaveAddresses
=============================================================================
