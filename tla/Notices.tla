------------------------------ MODULE Notices -------------------------------
(***************************************************************************)
(* What customers are told of the end of a period, and how often: the      *)
(* hourly job (pwa/expire_subscriptions.py) with its passes, the rows of   *)
(* the bell (pwa/services/notify.py) and the letters and Telegram messages *)
(* that go with them (services/mailer.py, services/telegram.py).           *)
(*                                                                         *)
(* A notice's row belongs to the transaction of its pass; its messages are *)
(* tasks of the process, which run whenever the job waits, before or after *)
(* the commit.  A run that dies takes its open transaction and its waiting *)
(* tasks with it.  Runs may overlap; a row another run has written but not *)
(* committed makes this one wait at the unique (user, dedupe_key).         *)
(*                                                                         *)
(* Dates are ticks of a clock, 0 a NULL date.  The devices and the node    *)
(* are in Activation and Trial: here a removal works or does not.          *)
(***************************************************************************)
EXTENDS Naturals, FiniteSets

CONSTANTS
    Users, Jobs,
    Requests,     \* payments and grants activated at a time
    Mailed,       \* users with a mailbox
    Chats,        \* users with a Telegram chat
    Three, One,   \* the reminders' windows, in ticks
    Period, TrialDays,
    MaxNow,       \* bound: the clock stops here
    LastEnd,      \* bound: no period ends later
    MaxJobDeaths  \* bound: runs that die

ASSUME NoticesAssumption ==
    /\ Mailed \subseteq Users /\ Chats \subseteq Users
    /\ {Three, One, Period, TrialDays, MaxNow, LastEnd, MaxJobDeaths} \subseteq Nat
    /\ One < Three /\ Period > 0 /\ TrialDays > 0

VARIABLES
    now,
    row,      \* users: subscribed_until, is_subscribed, trial_until, trial device on
    bell,     \* notifications, committed: <<user, kind, the end in dedupe_key>>
    job,      \* the runs of the hourly job
    paying,   \* the activations under way, each with the row as it loaded it
    out,      \* messages handed to Resend or to the Bot API
    twice,    \* history: those handed over again
    undone,   \* history: notices a run had written when it died
    dropped,  \* history: messages that died with their run
    overtaken, \* history: users whose last payment met a run that was taking
               \* their devices off
    jobDeaths \* history: runs that died

noticesVars == <<now, row, bell, job, paying, out, twice, undone, dropped, overtaken, jobDeaths>>

Dates == 0..LastEnd

(* The notices about an end: what the bell has a text for, and which of them
   reminder_email knows a letter for. *)
Lettered == {"sub_ended", "sub_ends_3d", "trial_ends_1d"}
NoticeKinds == Lettered \cup {"trial_ended", "sub_ends_1d"}

Notice  == Users \X NoticeKinds \X Nat
Message == Notice \X {"telegram", "letter"}

(* The passes, in their order; "remind" goes on into "remind_trials" in the
   same transaction and with the same `now'. *)
After == [subs |-> "trials", trials |-> "remind", remind |-> "remind_trials", remind_trials |-> "drain"]
Passes == DOMAIN After
Commits == Passes \ {"remind"}

Idle == [pass |-> "idle", began |-> 0, at |-> 0, looked |-> FALSE,
         todo |-> {}, new |-> {}, off |-> {}, mail |-> {}]

Customer == [user : Users, end : Nat, paid : BOOLEAN]

Job == [pass : Passes \cup {"idle", "drain"}, began : Nat, at : Nat, looked : BOOLEAN,
        todo : SUBSET Customer, new : SUBSET Notice, off : SUBSET Users, mail : SUBSET Message]

Activating == [req : Requests, user : Users, end : Nat, sub : BOOLEAN, trial : Nat]

NoticesTypeOK ==
    /\ now \in Nat /\ jobDeaths \in Nat
    /\ row \in [Users -> [end : Nat, sub : BOOLEAN, trial : Nat, dev : BOOLEAN]]
    /\ job \in [Jobs -> Job] /\ paying \subseteq Activating
    /\ bell \subseteq Notice /\ undone \subseteq Notice
    /\ out \subseteq Message /\ twice \subseteq Message /\ dropped \subseteq Message
    /\ overtaken \subseteq Users

NoticesInit ==
    /\ now = 1
    /\ row = [u \in Users |-> [end |-> 0, sub |-> FALSE, trial |-> 0, dev |-> FALSE]]
    /\ bell = {} /\ job = [j \in Jobs |-> Idle] /\ paying = {}
    /\ out = {} /\ twice = {} /\ undone = {} /\ dropped = {} /\ overtaken = {} /\ jobDeaths = 0

HasSubscription(u, t) == row[u].sub /\ row[u].end > t

----------------------------------------------------------------------------
(* Time and customers. *)

(* A run is over before the clock moves twice. *)
TimePasses ==
    /\ now < MaxNow
    /\ \A j \in Jobs : job[j] # Idle => job[j].began = now
    /\ now' = now + 1
    /\ UNCHANGED <<row, bell, job, paying, out, twice, undone, dropped, overtaken, jobDeaths>>

(* The row of a customer whose end a run has written waits for its commit. *)
Locked(u) == \E j \in Jobs : job[j].pass = "subs" /\ u \in job[j].off

Extended(end) == Period + IF end > now THEN end ELSE now

(* A payment is confirmed or access granted: the customer's row is loaded ... *)
LoadUser(p, u) ==
    /\ Extended(row[u].end) \in Dates /\ \A x \in paying : x.req # p
    /\ paying' = paying \cup {[req |-> p, user |-> u, end |-> row[u].end, sub |-> row[u].sub, trial |-> row[u].trial]}
    /\ UNCHANGED <<now, row, bell, job, out, twice, undone, dropped, overtaken, jobDeaths>>

(* ... and, after the wait for the node if this is a first purchase, the columns
   that differ from what was loaded are written: the period, the flag unless it
   was up when loaded, and the end of a running trial, whose device leaves the
   node or not.  (The reward pass before the sweep extends a period in the same
   way; its own notice of the bonus is left out.) *)
Paid(x) ==
    [row[x.user] EXCEPT !.end = Extended(x.end), !.sub = @ \/ ~x.sub,
                        !.trial = IF x.trial > now THEN now ELSE @]

(* A run has loaded the customer as due, or cleared the flag after it was loaded. *)
Meets(x) ==
    \/ \E j \in Jobs : job[j].pass = "subs" /\ \E y \in job[j].todo : y.user = x.user
    \/ x.sub /\ ~row[x.user].sub

Pay(x) ==
    /\ ~Locked(x.user) /\ Paid(x).end \in Dates
    /\ \E dev \in {row[x.user].dev, FALSE} : row' = [row EXCEPT ![x.user] = [Paid(x) EXCEPT !.dev = dev]]
    /\ paying' = paying \ {x}
    /\ overtaken' = IF Meets(x) THEN overtaken \cup {x.user} ELSE overtaken \ {x.user}
    /\ UNCHANGED <<now, bell, job, out, twice, undone, dropped, jobDeaths>>

(* The node gave no first device, or the portal died: the order stays unpaid. *)
PayFails(x) ==
    /\ paying' = paying \ {x}
    /\ UNCHANGED <<now, row, bell, job, out, twice, undone, dropped, overtaken, jobDeaths>>

StartTrial(u) ==
    /\ ~Locked(u) /\ row[u].trial = 0 /\ row[u].end = 0
    /\ row' = [row EXCEPT ![u].trial = now + TrialDays, ![u].dev = TRUE]
    /\ UNCHANGED <<now, paying, bell, job, out, twice, undone, dropped, overtaken, jobDeaths>>

----------------------------------------------------------------------------
(* The hourly job. *)

StartRun(j) ==
    /\ job[j] = Idle
    /\ job' = [job EXCEPT ![j] = [Idle EXCEPT !.pass = "subs", !.began = now]]
    /\ UNCHANGED <<now, paying, row, bell, out, twice, undone, dropped, overtaken, jobDeaths>>

DueSubs(u, t) == row[u].sub /\ row[u].end # 0 /\ row[u].end < t

DueTrials(u, t) == row[u].dev /\ row[u].trial <= t

DueReminder(u, t) == row[u].sub /\ row[u].end > t /\ row[u].end <= t + Three

DueTrialReminder(u, t) ==
    row[u].trial > t /\ row[u].trial <= t + One /\ ~(row[u].end > t)

Due(pass, t) ==
    {u \in Users : CASE pass = "subs" -> DueSubs(u, t)
                     [] pass = "trials" -> DueTrials(u, t)
                     [] pass = "remind" -> DueReminder(u, t)
                     [] pass = "remind_trials" -> DueTrialReminder(u, t)}

EndOf(pass, u) == IF pass \in {"subs", "remind"} THEN row[u].end ELSE row[u].trial

(* The `now' of a pass; the reminders go on using it after the load. *)
AtOf(j) == IF job[j].pass = "remind_trials" THEN job[j].at ELSE now

(* A pass loads its customers ... *)
Look(j) ==
    LET q == job[j]
        at == AtOf(j) IN
    /\ q.pass \in Passes /\ ~q.looked /\ Due(q.pass, at) # {}
    /\ job' = [job EXCEPT ![j].looked = TRUE, ![j].at = IF q.pass \in {"subs", "trials"} THEN 0 ELSE at,
                          ![j].todo = {[user |-> u, end |-> EndOf(q.pass, u), paid |-> HasSubscription(u, at)]
                                          : u \in Due(q.pass, at)}]
    /\ UNCHANGED <<now, paying, row, bell, out, twice, undone, dropped, overtaken, jobDeaths>>

(* ... or finds none.  (A commit of what the pass before it left is EndPass's.) *)
NobodyDue(j) ==
    LET q == job[j] IN
    /\ q.pass \in Passes /\ ~q.looked /\ Due(q.pass, AtOf(j)) = {}
    /\ job' = [job EXCEPT ![j].pass = IF q.new = {} THEN After[q.pass] ELSE @,
                          ![j].looked = (q.new # {}),
                          ![j].at = IF q.pass = "remind" THEN AtOf(j) ELSE 0]
    /\ UNCHANGED <<now, paying, row, bell, out, twice, undone, dropped, overtaken, jobDeaths>>

(* What a pass says to a customer it has loaded. *)
KindFor(j, x) ==
    CASE job[j].pass = "subs" -> "sub_ended"
      [] job[j].pass = "trials" -> "trial_ended"
      [] job[j].pass = "remind" -> IF x.end <= job[j].at + One THEN "sub_ends_1d" ELSE "sub_ends_3d"
      [] job[j].pass = "remind_trials" -> "trial_ends_1d"

(* The messages that go with a notice. *)
MessagesOf(n) ==
    ({n} \X {"telegram" : u \in Chats \cap {n[1]}})
    \cup ({n} \X {"letter" : u \in {v \in Mailed \cap {n[1]} : n[2] \in Lettered}})

(* Mutated form: no key, no unique constraint. *)
KnownNever(j, n) == FALSE

(* The SELECT of notify sees what is committed and what its own transaction
   has written. *)
Known(j, n) == n \in bell \cup job[j].new

(* notify: unless the key is there, a row and its messages. *)
Notify(j, n) ==
    /\ \A i \in Jobs \ {j} : n \notin job[i].new
    /\ job' = IF Known(j, n) THEN [job EXCEPT ![j].todo = {x \in @ : x.user # n[1]}]
              ELSE [job EXCEPT ![j].todo = {x \in @ : x.user # n[1]},
                               ![j].new = @ \cup {n}, ![j].mail = @ \cup MessagesOf(n)]

(* A reminder. *)
Remind(j) ==
    /\ job[j].pass \in {"remind", "remind_trials"}
    /\ \E x \in job[j].todo : Notify(j, <<x.user, KindFor(j, x), x.end>>)
    /\ UNCHANGED <<now, paying, row, bell, out, twice, undone, dropped, overtaken, jobDeaths>>

(* Mutated form: the flag is cleared whether or not the node confirmed. *)
OffAlways(x, removed) == {x.user}

Off(x, removed) == IF removed THEN {x.user} ELSE {}

(* The node took the devices off, or did not confirm it.  If it did, the row
   is written and the end told, but for a trial that a purchase cut short. *)
Sweep(j, x, removed) ==
    LET q == job[j]
        n == <<x.user, KindFor(j, x), x.end>>
        tells == removed /\ (q.pass = "subs" \/ ~x.paid) IN
    /\ x \in q.todo /\ q.pass \in {"subs", "trials"}
    /\ q.pass = "subs" => \A i \in Jobs \ {j} : ~(job[i].pass = "subs" /\ x.user \in job[i].off)
    /\ tells => \A i \in Jobs \ {j} : n \notin job[i].new
    /\ job' = [job EXCEPT ![j].todo = @ \ {x}, ![j].off = @ \cup Off(x, removed),
                          ![j].new = IF tells /\ ~Known(j, n) THEN @ \cup {n} ELSE @,
                          ![j].mail = IF tells /\ ~Known(j, n) THEN @ \cup MessagesOf(n) ELSE @]
    /\ UNCHANGED <<now, paying, row, bell, out, twice, undone, dropped, overtaken, jobDeaths>>

Written(pass, off) ==
    [u \in Users |-> IF u \notin off THEN row[u]
                     ELSE IF pass = "subs" THEN [row[u] EXCEPT !.sub = FALSE]
                     ELSE [row[u] EXCEPT !.dev = FALSE]]

(* The end of a pass. *)
EndPass(j) ==
    LET q == job[j] IN
    /\ q.pass \in Passes /\ q.looked /\ q.todo = {}
    /\ IF q.pass \in Commits
       THEN /\ bell' = bell \cup q.new
            /\ row' = Written(q.pass, q.off)
            /\ job' = [job EXCEPT ![j] = [q EXCEPT !.pass = After[q.pass], !.looked = FALSE,
                                                   !.new = {}, !.off = {}, !.at = 0]]
       ELSE /\ job' = [job EXCEPT ![j] = [q EXCEPT !.pass = After[q.pass], !.looked = FALSE]]
            /\ UNCHANGED <<bell, row>>
    /\ UNCHANGED <<now, paying, out, twice, undone, dropped, overtaken, jobDeaths>>

(* A task of the job runs: send_email or telegram.send, which never raise.
   Whether the other side takes it is not known here. *)
Send(j) ==
    /\ \E m \in job[j].mail :
         /\ job' = [job EXCEPT ![j].mail = @ \ {m}]
         /\ out' = out \cup {m}
         /\ twice' = twice \cup (out \cap {m})
    /\ UNCHANGED <<now, paying, row, bell, undone, dropped, overtaken, jobDeaths>>

(* Mutated form: the job ends without waiting. *)
DrainedAtOnce(j) == TRUE

Drained(j) == job[j].mail = {}

Exit(j) ==
    /\ job[j].pass = "drain" /\ Drained(j)
    /\ job' = [job EXCEPT ![j] = Idle]
    /\ UNCHANGED <<now, paying, row, bell, out, twice, undone, dropped, overtaken, jobDeaths>>

(* An exception out of main, a kill, a reboot. *)
JobDies(j) ==
    /\ job[j] # Idle /\ jobDeaths < MaxJobDeaths
    /\ jobDeaths' = jobDeaths + 1
    /\ undone' = undone \cup job[j].new
    /\ dropped' = dropped \cup job[j].mail
    /\ job' = [job EXCEPT ![j] = Idle]
    /\ UNCHANGED <<now, paying, row, bell, out, twice, overtaken>>

JobStep(j) == StartRun(j) \/ Look(j) \/ NobodyDue(j) \/ Remind(j) \/ EndPass(j) \/ Send(j) \/ Exit(j)
              \/ \E x \in job[j].todo, removed \in BOOLEAN : Sweep(j, x, removed)

NoticesNext ==
    \/ TimePasses
    \/ \E u \in Users : StartTrial(u) \/ \E p \in Requests : LoadUser(p, u)
    \/ \E x \in paying : Pay(x) \/ PayFails(x)
    \/ \E j \in Jobs : JobStep(j) \/ JobDies(j)

NoticesSpec == NoticesInit /\ [][NoticesNext]_noticesVars

----------------------------------------------------------------------------
(* What is checked. *)

(* notify.py: "several runs inside one window give one message".  A message
   goes out twice only for a notice whose row was lost with its run. *)
ToldOnce == \A m \in twice : m[1] \in undone

(* A notice in the bell has its letter and its Telegram message sent or still
   to be sent by a run that is up, unless they died with one. *)
NoticesGoOut ==
    \A n \in bell : MessagesOf(n) \subseteq out \cup dropped \cup UNION {job[j].mail : j \in Jobs}

(* A customer whose subscription was cleared has been told that this period
   ended: the flag and the notice stand or fall together, whatever run dies or
   fails.  The exceptions: a customer whose payment commits while a run has them
   on its list, and one whose flag a run cleared after the payment had loaded it
   as up, so that the payment does not write it.  Both stand without the flag of
   a period that has just begun, and untold, until they pay again. *)
ClearedIsTold ==
    \A u \in Users : row[u].end # 0 /\ ~row[u].sub /\ u \notin overtaken
        => <<u, "sub_ended", row[u].end>> \in bell
============================================================================
