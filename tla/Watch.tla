------------------------------- MODULE Watch --------------------------------
(***************************************************************************)
(* The portal's watch over the monitor: the letter about its silence and   *)
(* the one about its return (pwa/services/monitor_watch.py, by cron every  *)
(* five minutes), and the state page made of the last report               *)
(* (pwa/services/monitor_view.py).  What the monitor itself does, and the  *)
(* other events of the record, are in Monitor.                             *)
(*                                                                         *)
(* One check is a look, a letter and a commit; a report may come in        *)
(* between, and the check can be cut off anywhere.  Only one runs at a     *)
(* time: a letter takes at most 15 s.                                      *)
(***************************************************************************)
EXTENDS Integers, FiniteSets

CONSTANTS
    Servers,     \* the hosts of sov-monitor's configuration
    Linked,      \* those with links to other nodes
    Stale,       \* STALE_AFTER_S, in ticks
    MaxProblems  \* bound: problems in one report

ASSUME WatchAssumption ==
    Linked \subseteq Servers /\ Stale \in Nat /\ "web" \notin Servers /\ MaxProblems \in Nat

VARIABLES
    age,      \* ticks since the last report, up to Stale + 1
    report,   \* monitor_reports: the last report, or NoReport
    open,     \* an open event "portal:monitor-silent"
    check,    \* the check under way
    letter,   \* the last letter Resend took (external)
    again,    \* history: a letter followed one that said the same
    halved    \* history: a letter was taken and its check did not commit

watchVars == <<age, report, open, check, letter, again, halved>>

(* Keys of problems: of a host, of its links, of the site. *)
ProblemKeys == (Servers \X {"own"}) \cup (Linked \X {"link"}) \cup {<<"web", "own">>}
NoReport == [answered |-> {}, problems |-> {}, came |-> FALSE]
NoCheck == [pc |-> "idle", says |-> "none"]

WatchInit ==
    /\ age = 0 /\ report = NoReport /\ open = FALSE
    /\ check = NoCheck /\ letter = "none" /\ again = FALSE /\ halved = FALSE

----------------------------------------------------------------------------
Tick ==
    /\ age' = IF age > Stale THEN age ELSE age + 1
    /\ UNCHANGED <<report, open, check, letter, again, halved>>

(* receive: the report replaces the last one; the portal's own event is left
   alone.  A host that does not answer is itself a problem once confirmed. *)
receive(answered, problems) ==
    /\ Cardinality(problems) <= MaxProblems
    /\ report' = [answered |-> answered, problems |-> problems, came |-> TRUE]
    /\ age' = 0
    /\ UNCHANGED <<open, check, letter, again, halved>>

Silent == age > Stale

(* Mutated form: the letter goes out at every check. *)
SaysEveryTime(isOpen) == IF Silent THEN "alarm" ELSE IF isOpen THEN "clear" ELSE "none"

(* Mutated form: the event is never closed. *)
SaysNoReturn(isOpen) == IF Silent /\ ~isOpen THEN "alarm" ELSE "none"

(* What a check has to say: an alarm once, an all-clear once. *)
Says(isOpen) ==
    IF Silent THEN IF isOpen THEN "none" ELSE "alarm"
    ELSE IF isOpen THEN "clear" ELSE "none"

(* watch, up to the letter; a portal that never had a report says nothing. *)
look ==
    /\ check = NoCheck /\ report.came /\ Says(open) # "none"
    /\ check' = [pc |-> "send", says |-> Says(open)]
    /\ UNCHANGED <<age, report, open, letter, again, halved>>

Take ==
    /\ letter' = check.says
    /\ again' = (again \/ (letter = check.says /\ ~halved))

LetterSent ==
    /\ check.pc = "send"
    /\ Take
    /\ check' = [check EXCEPT !.pc = "commit"]
    /\ UNCHANGED <<age, report, open, halved>>

(* send_email says False: refused, or taken with the answer lost.
   'alert-failed', 'recovery-failed': the event stays as it was. *)
Refused ==
    /\ check.pc = "send"
    /\ check' = NoCheck
    /\ UNCHANGED <<age, report, open, letter, again, halved>>

AnswerLost ==
    /\ check.pc = "send"
    /\ Take
    /\ check' = NoCheck /\ halved' = TRUE
    /\ UNCHANGED <<age, report, open>>

commit ==
    /\ check.pc = "commit"
    /\ open' = (check.says = "alarm")
    /\ check' = NoCheck /\ halved' = FALSE
    /\ UNCHANGED <<age, report, letter, again>>

CheckDies ==
    /\ check # NoCheck
    /\ halved' = (halved \/ check.pc = "commit")
    /\ check' = NoCheck
    /\ UNCHANGED <<age, report, open, letter, again>>

CheckStep == look \/ LetterSent \/ Refused \/ AnswerLost \/ commit

WatchNext ==
    \/ Tick \/ CheckStep \/ CheckDies
    \/ \E answered \in SUBSET Servers, problems \in SUBSET ProblemKeys : receive(answered, problems)

(* Cron starts the check again and again, and one that is tried over and over
   gets through. *)
WatchFairness == WF_watchVars(CheckStep) /\ SF_watchVars(LetterSent) /\ SF_watchVars(commit)

----------------------------------------------------------------------------
(* The state page. *)

Level == [ok |-> 0, unknown |-> 1, warn |-> 2, bad |-> 3]

(* mine: the problems of a host that are not its links'. *)
Mine(h) == {k \in report.problems : k[1] = h /\ k[2] # "link"}

(* Levels of problems are the monitor's; any of them will do here. *)
Colour(problems) == IF problems = {} THEN "ok" ELSE "bad"

(* The site's lines are its checked pages and certificates; there is at least
   one, or the card would be "unknown". *)
SiteCard == [problems |-> {k \in report.problems : k[1] = "web"},
             status |-> Colour({k \in report.problems : k[1] = "web"})]
HostCard(h) == [problems |-> Mine(h),
                status |-> IF h \in report.answered THEN Colour(Mine(h)) ELSE "bad"]

(* Mutated form: a host that does not answer is passed over. *)
LinkProblemsSeen == {k \in report.problems : k[1] \in report.answered /\ k[2] = "link"}

LinkProblems == {k \in report.problems : k[1] \in Linked /\ k[2] = "link"}
LinkCard == [problems |-> LinkProblems,
             status |-> IF Linked \cap report.answered = {} /\ LinkProblems = {} THEN "unknown"
                        ELSE Colour(LinkProblems)]
Cards == {SiteCard} \cup {HostCard(h) : h \in Servers} \cup (IF Linked = {} THEN {} ELSE {LinkCard})

Worst(cards) == CHOOSE s \in {c.status : c \in cards} : \A c \in cards : Level[c.status] <= Level[s]

PageStatus == IF ~report.came \/ Silent THEN "unknown" ELSE Worst(Cards)

----------------------------------------------------------------------------
(* What is checked. *)

(* Alarm, all-clear, alarm: a letter repeats the one before it only if that one
   was taken in a check that was cut off or whose answer was lost; and between
   checks the open event says what the last letter said. *)
LettersAlternate ==
    /\ ~again
    /\ check = NoCheck /\ ~halved => (open <=> letter = "alarm")

(* The page is green only while the monitor is heard and shows nothing wrong,
   and every problem of the last report is on a card. *)
PageIsHonest ==
    /\ PageStatus = "ok" => ~Silent /\ report.problems = {} /\ report.answered = Servers
    /\ report.problems \subseteq UNION {c.problems : c \in Cards}

(* A monitor that stays silent is told of, and so is its return, unless the
   letter before was taken by a check that did not commit: after an alarm of
   that kind the return is not told, and after an all-clear of that kind the
   event is still open and the next silence is not. *)
SilenceIsTold ==
    /\ <>[](report.came /\ Silent) => []<>(letter = "alarm" \/ halved)
    /\ <>[]~Silent => []<>(letter # "alarm" \/ halved)
============================================================================
