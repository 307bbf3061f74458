------------------------------- MODULE Monitor ------------------------------
(***************************************************************************)
(* The watch over the service: sov-monitor on a host of its own            *)
(* (infrastructure/monitoring/sov_monitor.py), which probes the others,    *)
(* writes to a Telegram chat and reports to the portal, and the portal's   *)
(* record of the reports (pwa/api/monitor.py).                             *)
(*                                                                         *)
(* A run can be cut off between any two of its effects, and a message can  *)
(* be taken while its answer is lost.  The program writes down what it     *)
(* told only after it was told that the message was taken.                 *)
(*                                                                         *)
(* There is no clock: a reminder may become due at any time.  The digest   *)
(* and the notice of a reboot matter only as a further line of the message *)
(* (`extra').                                                              *)
(***************************************************************************)
EXTENDS Integers, FiniteSets

CONSTANTS
    Hosts,
    Kinds,      \* of problem a host's own probe shows
    Confirm     \* confirm_runs

ASSUME MonitorAssumption == Confirm \in Nat \ {0} /\ "down" \notin Kinds

Down(h) == <<h, "down">>
Keys    == Hosts \X (Kinds \cup {"down"})

VARIABLES
    bad,      \* the problems there are (external)
    up,       \* the hosts that answer (external)
    file,     \* state.json: how often a problem was seen, whether it was told
    run,      \* the run of sov-monitor under way
    chat,     \* the chat's last word on each problem (external)
    events,   \* open monitor_events, the portal's own excepted
    streak,   \* history: runs in a row that saw the problem, up to Confirm
    excused,  \* history: problems whose count outlived a run it should not have
    torn,     \* history: problems told in a run that did not save
    agreed    \* history: the last run saved and reported

monitorVars == <<file, run, streak, excused, torn>>
vars == <<bad, up, chat, agreed, events, monitorVars>>

-----------------------------------------------------------------------------
\* An entry of state.json.  A count above Confirm is as good as Confirm.
Entry  == [count : 0..Confirm, sent : {"no", "recent", "due"}]
Absent == [count |-> 0, sent |-> "no"]

NoRun == [pc |-> "idle", file |-> [k \in Keys |-> Absent], reds |-> {},
          greens |-> {}, answered |-> {}, saved |-> FALSE]

TypeOK ==
    /\ bad \subseteq Hosts \X Kinds /\ up \subseteq Hosts
    /\ file \in [Keys -> Entry]
    /\ run \in [pc : {"idle", "send", "save", "report"}, file : [Keys -> Entry],
                reds : SUBSET Keys, greens : SUBSET Keys,
                answered : SUBSET Hosts, saved : BOOLEAN]
    /\ chat \in [Keys -> {"none", "red", "green"}]
    /\ events \subseteq Keys
    /\ agreed \in BOOLEAN
    /\ streak \in [Keys -> 0..Confirm]
    /\ excused \subseteq Keys /\ torn \subseteq Keys

-----------------------------------------------------------------------------
(* One run of sov-monitor: what it makes of the probes                     *)

Open == {k \in Keys : file[k].count > 0}
Told == {k \in Keys : file[k].sent # "no"}

\* host_problems: what a host that answers shows, or that it does not.
Seen(answered) == {k \in bad : k[1] \in answered} \cup {Down(h) : h \in Hosts \ answered}

\* main: what was open for a host that does not answer stays open.  (Names with
\* an underscore are faulty variants the properties are shown to catch.)
Carried_None(answered) == {}
Carried_All(answered) == {k \in Open : k[2] # "down"}
Carried(answered) == {k \in Open : k[1] \notin answered /\ k[2] # "down"}

\* step: one more sighting, at most Confirm.
Counted_Anew(k) == 1
Counted(k) == IF file[k].count < Confirm THEN file[k].count + 1 ELSE Confirm

\* step: a confirmed problem is told once and again when a reminder is due.
ToTell_Always(k) == file[k].sent # "recent"
ToTell(k) == Counted(k) >= Confirm /\ file[k].sent # "recent"

\* step: the entry to keep if the message is taken.
NewEntry_Unsent(k) == [count |-> Counted(k), sent |-> file[k].sent]
NewEntry(k) == [count |-> Counted(k),
                sent  |-> IF ToTell(k) THEN "recent" ELSE file[k].sent]

\* step: a told problem that is gone is told to be over.
Over(problems) == Told \ problems

Init ==
    /\ bad = {} /\ up = Hosts
    /\ file = [k \in Keys |-> Absent] /\ run = NoRun
    /\ chat = [k \in Keys |-> "none"]
    /\ events = {} /\ agreed = FALSE
    /\ streak = [k \in Keys |-> 0] /\ excused = {} /\ torn = {}

-----------------------------------------------------------------------------
(* The world                                                               *)

Breaks(k) == /\ k \in (Hosts \X Kinds) \ bad
             /\ bad' = bad \cup {k}
             /\ UNCHANGED <<up, chat, agreed, monitorVars, events>>

Recovers(k) == /\ k \in bad
               /\ bad' = bad \ {k}
               /\ UNCHANGED <<up, chat, agreed, monitorVars, events>>

HostTurns(h) == /\ up' = IF h \in up THEN up \ {h} ELSE up \cup {h}
                /\ UNCHANGED <<bad, chat, agreed, monitorVars, events>>

\* remind_h hours passed since the problem was told.
ReminderDue(k) ==
    /\ run.pc = "idle" /\ file[k].sent = "recent"
    /\ file' = [file EXCEPT ![k].sent = "due"]
    /\ UNCHANGED <<bad, up, chat, agreed, run, streak, excused, torn, events>>

-----------------------------------------------------------------------------
(* One run of sov-monitor: its effects                                     *)

\* main up to the message: the probes, load_state, step.
Probe(answered, extra) ==
    LET seen     == Seen(answered)
        problems == seen \cup Carried(answered)
        reds     == {k \in problems : ToTell(k)}
        greens   == Over(problems)
    IN
    /\ run.pc = "idle" /\ answered \subseteq up
    /\ run' = [pc |-> IF reds = {} /\ greens = {} /\ ~extra THEN "save" ELSE "send",
               file |-> [k \in Keys |-> IF k \in problems THEN NewEntry(k) ELSE Absent],
               reds |-> reds, greens |-> greens, answered |-> answered, saved |-> FALSE]
    /\ streak' = [k \in Keys |-> IF k \notin seen THEN 0
                                 ELSE IF streak[k] < Confirm THEN streak[k] + 1 ELSE Confirm]
    /\ excused' = excused \cup Carried(answered)
    /\ agreed' = FALSE
    /\ UNCHANGED <<bad, up, chat, file, torn, events>>

InChat == [k \in Keys |-> IF k \in run.reds THEN "red"
                          ELSE IF k \in run.greens THEN "green" ELSE chat[k]]

\* send_telegram: taken.
Sent ==
    /\ run.pc = "send"
    /\ chat' = InChat
    /\ run' = [run EXCEPT !.pc = "save"]
    /\ UNCHANGED <<bad, up, agreed, file, streak, excused, torn, events>>

\* send_telegram: refused, or taken with the answer lost.  The state is not
\* saved: what the run counted is forgotten.
AfterRefusal == "report"

NotSent(taken) ==
    /\ run.pc = "send"
    /\ chat' = IF taken THEN InChat ELSE chat
    /\ torn' = IF taken THEN torn \cup run.reds ELSE torn
    /\ excused' = excused \cup Open
    /\ run' = [run EXCEPT !.pc = AfterRefusal]
    /\ UNCHANGED <<bad, up, agreed, file, streak, events>>

\* save_state: the file is replaced at once.
Save ==
    /\ run.pc = "save"
    /\ file' = run.file
    /\ run' = [run EXCEPT !.pc = "report", !.saved = TRUE]
    /\ excused' = {k \in excused : run.file[k].count > 0}
    /\ torn' = {k \in torn : run.file[k].sent = "no"}
    /\ UNCHANGED <<bad, up, chat, agreed, streak, events>>

\* build_report: the confirmed problems, saved or not.
Reported == {k \in Keys : run.file[k].count >= Confirm}

\* send_report, and receive on the portal: events open and close, but for the
\* portal's own.
Report ==
    /\ run.pc = "report"
    /\ events' = Reported
    /\ agreed' = run.saved
    /\ run' = NoRun
    /\ UNCHANGED <<bad, up, chat, file, streak, excused, torn>>

ReportLost ==
    /\ run.pc = "report"
    /\ run' = NoRun
    /\ UNCHANGED <<bad, up, chat, agreed, file, streak, excused, torn, events>>

\* The run is killed: a reboot, a full disk under the file.
RunDies ==
    /\ run.pc # "idle"
    /\ run' = NoRun
    /\ torn' = IF run.pc = "save" THEN torn \cup run.reds ELSE torn
    /\ excused' = IF run.pc = "report" THEN excused ELSE excused \cup Open
    /\ UNCHANGED <<bad, up, chat, agreed, file, streak, events>>

-----------------------------------------------------------------------------
World == \/ \E k \in Keys : Breaks(k) \/ Recovers(k) \/ ReminderDue(k)
         \/ \E h \in Hosts : HostTurns(h)

RunStep == \/ \E answered \in SUBSET Hosts, extra \in BOOLEAN : Probe(answered, extra)
           \/ Sent \/ Save \/ Report \/ ReportLost \/ RunDies
           \/ \E taken \in BOOLEAN : NotSent(taken)

Next == World \/ RunStep

Spec == Init /\ [][Next]_vars

\* The timer starts the program again and again, and a run goes on by itself.
\* What is tried over and over works in the end: a probe of all the hosts that
\* are up, a message, the save.  Time passes, so a reminder falls due.
Fairness ==
    /\ WF_vars(RunStep)
    /\ SF_vars(\E extra \in BOOLEAN : Probe(up, extra))
    /\ SF_vars(Sent) /\ SF_vars(Save)
    /\ \A k \in Keys : SF_vars(ReminderDue(k))

FairSpec == Spec /\ Fairness

-----------------------------------------------------------------------------
(* Properties                                                              *)

\* The chat's last word and state.json agree between runs: a problem shown as
\* standing is one the file knows was told, so that its end will be told too.
\* The exception is a run cut off, or an answer lost, after the chat had the
\* message and before save_state.
ChatMatchesFile ==
    run.pc = "idle" => \A k \in Keys : chat[k] = "red" /\ k \notin torn => k \in Told

\* No false all-clear: what a host showed last is announced as over only by a
\* run in which the host answered (sov_monitor.py: "keep what was open for it
\* rather than announce it all as fixed").
NoFalseAllClear ==
    \A k \in run.greens : k[2] # "down" => k[1] \in run.answered

\* A first alarm follows sightings in Confirm runs in a row, as the program's
\* header says, except where the count survived a run that did not see the
\* problem: the host did not answer, or the run's state was not saved.
ToldInARow ==
    \A k \in run.reds : k \notin Told \cup excused => streak[k] >= Confirm

\* The two views agree: after a run that saved its state and reached the portal
\* the open events are the problems the chat was told of.
ViewsAgree == (run.pc = "idle" /\ agreed) => events = Told

\* The chat, state.json and the portal's record tell one story.
RecordsAgree == ChatMatchesFile /\ ViewsAgree

\* A problem that stays is told, or its host's silence is.  When an all-clear
\* reached the chat in a run that did not save, and the problem is back, it is
\* the reminder that tells it.
StandingIsTold ==
    \A k \in Hosts \X Kinds :
        <>[](k \in bad) => []<>(chat[k] = "red" \/ chat[Down(k[1])] = "red")

\* A told problem that is gone for good, on a host that keeps answering, is told
\* to be over, unless its alarm was torn.
EndIsTold ==
    \A k \in Hosts \X Kinds :
        <>[](k \notin bad /\ (run.pc # "idle" => k[1] \in run.answered))
            => []<>(chat[k] # "red" \/ k \in torn)
=============================================================================
