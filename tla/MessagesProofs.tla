--------------------------- MODULE MessagesProofs ---------------------------
(***************************************************************************)
(* What goes out, and to whom: the monitor's alarms (Monitor), the watch's *)
(* letters and the support desk (Operator), and what customers are told of *)
(* their periods (Notices).  Each is proved by itself: of the other two    *)
(* specifications nothing is assumed.                                      *)
(***************************************************************************)
EXTENDS Monitor, Operator, Notices, TLAPS

-----------------------------------------------------------------------------
(* The monitor, for any hosts, kinds of problem and confirm_runs.  The     *)
(* invariants follow one run: what its new state says in terms of the old  *)
(* file (Entries), what the chat will show in terms of both (ChatInv), and *)
(* how far the counts are backed by sightings (CountInv).                  *)

\* In state.json, and in the state a run is about to save, the problems told
\* are the confirmed ones.
Confirmed(f) == \A k \in Keys : f[k].sent # "no" <=> f[k].count >= Confirm

\* What a run will tell, against its new state and the file it read.
Entries ==
    /\ Confirmed(file) /\ Confirmed(run.file)
    /\ \A k \in run.reds : run.file[k].count >= Confirm
    /\ run.pc \in {"send", "save"} =>
         \A k \in Told \ run.greens : run.file[k].sent # "no"
    /\ run.pc = "report" /\ run.saved => file = run.file
    /\ run.saved => run.pc = "report"

\* What the chat shows as standing is in the state that will count: the file,
\* or, once the message is out, the state to be saved.
ChatInv ==
    \A k \in Keys : chat[k] = "red" /\ k \notin torn =>
        /\ run.pc # "save" => k \in Told
        /\ run.pc = "save" => run.file[k].sent # "no" /\ (k \in run.reds \/ k \in Told)

\* A count no run carried over is backed by as many sightings in a row.
CountInv ==
    \A k \in Keys \ excused :
        /\ run.file[k].count <= streak[k]
        /\ run.pc \in {"idle", "report"} => file[k].count <= streak[k]

\* Only between runs do the views agree for certain.
ViewsInv == agreed => run.pc = "idle" /\ events = Told

\* Together with TypeOK, the inductive invariant.
Safe == Entries /\ ChatInv /\ CountInv /\ NoFalseAllClear /\ ViewsInv

-----------------------------------------------------------------------------
(* Types                                                                   *)

\* A run between its probes and its report.
Run == [pc : {"idle", "send", "save", "report"}, file : [Keys -> Entry],
        reds : SUBSET Keys, greens : SUBSET Keys, answered : SUBSET Hosts, saved : BOOLEAN]

\* No run, and no entry.
LEMMA NoRunFacts ==
  /\ NoRun \in Run
  /\ NoRun.pc = "idle" /\ NoRun.reds = {} /\ NoRun.greens = {} /\ ~NoRun.saved
  /\ NoRun.file = [k \in Keys |-> Absent]
  /\ Absent \in Entry /\ Absent.count = 0 /\ Absent.sent = "no"
  BY MonitorAssumption DEF NoRun, Run, Absent, Entry

\* The problems a run finds, and the entries it makes of them.
LEMMA ProblemsFacts ==
  ASSUME TypeOK, NEW answered \in SUBSET Hosts
  PROVE  /\ Seen(answered) \cup Carried(answered) \subseteq Keys
         /\ \A k \in Keys : NewEntry(k) \in Entry
  BY MonitorAssumption DEF TypeOK, Seen, Carried, Open, Down, Keys, NewEntry, Counted, ToTell, Entry

\* What a run holds after its probes.
LEMMA ProbeRun ==
  ASSUME TypeOK, NEW answered \in SUBSET Hosts, NEW extra \in BOOLEAN, Probe(answered, extra)
  PROVE  LET problems == Seen(answered) \cup Carried(answered) IN
         /\ run' \in Run
         /\ run'.pc \in {"send", "save"}
         /\ run'.file = [k \in Keys |-> IF k \in problems THEN NewEntry(k) ELSE Absent]
         /\ run'.reds = {k \in problems : ToTell(k)}
         /\ run'.greens = Told \ problems
         /\ run'.answered = answered
         /\ ~run'.saved
         /\ run'.pc = "save" => run'.reds = {} /\ run'.greens = {}
  <1> DEFINE problems == Seen(answered) \cup Carried(answered)
             newFile == [k \in Keys |-> IF k \in problems THEN NewEntry(k) ELSE Absent]
             reds == {k \in problems : ToTell(k)}
             greens == Told \ problems
             pc == IF reds = {} /\ greens = {} /\ ~extra THEN "save" ELSE "send"
  <1>1. run' = [pc |-> pc, file |-> newFile, reds |-> reds, greens |-> greens,
                answered |-> answered, saved |-> FALSE]
    BY DEF Probe, Over
  <1>2. newFile \in [Keys -> Entry] /\ reds \in SUBSET Keys /\ greens \in SUBSET Keys
    BY ProblemsFacts, NoRunFacts DEF Told
  <1>3. pc \in {"send", "save"} /\ (pc = "save" => reds = {} /\ greens = {})
    OBVIOUS
  <1> HIDE DEF newFile, reds, greens, pc
  <1>4. run' \in Run
    BY <1>1, <1>2, <1>3 DEF Run
  <1>5. /\ run'.pc = pc /\ run'.file = newFile /\ run'.reds = reds /\ run'.greens = greens
        /\ run'.answered = answered /\ ~run'.saved
    BY <1>1
  <1> USE DEF newFile, reds, greens
  <1> QED BY <1>3, <1>4, <1>5

\* Every step keeps the types.
LEMMA TypeStep == ASSUME TypeOK, [Next]_vars PROVE TypeOK'
  <1> USE MonitorAssumption DEF TypeOK
  <1>0. run \in Run
    BY DEF Run
  <1>1. ASSUME NEW k \in Keys, Breaks(k) \/ Recovers(k) PROVE TypeOK'
    BY <1>1 DEF Breaks, Recovers, monitorVars
  <1>2. ASSUME NEW k \in Keys, ReminderDue(k) PROVE TypeOK'
    <2>1. [file[k] EXCEPT !.sent = "due"] \in Entry
      BY DEF Entry
    <2>2. file' \in [Keys -> Entry]
      BY <1>2, <2>1 DEF ReminderDue
    <2> QED BY <1>2, <2>2 DEF ReminderDue
  <1>3. ASSUME NEW h \in Hosts, HostTurns(h) PROVE TypeOK'
    BY <1>3 DEF HostTurns, monitorVars
  <1>4. ASSUME NEW answered \in SUBSET Hosts, NEW extra \in BOOLEAN, Probe(answered, extra)
        PROVE TypeOK'
    <2>1. run' \in Run
      BY <1>4, ProbeRun
    <2>2. streak' \in [Keys -> 0..Confirm]
      BY <1>4 DEF Probe
    <2>3. excused' \subseteq Keys
      BY <1>4, ProblemsFacts DEF Probe
    <2> QED BY <1>4, <2>1, <2>2, <2>3 DEF Probe, Run
  <1>5. ASSUME NEW pc \in {"save", "report"}, NEW saved \in BOOLEAN PROVE
           [run EXCEPT !.pc = pc] \in Run /\ [run EXCEPT !.pc = pc, !.saved = saved] \in Run
    BY <1>0 DEF Run
  <1>6. CASE Sent
    <2>1. chat' \in [Keys -> {"none", "red", "green"}]
      BY <1>6 DEF Sent, InChat
    <2> QED BY <1>5, <1>6, <2>1 DEF Sent, Run
  <1>7. ASSUME NEW taken \in BOOLEAN, NotSent(taken) PROVE TypeOK'
    <2>1. chat' \in [Keys -> {"none", "red", "green"}]
      BY <1>7 DEF NotSent, InChat
    <2>2. torn' \subseteq Keys /\ excused' \subseteq Keys
      BY <1>7 DEF NotSent, Open
    <2> QED BY <1>5, <1>7, <2>1, <2>2 DEF NotSent, AfterRefusal, Run
  <1>8. CASE Save
    BY <1>5, <1>8 DEF Save, Run
  <1>9. CASE Report
    BY <1>9, NoRunFacts DEF Report, Reported, Run
  <1>10. CASE ReportLost \/ RunDies
    BY <1>10, NoRunFacts DEF ReportLost, RunDies, Run, Open
  <1>11. CASE UNCHANGED vars
    BY <1>11 DEF vars, monitorVars
  <1> QED
    BY <1>1, <1>2, <1>3, <1>4, <1>6, <1>7, <1>8, <1>9, <1>10, <1>11 DEF Next, World, RunStep

-----------------------------------------------------------------------------
(* One lemma per action                                                    *)

\* The entry a run makes of a problem it finds again.
LEMMA EntryFacts ==
  ASSUME TypeOK, Confirmed(file), NEW k \in Keys
  PROVE  /\ NewEntry(k).sent # "no" <=> NewEntry(k).count >= Confirm
         /\ file[k].sent # "no" => NewEntry(k).sent # "no"
         /\ ToTell(k) => NewEntry(k).count >= Confirm
         /\ NewEntry(k).count = Counted(k) /\ Counted(k) \in Nat
         /\ file[k].count \in Nat /\ Counted(k) <= file[k].count + 1 /\ Counted(k) <= Confirm
  BY MonitorAssumption DEF TypeOK, Confirmed, NewEntry, ToTell, Counted, Entry

\* The probes: a new state is made of the file, nothing is written yet.
LEMMA ProbeStep ==
  ASSUME TypeOK, Safe, NEW answered \in SUBSET Hosts, NEW extra \in BOOLEAN,
         Probe(answered, extra)
  PROVE  Safe'
  <1> USE MonitorAssumption DEF TypeOK
  <1> DEFINE problems == Seen(answered) \cup Carried(answered)
  <1>1. /\ run'.pc \in {"send", "save"} /\ ~run'.saved /\ run'.answered = answered
        /\ run'.file = [k \in Keys |-> IF k \in problems THEN NewEntry(k) ELSE Absent]
        /\ run'.reds = {k \in problems : ToTell(k)} /\ run'.greens = Told \ problems
        /\ run'.pc = "save" => run'.reds = {} /\ run'.greens = {}
    BY ProbeRun
  <1>2. problems \subseteq Keys
    BY ProblemsFacts
  <1>3. file' = file /\ chat' = chat /\ torn' = torn /\ run.pc = "idle" /\ ~agreed'
    BY DEF Probe
  <1>4. Told' = Told /\ Confirmed(file)
    BY <1>3 DEF Told, Safe, Entries
  <1>5. Entries'
    <2>1. Confirmed(file') /\ Confirmed(run'.file)
      BY <1>1, <1>3, <1>4, EntryFacts, NoRunFacts DEF Confirmed
    <2>2. \A k \in run'.reds : run'.file[k].count >= Confirm
      BY <1>1, <1>2, <1>4, EntryFacts
    <2>3. \A k \in Told' \ run'.greens : run'.file[k].sent # "no"
      BY <1>1, <1>4, EntryFacts DEF Told
    <2> QED BY <1>1, <2>1, <2>2, <2>3 DEF Entries, Confirmed
  <1>6. ChatInv'
    <2> SUFFICES ASSUME NEW k \in Keys, chat[k] = "red", k \notin torn
                 PROVE  /\ k \in Told'
                        /\ run'.pc = "save" => run'.file[k].sent # "no"
      BY <1>3 DEF ChatInv
    <2>1. k \in Told
      BY <1>3 DEF Safe, ChatInv
    <2>2. run'.pc = "save" => k \notin run'.greens
      BY <1>1
    <2> QED BY <1>1, <1>4, <1>5, <2>1, <2>2 DEF Entries
  <1>7. CountInv'
    <2> SUFFICES ASSUME NEW k \in Keys, k \notin excused'
                 PROVE  run'.file[k].count <= streak'[k]
      BY <1>1 DEF CountInv
    <2>1. k \notin excused /\ k \notin Carried(answered)
      BY DEF Probe
    <2>2. file[k].count <= streak[k] /\ streak[k] \in 0..Confirm
      BY <1>3, <2>1 DEF Safe, CountInv
    <2>3. streak'[k] = IF k \notin Seen(answered) THEN 0
                       ELSE IF streak[k] < Confirm THEN streak[k] + 1 ELSE Confirm
      BY DEF Probe
    <2>4. CASE k \in Seen(answered)
      BY <1>1, <1>4, <2>2, <2>3, <2>4, EntryFacts
    <2>5. CASE k \notin Seen(answered)
      BY <1>1, <2>1, <2>3, <2>5, NoRunFacts
    <2> QED BY <2>4, <2>5
  <1>8. NoFalseAllClear'
    <2> SUFFICES ASSUME NEW k \in run'.greens, k[2] # "down", k[1] \notin answered PROVE FALSE
      BY <1>1 DEF NoFalseAllClear
    <2>1. k \in Keys /\ k \in Told /\ k \notin Carried(answered)
      BY <1>1 DEF Told
    <2>2. file[k].count > 0
      BY <1>4, <2>1 DEF Confirmed, Told, Entry
    <2> QED BY <2>1, <2>2 DEF Carried, Open
  <1>9. ViewsInv'
    BY <1>3 DEF ViewsInv
  <1> QED BY <1>5, <1>6, <1>7, <1>8, <1>9 DEF Safe

\* The message is out, and the run goes on to save.
LEMMA SentStep == ASSUME TypeOK, Safe, Sent PROVE Safe'
  <1> USE MonitorAssumption DEF TypeOK
  <1>1. /\ run.pc = "send" /\ run'.pc = "save" /\ run'.file = run.file /\ run'.reds = run.reds
        /\ run'.greens = run.greens /\ run'.answered = run.answered /\ run'.saved = run.saved
        /\ file' = file /\ torn' = torn /\ excused' = excused /\ streak' = streak
        /\ chat' = InChat /\ Told' = Told /\ agreed' = agreed
    BY DEF Sent, Told
  <1>2. Entries'
    BY <1>1 DEF Safe, Entries, Confirmed
  <1>3. ChatInv'
    <2> SUFFICES ASSUME NEW k \in Keys, InChat[k] = "red", k \notin torn
                 PROVE  run.file[k].sent # "no" /\ (k \in run.reds \/ k \in Told)
      BY <1>1 DEF ChatInv
    <2>1. CASE k \in run.reds
      BY <2>1 DEF Safe, Entries, Confirmed
    <2>2. CASE k \notin run.reds
      <3>1. k \notin run.greens /\ chat[k] = "red"
        BY <2>2 DEF InChat
      <3>2. k \in Told
        BY <1>1, <3>1 DEF Safe, ChatInv
      <3> QED BY <1>1, <3>1, <3>2 DEF Safe, Entries
    <2> QED BY <2>1, <2>2
  <1>4. CountInv' /\ NoFalseAllClear' /\ ViewsInv'
    BY <1>1 DEF Safe, CountInv, NoFalseAllClear, ViewsInv
  <1> QED BY <1>2, <1>3, <1>4 DEF Safe

\* The message was refused, or taken with its answer lost.
LEMMA NotSentStep ==
  ASSUME TypeOK, Safe, NEW taken \in BOOLEAN, NotSent(taken) PROVE Safe'
  <1> USE MonitorAssumption DEF TypeOK
  <1>1. /\ run.pc = "send" /\ run'.pc = "report" /\ run'.file = run.file /\ run'.reds = run.reds
        /\ run'.greens = run.greens /\ run'.answered = run.answered /\ run'.saved = run.saved
        /\ file' = file /\ excused' = excused \cup Open /\ streak' = streak
        /\ chat' = IF taken THEN InChat ELSE chat
        /\ torn' = IF taken THEN torn \cup run.reds ELSE torn
        /\ Told' = Told /\ Open' = Open /\ agreed' = agreed
    BY DEF NotSent, AfterRefusal, Told, Open
  <1>2. Entries'
    BY <1>1 DEF Safe, Entries, Confirmed
  <1>3. ChatInv'
    <2> SUFFICES ASSUME NEW k \in Keys, chat'[k] = "red", k \notin torn' PROVE k \in Told
      BY <1>1 DEF ChatInv
    <2>1. chat[k] = "red" /\ k \notin torn
      BY <1>1 DEF InChat
    <2> QED BY <1>1, <2>1 DEF Safe, ChatInv
  <1>4. CountInv'
    <2> SUFFICES ASSUME NEW k \in Keys, k \notin excused, k \notin Open
                 PROVE  run.file[k].count <= streak[k] /\ file[k].count <= streak[k]
      BY <1>1 DEF CountInv
    <2>1. file[k].count = 0 /\ streak[k] \in Nat
      BY DEF Open, Entry
    <2> QED BY <2>1 DEF Safe, CountInv
  <1>5. NoFalseAllClear' /\ ViewsInv'
    BY <1>1 DEF Safe, NoFalseAllClear, ViewsInv
  <1> QED BY <1>2, <1>3, <1>4, <1>5 DEF Safe

\* The new state becomes the file.
LEMMA SaveStep == ASSUME TypeOK, Safe, Save PROVE Safe'
  <1> USE MonitorAssumption DEF TypeOK
  <1>1. /\ run.pc = "save" /\ run'.pc = "report" /\ run'.file = run.file /\ run'.reds = run.reds
        /\ run'.greens = run.greens /\ run'.answered = run.answered
        /\ file' = run.file /\ chat' = chat /\ streak' = streak
        /\ excused' = {k \in excused : run.file[k].count > 0}
        /\ torn' = {k \in torn : run.file[k].sent = "no"} /\ agreed' = agreed
    BY DEF Save
  <1>2. Entries'
    BY <1>1 DEF Safe, Entries, Confirmed, Told
  <1>3. ChatInv'
    BY <1>1 DEF Safe, ChatInv, Told
  <1>4. CountInv'
    <2> SUFFICES ASSUME NEW k \in Keys, k \notin excused'
                 PROVE  run.file[k].count <= streak[k]
      BY <1>1 DEF CountInv
    <2>1. CASE k \in excused
      BY <1>1, <2>1 DEF Entry
    <2>2. CASE k \notin excused
      BY <2>2 DEF Safe, CountInv
    <2> QED BY <2>1, <2>2
  <1>5. NoFalseAllClear' /\ ViewsInv'
    BY <1>1 DEF Safe, NoFalseAllClear, ViewsInv
  <1> QED BY <1>2, <1>3, <1>4, <1>5 DEF Safe

\* A run is over: reported, not reported, or killed.
LEMMA EndStep == ASSUME TypeOK, Safe, Report \/ ReportLost \/ RunDies PROVE Safe'
  <1> USE MonitorAssumption DEF TypeOK
  <1>1. run' = NoRun /\ file' = file /\ chat' = chat /\ streak' = streak /\ Told' = Told
    BY DEF Report, ReportLost, RunDies, Told
  <1>2. Entries' /\ NoFalseAllClear'
    BY <1>1, NoRunFacts DEF Safe, Entries, Confirmed, NoFalseAllClear
  <1>3. ChatInv'
    <2> SUFFICES ASSUME NEW k \in Keys, chat[k] = "red", k \notin torn' PROVE k \in Told
      BY <1>1, NoRunFacts DEF ChatInv
    <2>1. k \notin torn /\ (run.pc = "save" => k \notin run.reds)
      BY DEF Report, ReportLost, RunDies
    <2> QED BY <2>1 DEF Safe, ChatInv
  <1>4. CountInv'
    <2> SUFFICES ASSUME NEW k \in Keys, k \notin excused' PROVE file[k].count <= streak[k]
      BY <1>1, NoRunFacts DEF CountInv
    <2>1. k \notin excused /\ (run.pc # "report" => k \notin Open)
      BY DEF Report, ReportLost, RunDies
    <2> QED BY <2>1 DEF Safe, CountInv, Open, Entry
  <1>5. ViewsInv'
    <2>1. CASE Report
      <3>1. agreed' => events' = {k \in Keys : file[k].count >= Confirm}
        BY <2>1 DEF Report, Reported, Safe, Entries
      <3> QED BY <1>1, <3>1, NoRunFacts DEF ViewsInv, Safe, Entries, Confirmed, Told
    <2>2. CASE ReportLost \/ RunDies
      BY <2>2, <1>1, NoRunFacts DEF ReportLost, RunDies, Safe, ViewsInv
    <2> QED BY <2>1, <2>2
  <1> QED BY <1>2, <1>3, <1>4, <1>5 DEF Safe

\* The world moves, or a reminder falls due.
LEMMA WorldStep == ASSUME TypeOK, Safe, World \/ UNCHANGED vars PROVE Safe'
  <1> USE MonitorAssumption DEF TypeOK
  <1>1. ASSUME UNCHANGED <<monitorVars, chat, agreed, events>> PROVE Safe'
    BY <1>1 DEF monitorVars, Safe, Entries, Confirmed, ChatInv, CountInv, NoFalseAllClear,
                ViewsInv, Told
  <1>2. ASSUME NEW k \in Keys, ReminderDue(k) PROVE Safe'
    <2>1. /\ run' = run /\ chat' = chat /\ torn' = torn /\ excused' = excused
          /\ streak' = streak /\ agreed' = agreed /\ events' = events /\ run.pc = "idle"
      BY <1>2 DEF ReminderDue
    <2>2. \A q \in Keys : /\ file'[q].count = file[q].count
                          /\ file'[q].sent # "no" <=> file[q].sent # "no"
      BY <1>2 DEF ReminderDue, Entry
    <2>3. Told' = Told
      BY <2>2 DEF Told
    <2>4. ~run.saved
      BY <2>1 DEF Safe, Entries
    <2> QED BY <2>1, <2>2, <2>3, <2>4 DEF Safe, Entries, Confirmed, ChatInv, CountInv,
                                          NoFalseAllClear, ViewsInv
  <1>3. ASSUME NEW k \in Keys, Breaks(k) \/ Recovers(k) PROVE Safe'
    BY <1>1, <1>3 DEF Breaks, Recovers
  <1>4. ASSUME NEW h \in Hosts, HostTurns(h) PROVE Safe'
    BY <1>1, <1>4 DEF HostTurns
  <1>5. CASE UNCHANGED vars
    BY <1>1, <1>5 DEF vars
  <1> QED BY <1>2, <1>3, <1>4, <1>5 DEF World

-----------------------------------------------------------------------------
\* The invariant holds at first ...
LEMMA InitSafe == Init => TypeOK /\ Safe
  <1> SUFFICES ASSUME Init PROVE TypeOK /\ Safe
    OBVIOUS
  <1> USE MonitorAssumption
  <1>1. file \in [Keys -> Entry] /\ run \in Run
    BY NoRunFacts DEF Init
  <1>2. chat \in [Keys -> {"none", "red", "green"}] /\ streak \in [Keys -> 0..Confirm]
    BY DEF Init
  <1>3. TypeOK
    BY <1>1, <1>2 DEF Init, TypeOK, Run
  <1>4. /\ Told = {} /\ run.reds = {} /\ run.greens = {} /\ run.pc = "idle" /\ ~run.saved
        /\ \A k \in Keys : /\ file[k].count = 0 /\ file[k].sent = "no"
                          /\ run.file[k].count = 0 /\ run.file[k].sent = "no"
    BY NoRunFacts DEF Init, Told
  <1>5. \A k \in Keys : streak[k] = 0 /\ chat[k] = "none"
    BY DEF Init
  <1>6. Entries /\ ChatInv /\ CountInv /\ NoFalseAllClear
    BY <1>4, <1>5 DEF Entries, Confirmed, ChatInv, CountInv, NoFalseAllClear
  <1>7. ViewsInv
    BY DEF Init, ViewsInv
  <1> QED BY <1>3, <1>6, <1>7 DEF Safe

\* ... and through every step.
LEMMA SafeStep == TypeOK /\ Safe /\ [Next]_vars => (TypeOK /\ Safe)'
  BY TypeStep, ProbeStep, SentStep, NotSentStep, SaveStep, EndStep, WorldStep DEF Next, RunStep

\* Every variable of the monitor keeps its type, wherever a run is cut off.
THEOREM MonitorTypes == Spec => []TypeOK
  BY InitSafe, SafeStep, PTL DEF Spec

\* No false all-clear: a problem is announced as over only by a run in which its
\* host answered (main keeps what was open for a silent host).
THEOREM NoFalseEnd == Spec => []NoFalseAllClear
  <1>1. Safe => NoFalseAllClear
    BY DEF Safe
  <1> QED BY <1>1, InitSafe, SafeStep, PTL DEF Spec

\* Chat and state.json agree between runs, but for alarms taken in a run that
\* did not save: the message goes out before save_state.
THEOREM ChatAndFile == Spec => []ChatMatchesFile
  <1>1. Safe => ChatMatchesFile
    BY DEF Safe, ChatInv, ChatMatchesFile
  <1> QED BY <1>1, InitSafe, SafeStep, PTL DEF Spec

\* A first alarm follows confirm_runs sightings in a row, unless a run carried
\* the count over a silence or lost what it counted.
THEOREM AlarmsAreConfirmed == Spec => []ToldInARow
  <1>1. TypeOK /\ Safe => ToldInARow
    BY MonitorAssumption DEF TypeOK, Safe, Entries, CountInv, ToldInARow, Entry
  <1> QED BY <1>1, InitSafe, SafeStep, PTL DEF Spec

\* After a run that saved and reported, the portal's open events are the
\* problems the chat was told of (build_report, receive).
THEOREM TwoViewsAgree == Spec => []ViewsAgree
  <1>1. Safe => ViewsAgree
    BY DEF Safe, ViewsInv, ViewsAgree
  <1> QED BY <1>1, InitSafe, SafeStep, PTL DEF Spec

\* The three records at once: the chat, state.json and the portal's open events
\* differ only after a message torn from its save or a report that was lost.
THEOREM ThreeRecordsAgree == Spec => []RecordsAgree
  BY ChatAndFile, TwoViewsAgree, PTL DEF RecordsAgree

-----------------------------------------------------------------------------
(* The watch's letters and the support desk, for any hosts, any time-out   *)
(* and any number of customers, messages and restarts.                     *)

(* A check that is about to send says the opposite of the event it has read,
   one that is about to commit has said it, and no check changes the event in
   between. *)
WatchInv ==
    /\ age \in Nat /\ open \in BOOLEAN /\ halved \in BOOLEAN
    /\ check \in [pc : {"idle", "send", "commit"}, says : {"none", "alarm", "clear"}]
    /\ check.pc = "idle" => check = NoCheck
    /\ again = FALSE
    /\ check.pc # "commit" /\ ~halved => (open <=> letter = "alarm")
    /\ check.pc = "send" => check.says = IF open THEN "clear" ELSE "alarm"
    /\ check.pc = "commit" => letter = check.says

States == {"unwritten", "queued", "forwarding", "saving", "handled"}

SupportTypes ==
    /\ update \in [Messages -> States]
    /\ kind \in [Messages -> MessageKinds]
    /\ told \in [Messages -> MessageKinds \cup {"nothing", "received", "refused", "too_many"}]
    /\ desk \in [Messages -> Nat]
    /\ deaths \in Nat

(* The copies of a message are paid for by restarts, but for the one of a
   delivery that has come past the forwarding; and only words are copied. *)
Copies(m) ==
    /\ told[m] = "received" => m \in rows /\ desk[m] > 0
    /\ update[m] = "saving" => desk[m] > 0
    /\ desk[m] <= deaths + 1
    /\ update[m] \in {"unwritten", "queued", "forwarding"} => desk[m] <= deaths
    /\ kind[m] # "words" => desk[m] = 0 /\ update[m] \notin {"forwarding", "saving"}

SupportInv == SupportTypes /\ \A m \in Messages : Copies(m)

LEMMA InitInvs == OperatorInit => WatchInv /\ SupportInv
<1> SUFFICES ASSUME OperatorInit PROVE WatchInv /\ SupportInv
    OBVIOUS
<1>1. WatchInv
    BY DEF OperatorInit, WatchInit, WatchInv, NoCheck
<1>2. SupportInv
    BY DEF OperatorInit, SupportInit, SupportInv, SupportTypes, Copies, States
<1> QED
    BY <1>1, <1>2

LEMMA WatchStep == WatchInv /\ [WatchNext]_watchVars => WatchInv'
<1> SUFFICES ASSUME WatchInv, [WatchNext]_watchVars PROVE WatchInv'
    OBVIOUS
<1> USE DEF WatchInv, NoCheck
<1>1. CASE Tick
    BY <1>1 DEF Tick
<1>2. CASE look
    BY <1>2 DEF look, Says
<1>3. CASE LetterSent
    BY <1>3 DEF LetterSent, Take
<1>4. CASE Refused
    BY <1>4 DEF Refused
<1>5. CASE AnswerLost
    BY <1>5 DEF AnswerLost, Take
<1>6. CASE commit
    BY <1>6 DEF commit
<1>7. CASE CheckDies
    BY <1>7 DEF CheckDies
<1>8. ASSUME NEW answered, NEW problems, receive(answered, problems) PROVE WatchInv'
    BY <1>8 DEF receive
<1>9. CASE UNCHANGED watchVars
    BY <1>9 DEF watchVars
<1> QED
    BY <1>1, <1>2, <1>3, <1>4, <1>5, <1>6, <1>7, <1>8, <1>9 DEF WatchNext, CheckStep

LEMMA SupportStep == SupportInv /\ [SupportNext]_supportVars => SupportInv'
<1> SUFFICES ASSUME SupportInv, [SupportNext]_supportVars PROVE SupportInv'
    OBVIOUS
<1> SupportTypes /\ \A m \in Messages : Copies(m)
    BY DEF SupportInv
<1>1. ASSUME NEW m \in Messages, Write(m) PROVE SupportInv'
    <2>1. SupportTypes'
        BY <1>1 DEF Write, SupportTypes, States
    <2>2. Copies(m)'
        BY <1>1 DEF Write, SupportTypes, Copies
    <2>3. ASSUME NEW n \in Messages, n # m PROVE Copies(n)'
        BY <1>1, <2>3 DEF Write, SupportTypes, Copies
    <2> QED
        BY <2>1, <2>2, <2>3 DEF SupportInv
<1>2. ASSUME NEW m \in Messages, ToSupport(m) PROVE SupportInv'
    <2>1. SupportTypes'
        BY <1>2 DEF ToSupport, SupportTypes, States
    <2>2. Copies(m)'
        BY <1>2 DEF ToSupport, SupportTypes, Copies
    <2>3. ASSUME NEW n \in Messages, n # m PROVE Copies(n)'
        BY <1>2, <2>3 DEF ToSupport, SupportTypes, Copies
    <2> QED
        BY <2>1, <2>2, <2>3 DEF SupportInv
<1>3. ASSUME NEW m \in Messages, Forwarded(m) PROVE SupportInv'
    <2>1. SupportTypes'
        BY <1>3 DEF Forwarded, AfterForward, SupportTypes, States
    <2>2. Copies(m)'
        BY <1>3 DEF Forwarded, AfterForward, SupportTypes, Copies
    <2>3. ASSUME NEW n \in Messages, n # m PROVE Copies(n)'
        BY <1>3, <2>3 DEF Forwarded, AfterForward, SupportTypes, Copies
    <2> QED
        BY <2>1, <2>2, <2>3 DEF SupportInv
<1>4. ASSUME NEW m \in Messages, NotForwarded(m) PROVE SupportInv'
    <2>1. SupportTypes'
        BY <1>4 DEF NotForwarded, SupportTypes, States
    <2>2. Copies(m)'
        BY <1>4 DEF NotForwarded, SupportTypes, Copies
    <2>3. ASSUME NEW n \in Messages, n # m PROVE Copies(n)'
        BY <1>4, <2>3 DEF NotForwarded, SupportTypes, Copies
    <2> QED
        BY <2>1, <2>2, <2>3 DEF SupportInv
<1>5. ASSUME NEW m \in Messages, RowSaved(m) PROVE SupportInv'
    <2>1. SupportTypes'
        BY <1>5 DEF RowSaved, SupportTypes, States
    <2>2. Copies(m)'
        BY <1>5 DEF RowSaved, SupportTypes, Copies
    <2>3. ASSUME NEW n \in Messages, n # m PROVE Copies(n)'
        BY <1>5, <2>3 DEF RowSaved, SupportTypes, Copies
    <2> QED
        BY <2>1, <2>2, <2>3 DEF SupportInv
<1>6. ASSUME NEW m \in Messages, RowRefused(m) PROVE SupportInv'
    <2>1. SupportTypes'
        BY <1>6 DEF RowRefused, SupportTypes, States
    <2>2. Copies(m)'
        BY <1>6 DEF RowRefused, SupportTypes, Copies
    <2>3. ASSUME NEW n \in Messages, n # m PROVE Copies(n)'
        BY <1>6, <2>3 DEF RowRefused, SupportTypes, Copies
    <2> QED
        BY <2>1, <2>2, <2>3 DEF SupportInv
<1>7. CASE PortalDies
    <2>1. SupportTypes'
        BY <1>7 DEF PortalDies, SupportTypes, States
    <2>2. ASSUME NEW n \in Messages PROVE Copies(n)'
        BY <1>7 DEF PortalDies, SupportTypes, Copies, States
    <2> QED
        BY <2>1, <2>2 DEF SupportInv
<1>8. CASE HourPasses
    BY <1>8 DEF HourPasses, SupportInv, SupportTypes, Copies
<1>9. CASE UNCHANGED supportVars
    BY <1>9 DEF supportVars, SupportInv, SupportTypes, Copies
<1>10. ASSUME NEW m \in Messages, AnsweredAtOnce(m) PROVE SupportInv'
    <2>1. SupportTypes'
        BY <1>10 DEF AnsweredAtOnce, SupportTypes, States
    <2>2. Copies(m)'
        BY <1>10 DEF AnsweredAtOnce, SupportTypes, MessageKinds, Copies
    <2>3. ASSUME NEW n \in Messages, n # m PROVE Copies(n)'
        BY <1>10, <2>3 DEF AnsweredAtOnce, SupportTypes, Copies
    <2> QED
        BY <2>1, <2>2, <2>3 DEF SupportInv
<1> QED
    BY <1>1, <1>2, <1>3, <1>4, <1>5, <1>6, <1>7, <1>8, <1>9, <1>10 DEF SupportNext, Handling

LEMMA NextInvs == WatchInv /\ SupportInv /\ [OperatorNext]_operatorVars => (WatchInv /\ SupportInv)'
BY WatchStep, SupportStep DEF OperatorNext, operatorVars

(* monitor_watch.py: alarm, all-clear, alarm.  No letter repeats the one before
   it, and between checks the event says what the last letter said, unless a
   letter was taken by a check that did not commit. *)
THEOREM AlarmAndAllClear == OperatorSpec => []LettersAlternate
<1>1. WatchInv => LettersAlternate
    BY DEF WatchInv, LettersAlternate, NoCheck
<1> QED
    BY InitInvs, NextInvs, <1>1, PTL DEF OperatorSpec

(* handle and _to_support: a customer who was told "received" can be answered,
   only a restart shows the operator a message twice, and a connection file is
   passed on to nobody. *)
THEOREM ReceivedMeansAnswerable == OperatorSpec => []ReceivedCanBeAnswered
<1>1. SupportInv => ReceivedCanBeAnswered
    BY DEF SupportInv, SupportTypes, Copies, ReceivedCanBeAnswered, Answerable
<1> QED
    BY InitInvs, NextInvs, <1>1, PTL DEF OperatorSpec

----------------------------------------------------------------------------
(* The state page. *)

ReportInv == report.answered \subseteq Servers /\ report.problems \subseteq ProblemKeys

LEMMA ReportStep == ReportInv /\ [OperatorNext]_operatorVars => ReportInv'
<1> SUFFICES ASSUME ReportInv, [OperatorNext]_operatorVars PROVE ReportInv'
    OBVIOUS
<1>1. ASSUME NEW answered \in SUBSET Servers, NEW problems \in SUBSET ProblemKeys, receive(answered, problems)
      PROVE  ReportInv'
    BY <1>1 DEF receive, ReportInv
<1>2. CASE UNCHANGED report
    BY <1>2 DEF ReportInv
<1>3. \/ UNCHANGED report
      \/ \E answered \in SUBSET Servers, problems \in SUBSET ProblemKeys : receive(answered, problems)
    BY DEF OperatorNext, operatorVars, watchVars, WatchNext, CheckStep, Tick, look,
           LetterSent, Take, Refused, AnswerLost,
           commit, CheckDies
<1> QED
    BY <1>1, <1>2, <1>3

Shades == {"ok", "unknown", "warn", "bad"}

LEMMA CardsHaveShades == \A c \in Cards : c.status \in Shades
BY DEF Cards, SiteCard, HostCard, LinkCard, Colour, Shades

LEMMA Levels == Level.ok = 0 /\ Level.unknown = 1 /\ Level.warn = 2 /\ Level.bad = 3
BY DEF Level

LEMMA SomeWorst ==
    ASSUME NEW S, S \subseteq Shades, S # {}
    PROVE  \E s \in S : \A t \in S : Level[t] <= Level[s]
<1>1. \A t \in S : t \in Shades /\ Level[t] \in 0..3
    BY Levels DEF Shades
<1>2. CASE "bad" \in S
    BY <1>1, <1>2, Levels
<1>3. CASE "bad" \notin S /\ "warn" \in S
    BY <1>1, <1>3, Levels DEF Shades
<1>4. CASE "bad" \notin S /\ "warn" \notin S /\ "unknown" \in S
    BY <1>1, <1>4, Levels DEF Shades
<1>5. CASE "bad" \notin S /\ "warn" \notin S /\ "unknown" \notin S
    <2>1. \A t \in S : t = "ok"
        BY <1>5 DEF Shades
    <2> QED
        BY <2>1, Levels
<1> QED
    BY <1>2, <1>3, <1>4, <1>5

(* The page's status is not better than any card's. *)
LEMMA WorstIsWorst == \A c \in Cards : Worst(Cards) = "ok" => c.status = "ok"
<1>1. PICK S : S = {c.status : c \in Cards}
    OBVIOUS
<1>2. S \subseteq Shades /\ S # {}
    BY <1>1, CardsHaveShades DEF Cards
<1>3. PICK s \in S : \A t \in S : Level[t] <= Level[s]
    BY <1>2, SomeWorst
<1>4. \A c \in Cards : c.status \in S /\ Level[c.status] <= Level[s]
    BY <1>1, <1>3
<1>5. s \in {c.status : c \in Cards}
    BY <1>1
<1>6. \A c \in Cards : Level[c.status] <= Level[Worst(Cards)]
    BY <1>4, <1>5 DEF Worst
<1>7. ASSUME NEW c \in Cards, Worst(Cards) = "ok" PROVE c.status = "ok"
    BY <1>6, <1>7, CardsHaveShades, Levels DEF Shades
<1> QED
    BY <1>7

(* monitor_view.build: the page is green only while the monitor is heard, every
   host answers and nothing is wrong, and no problem of the report is missing
   from the cards, whatever hosts and links there are. *)
THEOREM PageTellsTheReport == OperatorSpec => []PageIsHonest
<1>1. OperatorInit => ReportInv
    BY DEF OperatorInit, WatchInit, NoReport, ReportInv
<1>2. ReportInv => PageIsHonest
    <2> SUFFICES ASSUME ReportInv PROVE PageIsHonest
        OBVIOUS
    <2>1. ASSUME NEW k \in report.problems
          PROVE  \E c \in Cards : k \in c.problems /\ c.status # "ok"
        <3>1. CASE k[1] = "web"
            <4>1. SiteCard \in Cards /\ k \in SiteCard.problems /\ SiteCard.status # "ok"
                BY <3>1 DEF Cards, SiteCard, Colour
            <4> QED
                BY <4>1
        <3>2. CASE k[1] \in Servers /\ k[2] = "own"
            <4>1. k \in Mine(k[1])
                BY <3>2 DEF Mine
            <4>2. k \in HostCard(k[1]).problems /\ HostCard(k[1]).status # "ok"
                BY <4>1 DEF HostCard, Colour
            <4> QED
                BY <3>2, <4>2 DEF Cards
        <3>3. CASE k[1] \in Linked /\ k[2] = "link"
            <4>1. k \in LinkProblems
                BY <3>3 DEF LinkProblems
            <4>2. k \in LinkCard.problems /\ LinkCard.status # "ok"
                BY <4>1 DEF LinkCard, Colour
            <4> QED
                BY <3>3, <4>2 DEF Cards
        <3> QED
            BY <3>1, <3>2, <3>3 DEF ReportInv, ProblemKeys
    <2>2. ASSUME PageStatus = "ok" PROVE ~Silent /\ Worst(Cards) = "ok"
        BY <2>2 DEF PageStatus
    <2>3. ASSUME NEW h \in Servers, HostCard(h).status = "ok" PROVE h \in report.answered
        BY <2>3 DEF HostCard
    <2>4. \A h \in Servers : HostCard(h) \in Cards
        BY DEF Cards
    <2> QED
        BY <2>1, <2>2, <2>3, <2>4, WorstIsWorst DEF PageIsHonest, ReportInv
<1> QED
    BY <1>1, <1>2, ReportStep, PTL DEF OperatorSpec

-----------------------------------------------------------------------------
(* What customers are told, for any number of customers, runs and deaths.  *)
(*                                                                         *)
(* A message belongs to a notice, and a notice is somewhere: in the bell,  *)
(* in the open transaction of one run, or lost with a run that died        *)
(* (Accounted).  A run that writes a notice has found it in neither of the *)
(* first two, so a message that waits was sent before, or waits in another *)
(* run too, only if its notice was lost once (Unsent).                     *)

\* A notice is in the bell, in an open transaction, or lost with its run.
Recorded(n) == n \in bell \cup undone \/ \E j \in Jobs : n \in job[j].new

Accounted ==
    /\ \A m \in out : Recorded(m[1])
    /\ \A j \in Jobs : \A m \in job[j].mail : Recorded(m[1])

\* A waiting message has not gone out and waits in one run only, but for the
\* notices lost once.
Unsent ==
    \A j \in Jobs : \A m \in job[j].mail :
        /\ m \in out => m[1] \in undone
        /\ \A i \in Jobs \ {j} : m \in job[i].mail => m[1] \in undone

\* Only a run in one of its passes has an open transaction.
Closed == \A j \in Jobs : job[j].pass \in {"idle", "drain"} => job[j].new = {}

\* The messages of a notice not yet committed are its own run's.
OwnMail == \A j \in Jobs : \A n \in job[j].new : MessagesOf(n) \subseteq out \cup job[j].mail

\* A customer whose end a run has written is told with the same commit; one who
\* is still to be swept has the end the run loaded.
SweepInv ==
    \A j \in Jobs : job[j].pass = "subs" =>
        /\ \A u \in job[j].off \ overtaken : <<u, "sub_ended", row[u].end>> \in bell \cup job[j].new
        /\ \A x \in job[j].todo : x.user \in overtaken \/ x.end = row[x.user].end

ToldInv == Accounted /\ Unsent /\ Closed /\ ToldOnce

SentInv == OwnMail /\ NoticesGoOut

ClearedInv == SweepInv /\ ClearedIsTold

-----------------------------------------------------------------------------
\* The passes by name.
LEMMA PassNames ==
  /\ Passes = {"subs", "trials", "remind", "remind_trials"}
  /\ \A p \in Passes : After[p] \in {"trials", "remind", "remind_trials", "drain"}
  /\ \A p \in Passes : After[p] = "drain" => p = "remind_trials"
  BY DEF Passes, After

\* A run that has not begun.
LEMMA IdleIsJob ==
  /\ Idle \in Job
  /\ Idle.pass = "idle" /\ Idle.todo = {} /\ Idle.new = {} /\ Idle.off = {} /\ Idle.mail = {}
  BY DEF Idle, Job

\* A message carries its notice.
LEMMA MessageOfNotice ==
  ASSUME NEW n \in Notice
  PROVE  /\ MessagesOf(n) \subseteq Message
         /\ \A m \in MessagesOf(n) : m[1] = n
  BY DEF MessagesOf, Message

\* What a pass says is a notice.
LEMMA KindIsNotice ==
  ASSUME NEW j \in Jobs, job[j].pass \in Passes, NEW x \in Customer
  PROVE  <<x.user, KindFor(j, x), x.end>> \in Notice
  <1>1. KindFor(j, x) \in NoticeKinds
    BY PassNames DEF KindFor, NoticeKinds, Lettered
  <1> QED BY <1>1 DEF Notice, Customer

-----------------------------------------------------------------------------
\* Every step keeps the types.
LEMMA NoticeTypeStep == ASSUME NoticesTypeOK, [NoticesNext]_noticesVars PROVE NoticesTypeOK'
  <1> USE NoticesAssumption DEF NoticesTypeOK
  <1>1. CASE TimePasses
    BY <1>1 DEF TimePasses
  <1>2. ASSUME NEW x \in paying, Pay(x) PROVE NoticesTypeOK'
    <2> DEFINE Row == [end : Nat, sub : BOOLEAN, trial : Nat, dev : BOOLEAN]
               u == x.user
               trial == IF x.trial > now THEN now ELSE row[u].trial
    <2>1. u \in Users /\ Extended(x.end) \in Nat /\ trial \in Nat /\ x.sub \in BOOLEAN
      BY DEF Activating, Extended
    <2>2. row[u].sub \in BOOLEAN /\ row[u].dev \in BOOLEAN /\ row[u] \in Row
      BY <2>1
    <2>3. PICK dev \in {row[u].dev, FALSE} : row' = [row EXCEPT ![u] = [Paid(x) EXCEPT !.dev = dev]]
      BY <1>2 DEF Pay
    <2>4. Paid(x) = [row[u] EXCEPT !.end = Extended(x.end), !.sub = row[u].sub \/ ~x.sub, !.trial = trial]
      BY DEF Paid
    <2> HIDE DEF u, trial
    <2>5. [Paid(x) EXCEPT !.dev = dev] \in Row
      BY <2>1, <2>2, <2>4, Zenon
    <2>6. row' \in [Users -> Row]
      <3> HIDE DEF Row
      <3>1. row \in [Users -> Row]
        BY DEF Row
      <3> QED BY <2>3, <2>5, <3>1
    <2>7. overtaken' \subseteq Users /\ paying' \subseteq Activating
      BY <1>2, <2>1 DEF Pay, u
    <2> QED BY <1>2, <2>6, <2>7 DEF Pay
  <1>14. ASSUME NEW p \in Requests, NEW u \in Users, LoadUser(p, u) PROVE NoticesTypeOK'
    <2>1. [req |-> p, user |-> u, end |-> row[u].end, sub |-> row[u].sub, trial |-> row[u].trial] \in Activating
      BY DEF Activating
    <2> QED BY <1>14, <2>1 DEF LoadUser
  <1>15. ASSUME NEW x \in paying, PayFails(x) PROVE NoticesTypeOK'
    BY <1>15 DEF PayFails
  <1>3. ASSUME NEW u \in Users, StartTrial(u) PROVE NoticesTypeOK'
    <2>1. now + TrialDays \in Nat
      OBVIOUS
    <2> HIDE NoticesAssumption
    <2>2. [row[u] EXCEPT !.trial = now + TrialDays, !.dev = TRUE]
             \in [end : Nat, sub : BOOLEAN, trial : Nat, dev : BOOLEAN]
      BY <2>1, Zenon
    <2>3. row' = [row EXCEPT ![u] = [row[u] EXCEPT !.trial = now + TrialDays, !.dev = TRUE]]
      BY <1>3 DEF StartTrial
    <2> QED BY <1>3, <2>2, <2>3 DEF StartTrial
  <1>4. ASSUME NEW j \in Jobs, StartRun(j) PROVE NoticesTypeOK'
    <2>1. [Idle EXCEPT !.pass = "subs", !.began = now] \in Job
      BY PassNames DEF Idle, Job
    <2> QED BY <1>4, <2>1 DEF StartRun
  <1>5. ASSUME NEW j \in Jobs, Look(j) PROVE NoticesTypeOK'
    <2> DEFINE at == AtOf(j)
               kept == IF job[j].pass \in {"subs", "trials"} THEN 0 ELSE at
               found == {[user |-> u, end |-> EndOf(job[j].pass, u), paid |-> HasSubscription(u, at)]
                            : u \in Due(job[j].pass, at)}
    <2>1. at \in Nat
      BY DEF AtOf, Job
    <2>2. found \subseteq Customer
      <3>1. SUFFICES ASSUME NEW u \in Users
                     PROVE  [user |-> u, end |-> EndOf(job[j].pass, u), paid |-> HasSubscription(u, at)] \in Customer
        BY DEF Due
      <3>2. EndOf(job[j].pass, u) \in Nat
        BY DEF EndOf
      <3>3. HasSubscription(u, at) \in BOOLEAN
        BY DEF HasSubscription
      <3> HIDE DEF at
      <3> QED BY <3>2, <3>3, Zenon DEF Customer
    <2>3. [job[j] EXCEPT !.looked = TRUE, !.at = kept, !.todo = found] \in Job
      <3>1. kept \in Nat
        BY <2>1
      <3> HIDE DEF at, found, kept
      <3> QED BY <2>2, <3>1 DEF Job
    <2>4. job' = [job EXCEPT ![j] = [job[j] EXCEPT !.looked = TRUE, !.at = kept, !.todo = found]]
      BY <1>5 DEF Look
    <2> HIDE DEF at, found, kept
    <2>5. job' \in [Jobs -> Job]
      BY <2>3, <2>4
    <2>6. UNCHANGED <<now, paying, row, bell, out, twice, undone, dropped, overtaken, jobDeaths>>
      BY <1>5 DEF Look
    <2> QED BY <2>5, <2>6
  <1>6. ASSUME NEW j \in Jobs, NobodyDue(j) PROVE NoticesTypeOK'
    <2>1. AtOf(j) \in Nat
      BY DEF AtOf, Job
    <2> DEFINE q == job[j]
               next == IF q.new = {} THEN After[q.pass] ELSE q.pass
               at == IF q.pass = "remind" THEN AtOf(j) ELSE 0
    <2>2. next \in Passes \cup {"idle", "drain"} /\ at \in Nat
      BY <1>6, <2>1, PassNames DEF NobodyDue, Job
    <2>3. job' = [job EXCEPT ![j] = [q EXCEPT !.pass = next, !.looked = (q.new # {}), !.at = at]]
      BY <1>6 DEF NobodyDue
    <2>4. (q.new # {}) \in BOOLEAN
      OBVIOUS
    <2>5. [q EXCEPT !.pass = next, !.looked = (q.new # {}), !.at = at] \in Job
      <3> HIDE DEF next, at
      <3> QED BY <2>2, <2>4, Zenon DEF Job
    <2>6. job' \in [Jobs -> Job]
      <3> HIDE DEF next, at, q
      <3> QED BY <2>3, <2>5
    <2> QED BY <1>6, <2>6 DEF NobodyDue
  <1>7. ASSUME NEW j \in Jobs, Remind(j) PROVE NoticesTypeOK'
    <2>1. PICK x \in job[j].todo : Notify(j, <<x.user, KindFor(j, x), x.end>>)
      BY <1>7 DEF Remind
    <2> DEFINE n == <<x.user, KindFor(j, x), x.end>>
    <2>2. x \in Customer /\ job[j].pass \in Passes
      BY <1>7, PassNames DEF Remind, Job
    <2>3. n \in Notice /\ MessagesOf(n) \subseteq Message
      BY <2>2, KindIsNotice, MessageOfNotice
    <2> DEFINE left == {y \in job[j].todo : y.user # n[1]}
    <2>4. left \subseteq Customer /\ job[j].new \cup {n} \subseteq Notice
             /\ job[j].mail \cup MessagesOf(n) \subseteq Message
      BY <2>3 DEF Job
    <2>5. \/ job' = [job EXCEPT ![j] = [job[j] EXCEPT !.todo = left]]
          \/ job' = [job EXCEPT ![j] = [job[j] EXCEPT !.todo = left, !.new = job[j].new \cup {n},
                                                      !.mail = job[j].mail \cup MessagesOf(n)]]
      <3> HIDE DEF n
      <3> QED BY <2>1 DEF Notify, n
    <2>6. /\ [job[j] EXCEPT !.todo = left] \in Job
          /\ [job[j] EXCEPT !.todo = left, !.new = job[j].new \cup {n},
                            !.mail = job[j].mail \cup MessagesOf(n)] \in Job
      <3> HIDE DEF n, left
      <3> QED BY <2>4 DEF Job
    <2>7. job' \in [Jobs -> Job]
      <3> HIDE DEF n, left
      <3> QED BY <2>5, <2>6
    <2> QED BY <1>7, <2>7 DEF Remind
  <1>8. ASSUME NEW j \in Jobs, NEW x \in job[j].todo, NEW removed \in BOOLEAN, Sweep(j, x, removed)
        PROVE NoticesTypeOK'
    <2> DEFINE n == <<x.user, KindFor(j, x), x.end>>
    <2>1. x \in Customer /\ job[j].pass \in Passes
      BY <1>8, PassNames DEF Sweep, Job
    <2>2. n \in Notice /\ MessagesOf(n) \subseteq Message /\ Off(x, removed) \subseteq Users
      BY <2>1, KindIsNotice, MessageOfNotice DEF Off, Customer
    <2> DEFINE q == job[j]
               new == IF removed /\ (q.pass = "subs" \/ ~x.paid) /\ ~Known(j, n) THEN q.new \cup {n} ELSE q.new
               mail == IF removed /\ (q.pass = "subs" \/ ~x.paid) /\ ~Known(j, n)
                       THEN q.mail \cup MessagesOf(n) ELSE q.mail
               todo == q.todo \ {x}
               off == q.off \cup Off(x, removed)
    <2>4. todo \subseteq Customer /\ off \subseteq Users /\ new \subseteq Notice /\ mail \subseteq Message
      <3> HIDE DEF n
      <3> QED BY <2>2 DEF Job
    <2>5. job' = [job EXCEPT ![j] = [q EXCEPT !.todo = todo, !.off = off, !.new = new, !.mail = mail]]
      BY <1>8 DEF Sweep
    <2>3. job' \in [Jobs -> Job]
      <3>1. [q EXCEPT !.todo = todo, !.off = off, !.new = new, !.mail = mail] \in Job
        <4> HIDE DEF todo, off, new, mail
        <4> QED BY <2>4 DEF Job
      <3> HIDE DEF q, todo, off, new, mail
      <3> QED BY <2>5, <3>1
    <2> QED BY <1>8, <2>3 DEF Sweep
  <1>9. ASSUME NEW j \in Jobs, EndPass(j) PROVE NoticesTypeOK'
    <2>1. row' \in [Users -> [end : Nat, sub : BOOLEAN, trial : Nat, dev : BOOLEAN]]
      <3>1. \A u \in Users : /\ [row[u] EXCEPT !.sub = FALSE] \in [end : Nat, sub : BOOLEAN, trial : Nat, dev : BOOLEAN]
                              /\ [row[u] EXCEPT !.dev = FALSE] \in [end : Nat, sub : BOOLEAN, trial : Nat, dev : BOOLEAN]
        OBVIOUS
      <3>2. row' = row \/ row' = Written(job[j].pass, job[j].off)
        BY <1>9 DEF EndPass
      <3> QED BY <3>1, <3>2 DEF Written
    <2>2. job' \in [Jobs -> Job]
      <3> DEFINE q == job[j]
      <3>1. q.pass \in Passes /\ After[q.pass] \in Passes \cup {"idle", "drain"}
        BY <1>9, PassNames DEF EndPass
      <3>2. /\ [q EXCEPT !.pass = After[q.pass], !.looked = FALSE, !.new = {}, !.off = {}, !.at = 0] \in Job
            /\ [q EXCEPT !.pass = After[q.pass], !.looked = FALSE] \in Job
        BY <3>1, ZenonT(40) DEF Job
      <3> HIDE DEF q
      <3> QED BY <1>9, <3>2 DEF EndPass, q
    <2>3. bell' \subseteq Notice
      BY <1>9 DEF EndPass, Job
    <2> QED BY <1>9, <2>1, <2>2, <2>3 DEF EndPass
  <1>10. ASSUME NEW j \in Jobs, Send(j) PROVE NoticesTypeOK'
    BY <1>10, SMTT(20) DEF Send, Job
  <1>11. ASSUME NEW j \in Jobs, Exit(j) PROVE NoticesTypeOK'
    BY <1>11, IdleIsJob DEF Exit
  <1>12. ASSUME NEW j \in Jobs, JobDies(j) PROVE NoticesTypeOK'
    BY <1>12, IdleIsJob DEF JobDies, Job
  <1>13. CASE UNCHANGED noticesVars
    BY <1>13 DEF noticesVars
  <1> QED
    BY <1>1, <1>2, <1>3, <1>4, <1>5, <1>6, <1>7, <1>8, <1>9, <1>10, <1>11, <1>12, <1>13, <1>14, <1>15
    DEF NoticesNext, JobStep

\* The first state has the types.
LEMMA NoticeTypeInit == NoticesInit => NoticesTypeOK
  BY IdleIsJob DEF NoticesInit, NoticesTypeOK

\* The rows, the bell and the runs are what the tables and the job may hold.
THEOREM NoticeTypes == NoticesSpec => []NoticesTypeOK
  BY NoticeTypeInit, NoticeTypeStep, PTL DEF NoticesSpec

-----------------------------------------------------------------------------
(* What a step of a run does to notices and messages, seen from outside.   *)

\* Nothing ...
Quiet(j) ==
    /\ job'[j].new = job[j].new /\ job'[j].mail = job[j].mail
    /\ UNCHANGED <<bell, out, twice, undone, dropped>>

\* ... or it writes a notice that is nowhere, ...
Writes(j, n) ==
    /\ n \notin bell /\ \A i \in Jobs : n \notin job[i].new
    /\ job'[j].new = job[j].new \cup {n} /\ job'[j].mail = job[j].mail \cup MessagesOf(n)
    /\ UNCHANGED <<bell, out, twice, undone, dropped>>

\* ... or commits, ...
Commit(j) ==
    /\ bell' = bell \cup job[j].new
    /\ job'[j].new = {} /\ job'[j].mail = job[j].mail
    /\ UNCHANGED <<out, twice, undone, dropped>>

\* ... or sends a message, ...
Sends(j, m) ==
    /\ job'[j].new = job[j].new /\ job'[j].mail = job[j].mail \ {m}
    /\ out' = out \cup {m} /\ twice' = twice \cup (out \cap {m})
    /\ UNCHANGED <<bell, undone, dropped>>

\* ... or dies.
Dies(j) ==
    /\ job'[j].new = {} /\ job'[j].mail = {}
    /\ undone' = undone \cup job[j].new /\ dropped' = dropped \cup job[j].mail
    /\ UNCHANGED <<bell, out, twice>>

Effect(j) ==
    /\ \A i \in Jobs \ {j} : job'[i] = job[i]
    /\ \/ Quiet(j) \/ Commit(j) \/ Dies(j)
       \/ \E n \in Notice : Writes(j, n)
       \/ \E m \in job[j].mail : Sends(j, m)

\* There is no other effect.
LEMMA StepHasEffect ==
  ASSUME NoticesTypeOK, Closed, NEW j \in Jobs, JobStep(j) \/ JobDies(j)
  PROVE  Effect(j)
  <1> USE DEF NoticesTypeOK
  <1>1. CASE StartRun(j)
    BY <1>1, IdleIsJob DEF StartRun, Effect, Quiet, Idle
  <1>2. CASE Look(j)
    BY <1>2 DEF Look, Effect, Quiet, Job
  <1>3. CASE NobodyDue(j)
    <2> DEFINE p == IF job[j].new = {} THEN After[job[j].pass] ELSE job[j].pass
               t == IF job[j].pass = "remind" THEN AtOf(j) ELSE 0
    <2>1. job' = [job EXCEPT ![j] = [job[j] EXCEPT !.pass = p, !.looked = (job[j].new # {}), !.at = t]]
      BY <1>3 DEF NobodyDue
    <2> HIDE DEF p, t
    <2>2. /\ job'[j].new = job[j].new /\ job'[j].mail = job[j].mail
          /\ \A i \in Jobs \ {j} : job'[i] = job[i]
      BY <2>1 DEF Job
    <2> QED BY <1>3, <2>2 DEF NobodyDue, Effect, Quiet
  <1>4. CASE Remind(j)
    <2>1. PICK x \in job[j].todo : Notify(j, <<x.user, KindFor(j, x), x.end>>)
      BY <1>4 DEF Remind
    <2> DEFINE n == <<x.user, KindFor(j, x), x.end>>
    <2>2. n \in Notice
      BY <1>4, PassNames, KindIsNotice DEF Remind, Job
    <2> HIDE DEF n
    <2>3. Notify(j, n) /\ UNCHANGED <<bell, out, twice, undone, dropped>>
      BY <1>4, <2>1 DEF n, Remind
    <2>4. CASE Known(j, n)
      BY <2>3, <2>4 DEF Notify, Effect, Quiet, Job
    <2>5. CASE ~Known(j, n)
      <3>1. Writes(j, n)
        BY <2>3, <2>5 DEF Notify, Known, Writes, Job
      <3> QED BY <2>2, <2>3, <2>5, <3>1 DEF Notify, Effect, Job
    <2> QED BY <2>4, <2>5
  <1>5. ASSUME NEW x \in job[j].todo, NEW removed \in BOOLEAN, Sweep(j, x, removed) PROVE Effect(j)
    <2> DEFINE n == <<x.user, KindFor(j, x), x.end>>
               tells == removed /\ (job[j].pass = "subs" \/ ~x.paid)
    <2>1. n \in Notice
      BY <1>5, PassNames, KindIsNotice DEF Sweep, Job
    <2>2. /\ job' = [job EXCEPT ![j].todo = @ \ {x}, ![j].off = @ \cup Off(x, removed),
                                ![j].new = IF tells /\ ~Known(j, n) THEN @ \cup {n} ELSE @,
                                ![j].mail = IF tells /\ ~Known(j, n) THEN @ \cup MessagesOf(n) ELSE @]
          /\ tells => \A i \in Jobs \ {j} : n \notin job[i].new
          /\ UNCHANGED <<bell, out, twice, undone, dropped>>
      BY <1>5 DEF Sweep
    <2> HIDE DEF n, tells
    <2>3. CASE tells /\ ~Known(j, n)
      <3>1. Writes(j, n)
        BY <2>2, <2>3 DEF Known, Writes, Job
      <3> QED BY <2>1, <2>2, <3>1 DEF Effect, Job
    <2>4. CASE ~(tells /\ ~Known(j, n))
      BY <2>2, <2>4 DEF Effect, Quiet, Job
    <2> QED BY <2>3, <2>4
  <1>6. CASE EndPass(j)
    <2>1. CASE job[j].pass \in Commits
      <3>1. job' = [job EXCEPT ![j] = [job[j] EXCEPT !.pass = After[job[j].pass], !.looked = FALSE,
                                                     !.new = {}, !.off = {}, !.at = 0]]
        BY <1>6, <2>1 DEF EndPass
      <3>2. bell' = bell \cup job[j].new /\ UNCHANGED <<out, twice, undone, dropped>>
        BY <1>6, <2>1 DEF EndPass
      <3>3. /\ job'[j].new = {} /\ job'[j].mail = job[j].mail
            /\ \A i \in Jobs \ {j} : job'[i] = job[i]
        BY <3>1 DEF Job
      <3> QED BY <3>2, <3>3 DEF Effect, Commit
    <2>2. CASE job[j].pass \notin Commits
      <3>1. job' = [job EXCEPT ![j] = [job[j] EXCEPT !.pass = After[job[j].pass], !.looked = FALSE]]
        BY <1>6, <2>2 DEF EndPass
      <3>2. UNCHANGED <<bell, out, twice, undone, dropped>>
        BY <1>6, <2>2 DEF EndPass
      <3>3. /\ job'[j].new = job[j].new /\ job'[j].mail = job[j].mail
            /\ \A i \in Jobs \ {j} : job'[i] = job[i]
        BY <3>1 DEF Job
      <3> QED BY <3>2, <3>3 DEF Effect, Quiet
    <2> QED BY <2>1, <2>2
  <1>7. CASE Send(j)
    BY <1>7 DEF Send, Effect, Sends, Job
  <1>8. CASE Exit(j)
    BY <1>8, IdleIsJob DEF Exit, Drained, Closed, Effect, Quiet
  <1>9. CASE JobDies(j)
    BY <1>9, IdleIsJob DEF JobDies, Effect, Dies
  <1> QED
    BY <1>1, <1>2, <1>3, <1>4, <1>5, <1>6, <1>7, <1>8, <1>9 DEF JobStep

\* A step is a customer's or the clock's, or has an effect, or is a stutter.
LEMMA StepIsEffect ==
  ASSUME NoticesTypeOK, Closed, [NoticesNext]_noticesVars
  PROVE  (\E j \in Jobs : Effect(j)) \/ UNCHANGED <<bell, job, out, twice, undone, dropped>>
  <1>1. CASE TimePasses
    BY <1>1 DEF TimePasses
  <1>2. ASSUME \/ \E u \in Users : StartTrial(u) \/ \E p \in Requests : LoadUser(p, u)
               \/ \E x \in paying : Pay(x) \/ PayFails(x)
        PROVE  UNCHANGED <<bell, job, out, twice, undone, dropped>>
    BY <1>2 DEF Pay, PayFails, LoadUser, StartTrial
  <1>3. CASE UNCHANGED noticesVars
    BY <1>3 DEF noticesVars
  <1> QED BY <1>1, <1>2, <1>3, StepHasEffect DEF NoticesNext

\* Between its passes a run has no open transaction.
LEMMA ClosedStep == ASSUME NoticesTypeOK, Closed, [NoticesNext]_noticesVars PROVE Closed'
  <1> USE DEF NoticesTypeOK
  <1>1. CASE TimePasses
    BY <1>1 DEF TimePasses, Closed
  <1>2. ASSUME \/ \E u \in Users : StartTrial(u) \/ \E p \in Requests : LoadUser(p, u)
               \/ \E x \in paying : Pay(x) \/ PayFails(x)
        PROVE  Closed'
    BY <1>2 DEF Pay, PayFails, LoadUser, StartTrial, Closed
  <1>3. ASSUME NEW j \in Jobs, JobStep(j) \/ JobDies(j) PROVE Closed'
    <2>1. \A i \in Jobs \ {j} : job'[i] = job[i]
      BY <1>3, StepHasEffect DEF Effect
    <2>2. job'[j].pass \in {"idle", "drain"} => job'[j].new = {}
      <3>1. CASE StartRun(j)
        BY <3>1 DEF StartRun, Idle
      <3>2. CASE Look(j)
        BY <3>2, PassNames DEF Look, Job
      <3>3. CASE NobodyDue(j)
        <4> DEFINE p == IF job[j].new = {} THEN After[job[j].pass] ELSE job[j].pass
        <4> DEFINE t == IF job[j].pass = "remind" THEN AtOf(j) ELSE 0
        <4>1. job' = [job EXCEPT ![j] = [job[j] EXCEPT !.pass = p, !.looked = (job[j].new # {}), !.at = t]]
          BY <3>3 DEF NobodyDue
        <4>2. job'[j].pass = p /\ job'[j].new = job[j].new
          <5> HIDE DEF p, t
          <5> QED BY <4>1 DEF Job
        <4> QED BY <3>3, <4>2, PassNames DEF NobodyDue
      <3>4. CASE Remind(j)
        <4>1. PICK n : Notify(j, n)
          BY <3>4 DEF Remind
        <4>2. job'[j].pass = job[j].pass
          BY <4>1 DEF Notify, Job
        <4> QED BY <3>4, <4>2, PassNames DEF Remind
      <3>5. ASSUME NEW x \in job[j].todo, NEW removed \in BOOLEAN, Sweep(j, x, removed)
            PROVE  job'[j].pass \notin {"idle", "drain"}
        BY <3>5, PassNames DEF Sweep, Job
      <3>6. CASE EndPass(j)
        <4>1. CASE job[j].pass \in Commits
          BY <3>6, <4>1 DEF EndPass, Job
        <4>2. CASE job[j].pass \notin Commits
          <5>1. job[j].pass = "remind"
            BY <3>6, <4>2 DEF EndPass, Commits
          <5>2. job' = [job EXCEPT ![j] = [job[j] EXCEPT !.pass = After[job[j].pass], !.looked = FALSE]]
            BY <3>6, <4>2 DEF EndPass
          <5>3. job'[j].pass = After[job[j].pass]
            BY <5>2 DEF Job
          <5>4. After["remind"] = "remind_trials"
            BY DEF After
          <5> QED BY <5>1, <5>3, <5>4
        <4> QED BY <4>1, <4>2
      <3>7. CASE Send(j)
        BY <3>7 DEF Send, Closed, Job
      <3>8. CASE Exit(j) \/ JobDies(j)
        BY <3>8, IdleIsJob DEF Exit, JobDies
      <3> QED BY <1>3, <3>1, <3>2, <3>3, <3>4, <3>5, <3>6, <3>7, <3>8 DEF JobStep
    <2> QED BY <2>1, <2>2 DEF Closed
  <1>4. CASE UNCHANGED noticesVars
    BY <1>4 DEF noticesVars, Closed
  <1> QED BY <1>1, <1>2, <1>3, <1>4 DEF NoticesNext

-----------------------------------------------------------------------------
\* Every message has its notice somewhere, and none that waits was sent
\* before unless its notice was lost with a run.
LEMMA ToldStep == ASSUME NoticesTypeOK, ToldInv, [NoticesNext]_noticesVars PROVE ToldInv'
  <1> USE DEF ToldInv
  <1>1. Closed'
    BY ClosedStep
  <1>2. CASE UNCHANGED <<bell, job, out, twice, undone, dropped>>
    BY <1>1, <1>2 DEF Accounted, Recorded, Unsent, ToldOnce
  <1>3. ASSUME NEW j \in Jobs, Effect(j) PROVE (Accounted /\ Unsent /\ ToldOnce)'
    <2>0. \A i \in Jobs \ {j} : job'[i] = job[i]
      BY <1>3 DEF Effect
    <2>1. CASE Quiet(j)
      BY <2>0, <2>1 DEF Quiet, Accounted, Recorded, Unsent, ToldOnce
    <2>2. CASE Commit(j)
      BY <2>0, <2>2 DEF Commit, Accounted, Recorded, Unsent, ToldOnce
    <2>3. CASE Dies(j)
      BY <2>0, <2>3 DEF Dies, Accounted, Recorded, Unsent, ToldOnce
    <2>4. ASSUME NEW n \in Notice, Writes(j, n) PROVE (Accounted /\ Unsent /\ ToldOnce)'
      <3>1. \A k : Recorded(k) => Recorded(k)'
        BY <2>0, <2>4 DEF Recorded, Writes
      <3>2. \A m \in MessagesOf(n) : m[1] = n /\ Recorded(n)'
        BY <2>4, MessageOfNotice DEF Recorded, Writes
      <3>3. Accounted'
        BY <2>0, <2>4, <3>1, <3>2 DEF Accounted, Writes
      <3>4. \A m \in MessagesOf(n) :
               m \in out \/ (\E i \in Jobs : m \in job[i].mail) => n \in undone
        BY <2>4, MessageOfNotice DEF Accounted, Recorded, Writes
      <3>5. Unsent'
        BY <2>0, <2>4, <3>2, <3>4 DEF Unsent, Writes
      <3> QED BY <2>4, <3>3, <3>5 DEF Writes, ToldOnce
    <2>5. ASSUME NEW m \in job[j].mail, Sends(j, m) PROVE (Accounted /\ Unsent /\ ToldOnce)'
      <3>1. \A k : Recorded(k) => Recorded(k)'
        BY <2>0, <2>5 DEF Recorded, Sends
      <3>2. Accounted'
        BY <2>0, <2>5, <3>1 DEF Accounted, Sends
      <3>3. Unsent'
        BY <2>0, <2>5 DEF Unsent, Sends
      <3>4. ToldOnce'
        BY <2>5 DEF Unsent, ToldOnce, Sends
      <3> QED BY <3>2, <3>3, <3>4
    <2> QED BY <1>3, <2>1, <2>2, <2>3, <2>4, <2>5 DEF Effect
  <1> QED BY <1>1, <1>2, <1>3, StepIsEffect

\* A notice's messages are sent, waiting, or died with their run.
LEMMA MessageStep == ASSUME NoticesTypeOK, Closed, SentInv, [NoticesNext]_noticesVars PROVE SentInv'
  <1> USE DEF SentInv
  <1>1. CASE UNCHANGED <<bell, job, out, twice, undone, dropped>>
    BY <1>1 DEF OwnMail, NoticesGoOut, MessagesOf
  <1>2. ASSUME NEW j \in Jobs, Effect(j) PROVE SentInv'
    <2>0. \A i \in Jobs \ {j} : job'[i] = job[i]
      BY <1>2 DEF Effect
    <2> DEFINE Up(m) == m \in out \/ m \in dropped \/ \E i \in Jobs : m \in job[i].mail
    <2>1. \A m : Up(m) => Up(m)'
      <3>1. CASE Quiet(j) \/ Commit(j) \/ \E n \in Notice : Writes(j, n)
        BY <2>0, <3>1 DEF Quiet, Commit, Writes
      <3>2. CASE Dies(j)
        BY <2>0, <3>2 DEF Dies
      <3>3. CASE \E m \in job[j].mail : Sends(j, m)
        BY <2>0, <3>3 DEF Sends
      <3> QED BY <1>2, <3>1, <3>2, <3>3 DEF Effect
    <2>2. OwnMail'
      <3>1. CASE Quiet(j) \/ Commit(j)
        BY <2>0, <3>1 DEF Quiet, Commit, OwnMail, MessagesOf
      <3>2. CASE Dies(j)
        BY <2>0, <3>2 DEF Dies, OwnMail, MessagesOf
      <3>3. ASSUME NEW n \in Notice, Writes(j, n) PROVE OwnMail'
        BY <2>0, <3>3 DEF Writes, OwnMail, MessagesOf
      <3>4. ASSUME NEW m \in job[j].mail, Sends(j, m) PROVE OwnMail'
        BY <2>0, <3>4 DEF Sends, OwnMail, MessagesOf
      <3> QED BY <1>2, <3>1, <3>2, <3>3, <3>4 DEF Effect
    <2>3. \A n \in bell' : \A m \in MessagesOf(n) : Up(m)
      <3>1. \A n \in bell : \A m \in MessagesOf(n) : Up(m)
        BY DEF NoticesGoOut
      <3>2. \A n \in job[j].new : \A m \in MessagesOf(n) : Up(m)
        BY DEF OwnMail
      <3>3. bell' \subseteq bell \cup job[j].new
        BY <1>2 DEF Effect, Quiet, Commit, Dies, Writes, Sends
      <3> QED BY <3>1, <3>2, <3>3
    <2>4. NoticesGoOut'
      BY <2>1, <2>3 DEF NoticesGoOut, MessagesOf
    <2> QED BY <2>2, <2>4
  <1> QED BY <1>1, <1>2, StepIsEffect

-----------------------------------------------------------------------------
\* The end a run writes is the end it tells.
LEMMA ClearedStep == ASSUME NoticesTypeOK, ClearedInv, [NoticesNext]_noticesVars PROVE ClearedInv'
  <1> USE DEF NoticesTypeOK, ClearedInv
  <1>1. CASE TimePasses
    BY <1>1 DEF TimePasses, SweepInv, ClearedIsTold
  <1>2. ASSUME NEW x \in paying, Pay(x) PROVE ClearedInv'
    <2> DEFINE u == x.user
    <2>0. u \in Users /\ x.sub \in BOOLEAN /\ row[u].sub \in BOOLEAN
      BY DEF Activating
    <2>1. /\ \A v \in Users \ {u} : row'[v] = row[v]
          /\ Meets(x) \/ row'[u].sub = TRUE
      <3>1. PICK dev : row' = [row EXCEPT ![u] = [Paid(x) EXCEPT !.dev = dev]]
        BY <1>2 DEF Pay
      <3>2. row'[u].sub = (row[u].sub \/ ~x.sub)
        BY <2>0, <3>1 DEF Paid
      <3> QED BY <2>0, <3>1, <3>2 DEF Meets
    <2>2. /\ UNCHANGED <<bell, job>>
          /\ overtaken' = IF Meets(x) THEN overtaken \cup {u} ELSE overtaken \ {u}
          /\ \A j \in Jobs : job[j].pass = "subs" =>
                /\ u \notin job[j].off
                /\ \A y \in job[j].todo : y.user = u => u \in overtaken'
      BY <1>2 DEF Pay, Locked, Meets
    <2> HIDE DEF u
    <2>3. ClearedIsTold'
      BY <2>1, <2>2 DEF ClearedIsTold
    <2>4. SweepInv'
      <3> SUFFICES ASSUME NEW j \in Jobs, job[j].pass = "subs"
                   PROVE  /\ \A v \in job[j].off \ overtaken' : <<v, "sub_ended", row'[v].end>> \in bell \cup job[j].new
                          /\ \A y \in job[j].todo : y.user \in overtaken' \/ y.end = row'[y.user].end
        BY <2>2 DEF SweepInv
      <3>1. job[j].off \subseteq Users /\ job[j].todo \subseteq Customer
        BY DEF Job
      <3>2. ASSUME NEW v \in job[j].off \ overtaken' PROVE <<v, "sub_ended", row'[v].end>> \in bell \cup job[j].new
        BY <2>1, <2>2, <3>1 DEF SweepInv
      <3>3. ASSUME NEW y \in job[j].todo PROVE y.user \in overtaken' \/ y.end = row'[y.user].end
        BY <2>1, <2>2, <3>1 DEF SweepInv, Customer
      <3> QED BY <3>2, <3>3
    <2> QED BY <2>3, <2>4
  <1>14. ASSUME UNCHANGED <<row, bell, job, overtaken>> PROVE ClearedInv'
    BY <1>14 DEF SweepInv, ClearedIsTold
  <1>15. ASSUME NEW p \in Requests, NEW u \in Users, LoadUser(p, u) PROVE ClearedInv'
    BY <1>14, <1>15 DEF LoadUser
  <1>16. ASSUME NEW x \in paying, PayFails(x) PROVE ClearedInv'
    BY <1>14, <1>16 DEF PayFails
  <1>3. ASSUME NEW u \in Users, StartTrial(u) PROVE ClearedInv'
    <2>1. /\ \A v \in Users : row'[v].end = row[v].end /\ row'[v].sub = row[v].sub
          /\ UNCHANGED <<bell, job, overtaken>>
      BY <1>3 DEF StartTrial
    <2>2. SweepInv'
      BY <2>1 DEF SweepInv, Job, Customer
    <2> QED BY <2>1, <2>2 DEF ClearedIsTold
  <1>4. ASSUME NEW j \in Jobs, JobStep(j) \/ JobDies(j), UNCHANGED <<row, overtaken>>, bell \subseteq bell',
               \A i \in Jobs \ {j} : job'[i] = job[i],
               job'[j].pass = "subs" =>
                 /\ \A v \in job'[j].off \ overtaken : <<v, "sub_ended", row[v].end>> \in bell' \cup job'[j].new
                 /\ \A x \in job'[j].todo : x.user \in overtaken \/ x.end = row[x.user].end
        PROVE  ClearedInv'
    BY <1>4 DEF SweepInv, ClearedIsTold
  <1>5. ASSUME NEW j \in Jobs, StartRun(j) PROVE ClearedInv'
    BY <1>5, <1>4, IdleIsJob DEF JobStep, StartRun, Idle
  <1>6. ASSUME NEW j \in Jobs, Look(j) PROVE ClearedInv'
    <2>1. /\ job'[j].pass = job[j].pass /\ job'[j].off = job[j].off /\ job'[j].new = job[j].new
          /\ \A i \in Jobs \ {j} : job'[i] = job[i]
      BY <1>6 DEF Look, Job
    <2>2. job[j].pass = "subs" => \A x \in job'[j].todo : x.end = row[x.user].end
      BY <1>6 DEF Look, EndOf, Job
    <2> QED BY <1>4, <1>6, <2>1, <2>2 DEF JobStep, Look, SweepInv
  <1>7. ASSUME NEW j \in Jobs, NobodyDue(j) PROVE ClearedInv'
    <2> DEFINE p == IF job[j].new = {} THEN After[job[j].pass] ELSE job[j].pass
               t == IF job[j].pass = "remind" THEN AtOf(j) ELSE 0
    <2>1. job' = [job EXCEPT ![j] = [job[j] EXCEPT !.pass = p, !.looked = (job[j].new # {}), !.at = t]]
      BY <1>7 DEF NobodyDue
    <2>2. p = "subs" => job[j].pass = "subs"
      BY <1>7, PassNames DEF NobodyDue
    <2>3. /\ job'[j].pass = p /\ job'[j].off = job[j].off /\ job'[j].new = job[j].new
          /\ job'[j].todo = job[j].todo
          /\ \A i \in Jobs \ {j} : job'[i] = job[i]
      <3> HIDE DEF p, t
      <3> QED BY <2>1 DEF Job
    <2> HIDE DEF p, t
    <2> QED BY <1>4, <1>7, <2>2, <2>3 DEF JobStep, NobodyDue, SweepInv
  <1>8. ASSUME NEW j \in Jobs, Remind(j) PROVE ClearedInv'
    <2>1. PICK n : Notify(j, n)
      BY <1>8 DEF Remind
    <2>2. job'[j].pass = job[j].pass /\ \A i \in Jobs \ {j} : job'[i] = job[i]
      BY <2>1 DEF Notify, Job
    <2> QED BY <1>4, <1>8, <2>2 DEF JobStep, Remind
  <1>9. ASSUME NEW j \in Jobs, NEW x \in job[j].todo, NEW removed \in BOOLEAN, Sweep(j, x, removed)
        PROVE  ClearedInv'
    <2> DEFINE n == <<x.user, KindFor(j, x), x.end>>
               tells == removed /\ (job[j].pass = "subs" \/ ~x.paid)
               new == IF tells /\ ~Known(j, n) THEN job[j].new \cup {n} ELSE job[j].new
               mail == IF tells /\ ~Known(j, n) THEN job[j].mail \cup MessagesOf(n) ELSE job[j].mail
    <2>1. job' = [job EXCEPT ![j] = [job[j] EXCEPT !.todo = job[j].todo \ {x}, !.off = job[j].off \cup Off(x, removed),
                                                  !.new = new, !.mail = mail]]
      BY <1>9 DEF Sweep
    <2>2. /\ job'[j].pass = job[j].pass /\ job'[j].todo = job[j].todo \ {x}
          /\ job'[j].off = job[j].off \cup Off(x, removed) /\ job'[j].new = new
          /\ \A i \in Jobs \ {j} : job'[i] = job[i]
      <3> HIDE DEF new, mail
      <3> QED BY <2>1 DEF Job
    <2>3. ASSUME job[j].pass = "subs", removed, x.user \notin overtaken
          PROVE  <<x.user, "sub_ended", row[x.user].end>> \in bell \cup new
      <3>1. n = <<x.user, "sub_ended", row[x.user].end>>
        BY <2>3 DEF SweepInv, KindFor
      <3>2. n \in bell \cup new
        <4> HIDE DEF n
        <4> QED BY <2>3 DEF Known
      <3> QED BY <3>1, <3>2
    <2>4. job[j].new \subseteq new
      OBVIOUS
    <2> HIDE DEF new, mail
    <2>5. ASSUME job[j].pass = "subs", NEW v \in job'[j].off \ overtaken
          PROVE  <<v, "sub_ended", row[v].end>> \in bell \cup job'[j].new
      BY <2>2, <2>3, <2>4, <2>5 DEF SweepInv, Off
    <2> QED BY <1>4, <1>9, <2>2, <2>5, ZenonT(40) DEF JobStep, Sweep, SweepInv
  <1>10. ASSUME NEW j \in Jobs, EndPass(j) PROVE ClearedInv'
    <2>1. job'[j].pass = After[job[j].pass] /\ \A i \in Jobs \ {j} : job'[i] = job[i]
      <3>1. CASE job[j].pass \in Commits
        <4>1. job' = [job EXCEPT ![j] = [job[j] EXCEPT !.pass = After[job[j].pass], !.looked = FALSE,
                                                       !.new = {}, !.off = {}, !.at = 0]]
          BY <1>10, <3>1 DEF EndPass
        <4> QED BY <4>1 DEF Job
      <3>2. CASE job[j].pass \notin Commits
        BY <1>10, <3>2 DEF EndPass, Job
      <3> QED BY <3>1, <3>2
    <2>2. job'[j].pass # "subs"
      BY <1>10, <2>1, PassNames DEF EndPass
    <2>3. /\ bell \subseteq bell' /\ overtaken' = overtaken
          /\ \A u \in Users : row'[u].end = row[u].end
          /\ \A u \in Users : row'[u].sub = row[u].sub
                               \/ (job[j].pass = "subs" /\ u \in job[j].off /\ job[j].new \subseteq bell')
      <3>1. CASE job[j].pass \in Commits
        <4>1. row' = Written(job[j].pass, job[j].off) /\ bell' = bell \cup job[j].new /\ overtaken' = overtaken
          BY <1>10, <3>1 DEF EndPass
        <4>2. \A u \in Users : row'[u].end = row[u].end
          BY <4>1 DEF Written
        <4>3. \A u \in Users : row'[u].sub = row[u].sub \/ (job[j].pass = "subs" /\ u \in job[j].off)
          BY <4>1 DEF Written
        <4> QED BY <4>1, <4>2, <4>3
      <3>2. CASE job[j].pass \notin Commits
        BY <1>10, <3>2 DEF EndPass
      <3> QED BY <3>1, <3>2
    <2>4. ClearedIsTold'
      BY <2>3 DEF ClearedIsTold, SweepInv
    <2>5. SweepInv'
      <3> SUFFICES ASSUME NEW i \in Jobs \ {j}, job[i].pass = "subs"
                   PROVE  /\ \A u \in job[i].off \ overtaken : <<u, "sub_ended", row'[u].end>> \in bell' \cup job[i].new
                          /\ \A x \in job[i].todo : x.user \in overtaken \/ x.end = row'[x.user].end
        BY <2>1, <2>2, <2>3 DEF SweepInv
      <3>1. job[i].off \subseteq Users /\ \A x \in job[i].todo : x.user \in Users
        BY DEF Job, Customer
      <3> QED BY <2>3, <3>1 DEF SweepInv
    <2> QED BY <2>4, <2>5
  <1>11. ASSUME NEW j \in Jobs, Send(j) PROVE ClearedInv'
    <2>1. /\ job'[j].pass = job[j].pass /\ job'[j].off = job[j].off /\ job'[j].new = job[j].new
          /\ job'[j].todo = job[j].todo /\ \A i \in Jobs \ {j} : job'[i] = job[i]
      BY <1>11 DEF Send, Job
    <2> QED BY <1>4, <1>11, <2>1 DEF JobStep, Send, SweepInv
  <1>12. ASSUME NEW j \in Jobs, Exit(j) \/ JobDies(j) PROVE ClearedInv'
    <2>1. job'[j] = Idle /\ \A i \in Jobs \ {j} : job'[i] = job[i]
      BY <1>12 DEF Exit, JobDies
    <2> QED BY <1>4, <1>12, <2>1, IdleIsJob DEF JobStep, Exit, JobDies
  <1>13. CASE UNCHANGED noticesVars
    BY <1>13 DEF noticesVars, SweepInv, ClearedIsTold
  <1> QED
    BY <1>1, <1>2, <1>3, <1>5, <1>6, <1>7, <1>8, <1>9, <1>10, <1>11, <1>12, <1>13, <1>15, <1>16
    DEF NoticesNext, JobStep

-----------------------------------------------------------------------------
\* The invariants hold at the start.
LEMMA InvInit == NoticesInit => ToldInv /\ SentInv /\ ClearedInv
  <1> SUFFICES ASSUME NoticesInit PROVE ToldInv /\ SentInv /\ ClearedInv
    OBVIOUS
  <1>1. \A j \in Jobs : job[j] = Idle
    BY DEF NoticesInit
  <1>2. ToldInv
    BY <1>1, IdleIsJob DEF NoticesInit, ToldInv, Accounted, Unsent, Closed, ToldOnce
  <1>3. SentInv
    BY <1>1, IdleIsJob DEF NoticesInit, SentInv, OwnMail, NoticesGoOut
  <1>4. ClearedInv
    BY <1>1, IdleIsJob DEF NoticesInit, ClearedInv, SweepInv, ClearedIsTold
  <1> QED BY <1>2, <1>3, <1>4

\* notify and its dedupe key: a message goes out twice only for a notice whose
\* row was lost with the run that wrote it.
THEOREM MessagesGoOutOnce == NoticesSpec => []ToldOnce
  <1>1. ToldInv => ToldOnce
    BY DEF ToldInv
  <1> QED BY <1>1, InvInit, ToldStep, NoticeTypeInit, NoticeTypeStep, PTL DEF NoticesSpec

\* mailer.drain and the tasks of the job: what the bell says was told is sent,
\* about to be, or died with its run.
THEOREM BellIsFollowedByMessages == NoticesSpec => []NoticesGoOut
  <1>1. ToldInv => Closed
    BY DEF ToldInv
  <1>2. SentInv => NoticesGoOut
    BY DEF SentInv
  <1> QED BY <1>1, <1>2, InvInit, ToldStep, MessageStep, NoticeTypeInit, NoticeTypeStep, PTL DEF NoticesSpec

\* expire_due_subscriptions writes the flag and the notice in one commit: a
\* customer without the flag has been told that the period on their row ended,
\* unless their last payment committed while a run had them on its list, or had
\* loaded the flag before a run cleared it.
THEOREM ClearedCustomersAreTold == NoticesSpec => []ClearedIsTold
  <1>1. ClearedInv => ClearedIsTold
    BY DEF ClearedInv
  <1> QED BY <1>1, InvInit, ClearedStep, NoticeTypeInit, NoticeTypeStep, PTL DEF NoticesSpec
=============================================================================
