------------------------------- MODULE Agenda -------------------------------
(***************************************************************************)
(* The alerts of the browser's engine: what the register itself says is    *)
(* wrong today, the rules that switch a kind of alert off, and what people *)
(* did about each one, kept apart under the alert's code and what it is    *)
(* about (site/erp-engine.js, alerts() and what follows; the panel of      *)
(* site/erp.html).                                                         *)
(*                                                                         *)
(* Four kinds stand for the thirty: one about a document of the register   *)
(* that comes to rest (an invoice), one about a person and any of their    *)
(* papers, one that counts, and one about the calendar.  Left out: who an   *)
(* alert is assigned to and until when, which hide nothing.                *)
(***************************************************************************)
EXTENDS Integers, Sequences, FiniteSets

CONSTANTS Receivable,  \* issued invoices
          DueDay,      \* Receivable -> the day each falls due
          Hands,        \* workers
          Kinds,       \* kinds of papers a worker must hold
          Arriving,    \* the bills that may arrive with no job on them
          QuarterDays, \* the days of a quarter, from day 0 on
          LastDay,
          Cushions,    \* the thresholds chosen for the package, in days
          Lapses,      \* what may happen again, see LapsesAssumption
          MaxNotes     \* bound on the presses

(* "owed again": a collection is undone.  "renewed": a worker has a second   *)
(* paper, or the same one again.  "another bill": a second bill arrives.     *)
ASSUME LapsesAssumption == Lapses \subseteq {"owed again", "renewed", "another bill"}
ASSUME DaysAssumption == QuarterDays \in Nat \ {0} /\ LastDay \in Nat
ASSUME NotesAssumption == Cushions # {} /\ MaxNotes \in Nat

VARIABLES today,      \* state.today
          collected,  \* the invoices with nothing outstanding
          onFile,     \* worker, kind -> the day the paper expires, or NoPaper
          arrived,    \* the bills of the register
          placedOn,   \* the bills among them that have a job
          sentOff,    \* the quarters sent to the adviser and not reopened
          alertRules, \* state.alertRules: code -> [enabled, cushion]
          overrides,  \* state.alertOverrides: key -> [until, resolved, task]
          tasks,      \* state.tasks: the key each was made of
          grounds,    \* history: what a person had before them when an alert was put away
          undone,     \* history: how often each invoice came back to be owed
          notes       \* the presses made so far, bounded by MaxNotes

agendaVars ==
    <<today, collected, onFile, arrived, placedOn, sentOff, alertRules, overrides, tasks,
      grounds, undone, notes>>
factVars == <<collected, onFile, arrived, placedOn, sentOff, undone>>
deskVars == <<alertRules, overrides, tasks, grounds>>

NoPaper == -1
AlertCodes == {"AR-OVERDUE", "WORKER-DOC-EXPIRED", "AP-UNALLOCATED", "GES-PACKAGE-DUE"}
Days == 0..LastDay
QuarterOf(d) == d \div QuarterDays
QuarterEnd(q) == (q + 1) * QuarterDays - 1
QuartersSeen == {QuarterOf(d) : d \in Days}

\* alertKey: the code and the ref together.
Alert == ({"AR-OVERDUE"} \X Receivable) \cup ({"WORKER-DOC-EXPIRED"} \X Hands)
         \cup {<<"AP-UNALLOCATED", "payables">>} \cup ({"GES-PACKAGE-DUE"} \X QuartersSeen)

Enabled(code) == alertRules[code].enabled

OverdueInvoices == {i \in Receivable \ collected : DueDay[i] < today}
ExpiredPapers(w) == {k \in Kinds : onFile[w][k] # NoPaper /\ onFile[w][k] < today}

\* Only the quarter of today is looked at.
PackagesDue ==
    {q \in {QuarterOf(today)} \ sentOff :
        today - QuarterEnd(q) >= alertRules["GES-PACKAGE-DUE"].cushion}

\* alerts()
Alerts ==
    {a \in ({"AR-OVERDUE"} \X OverdueInvoices)
           \cup ({"WORKER-DOC-EXPIRED"} \X {w \in Hands : ExpiredPapers(w) # {}})
           \cup {<<"AP-UNALLOCATED", "payables">> : b \in arrived \ placedOn}
           \cup ({"GES-PACKAGE-DUE"} \X PackagesDue) : Enabled(a[1])}

\* Fault: an override is looked up by the code alone.
OverrideOfCode(a) ==
    IF \E b \in Alert : b[1] = a[1] /\ overrides[b].resolved
    THEN overrides[CHOOSE b \in Alert : b[1] = a[1] /\ overrides[b].resolved]
    ELSE overrides[a]

OverrideOf(a) == overrides[a]

\* managedAlerts(): what is still actionable.
Listed == {a \in Alerts : ~OverrideOf(a).resolved /\ OverrideOf(a).until <= today}

\* What an alert rests on, told apart from what it rested on before.
GroundsOf(a) ==
    CASE a[1] = "AR-OVERDUE" -> {undone[a[2]]}
      [] a[1] = "WORKER-DOC-EXPIRED" -> {<<k, onFile[a[2]][k]>> : k \in ExpiredPapers(a[2])}
      [] a[1] = "AP-UNALLOCATED" -> arrived \ placedOn
      [] OTHER -> {a[2]}

AgendaTypeOK ==
    /\ today \in Days
    /\ collected \subseteq Receivable /\ sentOff \subseteq QuartersSeen
    /\ placedOn \subseteq arrived /\ arrived \subseteq Arriving
    /\ onFile \in [Hands -> [Kinds -> Days \cup {NoPaper}]]
    /\ alertRules \in [AlertCodes -> [enabled : BOOLEAN, cushion : Cushions]]
    /\ overrides \in [Alert -> [until : 0..(LastDay + 1), resolved : BOOLEAN, task : BOOLEAN]]
    /\ tasks \in Seq(Alert)
    /\ undone \in [Receivable -> Nat] /\ DOMAIN grounds = Alert /\ notes \in 0..MaxNotes

AgendaInit ==
    /\ today = 0 /\ collected = {} /\ sentOff = {} /\ arrived = {} /\ placedOn = {}
    /\ onFile = [w \in Hands |-> [k \in Kinds |-> NoPaper]]
    /\ alertRules = [c \in AlertCodes |->
                        [enabled |-> TRUE, cushion |-> CHOOSE n \in Cushions : TRUE]]
    /\ overrides = [a \in Alert |-> [until |-> 0, resolved |-> FALSE, task |-> FALSE]]
    /\ tasks = <<>>
    /\ grounds = [a \in Alert |-> {}] /\ undone = [i \in Receivable |-> 0] /\ notes = 0

Noted == notes < MaxNotes /\ notes' = notes + 1

NextDay ==
    /\ today < LastDay /\ today' = today + 1
    /\ UNCHANGED <<factVars, alertRules, overrides, tasks, grounds, notes>>

Collect(i) ==
    /\ Noted /\ i \notin collected
    /\ collected' = collected \cup {i}
    /\ UNCHANGED <<today, onFile, arrived, placedOn, sentOff, undone, deskVars>>

\* The collection is deleted, or the bank line it came from is matched to nothing.
Uncollect(i) ==
    /\ Noted /\ "owed again" \in Lapses /\ i \in collected
    /\ collected' = collected \ {i}
    /\ undone' = [undone EXCEPT ![i] = @ + 1]
    /\ UNCHANGED <<today, onFile, arrived, placedOn, sentOff, deskVars>>

\* addWorkerDoc: of each kind the last one recorded is kept.
AddWorkerDoc(w, k, day) ==
    /\ Noted
    /\ (\E other \in Kinds : onFile[w][other] # NoPaper) => "renewed" \in Lapses
    /\ onFile' = [onFile EXCEPT ![w][k] = day]
    /\ UNCHANGED <<today, collected, arrived, placedOn, sentOff, undone, deskVars>>

\* registerBill, with nothing allocated.
BillArrives(b) ==
    /\ Noted /\ b \notin arrived
    /\ arrived # {} => "another bill" \in Lapses
    /\ arrived' = arrived \cup {b}
    /\ UNCHANGED <<today, collected, onFile, placedOn, sentOff, undone, deskVars>>

AllocateBill(b) ==
    /\ Noted /\ b \in arrived \ placedOn
    /\ placedOn' = placedOn \cup {b}
    /\ UNCHANGED <<today, collected, onFile, arrived, sentOff, undone, deskVars>>

\* quarterlyPackage and reopenQuarter, which Closing models.
SendQuarter(q) ==
    /\ Noted /\ q <= QuarterOf(today) /\ q \notin sentOff
    /\ sentOff' = sentOff \cup {q}
    /\ UNCHANGED <<today, collected, onFile, arrived, placedOn, undone, deskVars>>

UpdateAlertRule(code, enabled, cushion) ==
    /\ Noted
    /\ alertRules' = [alertRules EXCEPT ![code] = [enabled |-> enabled, cushion |-> cushion]]
    /\ UNCHANGED <<today, factVars, overrides, tasks, grounds>>

PutAway(a, override) ==
    /\ Noted /\ a \in Listed
    /\ overrides' = [overrides EXCEPT ![a] = override]
    /\ grounds' = [grounds EXCEPT ![a] = @ \cup GroundsOf(a)]
    /\ UNCHANGED <<today, factVars, alertRules>>

\* The panel offers tomorrow at the earliest.
SnoozeAlert(a, day) ==
    /\ day > today
    /\ PutAway(a, [overrides[a] EXCEPT !.until = day]) /\ UNCHANGED tasks

ResolveAlert(a) ==
    PutAway(a, [overrides[a] EXCEPT !.resolved = TRUE]) /\ UNCHANGED tasks

ConvertAlertToTask(a) ==
    /\ Noted /\ a \in Listed /\ ~overrides[a].task
    /\ overrides' = [overrides EXCEPT ![a].task = TRUE]
    /\ tasks' = Append(tasks, a)
    /\ UNCHANGED <<today, factVars, alertRules, grounds>>

AgendaNext ==
    \/ NextDay
    \/ \E i \in Receivable : Collect(i) \/ Uncollect(i)
    \/ \E w \in Hands, k \in Kinds, day \in Days : AddWorkerDoc(w, k, day)
    \/ \E b \in Arriving : BillArrives(b) \/ AllocateBill(b)
    \/ \E q \in QuartersSeen : SendQuarter(q)
    \/ \E code \in AlertCodes, enabled \in BOOLEAN, cushion \in Cushions :
           UpdateAlertRule(code, enabled, cushion)
    \/ \E a \in Alert : ResolveAlert(a) \/ ConvertAlertToTask(a)
    \/ \E a \in Alert, day \in 1..(LastDay + 1) : SnoozeAlert(a, day)

\* An alert that is raised and not on the list was put away by somebody who had before
\* them all that it rests on: what a person decided about one condition does not hide
\* another one ("as long as the underlying condition is still the same one").
HiddenWasSeen == \A a \in Alerts \ Listed : GroundsOf(a) \subseteq grounds[a]

\* Nothing asks for the same work twice: an alert is one task at most.
OneTaskEach == \A m, n \in DOMAIN tasks : tasks[m] = tasks[n] => m = n

\* A quarter that is over, for as long as the rule allows, and has not been sent is on
\* the list, or somebody put it away.
PackageIsAskedFor ==
    \A q \in QuartersSeen \ sentOff :
        (/\ Enabled("GES-PACKAGE-DUE")
         /\ today - QuarterEnd(q) >= alertRules["GES-PACKAGE-DUE"].cushion) =>
            \/ <<"GES-PACKAGE-DUE", q>> \in Listed
            \/ grounds[<<"GES-PACKAGE-DUE", q>>] # {}

\* The list of alerts after any sequence of days, presses and facts.
AgendaHolds ==
    /\ AgendaTypeOK
    /\ HiddenWasSeen
    /\ OneTaskEach
=============================================================================
