------------------------------- MODULE Labour -------------------------------
(***************************************************************************)
(* The hours of the browser's engine: entering, correcting and deleting    *)
(* them, repeating a day, approving a week, the rates they cost and the     *)
(* closing of a job (site/erp-engine.js, the LAB section; site/erp.html     *)
(* applies a call to the register in memory and saves it with the next that *)
(* succeeds, so what a refused call has already written stays).             *)
(*                                                                         *)
(* Left out: overtime rates and supplements, and the order of the chapters. *)
(***************************************************************************)
EXTENDS Integers, FiniteSetsExt, SequencesExt

CONSTANTS Workers, Jobs,
          Budgeted,             \* the jobs whose costs name a line of the budget
          WorkDays, WeekOf,     \* the days, in order, and the week of each
          HiredAt,              \* the rate each worker was entered with
          Bands, Lengths,       \* the rates the office gives, the hours of an entry
          Slips,                \* what may go wrong, see SlipsAssumption
          MaxEntries, MaxRates, MaxActs      \* bounds

(* "refused": a correction the engine refuses after it has begun.  "late":   *)
(* hours entered for a week that is approved already. *)
ASSUME SlipsAssumption == Slips \subseteq {"refused", "late"}
ASSUME RatesAssumption ==
    /\ WorkDays \subseteq Int /\ Lengths \subseteq Nat /\ MaxEntries \in Nat
    /\ \A b \in Bands \cup Range(HiredAt) : b \in [from : Int, cents : Nat]
    /\ DOMAIN HiredAt = Workers

VARIABLES rates,     \* rateHistory of each worker, in the order it is kept
          entries,   \* state.labour, by id
          closed,    \* the jobs that are closed
          entered,   \* the ids handed out
          acts       \* the calls made so far, bounded by MaxActs

labourVars == <<rates, entries, closed, entered, acts>>

Unrated == 0

(* workerRateCents: of the bands that have begun the latest, and of two that *)
(* began the same day the one given first. *)
BandsBy(w, d) == {i \in DOMAIN rates[w] : rates[w][i].from <= d}
RateAt(w, d) ==
    IF BandsBy(w, d) = {} THEN Unrated
    ELSE LET last == Max({rates[w][i].from : i \in BandsBy(w, d)})
         IN rates[w][Min({i \in BandsBy(w, d) : rates[w][i].from = last})].cents

Names(e) == e.line <=> e.job \in Budgeted
Priced(e) ==
    LET rate == RateAt(e.worker, e.day) IN [e EXCEPT !.rate = rate, !.cost = e.hours * rate]
Approval(w, week) ==
    \E i \in DOMAIN entries :
        entries[i].worker = w /\ entries[i].locked /\ WeekOf[entries[i].day] = week
InWeek(w, week) ==
    {i \in DOMAIN entries : entries[i].worker = w /\ WeekOf[entries[i].day] = week}
-----------------------------------------------------------------------------
HoursEntry == [worker : Workers, job : Jobs, line : BOOLEAN, day : WorkDays, hours : Lengths,
          rate : {b.cents : b \in Bands \cup Range(HiredAt)}, cost : Nat, locked : BOOLEAN]

LabourTypeOK ==
    /\ entered \in 0..MaxEntries /\ DOMAIN entries \subseteq 1..entered
    /\ \A i \in DOMAIN entries : entries[i] \in HoursEntry
    /\ closed \subseteq Jobs

LabourInit ==
    /\ rates = [w \in Workers |-> <<HiredAt[w]>>]
    /\ entries = <<>> /\ closed = {} /\ entered = 0 /\ acts = 0

Act == acts < MaxActs /\ acts' = acts + 1
OnEntries == Act /\ UNCHANGED <<rates, closed>>

AddWorkerRate(w, band) ==
    /\ Len(rates[w]) < MaxRates
    /\ rates' = [rates EXCEPT ![w] = InsertAt(@, Cardinality(BandsBy(w, band.from)) + 1, band)]
    /\ Act
    /\ UNCHANGED <<entries, closed, entered>>

(* recordHours refuses before it writes anything. *)
Recordable(e) == e.job \notin closed /\ Names(e) /\ RateAt(e.worker, e.day) # Unrated
Add(new) ==
    /\ entered + Len(new) <= MaxEntries
    /\ entered' = entered + Len(new)
    /\ entries' = [k \in DOMAIN entries \cup (entered + 1..entered') |->
                      IF k \in DOMAIN entries THEN entries[k] ELSE Priced(new[k - entered])]

RecordHours(w, j, d, h) ==
    LET e == [worker |-> w, job |-> j, line |-> j \in Budgeted, day |-> d, hours |-> h,
              rate |-> Unrated, cost |-> 0, locked |-> FALSE]
    IN /\ Recordable(e)
       /\ "late" \in Slips \/ ~Approval(w, WeekOf[d])
       /\ Add(<<e>>) /\ OnEntries

Allowed(i, e) ==
    /\ ~entries[i].locked
    /\ e.day # entries[i].day => ~Approval(e.worker, WeekOf[e.day])
    /\ e.job \notin closed
\* Fault: the cost follows the hours only when the day changes.
CorrectedHoursOnly(i, e) == IF e.day = entries[i].day THEN e ELSE Priced(e)
Corrected(i, e) == IF Names(e) /\ RateAt(e.worker, e.day) # Unrated THEN Priced(e) ELSE e
CorrectHours(i, j, named, d, h) ==
    LET e == [entries[i] EXCEPT !.job = j, !.line = named, !.day = d, !.hours = h]
    IN /\ Allowed(i, e)
       /\ "refused" \notin Slips => Names(e) /\ RateAt(e.worker, d) # Unrated
       /\ entries' = [entries EXCEPT ![i] = Corrected(i, e)]
       /\ OnEntries /\ UNCHANGED entered

DeleteHours(i) ==
    /\ ~entries[i].locked
    /\ entries' = [k \in DOMAIN entries \ {i} |-> entries[k]]
    /\ OnEntries /\ UNCHANGED entered

(* The screen repeats the day before for every job that had hours then, and  *)
(* the first refusal ends it: a closed job, or a day without a rate. *)
RepeatDay(d) ==
    LET yesterday == {i \in DOMAIN entries : entries[i].day = d - 1}
        first(i) == Min({k \in yesterday : entries[k].job = entries[i].job})
        earlier(i, k) == first(i) < first(k) \/ (first(i) = first(k) /\ i < k)
        here(i) == \E k \in DOMAIN entries :
                      /\ entries[k].worker = entries[i].worker /\ entries[k].job = entries[i].job
                      /\ entries[k].day = d
        copy(i) == [entries[i] EXCEPT !.day = d, !.locked = FALSE]
        wanted == {i \in yesterday : ~here(i)}
    IN \E order \in [1..Cardinality(wanted) -> wanted] :
       LET refused == {k \in DOMAIN order : ~Recordable(copy(order[k]))}
           made == IF refused = {} THEN order ELSE SubSeq(order, 1, Min(refused) - 1)
       IN /\ \A j, k \in DOMAIN order : j < k => earlier(order[j], order[k])
          /\ made # <<>>
          /\ "late" \notin Slips
             => \A k \in DOMAIN made : ~Approval(entries[made[k]].worker, WeekOf[d])
          /\ "refused" \in Slips \/ refused = {}
          /\ Add([k \in DOMAIN made |-> copy(made[k])]) /\ OnEntries

ApproveLabourWeek(w, week) ==
    /\ InWeek(w, week) # {}
    /\ entries' = [i \in DOMAIN entries |->
            IF i \in InWeek(w, week) THEN [entries[i] EXCEPT !.locked = TRUE] ELSE entries[i]]
    /\ OnEntries /\ UNCHANGED entered

Reopens(w, week) == InWeek(w, week)
UnapproveLabourWeek(w, week) ==
    /\ \E i \in InWeek(w, week) : entries[i].locked
    /\ entries' = [i \in DOMAIN entries |->
            IF i \in Reopens(w, week) THEN [entries[i] EXCEPT !.locked = FALSE] ELSE entries[i]]
    /\ OnEntries /\ UNCHANGED entered

CloseProject(j) ==
    /\ j \notin closed /\ closed' = closed \cup {j}
    /\ Act /\ UNCHANGED <<rates, entries, entered>>
ReopenProject(j) ==
    /\ j \in closed /\ closed' = closed \ {j}
    /\ Act /\ UNCHANGED <<rates, entries, entered>>

Weeks == {WeekOf[d] : d \in WorkDays}

LabourNext ==
    \/ \E w \in Workers, b \in Bands : AddWorkerRate(w, b)
    \/ \E w \in Workers, j \in Jobs, d \in WorkDays, h \in Lengths : RecordHours(w, j, d, h)
    \/ \E i \in DOMAIN entries, j \in Jobs, named \in BOOLEAN, d \in WorkDays, h \in Lengths :
           CorrectHours(i, j, named, d, h)
    \/ \E i \in DOMAIN entries : DeleteHours(i)
    \/ \E d \in WorkDays : RepeatDay(d)
    \/ \E w \in Workers, k \in Weeks : ApproveLabourWeek(w, k) \/ UnapproveLabourWeek(w, k)
    \/ \E j \in Jobs : CloseProject(j) \/ ReopenProject(j)

LabourSpec == LabourInit /\ [][LabourNext]_labourVars
-----------------------------------------------------------------------------
(* correctHours: "guarding only the first would have left editing an entry   *)
(* as the way around the rule": hours on a job with a budget name their      *)
(* line, and what they cost is what they last were at a rate in force then. *)
CostedAndNamed ==
    \A i \in DOMAIN entries :
        LET e == entries[i]
        IN /\ Names(e) /\ e.cost = e.hours * e.rate
           /\ \E b \in BandsBy(e.worker, e.day) : rates[e.worker][b].cents = e.rate

(* correctHours: moving an entry "inside a week that is already approved     *)
(* would slip a cost past an approval that had already been given".  A week  *)
(* of a worker is approved whole or not at all. *)
ApprovalCoversWeek ==
    \A i \in DOMAIN entries : ~entries[i].locked
        => ~Approval(entries[i].worker, WeekOf[entries[i].day])

(* What was approved stays as it was approved, whatever else is corrected,   *)
(* repeated or closed, until the week of that worker, and no other, is      *)
(* reopened. *)
OnlyReopened(w, week) ==
    \A i \in DOMAIN entries :
        /\ i \in DOMAIN entries'
        /\ entries'[i] = IF entries[i].worker = w /\ WeekOf[entries[i].day] = week
                         THEN [entries[i] EXCEPT !.locked = FALSE] ELSE entries[i]
ApprovedHoursStand ==
    [][\A i \in DOMAIN entries : entries[i].locked =>
        \/ i \in DOMAIN entries' /\ entries'[i] = entries[i]
        \/ OnlyReopened(entries[i].worker, WeekOf[entries[i].day])]_labourVars

(* "horas imputadas a un proyecto cerrado can then never actually happen":   *)
(* while a job is closed no door brings it an hour it did not have. *)
HoursOf(s, j) == {i \in DOMAIN s : s[i].job = j}
ClosedJobsGainNothing ==
    [][\A j \in closed :
        /\ HoursOf(entries', j) \subseteq HoursOf(entries, j)
        /\ \A i \in HoursOf(entries', j) : entries'[i].hours = entries[i].hours]_labourVars

\* What the hours promise after any sequence of recording, correcting, approving and
\* changing rates: each costs what its day's rate says, and an approved week holds only
\* what was approved.
HoursHold ==
    /\ LabourTypeOK
    /\ CostedAndNamed
    /\ ApprovalCoversWeek
=============================================================================
