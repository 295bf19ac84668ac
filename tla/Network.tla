------------------------------ MODULE Network ------------------------------
(***************************************************************************)
(* The working calendar and the critical path of a plan, as the scheduling  *)
(* capability computes them (packages/capabilities/scheduling/src:         *)
(* calendar.ts and cpm.ts).  Dates are whole numbers; day 0 is a Monday.    *)
(*                                                                         *)
(* tasks is a function from a task's name to [days, pin, start, finish,     *)
(* milestone, ...]; deps a set of [from, to, type, lag]; closed the dates   *)
(* the calendar does not work, the weekends apart.                          *)
(***************************************************************************)
EXTENDS Integers, FiniteSets

CONSTANTS Closures,     \* dates that may be closed besides the weekends
          Reach         \* how far a working day is searched for (MAX_SEARCH_DAYS)

LOCAL INSTANCE FiniteSetsExt

NoPin == -1

IsWorkingDay(closed, d) == d % 7 < 5 /\ d \notin closed
SnapForward(closed, d) == Min({e \in d..d + Reach : IsWorkingDay(closed, e)})
SnapBack(closed, d) == Max({e \in d - Reach..d : IsWorkingDay(closed, e)})

(* Moves by working days, onto a working day first. *)
AddWorkingDays(closed, d, steps) ==
    LET ahead[k \in 0..steps] ==
            SnapForward(closed, IF k = 0 THEN d ELSE ahead[k - 1] + 1)
        back[k \in 0..-steps] ==
            SnapBack(closed, IF k = 0 THEN d ELSE back[k - 1] - 1)
    IN IF steps >= 0 THEN ahead[steps] ELSE back[-steps]

WorkingDaysInclusive(closed, a, b) == Cardinality({e \in a..b : IsWorkingDay(closed, e)})
WorkingDayOffset(closed, a, b) ==
    LET between(x, y) == Max({0, WorkingDaysInclusive(closed, x, y) - 1})
    IN IF b >= a THEN between(a, b) ELSE -between(b, a)

FinishOf(closed, start, days) ==
    IF days = 0 THEN SnapForward(closed, start) ELSE AddWorkingDays(closed, start, days - 1)
StartFor(closed, finish, days) ==
    IF days = 0 THEN SnapBack(closed, finish)
    ELSE AddWorkingDays(closed, finish, -(days - 1))

DurationOf(t) == IF t.milestone THEN 0 ELSE t.days

(* topologicalOrder refuses when some tasks each wait for another of them. *)
IsCyclic(names, deps) ==
    \E stuck \in SUBSET names \ {{}} : \A t \in stuck : \E d \in deps : d.to = t /\ d.from \in stuck

(* The plan starts no earlier than the earliest anchor its tasks carry. *)
Anchor(t) == IF t.pin = NoPin THEN t.start ELSE t.pin
PlanStart(closed, tasks) ==
    SnapForward(closed, Min({Anchor(tasks[n]) : n \in DOMAIN tasks}))

(* What a link asks of its successor, and, going back, of its predecessor:   *)
(* at is where the other end is, days how long this one takes. *)
EarliestBy(closed, d, at, days) ==
    CASE d.type = "FS" -> AddWorkingDays(closed, at.finish, 1 + d.lag)
      [] d.type = "SS" -> AddWorkingDays(closed, at.start, d.lag)
      [] d.type = "FF" -> StartFor(closed, AddWorkingDays(closed, at.finish, d.lag), days)
LatestBy(closed, d, at, days) ==
    CASE d.type = "FS" -> AddWorkingDays(closed, at.start, -(1 + d.lag))
      [] d.type = "SS" -> FinishOf(closed, AddWorkingDays(closed, at.start, -d.lag), days)
      [] d.type = "FF" -> AddWorkingDays(closed, at.finish, -d.lag)

(* computeSchedule, the forward pass: as early as links and pins allow. *)
EarlyDates(closed, tasks, deps, from) ==
    LET early[n \in DOMAIN tasks] ==
            LET t == tasks[n]
                own == SnapForward(closed, IF t.pin = NoPin THEN from ELSE t.pin)
                asked == {EarliestBy(closed, d, early[d.from], DurationOf(t)) :
                             d \in {e \in deps : e.to = n}}
                start == Max(asked \cup {own})
            IN [start |-> start, finish |-> FinishOf(closed, start, DurationOf(t))]
    IN early
PlanFinish(dates) == Max({dates[n].finish : n \in DOMAIN dates})

(* The backward pass: as late as leaves the end of the plan where it is. *)
LateDates(closed, tasks, deps, end) ==
    LET late[n \in DOMAIN tasks] ==
            LET days == DurationOf(tasks[n])
                asked == {LatestBy(closed, d, late[d.to], days) :
                             d \in {e \in deps : e.from = n}}
                finish == Min(asked \cup {end})
            IN [start |-> StartFor(closed, finish, days), finish |-> finish]
    IN late

(* recalculate: the plan's own dates rewritten from its schedule. *)
RecalculatedFrom(closed, tasks, deps, from) ==
    LET dates == EarlyDates(closed, tasks, deps, from)
    IN [n \in DOMAIN tasks |->
          [tasks[n] EXCEPT !.start = dates[n].start, !.finish = dates[n].finish]]
Recalculated(closed, tasks, deps) ==
    IF DOMAIN tasks = {} THEN tasks
    ELSE RecalculatedFrom(closed, tasks, deps, PlanStart(closed, tasks))
=============================================================================
