------------------------------ MODULE Planning ------------------------------
(***************************************************************************)
(* The plan of one job: bars derived from its accepted budget, moved,       *)
(* linked and frozen on the chart (site/erp.html) through the bridge        *)
(* (site/erp-bridge.js) to the scheduling capability, whose dates come      *)
(* from Network.                                                           *)
(*                                                                         *)
(* A derived bar is named by its chapter, the bar added by hand is Hand.    *)
(* A chapter is one line.  Every press works on the plan the page shows,    *)
(* except in the drawer of a bar, which keeps the plan it was opened on.    *)
(***************************************************************************)
EXTENDS Network, Sequences

LOCAL INSTANCE FiniteSetsExt

CONSTANTS Chapters,        \* the chapters the budget may have, positive numbers
          Durations,       \* what a quantity of a chapter takes, in working days
          LinkTypes, Lags, \* the links drawn: the chart asks for FS and no lag
          Pins,            \* dates a bar may be dragged to
          Percentages,     \* progress that may be recorded
          ExtraDays,       \* days an adicional may add to a chapter
          Slips,           \* what a run allows besides: see their uses
          MaxPresses       \* bound on the presses

VARIABLES plan,       \* [tasks, deps, closed, baselines]
          budget,     \* chapter -> the days its quantity takes, 0 when it is not there
          progress,   \* chapter -> the progress the engine has recorded
          adicional,  \* [days: chapter -> days, applied]
          drawer,     \* the bar whose drawer is open and the plan it was opened on
          reshaped,   \* history: the bars whose days something else set since derived
          presses

planningVars == <<plan, budget, progress, adicional, drawer, reshaped, presses>>

Hand == 0
NoPlan == [tasks |-> <<>>, deps |-> {}, closed |-> {}, baselines |-> <<>>]
Closed == [on |-> -1, plan |-> NoPlan]
Tasks == DOMAIN plan.tasks
Bars == Tasks \cap Chapters
Full == 100

Dependency(a, b, type, lag) == [from |-> a, to |-> b, type |-> type, lag |-> lag]

PlanningInit ==
    /\ plan = NoPlan
    /\ budget \in [Chapters -> Durations]
    /\ progress = [c \in Chapters |-> 0]
    /\ adicional = [days |-> [c \in Chapters |-> 0], applied |-> FALSE]
    /\ drawer = Closed /\ reshaped = {} /\ presses = 0

Press == presses < MaxPresses /\ presses' = presses + 1
Shut == drawer = Closed /\ UNCHANGED drawer

Rescheduled(p) == [p EXCEPT !.tasks = Recalculated(p.closed, p.tasks, p.deps)]
-----------------------------------------------------------------------------
(* setProgress: a bar back from a hundred stays done. *)
Reached(t, pct) ==
    [t EXCEPT !.pct = pct,
              !.status = IF pct = Full THEN "done"
                         ELSE IF @ = "planned" THEN "in_progress" ELSE @]

(* applyChapterDelay *)
Delayed(p, c, days) == [p EXCEPT !.tasks[c].days = Max({1, @ + days})]
AllDelayed(p, by) ==
    [p EXCEPT !.tasks = [n \in DOMAIN p.tasks |->
        IF n \in Chapters /\ by[n] > 0 THEN Delayed(p, n, by[n]).tasks[n] ELSE p.tasks[n]]]

\* Fault: what an adicional added is forgotten when the plan is derived again.
ReappliedNever(p) == p
(* reapplyAdiDays *)
Reapplied(p) ==
    IF adicional.applied /\ \E c \in Chapters \cap DOMAIN p.tasks : adicional.days[c] > 0
    THEN Rescheduled(AllDelayed(p, adicional.days))
    ELSE p

(* planFromWorkBreakdown, granularity "group": one bar per chapter, chained. *)
InBudget == {c \in Chapters : budget[c] > 0}
DerivedBar(c) ==
    [days |-> budget[c], pin |-> NoPin, start |-> SnapForward(plan.closed, 0),
     finish |-> FinishOf(plan.closed, SnapForward(plan.closed, 0), budget[c]),
     milestone |-> FALSE, pct |-> 0, status |-> "planned"]
Chained ==
    {Dependency(a, b, "FS", 0) : <<a, b>> \in
        {<<a, b>> \in InBudget \X InBudget : a < b /\ ~\E c \in InBudget : a < c /\ c < b}}

(* mergeDerivedPlan *)
Merged(c) ==
    IF c \in Tasks
    THEN [DerivedBar(c) EXCEPT !.pct = plan.tasks[c].pct, !.status = plan.tasks[c].status,
                               !.pin = plan.tasks[c].pin]
    ELSE DerivedBar(c)

(* applyChapterProgress *)
WithProgress(t, pct) ==
    [t EXCEPT !.pct = pct,
              !.status = IF pct = Full THEN "done" ELSE IF pct > 0 THEN "in_progress" ELSE @]

KeptBaselines == IF Tasks = {} THEN <<>> ELSE plan.baselines

(* deriveFromBudget, and seedPlans the first time.  A plan emptied by hand is *)
(* replaced whole, baselines included. *)
Derive ==
    LET tasks == RecalculatedFrom(plan.closed, [c \in InBudget |-> Merged(c)], Chained,
                                  SnapForward(plan.closed, 0))
        derived == [plan EXCEPT !.tasks = [c \in InBudget |-> WithProgress(tasks[c], progress[c])],
                                !.deps = Chained, !.baselines = KeptBaselines]
    IN /\ Press /\ Shut
       /\ InBudget # {}
       /\ plan' = Reapplied(derived)
       /\ reshaped' = {}
       /\ UNCHANGED <<budget, progress, adicional>>

(* A new version of the budget is accepted: external to the plan. *)
Reaccept(c, days) ==
    /\ Press /\ Shut
    /\ budget[c] # days
    /\ budget' = [budget EXCEPT ![c] = days]
    /\ reshaped' = reshaped \cup {c}
    /\ UNCHANGED <<plan, progress, adicional>>
-----------------------------------------------------------------------------
(* ganttNewTask: a task or a milestone, held at its date. *)
AddTask(pin, days) ==
    LET new == [days |-> days, pin |-> pin, start |-> pin, finish |-> pin,
                milestone |-> days = 0, pct |-> 0, status |-> "planned"]
        tasks == [n \in Tasks \cup {Hand} |-> IF n = Hand THEN new ELSE plan.tasks[n]]
    IN /\ Press /\ Shut
       /\ Hand \notin Tasks
       /\ plan' = Rescheduled([plan EXCEPT !.tasks = tasks])
       /\ UNCHANGED <<budget, progress, adicional, reshaped>>

ClosesCycle(deps) == IsCyclic(Tasks, deps)
(* link *)
Draw(a, b, type, lag) ==
    LET deps == plan.deps \cup {Dependency(a, b, type, lag)}
    IN /\ Press /\ Shut
       /\ {a, b} \subseteq Tasks /\ a # b
       /\ ~\E d \in plan.deps : d.from = a /\ d.to = b /\ d.type = type
       /\ ~ClosesCycle(deps)
       /\ plan' = Rescheduled([plan EXCEPT !.deps = deps])
       /\ UNCHANGED <<budget, progress, adicional, reshaped>>

(* The chart: a bar dragged, or pulled longer. *)
Drag(t, pin) ==
    /\ Press /\ Shut
    /\ t \in Tasks
    /\ plan' = Rescheduled([plan EXCEPT !.tasks[t].pin = pin])
    /\ UNCHANGED <<budget, progress, adicional, reshaped>>
Stretch(t, days) ==
    /\ Press /\ Shut
    /\ t \in Tasks /\ ~plan.tasks[t].milestone
    /\ plan' = Rescheduled([plan EXCEPT !.tasks[t].days = days])
    /\ reshaped' = reshaped \cup {t}
    /\ UNCHANGED <<budget, progress, adicional>>

OnCalendar(p) == Rescheduled(p)
SetCalendar(d) ==
    /\ Press /\ Shut
    /\ plan' = OnCalendar([plan EXCEPT !.closed =
                   IF d \in @ THEN @ \ {d} ELSE @ \cup {d}])
    /\ UNCHANGED <<budget, progress, adicional, reshaped>>

(* freezeBaseline *)
Freeze ==
    LET frozen == [n \in Tasks |-> <<plan.tasks[n].start, plan.tasks[n].finish>>]
    IN /\ Press /\ Shut
       /\ Tasks # {}
       /\ Len(plan.baselines) < 1
       /\ plan' = [plan EXCEPT !.baselines = Append(@, frozen)]
       /\ UNCHANGED <<budget, progress, adicional, reshaped>>
-----------------------------------------------------------------------------
(* ganttTaskDrawer.  The plan it works on is the one it was opened on, also  *)
(* after a link was taken off in it, which leaves it open. *)
OpenDrawer(t) ==
    /\ Press
    /\ drawer = Closed /\ t \in Tasks
    /\ drawer' = [on |-> t, plan |-> plan]
    /\ UNCHANGED <<plan, budget, progress, adicional, reshaped>>
CloseDrawer ==
    /\ drawer # Closed /\ drawer' = Closed
    /\ UNCHANGED <<plan, budget, progress, adicional, reshaped, presses>>

InDrawer == drawer # Closed /\ ("presses on" \in Slips \/ plan = drawer.plan)

TakeOff(d) ==
    /\ Press
    /\ InDrawer /\ d \in drawer.plan.deps /\ d.to = drawer.on
    /\ plan' = Rescheduled([drawer.plan EXCEPT !.deps = @ \ {d}])
    /\ UNCHANGED <<budget, progress, adicional, drawer, reshaped>>

(* Guardar.  The progress of a bar typed here does not reach its chapter. *)
Save(days, pct, pin) ==
    LET t == drawer.on
        old == drawer.plan.tasks[t]
        held == [drawer.plan EXCEPT !.tasks[t].days = IF old.milestone THEN 0 ELSE days,
                                    !.tasks[t].pin = pin]
    IN /\ Press
       /\ InDrawer
       /\ t \in Chapters /\ "typed here" \notin Slips => pct = old.pct
       /\ "less" \notin Slips => pct >= old.pct
       /\ plan' = Rescheduled([held EXCEPT !.tasks[t] = Reached(@, pct)])
       /\ reshaped' = IF days = old.days THEN reshaped ELSE reshaped \cup {t}
       /\ drawer' = Closed
       /\ UNCHANGED <<budget, progress, adicional>>

(* Soltar fecha *)
Unpin ==
    /\ Press
    /\ InDrawer /\ drawer.plan.tasks[drawer.on].pin # NoPin
    /\ plan' = Rescheduled([drawer.plan EXCEPT !.tasks[drawer.on].pin = NoPin])
    /\ drawer' = Closed
    /\ UNCHANGED <<budget, progress, adicional, reshaped>>

LinksLeft(deps, t) == {d \in deps : t \notin {d.from, d.to}}
(* removeTask *)
RemoveTask ==
    LET t == drawer.on
        left == DOMAIN drawer.plan.tasks \ {t}
    IN /\ Press
       /\ InDrawer
       /\ left # {} \/ "emptied" \in Slips
       /\ plan' = Rescheduled([drawer.plan EXCEPT
              !.tasks = [n \in left |-> drawer.plan.tasks[n]],
              !.deps = LinksLeft(@, t)])
       /\ reshaped' = reshaped \ {t}
       /\ drawer' = Closed
       /\ UNCHANGED <<budget, progress, adicional>>
-----------------------------------------------------------------------------
ChapterTold(c, pct) == [progress EXCEPT ![c] = pct]

(* The strip and the box of a chapter: recordProgress writes the bar and the *)
(* chapter, and a chapter without a bar is written alone. *)
RecordProgress(c, pct) ==
    /\ Press /\ Shut
    /\ budget[c] > 0
    /\ "less" \notin Slips => pct >= progress[c]
    /\ progress' = ChapterTold(c, pct)
    /\ plan' = IF c \in Tasks
               THEN Rescheduled([plan EXCEPT !.tasks[c] = Reached(@, pct)]) ELSE plan
    /\ UNCHANGED <<budget, adicional, reshaped>>

(* syncProgress: every bar takes the figure of its chapter. *)
Synced(told) ==
    [n \in Tasks |-> IF n \in Chapters /\ budget[n] > 0 /\ told[n] # plan.tasks[n].pct
                     THEN Reached(plan.tasks[n], told[n]) ELSE plan.tasks[n]]
RecordLine(c, pct) ==
    /\ Press /\ Shut
    /\ budget[c] > 0
    /\ "less" \notin Slips => pct >= progress[c]
    /\ progress' = [progress EXCEPT ![c] = pct]
    /\ plan' = [plan EXCEPT !.tasks = Synced(progress')]
    /\ UNCHANGED <<budget, adicional, reshaped>>

(* adiPlanDaysDrawer: all the chapters it names must have a bar, or nothing. *)
ApplyAdicional(by) ==
    /\ Press /\ Shut
    /\ ~adicional.applied
    /\ \A c \in Chapters : by[c] > 0 => c \in Tasks
    /\ adicional' = [days |-> by, applied |-> TRUE]
    /\ plan' = Rescheduled(AllDelayed(plan, by))
    /\ UNCHANGED <<budget, progress, reshaped>>

(* The button of a change that is approved is offered again once pressed. *)
ApplyChange(c) ==
    /\ Press /\ Shut
    /\ c \in Tasks
    /\ plan' = Rescheduled(Delayed(plan, c, 1))
    /\ reshaped' = reshaped \cup {c}
    /\ UNCHANGED <<budget, progress, adicional>>

PlanningNext ==
    \/ Derive
    \/ \E c \in Chapters, days \in Durations \cup {0} : Reaccept(c, days)
    \/ \E pin \in Pins, days \in {0, 2} : AddTask(pin, days)
    \/ \E a, b \in Chapters \cup {Hand}, type \in LinkTypes, lag \in Lags : Draw(a, b, type, lag)
    \/ \E t \in Chapters \cup {Hand}, pin \in Pins : Drag(t, pin)
    \/ \E t \in Chapters \cup {Hand}, days \in Durations : Stretch(t, days)
    \/ \E d \in Closures : SetCalendar(d)
    \/ Freeze
    \/ \E t \in Chapters \cup {Hand} : OpenDrawer(t)
    \/ CloseDrawer
    \/ \E d \in drawer.plan.deps : TakeOff(d)
    \/ \E days \in Durations, pct \in Percentages, pin \in Pins \cup {NoPin} :
            Save(days, pct, pin)
    \/ Unpin
    \/ RemoveTask
    \/ \E c \in Chapters, pct \in Percentages : RecordProgress(c, pct)
    \/ \E c \in Chapters, pct \in Percentages : RecordLine(c, pct)
    \/ \E by \in [Chapters -> ExtraDays] : ApplyAdicional(by)
    \/ \E c \in Chapters : ApplyChange(c)
-----------------------------------------------------------------------------
Status == {"planned", "in_progress", "done"}
PlanningTypeOK ==
    /\ Tasks \subseteq Chapters \cup {Hand}
    /\ \A n \in Tasks :
        LET t == plan.tasks[n]
        IN /\ t.days \in Nat /\ t.pin \in Pins \cup {NoPin} /\ t.milestone \in BOOLEAN
           /\ t.pct \in Percentages \cup {0} /\ t.status \in Status
           /\ t.finish >= t.start
           /\ IsWorkingDay(plan.closed, t.start) /\ IsWorkingDay(plan.closed, t.finish)
    /\ \A d \in plan.deps : d.type \in LinkTypes \cup {"FS"} /\ d.lag \in Lags \cup {0}
    /\ adicional.applied \in BOOLEAN

(* The dates the plan carries obey its links and the dates given by hand,     *)
(* whatever was pressed last, and no link names a bar that is not there       *)
(* (service.ts: "a dependency left pointing at a deleted task makes the next  *)
(* schedule throw").                                                          *)
DatesObeyLinks ==
    /\ \A d \in plan.deps : {d.from, d.to} \subseteq Tasks
    /\ \A d \in plan.deps :
        LET next == plan.tasks[d.to]
        IN next.start >= EarliestBy(plan.closed, d, plan.tasks[d.from], DurationOf(next))
    /\ \A n \in Tasks : plan.tasks[n].start >= plan.tasks[n].pin

(* Float is the room a task really has: held back to its late start the plan  *)
(* ends where it ended, and one working day further it ends later (cpm.ts:     *)
(* "the tasks where a day lost is a day lost on the whole plan").             *)
FloatIsRoom ==
    LET from == PlanStart(plan.closed, plan.tasks)
        dates(tasks) == EarlyDates(plan.closed, tasks, plan.deps, from)
        finish == PlanFinish(dates(plan.tasks))
        late == LateDates(plan.closed, plan.tasks, plan.deps, finish)
        held(n, d) == PlanFinish(dates([plan.tasks EXCEPT ![n].pin = d]))
        float(n) == WorkingDayOffset(plan.closed, dates(plan.tasks)[n].start, late[n].start)
    IN Tasks # {} =>
         \A n \in Tasks :
            /\ AddWorkingDays(plan.closed, dates(plan.tasks)[n].start, float(n)) = late[n].start
            /\ held(n, late[n].start) = finish
            /\ held(n, AddWorkingDays(plan.closed, late[n].start, 1)) > finish

(* The bar of a chapter and the chapter say the same progress: "how a project *)
(* comes to be 80 % done on one screen and 40 % on another".                  *)
OneProgress == \A c \in Bars : budget[c] > 0 => plan.tasks[c].pct = progress[c]

(* A bar is done when, and only when, all of it is: what is done is left out  *)
(* of what is late. *)
DoneIsAllOfIt == \A n \in Tasks : (plan.tasks[n].status = "done") <=> (plan.tasks[n].pct = Full)

(* A bar nobody reshaped takes what its chapter takes and the days of the     *)
(* adicional that were applied, once, however often the plan is derived.      *)
AgreedDaysOnce ==
    \A c \in Bars \ reshaped :
        plan.tasks[c].days = budget[c] + (IF adicional.applied THEN adicional.days[c] ELSE 0)

(* What was frozen is never taken back or rewritten. *)
FrozenStays == [][ /\ Len(plan'.baselines) >= Len(plan.baselines)
                   /\ \A k \in DOMAIN plan.baselines :
                        plan'.baselines[k] = plan.baselines[k] ]_planningVars

(* Deriving again keeps the date somebody gave a bar. *)
PinsSurviveDerivation ==
    [][ drawer = Closed /\ drawer' = Closed =>
          \A n \in Tasks \cap DOMAIN plan'.tasks :
              plan.tasks[n].pin # NoPin => plan'.tasks[n].pin # NoPin ]_planningVars

(* Nothing pressed in the drawer of a bar draws a link. *)
DrawerDrawsNothing == [][drawer # Closed => plan'.deps \subseteq plan.deps]_planningVars

(* "La tarea vuelve a su fecha mas temprana": a derived bar that is let go    *)
(* starts when its links ask, or when the work does. *)
LetGoFloatsBack ==
    [][ Unpin /\ drawer.on \in Chapters =>
          LET n == drawer.on
              asks(d) == EarliestBy(plan.closed, d, plan'.tasks[d.from], DurationOf(plan'.tasks[n]))
              asked == {asks(d) : d \in {e \in plan.deps : e.to = n}}
          IN plan'.tasks[n].start = Max(asked \cup {SnapForward(plan.closed, 0)}) ]_planningVars

\* What the plan of a job promises after any sequence of edits, derivations, progress and
\* agreed changes: dates obey the links, float is room to move, progress is told in one
\* place, and the days of a change are counted once.
PlanHolds ==
    /\ PlanningTypeOK
    /\ DatesObeyLinks
    /\ FloatIsRoom
    /\ OneProgress
    /\ DoneIsAllOfIt
    /\ AgreedDaysOnce
=============================================================================
