----------------------------- MODULE MCRegister -----------------------------
(***************************************************************************)
(* The parts of the browser's engine side by side on small instances.      *)
(* Each behaviour is about one of them, chosen at the start: the others    *)
(* stay as they began, so that one run explores them all without the       *)
(* product of their states.                                                *)
(***************************************************************************)
EXTENDS SalesBook, Series, Bank, Contracts, Labour, Purchasing, Budgets, Parties, Trades,
        BookImport

CONSTANTS owner, flat, insurer, kitchen, bath, lift, deposit, old, slash, dash, plain,
          current, savings, card, spend, top, refund, supplier, client,
          attic, socket, plug, ana, luis, villa, loose, ref, full, dear, gross, pool,
          tap, sink, tube, cooker, pipes, tiles,
          Parts      \* the parts a run is about

VARIABLE part

MCBillsUnder == [c \in Customers |-> IF c = flat THEN owner ELSE c]
MCSale == [c \in Chapters |-> IF c = kitchen THEN 20 ELSE 10]
MCPrice == [x \in Extras |-> 10]
MCStage == [m \in Milestones |-> 20]
MCYearOf == [d \in {1, 2} |-> d]

MCAccountOf == [l \in Lines |-> IF l = top THEN savings ELSE current]
MCQuarterOf == [l \in Lines |-> IF l = top THEN 2 ELSE 1]
MCAmount == [l \in Lines |-> IF l = spend THEN -20 ELSE IF l = top THEN 20 ELSE 10]
MCTimes == [l \in Lines |-> IF l = spend THEN 2 ELSE 1]
MCStatements == {spend :> 1, (spend :> 2) @@ (refund :> 1), top :> 1}
MCTotal == [p \in Papers |-> 20]
MCPaperQuarter == [p \in Papers |-> 1]

MCWeekOf == [d \in WorkDays |-> IF d = 1 THEN 1 ELSE 2]
MCHiredAt == [w \in Workers |-> [from |-> IF w = ana THEN 1 ELSE 2, cents |-> 10]]
MCBands == {[from |-> 2, cents |-> 20]}

MCBaseOf == [r \in Readings |-> IF r = full THEN 10 ELSE IF r = dear THEN 20 ELSE 0]
MCVatOf == [r \in Readings |-> 2]
MCGrossOf == [r \in Readings |-> IF r = dear THEN 22 ELSE 12]
MCShares == {<<1, 1, 1>>}
\* A cent short, exact, a cent over, and two cents over, which is refused.
MCMisses == {-1, 1, 2}

\* A row fills its cells or carries down, opens a heading, or names a subpartida again.
MCCells(p, c) == [f \in Columns |-> IF f = "price" THEN p ELSE c]
MCRow(t, p, i, price, cost) ==
    [title |-> t, partida |-> p, item |-> i, cells |-> MCCells(price, cost)]
MCSheetRows ==
    {MCRow(bath, pipes, tap, 20, 10), MCRow(Blank, Blank, tube, Blank, 10),
     MCRow(Blank, tiles, Blank, Blank, Blank), MCRow(cooker, pipes, tube, 30, Blank),
     MCRow(Blank, tiles, tap, 30, 10)}
\* One subpartida, under a código past the size of the book.
MCFirstBook ==
    [titles |-> {bath}, partidas |-> {pipes},
     items |-> tap :> [code |-> 2, cells |-> MCCells(30, 10), filed |-> {pipes}]]

\* The old tool printed like the new one.
MCForeignLikeNext == {[pattern |-> slash, year |-> 1, n |-> 1]}

MCTyped == {<<0, 1>>}
MCTypedLikeNext == {<<1, 2>>}

salesVars == <<seriesVars, bookVars, bankVars, dealVars>>
worksVars == <<labourVars, purchasingVars, budgetVars>>
fileVars == <<partyVars, tradeVars, importVars>>

Init ==
    /\ part \in Parts
    /\ SeriesInit /\ BookInit /\ BankInit /\ ContractsInit
    /\ LabourInit /\ PurchasingInit /\ BudgetsInit /\ PartiesInit /\ TradesInit
    /\ ImportInit
    /\ (signed => part = "book") /\ (contracted => part = "budgets")

Next ==
    \/ /\ part = "series" /\ SeriesNext
       /\ UNCHANGED <<part, bookVars, bankVars, dealVars, worksVars, fileVars>>
    \/ /\ part = "book" /\ BookNext
       /\ UNCHANGED <<part, seriesVars, bankVars, dealVars, worksVars, fileVars>>
    \/ /\ part = "bank" /\ BankNext
       /\ UNCHANGED <<part, seriesVars, bookVars, dealVars, worksVars, fileVars>>
    \/ /\ part = "contracts" /\ ContractsNext
       /\ UNCHANGED <<part, seriesVars, bookVars, bankVars, worksVars, fileVars>>
    \/ /\ part = "labour" /\ acts < MaxActs /\ LabourNext
       /\ UNCHANGED <<part, salesVars, purchasingVars, budgetVars, fileVars>>
    \/ /\ part = "purchasing" /\ handled < MaxHandled /\ PurchasingNext
       /\ UNCHANGED <<part, salesVars, labourVars, budgetVars, fileVars>>
    \/ /\ part = "budgets" /\ edits < MaxEdits /\ BudgetsNext
       /\ UNCHANGED <<part, salesVars, labourVars, purchasingVars, fileVars>>
    \/ /\ part = "parties" /\ PartiesNext
       /\ UNCHANGED <<part, salesVars, worksVars, tradeVars, importVars>>
    \/ /\ part = "trades" /\ TradesNext
       /\ UNCHANGED <<part, salesVars, worksVars, partyVars, importVars>>
    \/ /\ part = "imports" /\ ImportNext
       /\ UNCHANGED <<part, salesVars, worksVars, partyVars, tradeVars>>

Spec == Init /\ [][Next]_<<part, salesVars, worksVars, fileVars>>

\* Budgets and the price book they are written from, after any sequence of their
\* operations and of workbooks read into them.
OffersHold ==
    /\ BudgetsHold
    /\ TradesHold
    /\ part = "imports" => ImportsHold

\* What no step of the register may do, whichever part it is about: no invoice bills a
\* payer past the scope they bear, a filed invoice, a closed bank line and an issued
\* budget keep their figures, approved hours and signed contracts keep theirs, the days
\* of a change are counted once, a closed job gains nothing, a change of a budget revises
\* the version that stands, the scope an invoice counts against does not move under it,
\* and filing a subpartida leaves the others in their order.
StandingStands ==
    /\ BilledWithinScope
    /\ FiledInvoicesStand
    /\ ClosedLinesStand
    /\ DaysCountedOnce
    /\ SignedKeepsItsJob
    /\ ApprovedHoursStand
    /\ ClosedJobsGainNothing
    /\ IssuedPaperStands
    /\ AdicionalRevisesWhatStands
    /\ ScopeStands
    /\ FilingKeepsOrder
=============================================================================
