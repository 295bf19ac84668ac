------------------------------ MODULE Ledgers ------------------------------
(***************************************************************************)
(* The ledgers of the factory's capabilities (packages/capabilities):      *)
(* receivables, payables, procurement and projects.  Each service turns a  *)
(* ledger into the next one or refuses; a behaviour is about one of them.  *)
(* Invoices, bills, orders and changes are named by their place.           *)
(***************************************************************************)
EXTENDS Tables, FiniteSets

CONSTANTS Amounts,       \* positive amounts of money
          Suppliers, Numbers,       \* who sends a bill, and the number it bears
          Partidas,      \* the chapters of a project
          Habits,        \* what a run allows besides: see their uses
          MaxDeeds       \* bound on the calls

ASSUME LedgerAmounts == Amounts \subseteq Nat /\ IsFiniteSet(Partidas)

VARIABLES service,    \* the service the behaviour is about
          invoices,   \* ArInvoice.totalCents
          receipts,   \* Receipt: [amount, allocations]
          dues,       \* SupplierBill: [supplier, number, total, paid]
          placed,     \* PurchaseOrder: [chapter, total, status]
          project,    \* Project: [baseline, costs, revenue, changes, status]
          deeds

ledgerVars == <<service, invoices, receipts, dues, placed, project, deeds>>

Added(f) == SumOn(f, DOMAIN f)
(* What the rows of a ledger at some positions come to. *)
Cents(ledger, S) == SumOn([k \in S |-> ledger[k].cents], S)
NoJob == [baseline |-> <<>>, costs |-> <<>>, changes |-> <<>>, status |-> "none"]

LedgersInit ==
    /\ service \in {"receivables", "payables", "procurement", "projects"}
    /\ invoices = <<>> /\ receipts = <<>> /\ dues = <<>> /\ placed = <<>>
    /\ project = NoJob /\ deeds = 0

Of(name) == service = name /\ deeds' = deeds + 1 /\ UNCHANGED service
-----------------------------------------------------------------------------
(* status: what the receipts allocated to an invoice, and what it still owes. *)
PaidIn(r, i) ==
    Cents(r.allocations, {k \in DOMAIN r.allocations : r.allocations[k].invoice = i})
PaidOf(i) == Added([k \in DOMAIN receipts |-> PaidIn(receipts[k], i)])
Outstanding(i) == invoices[i] - PaidOf(i)

RegisterInvoice(total) ==
    /\ Of("receivables")
    /\ invoices' = Append(invoices, total)
    /\ UNCHANGED <<receipts, dues, placed, project>>

(* Each allocation is compared with what its invoice owed before the receipt. *)
Fits(a) == a.cents <= Outstanding(a.invoice)
Allocations ==
    {<<[invoice |-> i, cents |-> c]>> : i \in DOMAIN invoices, c \in Amounts} \cup
    {<<[invoice |-> i, cents |-> c], [invoice |-> j, cents |-> d]>> :
        i, j \in DOMAIN invoices, c, d \in Amounts}
Within(amount, allocations) ==
    Cents(allocations, DOMAIN allocations) <= amount
RecordReceipt(amount, allocations) ==
    /\ Of("receivables")
    /\ Within(amount, allocations)
    /\ \A k \in DOMAIN allocations : Fits(allocations[k])
    /\ "named twice" \in Habits
         \/ \A k, l \in DOMAIN allocations :
                allocations[k].invoice = allocations[l].invoice => k = l
    /\ receipts' = Append(receipts, [amount |-> amount, allocations |-> allocations])
    /\ UNCHANGED <<invoices, dues, placed, project>>
-----------------------------------------------------------------------------
IsDuplicate(supplier, number) ==
    \E k \in DOMAIN dues : dues[k].supplier = supplier /\ dues[k].number = number
RegisterDue(supplier, number, total) ==
    /\ Of("payables")
    /\ ~IsDuplicate(supplier, number)
    /\ dues' = Append(dues, [supplier |-> supplier, number |-> number,
                             total |-> total, payments |-> <<>>])
    /\ UNCHANGED <<invoices, receipts, placed, project>>
Owed(k) == dues[k].total - Added(dues[k].payments)
RecordPayment(k, amount) ==
    /\ Of("payables")
    /\ k \in DOMAIN dues /\ amount <= Owed(k)
    /\ dues' = [dues EXCEPT ![k].payments = Append(@, amount)]
    /\ UNCHANGED <<invoices, receipts, placed, project>>
-----------------------------------------------------------------------------
Raise(chapter, total) ==
    /\ Of("procurement")
    /\ placed' = Append(placed, [chapter |-> chapter, total |-> total, status |-> "draft"])
    /\ UNCHANGED <<invoices, receipts, dues, project>>
MayBecome(from, to) ==
    \/ from = "draft" /\ to \in {"sent", "cancelled"}
    \/ from = "sent" /\ to \in {"received", "cancelled"}
Transition(k, to) ==
    /\ Of("procurement")
    /\ k \in DOMAIN placed /\ MayBecome(placed[k].status, to)
    /\ placed' = [placed EXCEPT ![k].status = to]
    /\ UNCHANGED <<invoices, receipts, dues, project>>

Committing == {k \in DOMAIN placed : placed[k].status \in {"sent", "received"}}
TotalOf(S) == SumOn([k \in S |-> placed[k].total], S)
Committed == TotalOf(Committing)
(* commitmentByChapter: the chapters budgeted, and those an order names. *)
CommitmentByChapter(budgeted) ==
    [c \in budgeted \cup {placed[k].chapter : k \in Committing} |->
        TotalOf({k \in Committing : placed[k].chapter = c})]
-----------------------------------------------------------------------------
(* fromAcceptedQuote: the rows of the quote, frozen. *)
FromAcceptedQuote(rows) ==
    /\ Of("projects") /\ project = NoJob
    /\ "chapter twice" \in Habits \/ IsInjective([k \in DOMAIN rows |-> rows[k].chapter])
    /\ project' = [baseline |-> rows, costs |-> <<>>, changes |-> <<>>, status |-> "active"]
    /\ UNCHANGED <<invoices, receipts, dues, placed>>
Active == Of("projects") /\ project.status = "active"
BookCost(kind, chapter, cents) ==
    /\ Active
    /\ project' = [project EXCEPT !.costs = Append(@, [kind |-> kind, chapter |-> chapter,
                                               cents |-> cents])]
    /\ UNCHANGED <<invoices, receipts, dues, placed>>
ProposeChange(chapter, delta) ==
    /\ Active
    /\ project' = [project EXCEPT !.changes = Append(@, [chapter |-> chapter, cents |-> delta,
                                                 status |-> "proposed"])]
    /\ UNCHANGED <<invoices, receipts, dues, placed>>
Undecided(c) == c.status = "proposed"
(* decideChange does not ask whether the project is still open. *)
DecideChange(k, to) ==
    /\ Of("projects")
    /\ k \in DOMAIN project.changes /\ Undecided(project.changes[k])
    /\ project.status = "active" \/ "decided late" \in Habits
    /\ project' = [project EXCEPT !.changes[k].status = to]
    /\ UNCHANGED <<invoices, receipts, dues, placed>>
Close ==
    /\ Of("projects") /\ project # NoJob
    /\ project' = [project EXCEPT !.status = "closed"]
    /\ UNCHANGED <<invoices, receipts, dues, placed>>

(* financials and marginByChapter *)
Approved(p) == {k \in DOMAIN p.changes : p.changes[k].status = "approved"}
CurrentBudget(p) == Cents(p.baseline, DOMAIN p.baseline) + Cents(p.changes, Approved(p))
ChaptersOf(p) ==
    {p.baseline[k].chapter : k \in DOMAIN p.baseline} \cup
    {p.costs[k].chapter : k \in DOMAIN p.costs} \cup
    {p.changes[k].chapter : k \in Approved(p)}
(* The budget of a chapter: the first row of the baseline that bears it. *)
BaselineOf(p, chapter) ==
    LET bearing == {k \in DOMAIN p.baseline : p.baseline[k].chapter = chapter}
        first == CHOOSE k \in bearing : \A j \in bearing : k <= j
    IN IF bearing = {} THEN 0 ELSE p.baseline[first].cents
BudgetByChapter(p) ==
    [c \in ChaptersOf(p) |->
        BaselineOf(p, c) + Cents(p.changes, {k \in Approved(p) : p.changes[k].chapter = c})]
Booked(p, kind) == {k \in DOMAIN p.costs : p.costs[k].kind = kind}
CostByChapter(p, kind) ==
    [c \in ChaptersOf(p) |-> Cents(p.costs, {k \in Booked(p, kind) : p.costs[k].chapter = c})]

Rows == {<<[chapter |-> c, cents |-> a]>> : c \in Partidas, a \in Amounts} \cup
        {<<[chapter |-> c, cents |-> a], [chapter |-> d, cents |-> a]>> :
            c, d \in Partidas, a \in Amounts}
LedgersNext ==
    \/ \E a \in Amounts : RegisterInvoice(a)
    \/ \E a \in Amounts, allocations \in Allocations : RecordReceipt(a, allocations)
    \/ \E s \in Suppliers, n \in Numbers, a \in Amounts : RegisterDue(s, n, a)
    \/ \E k \in DOMAIN dues, a \in Amounts : RecordPayment(k, a)
    \/ \E c \in Partidas, a \in Amounts : Raise(c, a)
    \/ \E k \in DOMAIN placed, to \in {"sent", "received", "cancelled"} : Transition(k, to)
    \/ \E rows \in Rows : FromAcceptedQuote(rows)
    \/ \E kind \in {"committed", "actual"}, c \in Partidas, a \in Amounts : BookCost(kind, c, a)
    \/ \E c \in Partidas, a \in Amounts : ProposeChange(c, a)
    \/ \E k \in DOMAIN project.changes, to \in {"approved", "rejected"} : DecideChange(k, to)
    \/ Close
-----------------------------------------------------------------------------
LedgersTypeOK ==
    /\ invoices \in Seq(Amounts)
    /\ \A k \in DOMAIN receipts :
        LET r == receipts[k]
        IN /\ \A a \in DOMAIN r.allocations : r.allocations[a].invoice \in DOMAIN invoices
           /\ Within(r.amount, r.allocations)
    /\ \A k \in DOMAIN dues : dues[k].payments \in Seq(Amounts)
    /\ \A k \in DOMAIN placed :
        placed[k].status \in {"draft", "sent", "received", "cancelled"}
    /\ project.status \in {"none", "active", "closed"}

(* No invoice is collected, and no bill paid, beyond what it is for           *)
(* ("partial allocation across invoices (never over-allocating)").            *)
NothingOverpaid ==
    /\ \A i \in DOMAIN invoices : Outstanding(i) >= 0
    /\ \A k \in DOMAIN dues : Owed(k) >= 0

(* A supplier's number is booked once. *)
NumbersBookedOnce ==
    \A j, k \in DOMAIN dues :
        dues[j].supplier = dues[k].supplier /\ dues[j].number = dues[k].number => j = k

(* What is said chapter by chapter adds up to what is said of the whole, in   *)
(* the budget, in what was committed and in what was spent.                   *)
ChaptersAddUp ==
    /\ Added(CommitmentByChapter(Partidas)) = Committed
    /\ Added(BudgetByChapter(project)) = CurrentBudget(project)
    /\ \A kind \in {"committed", "actual"} :
         Added(CostByChapter(project, kind)) = Cents(project.costs, Booked(project, kind))

(* A decision, a delivery and a closed project's figures are not taken back. *)
DecisionsStand ==
    [][ /\ \A k \in DOMAIN placed : placed[k].status \in {"received", "cancelled"} =>
              placed'[k].status = placed[k].status
        /\ \A k \in DOMAIN project.changes : ~Undecided(project.changes[k]) =>
              project'.changes[k] = project.changes[k]
        /\ project.status = "closed" => CurrentBudget(project') = CurrentBudget(project) ]_ledgerVars

\* What the ledgers of the factory promise after any sequence of receipts, documents and
\* changes: no document is paid beyond its amount, a supplier's number is booked once, and
\* the chapters of a budget add up to it.
LedgersHold ==
    /\ LedgersTypeOK
    /\ NothingOverpaid
    /\ NumbersBookedOnce
    /\ ChaptersAddUp
=============================================================================
