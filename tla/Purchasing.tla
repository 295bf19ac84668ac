----------------------------- MODULE Purchasing -----------------------------
(***************************************************************************)
(* What the office buys, in the browser's engine: orders to suppliers,     *)
(* subcontracts, the documents that were photographed and the bills they   *)
(* become (site/erp-engine.js, the PUR, SUB, CAP and AP sections, with the  *)
(* presses the screens of site/erp.html offer).                            *)
(*                                                                         *)
(* Left out: the bank side of a bill (Bank models it), the duplicate        *)
(* warning, withholding, and the wording of documents.                     *)
(***************************************************************************)
EXTENDS Tables, FiniteSetsExt, SequencesExt

CONSTANTS Readings,             \* what a document can be read as
          BaseOf, VatOf, GrossOf,       \* the three figures of a reading, zero when not read
          Shares,               \* ways to split a document, the weights of its rows
          Misses,               \* cents by which the rows typed may miss what is split
          Refs,                 \* the references an order and a bill may both carry
          OrderedQty, Deliveries, Goods,       \* an order, what may arrive of it, its price
          MaxPapers, MaxBills, MaxOrders, MaxSubs, MaxHandled     \* bounds

VARIABLES papers,    \* state.captured, by id
          bills,     \* state.bills, by id
          orders,    \* state.purchases, in order
          subs,      \* state.subcontracts, in order
          numbered,  \* the ids handed out to papers and to bills
          handled    \* the operations made so far, bounded by MaxHandled

purchasingVars == <<papers, bills, orders, subs, numbered, handled>>

Nothing == 0
NoRef == "none"
SumOfRows(rows) == SumOn(rows, DOMAIN rows)

\* A figure that was not read is zero, and what is ordered costs something.
ASSUME FiguresAssumption ==
    /\ {BaseOf, VatOf, GrossOf} \subseteq [Readings -> Nat]
    /\ \A share \in Shares : share \in Seq(Nat) \ {<<>>} /\ SumOfRows(share) > 0
    /\ Deliveries \subseteq Nat /\ Goods \in Nat \ {0}
    /\ Misses \subseteq Int /\ {MaxPapers, MaxBills, MaxSubs} \subseteq Nat

(* captureBasisCents: the base, or what is left of the total without its tax. *)
Basis(r) == IF BaseOf[r] > 0 THEN BaseOf[r] ELSE Max({0, GrossOf[r] - VatOf[r]})

(* _rescaleAllocations: in proportion, the last row with what is left. *)
Rescaled(rows, target) ==
    LET part(k) == (2 * rows[k] * target + SumOfRows(rows)) \div (2 * SumOfRows(rows))
        parts == [k \in 1..Len(rows) - 1 |-> part(k)]
    IN Append(parts, target - SumOfRows(parts))

(* A split is accepted a cent off what is split: the rows are typed by hand. *)
ComesTo(rows, target) == SumOfRows(rows) - target \in -1..1
Positive(rows) == \A k \in DOMAIN rows : rows[k] > 0

LiveOrder(o) == o.cancelled = FALSE
PurchaseStatus(o) ==
    CASE o.cancelled -> "cancelled"
      [] LiveOrder(o) /\ o.invoiced # Nothing -> "invoiced"
      [] LiveOrder(o) /\ o.invoiced = Nothing /\ o.delivered -> "received"
      [] LiveOrder(o) /\ o.invoiced = Nothing /\ ~o.delivered ->
            IF o.received > 0 THEN "partialReceived"
            ELSE IF o.accepted THEN "accepted" ELSE IF o.sent THEN "sent" ELSE "draft"
-----------------------------------------------------------------------------
Paper == [reading : Readings, ticket : BOOLEAN, rows : Seq(Int),
          status : {"captured", "validated", "allocated"}, bill : 0..MaxBills]
Bill == [paper : 0..MaxPapers, base : Nat, rows : Seq(Int), ref : Refs \cup {NoRef},
         sub : 0..MaxSubs]
Order == [ref : Refs \cup {NoRef}, sent : BOOLEAN, accepted : BOOLEAN, received : Nat,
          delivered : BOOLEAN, cancelled : BOOLEAN, invoiced : 0..MaxBills, returned : Nat,
          doc : 0..MaxPapers]
Subcontract == [status : {"draft", "sent", "accepted", "inExecution", "completed", "terminated"},
                insured : BOOLEAN, certified : Nat, bills : SUBSET (1..MaxBills),
                released : BOOLEAN]

PurchasingTypeOK ==
    /\ DOMAIN papers \subseteq 1..numbered.papers /\ DOMAIN bills \subseteq 1..numbered.bills
    /\ \A p \in DOMAIN papers : papers[p] \in Paper
    /\ \A b \in DOMAIN bills : bills[b] \in Bill
    /\ \A o \in DOMAIN orders : orders[o] \in Order
    /\ \A s \in DOMAIN subs : subs[s] \in Subcontract
    /\ \A b \in DOMAIN bills : ComesTo(bills[b].rows, bills[b].base)

PurchasingInit ==
    /\ papers = <<>> /\ bills = <<>> /\ orders = <<>> /\ subs = <<>>
    /\ numbered = [papers |-> 0, bills |-> 0] /\ handled = 0

Handle == handled < MaxHandled /\ handled' = handled + 1
OnOrders == Handle /\ UNCHANGED <<papers, bills, subs, numbered>>
OnSubs == Handle /\ UNCHANGED <<papers, bills, orders, numbered>>
OnPapers == Handle /\ UNCHANGED <<bills, orders, subs>>
-----------------------------------------------------------------------------
NewOrder(ref) ==
    [ref |-> ref, sent |-> FALSE, accepted |-> FALSE, received |-> 0, delivered |-> FALSE,
     cancelled |-> FALSE, invoiced |-> Nothing, returned |-> 0, doc |-> Nothing]
AddPurchase(ref) ==
    /\ Len(orders) < MaxOrders
    /\ orders' = Append(orders, NewOrder(ref)) /\ OnOrders
DuplicatePurchase(o) ==
    /\ Len(orders) < MaxOrders
    /\ LiveOrder(orders[o]) /\ orders[o].invoiced = Nothing
    /\ orders' = Append(orders, NewOrder(orders[o].ref)) /\ OnOrders
SendPurchase(o) ==
    /\ PurchaseStatus(orders[o]) = "draft"
    /\ orders' = [orders EXCEPT ![o].sent = TRUE] /\ OnOrders
AcceptPurchase(o) ==
    /\ PurchaseStatus(orders[o]) = "sent"
    /\ orders' = [orders EXCEPT ![o].accepted = TRUE] /\ OnOrders
ReceivePurchase(o, qty) ==
    /\ PurchaseStatus(orders[o]) \in {"accepted", "partialReceived"}
    /\ orders' = [orders EXCEPT ![o].received = @ + qty,
                                ![o].delivered = @ \/ orders[o].received + qty >= OrderedQty]
    /\ OnOrders
CancelPurchase(o) ==
    /\ LiveOrder(orders[o]) /\ orders[o].invoiced = Nothing
    /\ orders' = [orders EXCEPT ![o].cancelled = TRUE] /\ OnOrders
(* recordReturn bounds nothing; the model stops at one return of the whole. *)
RecordReturn(o) ==
    /\ orders[o].delivered /\ orders[o].returned = 0
    /\ orders' = [orders EXCEPT ![o].returned = Goods] /\ OnOrders
(* The screen detaches the document an order has and attaches the one chosen. *)
AttachPurchaseDocument(o, p) ==
    /\ orders[o].doc # p
    /\ orders' = [orders EXCEPT ![o].doc = p] /\ OnOrders
-----------------------------------------------------------------------------
CaptureDocument(r, ticket) ==
    /\ numbered.papers < MaxPapers
    /\ numbered' = [numbered EXCEPT !.papers = @ + 1]
    /\ papers' = WithRow(papers, numbered'.papers,
                   [reading |-> r, ticket |-> ticket, rows |-> <<>>, status |-> "validated",
                    bill |-> Nothing])
    /\ OnPapers

(* The drawer shows the figures of a registered document without a field. *)
Correctable(p) == papers[p].bill = Nothing
ConfirmCapture(p, r) ==
    /\ Correctable(p) /\ papers[p].reading # r
    /\ papers' = [papers EXCEPT ![p].reading = r, ![p].status = "validated"]
    /\ OnPapers /\ UNCHANGED numbered
DeleteCapture(p) ==
    /\ papers[p].bill = Nothing
    /\ papers' = [q \in DOMAIN papers \ {p} |-> papers[q]]
    /\ OnPapers /\ UNCHANGED numbered

(* registerBill: the first order of the supplier with the bill's reference is *)
(* invoiced by it, whatever has become of the order. *)
Ordered(ref) == {o \in DOMAIN orders : ref # NoRef /\ orders[o].ref = ref}
Invoices(ref, b) ==
    IF Ordered(ref) = {} THEN orders ELSE [orders EXCEPT ![Min(Ordered(ref))].invoiced = b]
RegisterBill(bill) ==
    /\ numbered.bills < MaxBills
    /\ bill.rows # <<>> /\ ComesTo(bill.rows, bill.base)
    /\ numbered' = [numbered EXCEPT !.bills = @ + 1]
    /\ bills' = WithRow(bills, numbered'.bills, bill)
    /\ orders' = Invoices(bill.ref, numbered'.bills)
    /\ Handle

(* The drawer drops the rows without an amount. *)
BillByHand(base, share, miss, ref) ==
    LET rows == Rescaled(share, base + miss)
    IN /\ Positive(rows)
       /\ RegisterBill([paper |-> Nothing, base |-> base, rows |-> rows, ref |-> ref,
                        sub |-> Nothing])
       /\ UNCHANGED <<papers, subs>>

(* One press: the supplier, the split and the bill.  The split is of the     *)
(* basis, what is billed is the base, and the rows of the bill are those of  *)
(* the split brought to it. *)
BillFromCapture(p, share, miss) ==
    LET r == papers[p].reading
        rows == Rescaled(share, (IF Basis(r) > 0 THEN Basis(r) ELSE Goods) + miss)
    IN /\ papers[p].bill = Nothing
       /\ Positive(rows) /\ (Basis(r) > 0 => ComesTo(rows, Basis(r)))
       /\ RegisterBill([paper |-> p, base |-> BaseOf[r], rows |-> Rescaled(rows, BaseOf[r]),
                        ref |-> NoRef, sub |-> Nothing])
       /\ papers' = [papers EXCEPT ![p].rows = rows, ![p].status = "allocated",
                                   ![p].bill = numbered'.bills]
       /\ UNCHANGED subs

\* Fault: the document of a deleted bill is not given back.
FreedNone(b) == papers
Freed(b) ==
    [p \in DOMAIN papers |->
        IF p = bills[b].paper THEN [papers[p] EXCEPT !.bill = Nothing] ELSE papers[p]]
Reopened(b) ==
    [o \in DOMAIN orders |->
        IF orders[o].invoiced = b THEN [orders[o] EXCEPT !.invoiced = Nothing] ELSE orders[o]]
DeleteBill(b) ==
    /\ bills' = [k \in DOMAIN bills \ {b} |-> bills[k]]
    /\ papers' = Freed(b) /\ orders' = Reopened(b)
    /\ Handle /\ UNCHANGED <<subs, numbered>>
-----------------------------------------------------------------------------
AddSubcontract ==
    /\ Len(subs) < MaxSubs
    /\ subs' = Append(subs, [status |-> "draft", insured |-> FALSE, certified |-> 0,
                             bills |-> {}, released |-> FALSE])
    /\ OnSubs
SubMoves(s, from, to) ==
    /\ subs[s].status \in from
    /\ subs' = [subs EXCEPT ![s].status = to] /\ OnSubs
SendSubcontract(s) == SubMoves(s, {"draft"}, "sent")
AcceptSubcontract(s) == SubMoves(s, {"sent"}, "accepted")
MarkSubcontractStarted(s) == subs[s].insured /\ SubMoves(s, {"accepted"}, "inExecution")
MarkSubcontractCompleted(s) == SubMoves(s, {"inExecution"}, "completed")
TerminateSubcontract(s) ==
    SubMoves(s, {"draft", "sent", "accepted", "inExecution"}, "terminated")
Certifiable(s) == subs[s].status \in {"accepted", "inExecution"}
CertifySubcontract(s) ==
    /\ Certifiable(s) /\ subs[s].certified = 0
    /\ subs' = [subs EXCEPT ![s].certified = Goods] /\ OnSubs
(* renewSubcontractDoc, and the day a mandatory document runs out. *)
RenewSubcontractDoc(s) ==
    /\ ~subs[s].insured /\ subs' = [subs EXCEPT ![s].insured = TRUE] /\ OnSubs
DocumentExpires(s) ==
    /\ subs[s].insured /\ subs' = [subs EXCEPT ![s].insured = FALSE] /\ OnSubs
ApproveSubcontractorInvoice(s) ==
    /\ Certifiable(s)
    /\ RegisterBill([paper |-> Nothing, base |-> Goods, rows |-> <<Goods>>, ref |-> NoRef,
                     sub |-> s])
    /\ subs' = [subs EXCEPT ![s].bills = @ \cup {numbered'.bills}]
    /\ UNCHANGED papers
ReleaseSubcontractRetention(s) ==
    /\ ~subs[s].released /\ subs' = [subs EXCEPT ![s].released = TRUE] /\ OnSubs

OrdersNext ==
    \/ \E ref \in Refs \cup {NoRef} : AddPurchase(ref)
    \/ \E o \in DOMAIN orders : DuplicatePurchase(o) \/ SendPurchase(o) \/ AcceptPurchase(o)
                                \/ CancelPurchase(o) \/ RecordReturn(o)
    \/ \E o \in DOMAIN orders, qty \in Deliveries : ReceivePurchase(o, qty)
    \/ \E o \in DOMAIN orders, p \in DOMAIN papers \cup {Nothing} : AttachPurchaseDocument(o, p)
PapersNext ==
    \/ \E r \in Readings, ticket \in BOOLEAN : CaptureDocument(r, ticket)
    \/ \E p \in DOMAIN papers, r \in Readings : ConfirmCapture(p, r)
    \/ \E p \in DOMAIN papers : DeleteCapture(p)
    \/ \E p \in DOMAIN papers, share \in Shares, miss \in Misses : BillFromCapture(p, share, miss)
    \/ \E share \in Shares, miss \in Misses, ref \in Refs \cup {NoRef} :
           BillByHand(Goods, share, miss, ref)
    \/ \E b \in DOMAIN bills : DeleteBill(b)
SubsNext ==
    \/ AddSubcontract
    \/ \E s \in DOMAIN subs :
           \/ SendSubcontract(s) \/ AcceptSubcontract(s) \/ MarkSubcontractStarted(s)
           \/ MarkSubcontractCompleted(s) \/ TerminateSubcontract(s) \/ CertifySubcontract(s)
           \/ RenewSubcontractDoc(s) \/ DocumentExpires(s) \/ ApproveSubcontractorInvoice(s)
           \/ ReleaseSubcontractRetention(s)
PurchasingNext == OrdersNext \/ PapersNext \/ SubsNext

PurchasingSpec == PurchasingInit /\ [][PurchasingNext]_purchasingVars
-----------------------------------------------------------------------------
(* deleteBill: "the two forward pointers are RELEASED rather than left       *)
(* dangling": a document and its bill name each other, and an order names    *)
(* the bill in the register that invoices it, as long as there is one. *)
RegisterAgrees ==
    /\ \A p \in DOMAIN papers : papers[p].bill # Nothing =>
           papers[p].bill \in DOMAIN bills /\ bills[papers[p].bill].paper = p
    /\ \A b \in DOMAIN bills : bills[b].paper # Nothing =>
           bills[b].paper \in DOMAIN papers /\ papers[bills[b].paper].bill = b
    /\ \A o \in DOMAIN orders : orders[o].invoiced # Nothing =>
           orders[o].invoiced \in DOMAIN bills /\ bills[orders[o].invoiced].ref = orders[o].ref

(* "A record pointing at an id that no longer exists is the failure this     *)
(* method exists to avoid": nothing names a bill or a document that is gone. *)
NothingDangles ==
    /\ \A s \in DOMAIN subs : subs[s].bills \subseteq DOMAIN bills
    /\ \A o \in DOMAIN orders : orders[o].doc \in DOMAIN papers \cup {Nothing}

(* captureBasisCents: "the base is taken from the record when it is there,   *)
(* and reconstructed from total - tax when it is not": a bill costs what its *)
(* document says now; what was split came to that within a cent, and what    *)
(* the bill charges to the jobs comes to it exactly (_rescaleAllocations:    *)
(* the last row takes what the others leave). *)
BilledAtItsBasis ==
    \A p \in DOMAIN papers : LET b == papers[p].bill IN b \in DOMAIN bills =>
        /\ bills[b].base = Basis(papers[p].reading)
        /\ ComesTo(papers[p].rows, bills[b].base)
        /\ SumOfRows(bills[b].rows) = bills[b].base

(* accountLedger and projectCostRows read the same documents: what is spent  *)
(* is each bill once, and each ticket that is not a bill yet. *)
SumOver(S, f(_)) == FoldSet(LAMBDA x, sum : sum + f(x), 0, S)
JobCosts ==
    SumOver(DOMAIN bills, LAMBDA b : SumOfRows(bills[b].rows))
    + SumOver({p \in DOMAIN papers : papers[p].status = "allocated" /\ papers[p].bill = Nothing
                                     /\ papers[p].ticket},
              LAMBDA p : SumOfRows(papers[p].rows))
AccountLedger ==
    SumOver(DOMAIN bills, LAMBDA b : SumOfRows(bills[b].rows))
    + SumOver(DOMAIN papers, LAMBDA p : SumOfRows(papers[p].rows))
LedgerMatchesJobs == AccountLedger = JobCosts

\* What orders, deliveries and suppliers' papers promise after any sequence of them: the
\* rows of a bill come to it within a cent, documents, bills and orders name each other,
\* and a document is billed at its basis, the cent that was mistyped put right.
PurchasesHold ==
    /\ PurchasingTypeOK
    /\ RegisterAgrees
    /\ BilledAtItsBasis
=============================================================================
