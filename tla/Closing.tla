------------------------------- MODULE Closing -------------------------------
(***************************************************************************)
(* The quarter's package for the accountant, in the browser's engine: what *)
(* it takes from the registers, what has to be justified before it goes,   *)
(* how a quarter that was sent is reopened, and what the rest of the office *)
(* may still do to it (site/erp-engine.js, the GES section; the wizard of  *)
(* site/erp.html).                                                         *)
(*                                                                         *)
(* Left out: the bank and cash blocks of the package, the gaps in the      *)
(* series and the parties without a tax number, which are exceptions like  *)
(* the bill without a document, and the adviser's questions.               *)
(***************************************************************************)
EXTENDS Integers, FiniteSetsExt, SequencesExt

CONSTANTS Sellers, BillNumbers,
          Freedoms,                     \* see FreedomsAssumption
          MaxPapersIn, MaxBooked, MaxSold, MaxSent, LastQuarter, MaxActions   \* bounds

(* "after the package": a bill is registered into a quarter that was sent.   *)
(* "before its end": the package of the running quarter is sent.  "taken     *)
(* back": an invoice recorded from another program is removed from a quarter *)
(* that was sent.  "namesakes": two bills carry one number. *)
ASSUME FreedomsAssumption ==
    Freedoms \subseteq {"after the package", "before its end", "taken back", "namesakes"}
ASSUME QuartersAssumption == LastQuarter \in Nat \ {0} /\ MaxBooked \in Nat

VARIABLES quarter,   \* the quarter of state.today
          documents, \* state.captured, by id: [of, status, bill]
          booked,    \* state.bills, by id: [supplier, number, of, document, paper]
          sold,      \* state.invoices, by id: [of, kind, cents, external, rectifies]
          sent,      \* state.packagesSent: [of, bills, reopened]
          accepted,  \* the keys of state.exceptionsAccepted
          reasoned,  \* the bills somebody gave a reason for
          actions    \* the calls made so far, bounded by MaxActions

closingVars == <<quarter, documents, booked, sold, sent, accepted, reasoned, actions>>

Quarters == 1..LastQuarter
Packages(q) == {k \in DOMAIN sent : sent[k].of = q}
EverSent(q) == Packages(q) # {}
(* What recordExternalInvoice and invoiceEditBlock ask: the last package of  *)
(* the quarter was not reopened.  invoiceUndoBlock, _billLocked and          *)
(* billDeleteBlock ask EverSent. *)
IsFiled(q) == EverSent(q) /\ ~sent[Max(Packages(q))].reopened

SoldIn(q) == {i \in DOMAIN sold : sold[i].of = q}
BookedIn(q) == {b \in DOMAIN booked : booked[b].of = q}
Signed(i) == IF sold[i].kind = "creditNote" THEN -sold[i].cents ELSE sold[i].cents
(* vatSummary: output and input, by the date alone. *)
VatSummary(q) ==
    <<FoldSet(LAMBDA i, sum : sum + Signed(i), 0, SoldIn(q)), Cardinality(BookedIn(q))>>
(* irpfSummary: what a credit note took back is added too. *)
IrpfSummary(q) == FoldSet(LAMBDA i, sum : sum + sold[i].cents, 0, SoldIn(q))

(* exceptionList: registered by hand.  A paper attached since is not looked  *)
(* at (attachBillDoc writes supportingDoc, this reads docRef and capId). *)
WithoutDocument(q) == {b \in BookedIn(q) : booked[b].document = 0}
Key(b) == <<booked[b].of, booked[b].number>>
Unjustified(q) == {b \in WithoutDocument(q) : Key(b) \notin accepted}
(* What the captures cost the job: allocated, and not yet a bill. *)
TicketCosts ==
    {d \in DOMAIN documents : documents[d].bill = 0 /\ documents[d].status = "allocated"}
-----------------------------------------------------------------------------
ClosingTypeOK ==
    /\ quarter \in Quarters
    /\ \A d \in DOMAIN documents :
           /\ documents[d].of \in 1..quarter
           /\ documents[d].bill # 0 =>
                  documents[d].bill \in DOMAIN booked /\ booked[documents[d].bill].document = d
    /\ \A b \in DOMAIN booked :
           booked[b].document \in DOMAIN documents => documents[booked[b].document].bill = b
    /\ \A i \in DOMAIN sold : sold[i].rectifies \in DOMAIN sold \cup {0}
    /\ \A k \in DOMAIN sent : sent[k].bills \subseteq 1..MaxBooked

ClosingInit ==
    /\ quarter = 1 /\ documents = <<>> /\ booked = <<>> /\ sold = <<>>
    /\ sent = <<>> /\ accepted = {} /\ reasoned = {} /\ actions = 0

Act == actions < MaxActions /\ actions' = actions + 1
OnPapers == Act /\ UNCHANGED <<quarter, sold, sent, accepted, reasoned>>
OnSales == Act /\ UNCHANGED <<quarter, documents, booked, sent, accepted, reasoned>>

QuarterEnds ==
    /\ quarter < LastQuarter /\ quarter' = quarter + 1
    /\ UNCHANGED <<documents, booked, sold, sent, accepted, reasoned, actions>>

Written(kept, id, rec) ==
    [j \in DOMAIN kept \cup {id} |-> IF j = id THEN rec ELSE kept[j]]
NewId(used, most) == {k \in 1..most : \A j \in used : j < k}
(* captureDocument and confirmCapture *)
Capture(d, of) ==
    /\ of <= quarter
    /\ documents' = Written(documents, d, [of |-> of, status |-> "validated", bill |-> 0])
    /\ OnPapers /\ UNCHANGED booked
DeleteDocument(d) ==
    /\ documents[d].bill = 0
    /\ documents' = [e \in DOMAIN documents \ {d} |-> documents[e]]
    /\ OnPapers /\ UNCHANGED booked

(* registerBill asks nothing of the quarter. *)
Register(b, supplier, number, of, document) ==
    /\ "after the package" \notin Freedoms => ~IsFiled(of)
    /\ "namesakes" \notin Freedoms =>
           /\ \A c \in DOMAIN booked : booked[c].number # number
           /\ \A q \in Quarters : <<q, number>> \notin accepted
    /\ booked' = Written(booked, b, [supplier |-> supplier, number |-> number, of |-> of,
                                   document |-> document, paper |-> FALSE])
    /\ OnPapers
(* allocateCapture and billFromCapture, one press. *)
RegisterDocument(b, d, supplier, number) ==
    /\ documents[d].bill = 0
    /\ Register(b, supplier, number, documents[d].of, d)
    /\ documents' = [documents EXCEPT ![d].bill = b, ![d].status = "allocated"]
RegisterByHand(b, supplier, number, of) ==
    of <= quarter /\ Register(b, supplier, number, of, 0) /\ UNCHANGED documents
AttachBillDoc(b) ==
    /\ booked[b].document = 0 /\ ~booked[b].paper
    /\ booked' = [booked EXCEPT ![b].paper = TRUE]
    /\ OnPapers /\ UNCHANGED documents
\* Fault: a quarter that was sent does not hold its bills.
BillLockedNever(b) == FALSE
(* billDeleteBlock and _billLocked *)
BillLocked(b) == EverSent(booked[b].of)
Released(b) ==
    [d \in DOMAIN documents |->
        IF d = booked[b].document THEN [documents[d] EXCEPT !.bill = 0] ELSE documents[d]]
DeleteBill(b) ==
    /\ ~BillLocked(b)
    /\ booked' = [c \in DOMAIN booked \ {b} |-> booked[c]]
    /\ documents' = Released(b) /\ OnPapers

Sell(i, rec) == sold' = Written(sold, i, rec) /\ OnSales
Invoice(of, kind, rectifies, cents, external) ==
    [of |-> of, kind |-> kind, rectifies |-> rectifies, cents |-> cents, external |-> external]
(* issueInvoice and createCreditNote are dated today. *)
IssueInvoice(i) == Sell(i, Invoice(quarter, "invoice", 0, 1, FALSE))
CreditInvoice(i, j) ==
    /\ sold[j].kind = "invoice" /\ \A k \in DOMAIN sold : sold[k].rectifies # j
    /\ Sell(i, Invoice(quarter, "creditNote", j, sold[j].cents, FALSE))
MayRecord(of) == of <= quarter /\ ~IsFiled(of)
RecordExternal(i, of) == MayRecord(of) /\ Sell(i, Invoice(of, "invoice", 0, 1, TRUE))
Rectified(i) == \E k \in DOMAIN sold : sold[k].rectifies = i
RemoveSold(i) == sold' = [k \in DOMAIN sold \ {i} |-> sold[k]] /\ OnSales
(* removeExternalInvoice asks nothing of the quarter. *)
RemoveExternal(i) ==
    /\ sold[i].external /\ ~Rectified(i) /\ RemoveSold(i)
    /\ "taken back" \notin Freedoms => ~IsFiled(sold[i].of)
(* undoLastInvoice *)
MayUndo(i) ==
    /\ ~Rectified(i) /\ \A k \in DOMAIN sold : k > i => sold[k].external
    /\ ~EverSent(sold[i].of)
UndoLast(i) == ~sold[i].external /\ MayUndo(i) /\ RemoveSold(i)
(* editInvoice, when invoiceEditBlock says nothing *)
EditSold(i, cents) ==
    /\ ~sold[i].external /\ ~Rectified(i) /\ ~IsFiled(sold[i].of) /\ sold[i].cents # cents
    /\ sold' = [sold EXCEPT ![i].cents = cents] /\ OnSales

(* acceptException: the key is the quarter, the kind and the number. *)
AcceptException(q, b) ==
    /\ b \in Unjustified(q) /\ Act
    /\ accepted' = accepted \cup {Key(b)} /\ reasoned' = reasoned \cup {b}
    /\ UNCHANGED <<quarter, documents, booked, sold, sent>>
\* Fault: the package goes with exceptions nobody justified.
MaySendAny(q) == TRUE
MaySend(q) == Unjustified(q) = {}
(* quarterlyPackage: nothing asks whether the quarter has ended, or whether  *)
(* it was sent already. *)
QuarterlyPackage(q) ==
    /\ "before its end" \in Freedoms \/ q < quarter
    /\ MaySend(q) /\ Len(sent) < MaxSent /\ Act
    /\ sent' = Append(sent, [of |-> q, bills |-> BookedIn(q), reopened |-> FALSE])
    /\ documents' = [d \in DOMAIN documents |->
           IF documents[d].of = q /\ documents[d].status = "allocated"
           THEN [documents[d] EXCEPT !.status = "sentToAccounting"] ELSE documents[d]]
    /\ UNCHANGED <<quarter, booked, sold, accepted, reasoned>>
ReopenQuarter(q) ==
    /\ EverSent(q) /\ Act /\ sent' = [sent EXCEPT ![Max(Packages(q))].reopened = TRUE]
    /\ UNCHANGED <<quarter, documents, booked, sold, accepted, reasoned>>

ClosingNext ==
    \/ QuarterEnds
    \/ \E q \in Quarters : QuarterlyPackage(q) \/ ReopenQuarter(q)
                           \/ (\E b \in DOMAIN booked : AcceptException(q, b))
    \/ \E d \in NewId(DOMAIN documents, MaxPapersIn), of \in Quarters : Capture(d, of)
    \/ \E d \in DOMAIN documents : DeleteDocument(d)
    \/ \E b \in NewId(DOMAIN booked \cup reasoned, MaxBooked), s \in Sellers, n \in BillNumbers :
           \/ \E d \in DOMAIN documents : RegisterDocument(b, d, s, n)
           \/ \E of \in Quarters : RegisterByHand(b, s, n, of)
    \/ \E b \in DOMAIN booked : AttachBillDoc(b) \/ DeleteBill(b)
    \/ \E i \in NewId(DOMAIN sold, MaxSold) :
           \/ IssueInvoice(i) \/ (\E j \in DOMAIN sold : CreditInvoice(i, j))
           \/ \E of \in Quarters : RecordExternal(i, of)
    \/ \E i \in DOMAIN sold : RemoveExternal(i) \/ UndoLast(i) \/ (\E c \in 1..2 : EditSold(i, c))
-----------------------------------------------------------------------------
(* What the adviser was sent stays what the registers say, until the quarter *)
(* is reopened. *)
FiledFiguresStand ==
    [][\A q \in Quarters : IsFiled(q) /\ IsFiled(q)' =>
           VatSummary(q)' = VatSummary(q) /\ IrpfSummary(q)' = IrpfSummary(q)]_closingVars

(* No bill without a document goes to the adviser unless somebody gave a     *)
(* reason for that bill. *)
JustifiedByName ==
    \A k \in DOMAIN sent : \A b \in sent[k].bills \cap DOMAIN booked :
        booked[b].document = 0 => b \in reasoned

(* A bill whose paper was attached is no longer one without a document. *)
AttachedIsDocumented ==
    \A q \in Quarters : \A b \in WithoutDocument(q) : ~booked[b].paper

(* Sending the quarter's package takes no cost off a job. *)
SendingKeepsCosts == [][sent' # sent => TicketCosts' = TicketCosts]_closingVars

(* A quarter that was reopened is open to whoever must correct it. *)
ReopenedIsOpen == \A b \in DOMAIN booked : BillLocked(b) => IsFiled(booked[b].of)

\* What the package of a quarter promises after any sequence of entries, dispatches and
\* reopenings: what was sent is within the types and each justification names its line.
PackagesHold ==
    /\ ClosingTypeOK
    /\ JustifiedByName
=============================================================================
