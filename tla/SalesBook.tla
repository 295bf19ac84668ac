----------------------------- MODULE SalesBook -----------------------------
(***************************************************************************)
(* The sales book of one job in the browser's engine: who may be billed    *)
(* for what, issuing, withdrawing, correcting and re-addressing invoices,  *)
(* the record each one leaves in the chain of events, what is collected    *)
(* against them and what the adviser was already sent                      *)
(* (site/erp-engine.js, the AR section, with the changes of the job).      *)
(*                                                                         *)
(* VAT and retention are left out: the total of an invoice is its base.    *)
(* The engine works on the copy in the page's memory, and nothing undoes   *)
(* what a call did before it threw (site/erp.html, mutate).                *)
(***************************************************************************)
EXTENDS Numbering, Tables, SequencesExt

CONSTANTS Customers, Owner,      \* Owner is the customer of the job
          BillsUnder,            \* billingParentId, or the customer itself
          Chapters, Sale,        \* the price of each chapter
          Extras, Price,         \* the change orders of the job
          Milestones, Stage,     \* the instalments of its contract
          Bases,                 \* the amounts an operator may invoice
          Foreign,               \* numbers printed by the company's old tool
          YearOf,                \* the year of each day
          MaxInvoices, MaxCollections, MaxCalls   \* bounds
CONSTANTS InvoiceShape, CreditShape   \* the patterns of its two series

None == 0
Days == DOMAIN YearOf
Kinds == {"progress", "creditNote"}
SeriesKeys == {"invoice", "creditNote"}
ShapeOf(key) == IF key = "creditNote" THEN CreditShape ELSE InvoiceShape
ChangeStatus == {"priced", "approved", "executed", "invoiced", "rejected", "cancelled"}
Agreed == {"approved", "executed", "invoiced"}

ASSUME OwnerAssumption == Owner \in Customers /\ BillsUnder[Owner] = Owner
ASSUME BillsUnderAssumption ==
    \A c \in Customers : BillsUnder[c] \in Customers /\ BillsUnder[BillsUnder[c]] = BillsUnder[c]
ASSUME AmountsAssumption ==
    /\ Bases \subseteq Nat \ {0} /\ IsFiniteSet(Chapters) /\ IsFiniteSet(Extras)
    /\ Sale \in [Chapters -> Nat] /\ Price \in [Extras -> Nat] /\ Stage \in [Milestones -> Nat]
ASSUME NoneAssumption == None \notin Extras \cup Milestones
ASSUME CalendarAssumption == 1 \in Days /\ Days \subseteq Nat /\ \A d \in Days : YearOf[d] \in Years
ASSUME ShapesAssumption == {InvoiceShape, CreditShape} \subseteq Patterns
ASSUME BookBounds == MaxInvoices \in Nat /\ MaxCollections \in Nat /\ MaxCalls \in Nat

VARIABLES book,        \* what one call of the engine changes, see BookTypeOK
          payers,      \* the customers with a billing row on the job
          payerOf,     \* billToPartyId of each chapter
          signed,      \* contract.signature.customerSignedAt
          collections, \* state.collections
          mailed,      \* the numbers whose mail has gone out
          packages,    \* packagesSent: "none", "sent" or "reopened"
          day,         \* state.today
          calls        \* the calls made so far, bounded by MaxCalls

bookVars == <<book, payers, payerOf, signed, collections, mailed, packages, day, calls>>

(* A row of state.invoices; the rows are kept by id, which only grows, so the *)
(* order of the ids is the order of issue. *)
Invoice == [number : Printed \cup Foreign, kind : Kinds, date : Days, party : Customers,
            base : Nat, extra : Extras \cup {None}, milestone : Milestones \cup {None},
            rectifies : Nat, external : BOOLEAN]
Chained == [number : Printed, total : Nat, prev : Seq(Printed \X Nat), hash : Seq(Printed \X Nat)]
SeriesRow == [pattern : Patterns, yearly : BOOLEAN, next : Nat \ {0},
              byYear : [Years -> Nat \cup {NoCount}], issued : Seq(Printed)]
ChangeRow == [status : ChangeStatus, invoice : Nat]
StageRow == [status : {"planned", "invoiced", "pending"}, invoice : Nat]
-----------------------------------------------------------------------------
KeyOf(kind) == IF kind = "creditNote" THEN "creditNote" ELSE "invoice"
InBook(b) == DOMAIN b.invoices
IssuedIn(b) == {i \in InBook(b) : ~b.invoices[i].external}

(* _attributedCents: the chapters this payer bears and the accepted changes,  *)
(* which belong to no chapter here and so are the owner's. *)
Attributed(b, party) ==
    SumOn(Sale, {c \in Chapters : payerOf[c] = party})
    + IF party = Owner THEN SumOn(Price, {x \in Extras : b.extras[x].status \in Agreed})
      ELSE 0

(* invoiceBases: the invoices of a payer and of every customer billing under *)
(* it, and what they come to once the credit notes are taken off. *)
Scope(b, party, except) ==
    {i \in InBook(b) : i # except /\ BillsUnder[b.invoices[i].party] = BillsUnder[party]}
Bills(b, S) == {i \in S : b.invoices[i].kind # "creditNote"}
BaseIn(b) == [i \in InBook(b) |-> b.invoices[i].base]
Net(b, S) == SumOn(BaseIn(b), Bills(b, S)) - SumOn(BaseIn(b), S \ Bills(b, S))

(* A cent for each invoice the payer already has, and one for the next. *)
Slack(b, S) == Cardinality(Bills(b, S)) + 1

Pays(party) == {party, BillsUnder[party]} \cap payers # {}       \* _payerFor

\* Fault: an instalment skips the ceiling.
MayIssueStage(b, d) ==
    LET S == Scope(b, d.party, d.editing)
    IN /\ Pays(d.party)
       /\ d.kind # "creditNote" /\ d.extra = None /\ d.milestone = None =>
              d.base <= Attributed(b, BillsUnder[d.party]) - Net(b, S) + Slack(b, S)
       /\ BillsUnder[d.party] = Owner /\ Bills(b, S) = {} => signed
       /\ d.kind = "creditNote" => d.rectifies # None

(* _invoiceBlocks finds nothing: AR-12, AR-11, CON-11, AR-10 and CHG-04 *)
MayIssue(b, d) ==
    LET S == Scope(b, d.party, d.editing)
    IN /\ Pays(d.party)
       /\ d.kind # "creditNote" /\ d.extra = None =>
              d.base <= Attributed(b, BillsUnder[d.party]) - Net(b, S) + Slack(b, S)
       /\ BillsUnder[d.party] = Owner /\ Bills(b, S) = {} => signed
       /\ d.kind = "creditNote" => d.rectifies # None
       /\ d.extra # None => b.extras[d.extra].status \in {"approved", "executed"}

(* The hash of an event stands for everything it was computed from. *)
Entry(number, total) == <<number, total>>
HashBefore(events, k) == IF k = 1 THEN <<>> ELSE events[k - 1].hash
Event(prev, number, total) ==
    [number |-> number, total |-> total, prev |-> prev,
     hash |-> Append(prev, Entry(number, total))]

(* issueInvoice, once nothing blocks the draft *)
Issue(b, d) ==
    LET key == KeyOf(d.kind)
        number == NextOf(b.series[key], YearOf[day])
    IN [b EXCEPT
        !.series[key] = Advance(@, YearOf[day]),
        !.extras = [x \in Extras |-> IF x = d.extra
                        THEN [status |-> "invoiced", invoice |-> b.next] ELSE @[x]],
        !.milestones = [m \in Milestones |-> IF m = d.milestone
                        THEN [status |-> "invoiced", invoice |-> b.next] ELSE @[m]],
        !.events = Append(@, Event(HashBefore(@, Len(@) + 1), number, d.base)),
        !.invoices = WithRow(@, b.next,
            [number |-> number, kind |-> d.kind, date |-> day, party |-> d.party,
             base |-> d.base, extra |-> d.extra, milestone |-> d.milestone,
             rectifies |-> d.rectifies, external |-> FALSE]),
        !.next = @ + 1]

Rectified(b, i) == \E c \in InBook(b) : b.invoices[c].rectifies = i
Received(i) == \E k \in DOMAIN collections : collections[k].to = i /\ collections[k].allocated > 0
Collected(i) ==
    SumOn([k \in DOMAIN collections |-> collections[k].allocated],
          {k \in DOMAIN collections : collections[k].to = i})

(* invoiceUndoBlock returns null *)
MayUndo(b, i) ==
    LET inv == b.invoices[i]   issued == b.series[KeyOf(inv.kind)].issued
    IN /\ b.events # <<>> /\ b.events[Len(b.events)].number = inv.number
       /\ issued # <<>> /\ issued[Len(issued)] = inv.number
       /\ ~Rectified(b, i)
       /\ ~Received(i)
       /\ inv.number \notin mailed
       /\ packages[inv.date] = "none"

(* What undoLastInvoice and a re-addressing hand back to the job: the change *)
(* the invoice billed and the instalment it was for. *)
HandBack(b, i) ==
    [b EXCEPT
        !.extras = [x \in Extras |-> IF x = b.invoices[i].extra /\ @[x].invoice = i
                        THEN [status |-> "approved", invoice |-> None] ELSE @[x]],
        !.milestones = [m \in Milestones |-> IF m = b.invoices[i].milestone /\ @[m].invoice = i
                        THEN [status |-> "pending", invoice |-> None] ELSE @[m]]]

RowsBut(b, i) == Restrict(b.invoices, InBook(b) \ {i})

(* undoLastInvoice, once nothing blocks it *)
Withdraw(b, i) ==
    [HandBack(b, i) EXCEPT
        !.series[KeyOf(b.invoices[i].kind)] = GiveBack(@, YearOf[b.invoices[i].date]),
        !.events = SubSeq(@, 1, Len(@) - 1),
        !.invoices = RowsBut(b, i)]

\* Fault: the links behind are left stale.
RebuiltInPlace(events, number, total) ==
    [k \in DOMAIN events |-> IF events[k].number = number
        THEN Event(events[k].prev, number, total) ELSE events[k]]

(* _rebuildInvoiceChain *)
Rebuilt(events, number, total) ==
    LET at == CHOOSE k \in DOMAIN events : events[k].number = number
        NowOf(k) == IF k = at THEN total ELSE events[k].total
        Upto(k) == HashBefore(events, at)
                   \o [j \in 1..(k - at + 1) |->
                          Entry(events[at + j - 1].number, NowOf(at + j - 1))]
    IN [k \in DOMAIN events |-> IF k < at THEN events[k]
            ELSE [number |-> events[k].number, total |-> NowOf(k),
                  prev |-> Upto(k - 1), hash |-> Upto(k)]]

(* editIssuedInvoice, once nothing blocks it *)
Edit(b, i, party, base) ==
    [b EXCEPT
        !.invoices[i] = [@ EXCEPT !.party = party, !.base = base],
        !.events = Rebuilt(@, b.invoices[i].number, base)]

(* invoiceOutstandingCents *)
Outstanding(b, i) ==
    IF b.invoices[i].kind = "creditNote" THEN 0
    ELSE b.invoices[i].base - Collected(i)
         - SumOn(BaseIn(b), {c \in InBook(b) : b.invoices[c].rectifies = i})
-----------------------------------------------------------------------------
BookTypeOK ==
    /\ book.next \in 1..MaxInvoices + 1
    /\ InBook(book) \subseteq 1..book.next - 1 /\ book.invoices \in [InBook(book) -> Invoice]
    /\ book.events \in Seq(Chained)
    /\ book.series \in [SeriesKeys -> SeriesRow]
    /\ book.extras \in [Extras -> ChangeRow] /\ book.milestones \in [Milestones -> StageRow]
    /\ payers \subseteq Customers /\ payerOf \in [Chapters -> Customers]
    /\ signed \in BOOLEAN /\ day \in Days /\ calls \in 0..MaxCalls
    /\ mailed \subseteq Printed
    /\ packages \in [Days -> {"none", "sent", "reopened"}]
    /\ collections \in Seq([amount : Bases, to : Nat, allocated : Bases])
    /\ \A k \in DOMAIN collections : collections[k].allocated <= collections[k].amount

BookInit ==
    /\ book = [invoices |-> <<>>, events |-> <<>>, next |-> 1,
               series |-> [key \in SeriesKeys |-> SeriesOf(ShapeOf(key))],
               extras |-> [x \in Extras |-> [status |-> "priced", invoice |-> None]],
               milestones |-> [m \in Milestones |-> [status |-> "planned", invoice |-> None]]]
    /\ payers = {Owner}
    /\ payerOf = [c \in Chapters |-> Owner]
    /\ signed \in BOOLEAN
    /\ collections = <<>>
    /\ mailed = {}
    /\ packages = [d \in Days |-> "none"]
    /\ day = 1
    /\ calls = 0

Draft(kind, party, base, extra, milestone, rectifies) ==
    [kind |-> kind, party |-> party, base |-> base, extra |-> extra,
     milestone |-> milestone, rectifies |-> rectifies, editing |-> None]
CreditOf(b, i) ==
    Draft("creditNote", b.invoices[i].party, b.invoices[i].base, None, None, i)

(* The drafts the billing screen opens: a free amount, an instalment still   *)
(* planned, a change agreed and not billed, or the credit of an invoice. *)
Drafts ==
    {Draft("progress", c, n, None, None, None) : c \in Customers, n \in Bases}
    \cup {Draft("progress", c, Stage[m], None, m, None) : c \in Customers,
            m \in {m \in Milestones : book.milestones[m].status = "planned"}}
    \cup {Draft("progress", Owner, Price[x], x, None, None) :
            x \in {x \in Extras : /\ book.extras[x].status \in {"approved", "executed"}
                                  /\ book.extras[x].invoice = None}}
    \cup {CreditOf(book, i) : i \in Bills(book, InBook(book))}

Call == calls < MaxCalls /\ calls' = calls + 1

IssueInvoice(d) ==
    /\ book.next <= MaxInvoices
    /\ MayIssue(book, d)
    /\ book' = Issue(book, d)
    /\ Call
    /\ UNCHANGED <<payers, payerOf, signed, collections, mailed, packages, day>>

UndoLastInvoice(i) ==
    /\ ~book.invoices[i].external                            \* invoiceDrawer
    /\ MayUndo(book, i)
    /\ book' = Withdraw(book, i)
    /\ Call
    /\ UNCHANGED <<payers, payerOf, signed, collections, mailed, packages, day>>

(* reassignInvoiceRecipient: withdraws the invoice and issues it again while *)
(* it may be corrected, and otherwise credits it and issues a replacement. A *)
(* replacement that is refused leaves the rest as it is. *)
ReassignInvoiceRecipient(i, party) ==
    LET inv == book.invoices[i]
        again == Draft(inv.kind, party, inv.base, inv.extra, inv.milestone, None)
        Reissued(b) == IF MayIssue(b, again) THEN Issue(b, again) ELSE b
        correct == MayUndo(book, i) /\ YearOf[inv.date] = YearOf[day]
    IN /\ ~inv.external /\ inv.kind # "creditNote" /\ ~Rectified(book, i)
       /\ party # inv.party /\ Pays(party)
       /\ \/ /\ correct
             /\ book.next <= MaxInvoices
             /\ book' = Reissued(Withdraw(book, i))
          \/ /\ ~correct
             /\ book.next < MaxInvoices
             /\ MayIssue(book, CreditOf(book, i))
             /\ book' = Reissued(HandBack(Issue(book, CreditOf(book, i)), i))
       /\ Call
    /\ UNCHANGED <<payers, payerOf, signed, collections, mailed, packages, day>>

EditIssuedInvoice(i, party, base) ==
    LET inv == book.invoices[i]
    IN /\ ~inv.external
       /\ packages[inv.date] # "sent"
       /\ ~Rectified(book, i)
       /\ MayIssue(book, [Draft(inv.kind, party, base, inv.extra, inv.milestone, inv.rectifies)
                            EXCEPT !.editing = i])
       /\ Collected(i) <= base
    /\ book' = Edit(book, i, party, base)
    /\ Call
    /\ UNCHANGED <<payers, payerOf, signed, collections, mailed, packages, day>>

RegisterExternalInvoice(number, party, base, date) ==
    /\ book.next <= MaxInvoices
    /\ \A i \in InBook(book) : book.invoices[i].number # number
    /\ date <= day /\ packages[date] # "sent"
    /\ book' = [book EXCEPT !.next = @ + 1,
            !.invoices = WithRow(@, book.next,
                [number |-> number, kind |-> "progress", date |-> date, party |-> party,
                 base |-> base, extra |-> None, milestone |-> None, rectifies |-> None,
                 external |-> TRUE])]
    /\ Call
    /\ UNCHANGED <<payers, payerOf, signed, collections, mailed, packages, day>>

RemoveExternalInvoice(i) ==
    /\ book.invoices[i].external
    /\ ~Received(i)
    /\ ~Rectified(book, i)
    /\ book' = [book EXCEPT !.invoices = RowsBut(book, i)]
    /\ Call
    /\ UNCHANGED <<payers, payerOf, signed, collections, mailed, packages, day>>

(* approveChange, markChangeExecuted, rejectChange and cancelChange *)
DecideChange(x, status) ==
    /\ \/ status = "approved" /\ book.extras[x].status = "priced"
       \/ status = "executed" /\ book.extras[x].status = "approved"
       \/ status \in {"rejected", "cancelled"} /\ book.extras[x].invoice = None
    /\ book' = [book EXCEPT !.extras[x].status = status]
    /\ Call
    /\ UNCHANGED <<payers, payerOf, signed, collections, mailed, packages, day>>

AddProjectPayer(party) ==
    /\ party \notin payers
    /\ payers' = payers \cup {party}
    /\ Call
    /\ UNCHANGED <<book, payerOf, signed, collections, mailed, packages, day>>

AssignChapterPayer(c, party) ==
    /\ party \in payers
    /\ InBook(book) = {}
    /\ payerOf' = [payerOf EXCEPT ![c] = party]
    /\ Call
    /\ UNCHANGED <<book, payers, signed, collections, mailed, packages, day>>

SignContract ==
    /\ ~signed
    /\ signed' = TRUE
    /\ Call
    /\ UNCHANGED <<book, payers, payerOf, collections, mailed, packages, day>>

(* One allocation of a collection: what is left over is held on account. *)
RecordCollection(i, amount, allocated) ==
    /\ Len(collections) < MaxCollections
    /\ allocated <= amount /\ allocated <= Outstanding(book, i) + 1
    /\ collections' = Append(collections,
                             [amount |-> amount, to |-> i, allocated |-> allocated])
    /\ Call
    /\ UNCHANGED <<book, payers, payerOf, signed, mailed, packages, day>>

AllocateCollection(k, i, allocated) ==
    /\ allocated <= collections[k].amount
    /\ collections' = [collections EXCEPT ![k].to = i, ![k].allocated = allocated]
    /\ Call
    /\ UNCHANGED <<book, payers, payerOf, signed, mailed, packages, day>>

VoidCollection(k) ==
    /\ collections' = RemoveAt(collections, k)
    /\ Call
    /\ UNCHANGED <<book, payers, payerOf, signed, mailed, packages, day>>

(* The mail of an issued invoice goes out. *)
MailSent(i) ==
    /\ ~book.invoices[i].external /\ book.invoices[i].number \notin mailed
    /\ mailed' = mailed \cup {book.invoices[i].number}
    /\ Call
    /\ UNCHANGED <<book, payers, payerOf, signed, collections, packages, day>>

(* quarterlyPackage and reopenQuarter: the last package of a period counts. *)
SendPackage(d) ==
    /\ d <= day /\ packages[d] # "sent"
    /\ packages' = [packages EXCEPT ![d] = "sent"]
    /\ Call
    /\ UNCHANGED <<book, payers, payerOf, signed, collections, mailed, day>>

ReopenQuarter(d) ==
    /\ packages[d] = "sent"
    /\ packages' = [packages EXCEPT ![d] = "reopened"]
    /\ Call
    /\ UNCHANGED <<book, payers, payerOf, signed, collections, mailed, day>>

NextDay ==
    /\ day + 1 \in Days
    /\ day' = day + 1
    /\ Call
    /\ UNCHANGED <<book, payers, payerOf, signed, collections, mailed, packages>>

BookNext ==
    \/ \E d \in Drafts : IssueInvoice(d)
    \/ \E i \in InBook(book) : UndoLastInvoice(i)
    \/ \E i \in InBook(book), c \in Customers : ReassignInvoiceRecipient(i, c)
    \/ \E i \in InBook(book), c \in Customers, n \in Bases : EditIssuedInvoice(i, c, n)
    \/ \E f \in Foreign, c \in Customers, n \in Bases, d \in Days :
           RegisterExternalInvoice(f, c, n, d)
    \/ \E i \in InBook(book) : RemoveExternalInvoice(i)
    \/ \E x \in Extras, s \in ChangeStatus : DecideChange(x, s)
    \/ \E c \in Customers : AddProjectPayer(c)
    \/ \E h \in Chapters, c \in Customers : AssignChapterPayer(h, c)
    \/ SignContract
    \/ \E i \in InBook(book), n \in Bases, a \in Bases : RecordCollection(i, n, a)
    \/ \E k \in DOMAIN collections, i \in InBook(book), a \in Bases : AllocateCollection(k, i, a)
    \/ \E k \in DOMAIN collections : VoidCollection(k)
    \/ \E i \in InBook(book) : MailSent(i)
    \/ \E d \in Days : SendPackage(d) \/ ReopenQuarter(d)
    \/ NextDay

BookSpec == BookInit /\ [][BookNext]_bookVars
-----------------------------------------------------------------------------
(* The members of S stand one by one, in the order of their ids, for the     *)
(* positions 1 to n: R are the pairs of a position and what stands there. *)
OneByOne(R, n, S) ==
    /\ \A k \in 1..n : \E i \in S : <<k, i>> \in R
    /\ \A i \in S : \E k \in 1..n : <<k, i>> \in R
    /\ \A p, q \in R : p[1] < q[1] <=> p[2] < q[2]

(* The chain of events verifies from end to end, and says of every invoice   *)
(* issued here and still standing, in the order of issue, what the invoice   *)
(* says today: editing rebuilds it and withdrawing takes its last link. *)
BookVerifies ==
    /\ \A k \in DOMAIN book.events :
        LET e == book.events[k]
        IN e = Event(HashBefore(book.events, k), e.number, e.total)
    /\ OneByOne({p \in (DOMAIN book.events) \X IssuedIn(book) :
                    /\ book.events[p[1]].number = book.invoices[p[2]].number
                    /\ book.events[p[1]].total = book.invoices[p[2]].base},
               Len(book.events), IssuedIn(book))

(* Nothing names an invoice that is no longer in the book: not a credit note,*)
(* a collection, a change billed or an instalment billed. *)
NothingPointsNowhere ==
    LET ids == InBook(book) \cup {None}
    IN /\ \A i \in InBook(book) : book.invoices[i].rectifies \in ids
       /\ \A k \in DOMAIN collections : collections[k].to \in ids
       /\ \A x \in Extras : book.extras[x].invoice \in ids
       /\ \A m \in Milestones : book.milestones[m].invoice \in ids

(* The numbers of a series are those of the invoices standing, in order: one *)
(* withdrawn gives its number back, one edited or re-addressed keeps it. *)
SeriesMatchesBook ==
    \A key \in SeriesKeys :
        LET issued == book.series[key].issued
            mine == {i \in IssuedIn(book) : KeyOf(book.invoices[i].kind) = key}
        IN OneByOne({p \in (DOMAIN issued) \X mine : issued[p[1]] = book.invoices[p[2]].number},
                   Len(issued), mine)

(* AR-11: no step bills a payer, with the customers under it, for more than  *)
(* it bears and the cents of rounding; an invoice for an agreed change is    *)
(* outside the ceiling, and credit notes are not counted against it. *)
NewlyBilled(i, S) ==
    /\ ~book'.invoices[i].external /\ book'.invoices[i].extra = None
    /\ i \in S => book'.invoices[i] # book.invoices[i]
BilledWithinScope ==
    [][\A c \in Customers :
        LET S == Scope(book, c, None)   T == Scope(book', c, None)
        IN (\E i \in Bills(book', T) : NewlyBilled(i, S))
           => Net(book', T)
              <= Attributed(book', BillsUnder[c]) + Cardinality(Bills(book', T))]_bookVars

(* An invoice issued here whose period has gone to the adviser is neither    *)
(* withdrawn nor rewritten until the period is reopened. *)
Stands(i) == i \in InBook(book') /\ book'.invoices[i] = book.invoices[i]
FiledInvoicesStand ==
    [][\A i \in IssuedIn(book) : packages[book.invoices[i].date] = "sent" => Stands(i)]_bookVars

(* undoLastInvoice: "the change marked billed and the contract instalment     *)
(* marked invoiced all go back to what they were".  An instalment is offered *)
(* for billing while it is planned, so each one is offered or is billed. *)
OfferedOrBilled ==
    \A m \in Milestones :
        book.milestones[m].status = "planned" \/ book.milestones[m].invoice # None

(* reassignInvoiceRecipient: "every refusal fires before a number is minted  *)
(* ... a half-done re-addressing would leave an abono against nothing". *)
ReaddressedWhole ==
    [][\A i \in InBook(book), c \in Customers :
        ReassignInvoiceRecipient(i, c) =>
            \E j \in InBook(book') : /\ j >= book.next /\ book'.invoices[j].party = c
                                     /\ book'.invoices[j].kind = book.invoices[i].kind]_bookVars

(* An agreed change is billed once: two invoices never stand for the same    *)
(* one unless the first of them was credited. *)
ChangeBilledOnce ==
    \A i, j \in Bills(book, InBook(book)) :
        /\ book.invoices[i].extra # None /\ i # j
        /\ book.invoices[i].extra = book.invoices[j].extra
        => Rectified(book, i) \/ Rectified(book, j)

(* registerExternalInvoice: "every other way of moving a period figure       *)
(* refuses once its package has gone out". *)
FiledPeriodStands ==
    [][\A i \in InBook(book) : packages[book.invoices[i].date] = "sent" => Stands(i)]_bookVars

\* What the book of issued invoices promises after any sequence of issuing, collecting,
\* crediting, withdrawing and deleting: its chain verifies, nothing names an invoice that
\* is gone, and the series stands where the book ends.
BookHolds ==
    /\ BookTypeOK
    /\ BookVerifies
    /\ NothingPointsNowhere
    /\ SeriesMatchesBook
=============================================================================
