--------------------------- MODULE Office_proofs ---------------------------
(***************************************************************************)
(* Proofs about the parts beside the register.                             *)
(* Closing, for any number of quarters, bills, sales and packages:         *)
(*   - PackagesTyped whatever the office does;                             *)
(*   - PackagesKept as long as no two bills carry one number.              *)
(* Outbox, for any invoices, rules and lives of an invoice:                *)
(*   - SentKept as long as no invoice is withdrawn under its message,      *)
(*     DeclinedKept as long as no message is declined during a sweep,      *)
(*     DraftsKept as long as one call at a time files a draft and no page  *)
(*     is reloaded meanwhile, OutboxKept where none of it happens.         *)
(* Agenda, for any workers, papers, invoices, bills and days:              *)
(*   - TasksAreOne whatever happens;                                       *)
(*   - AlertsKept as long as no collection is undone, no paper renewed and *)
(*     no second bill arrives.                                             *)
(* Margins, for any versions, annexes, costs and amounts:                  *)
(*   - MarginsKept as long as an adicional only adds, annexes are signed   *)
(*     and taken back newest first, none is removed before another         *)
(*     adicional is accepted, and none is taken back with costs on it.     *)
(* Ledgers, for any amounts, suppliers, numbers and chapters:              *)
(*   - LedgersKept as long as a receipt names an invoice once, a quote     *)
(*     names a chapter once and no change is decided after the close       *)
(*     (no Habits).                                                        *)
(* Matching, for any shapes of line, papers, tolerances and periods:       *)
(*   - MatchingKept as long as the screen shows every line, no two         *)
(*     payments out fit one in and a line is not matched to the papers of  *)
(*     several parties at once (no Likenesses);                            *)
(*   - CapabilitiesKept, which is this and LedgersKept.                    *)
(* Accounts, for every set of people, links and ERP_USERS and any number   *)
(* of requests at once, whatever dies:                                     *)
(*   - TypeCorrect: the type invariant;                                    *)
(*   - OverlapsNoted: what a request checked still holds when it writes,   *)
(*     or another changed it in its course;                                *)
(*   - LastAdminKept, LinksAreKept and OnlyAdministratorsRestore follow;   *)
(*   - KeepsAnAdministrator, for requests that come one at a time: two at  *)
(*     once break it (run acc_orphan).                                     *)
(***************************************************************************)
EXTENDS Closing, Outbox, Agenda, Accounts, Margins, Capabilities, Tables_proofs, FiniteSetTheorems, TLAPS

-----------------------------------------------------------------------------
(* Closing: the quarter's package. *)

ClosingSpec == ClosingInit /\ [][ClosingNext]_closingVars

Paper == [of : Quarters, status : {"validated", "allocated", "sentToAccounting"}, bill : Nat]
Bill == [supplier : Sellers, number : BillNumbers, of : Quarters, document : Nat,
         paper : BOOLEAN]
SaleRow == [of : Quarters, kind : {"invoice", "creditNote"}, rectifies : Nat, cents : Nat,
         external : BOOLEAN]
Package == [of : Quarters, bills : SUBSET (1..MaxBooked), reopened : BOOLEAN]

ClosingTyped ==
    /\ quarter \in Quarters
    /\ documents \in [DOMAIN documents -> Paper] /\ DOMAIN documents \subseteq Nat \ {0}
    /\ booked \in [DOMAIN booked -> Bill] /\ DOMAIN booked \subseteq 1..MaxBooked
    /\ sold \in [DOMAIN sold -> SaleRow] /\ DOMAIN sold \subseteq Nat \ {0}
    /\ sent \in Seq(Package) /\ reasoned \subseteq Nat

\* A document and the bill made of it name each other, and a credit note its invoice.
Linked ==
    /\ \A d \in DOMAIN documents :
           /\ documents[d].of <= quarter
           /\ documents[d].bill # 0 =>
                  documents[d].bill \in DOMAIN booked /\ booked[documents[d].bill].document = d
    /\ \A b \in DOMAIN booked : booked[b].document # 0 =>
           booked[b].document \in DOMAIN documents /\ documents[booked[b].document].bill = b
    /\ \A i \in DOMAIN sold : sold[i].rectifies \in DOMAIN sold \cup {0}

\* The bills of a package stay, in their quarter, with the reason somebody gave.
PackageStands ==
    \A k \in DOMAIN sent : \A b \in sent[k].bills :
        /\ b \in DOMAIN booked /\ booked[b].of = sent[k].of
        /\ booked[b].document = 0 => b \in reasoned
\* A number is one bill's, and what is accepted under it was accepted for that bill.
OneName == \A b, c \in DOMAIN booked : booked[b].number = booked[c].number => b = c
ReasonOfItsOwn == \A b \in DOMAIN booked : Key(b) \in accepted => b \in reasoned
Justified == PackageStands /\ OneName /\ ReasonOfItsOwn

\* No two bills ever carry one number.
NoNamesakes == "namesakes" \notin Freedoms

-----------------------------------------------------------------------------
(* What the steps do to the registers. *)

LEMMA NewIs ==
    ASSUME NEW used, NEW most, NEW k \in NewId(used, most), used \subseteq Int
    PROVE  k \in Nat \ {0} /\ k \in 1..most /\ k \notin used
  BY DEF NewId

\* The steps by what they change.
OnDocuments ==
    \/ \E d \in NewId(DOMAIN documents, MaxPapersIn), of \in Quarters : Capture(d, of)
    \/ \E d \in DOMAIN documents : DeleteDocument(d)
Registers(b) ==
    \/ \E d \in DOMAIN documents, s \in Sellers, n \in BillNumbers :
           RegisterDocument(b, d, s, n)
    \/ \E of \in Quarters, s \in Sellers, n \in BillNumbers : RegisterByHand(b, s, n, of)
OnSold ==
    \/ \E i \in NewId(DOMAIN sold, MaxSold) :
           \/ IssueInvoice(i) \/ (\E j \in DOMAIN sold : CreditInvoice(i, j))
           \/ \E of \in Quarters : RecordExternal(i, of)
    \/ \E i \in DOMAIN sold :
           RemoveExternal(i) \/ UndoLast(i) \/ (\E c \in 1..2 : EditSold(i, c))

LEMMA ClosingSplits ==
    ASSUME ClosingNext
    PROVE  \/ QuarterEnds \/ OnDocuments \/ OnSold
           \/ \E b \in NewId(DOMAIN booked \cup reasoned, MaxBooked) : Registers(b)
           \/ \E b \in DOMAIN booked : AttachBillDoc(b) \/ DeleteBill(b)
           \/ \E q \in Quarters : QuarterlyPackage(q) \/ ReopenQuarter(q)
           \/ \E q \in Quarters, b \in DOMAIN booked : AcceptException(q, b)
  BY DEF ClosingNext, OnDocuments, OnSold, Registers

\* What is sold is no part of the rest.
LEMMA SoldStep ==
    ASSUME ClosingTyped, Linked, OnSold
    PROVE  /\ UNCHANGED <<quarter, documents, booked, sent, accepted, reasoned>>
           /\ sold' \in [DOMAIN sold' -> SaleRow] /\ DOMAIN sold' \subseteq Nat \ {0}
           /\ \A i \in DOMAIN sold' : sold'[i].rectifies \in DOMAIN sold' \cup {0}
  <1>1. UNCHANGED <<quarter, documents, booked, sent, accepted, reasoned>>
    BY DEF OnSold, IssueInvoice, CreditInvoice, RecordExternal, RemoveExternal, UndoLast,
           EditSold, Sell, RemoveSold, OnSales
  <1>2. sold \in [DOMAIN sold -> SaleRow] /\ DOMAIN sold \subseteq Nat \ {0}
        /\ quarter \in Quarters
        /\ \A i \in DOMAIN sold : sold[i].rectifies \in DOMAIN sold \cup {0}
    BY DEF ClosingTyped, Linked
  <1>3. ASSUME NEW i \in NewId(DOMAIN sold, MaxSold), NEW rec \in SaleRow, Sell(i, rec),
               rec.rectifies \in DOMAIN sold \cup {0}
        PROVE  /\ sold' \in [DOMAIN sold' -> SaleRow] /\ DOMAIN sold' \subseteq Nat \ {0}
               /\ \A k \in DOMAIN sold' : sold'[k].rectifies \in DOMAIN sold' \cup {0}
    <2>1. i \in Nat \ {0} /\ i \notin DOMAIN sold
      BY <1>2, NewIs
    <2>2. sold' = Written(sold, i, rec)
      BY <1>3 DEF Sell
    <2>3. /\ sold' \in [DOMAIN sold' -> SaleRow] /\ DOMAIN sold' = DOMAIN sold \cup {i}
          /\ sold'[i] = rec /\ \A k \in DOMAIN sold : k # i => sold'[k] = sold[k]
      <3>1. sold' = [k \in DOMAIN sold \cup {i} |-> IF k = i THEN rec ELSE sold[k]]
        BY <2>2 DEF Written
      <3>. QED
        BY <3>1, <1>2, <1>3
    <2>. QED
      BY <1>2, <1>3, <2>1, <2>3
  <1>4. ASSUME NEW i \in DOMAIN sold, RemoveSold(i), ~Rectified(i)
        PROVE  /\ sold' \in [DOMAIN sold' -> SaleRow] /\ DOMAIN sold' \subseteq Nat \ {0}
               /\ \A k \in DOMAIN sold' : sold'[k].rectifies \in DOMAIN sold' \cup {0}
    <2>1. sold' = [k \in DOMAIN sold \ {i} |-> sold[k]]
      BY <1>4 DEF RemoveSold
    <2>2. \A k \in DOMAIN sold : sold[k].rectifies # i
      BY <1>4 DEF Rectified
    <2>. QED
      BY <1>2, <2>1, <2>2
  <1>5. ASSUME NEW i \in DOMAIN sold, NEW c \in 1..2, EditSold(i, c)
        PROVE  /\ sold' \in [DOMAIN sold' -> SaleRow] /\ DOMAIN sold' \subseteq Nat \ {0}
               /\ \A k \in DOMAIN sold' : sold'[k].rectifies \in DOMAIN sold' \cup {0}
    <2>1. PICK rec : rec = [sold[i] EXCEPT !.cents = c]
      OBVIOUS
    <2>2. sold[i] \in SaleRow
      BY <1>2
    <2>3. rec \in SaleRow /\ rec.rectifies = sold[i].rectifies
      BY <2>1, <2>2 DEF SaleRow
    <2>4. sold' = [sold EXCEPT ![i] = rec]
      BY <1>5, <2>1 DEF EditSold
    <2>. QED
      BY <1>2, <2>3, <2>4
  <1>6. ASSUME NEW of \in Quarters, NEW kind \in {"invoice", "creditNote"}, NEW r \in Nat,
               NEW c \in Nat, NEW e \in BOOLEAN
        PROVE  /\ Invoice(of, kind, r, c, e) \in SaleRow
               /\ Invoice(of, kind, r, c, e).rectifies = r
    BY DEF Invoice, SaleRow
  <1>7. \A i \in NewId(DOMAIN sold, MaxSold) : IssueInvoice(i) =>
            /\ sold' \in [DOMAIN sold' -> SaleRow] /\ DOMAIN sold' \subseteq Nat \ {0}
            /\ \A k \in DOMAIN sold' : sold'[k].rectifies \in DOMAIN sold' \cup {0}
    <2>1. ASSUME NEW i, IssueInvoice(i)
          PROVE  \E rec \in SaleRow : Sell(i, rec) /\ rec.rectifies = 0
      <3>1. PICK no : no = FALSE
        OBVIOUS
      <3>2. Sell(i, Invoice(quarter, "invoice", 0, 1, no))
        BY <2>1, <3>1 DEF IssueInvoice
      <3>3. quarter \in Quarters
        BY <1>2
      <3>. QED
        BY <1>6, <3>1, <3>2, <3>3
    <2>. QED
      BY <1>3, <2>1
  <1>8. \A i \in NewId(DOMAIN sold, MaxSold), j \in DOMAIN sold : CreditInvoice(i, j) =>
            /\ sold' \in [DOMAIN sold' -> SaleRow] /\ DOMAIN sold' \subseteq Nat \ {0}
            /\ \A k \in DOMAIN sold' : sold'[k].rectifies \in DOMAIN sold' \cup {0}
    <2>1. \A j \in DOMAIN sold : j \in Nat /\ sold[j].cents \in Nat
      BY <1>2 DEF SaleRow
    <2>2. ASSUME NEW i, NEW j \in DOMAIN sold, CreditInvoice(i, j)
          PROVE  \E rec \in SaleRow : Sell(i, rec) /\ rec.rectifies = j
      <3>1. PICK no : no = FALSE
        OBVIOUS
      <3>2. Sell(i, Invoice(quarter, "creditNote", j, sold[j].cents, no))
        BY <2>2, <3>1 DEF CreditInvoice
      <3>3. quarter \in Quarters /\ j \in Nat /\ sold[j].cents \in Nat
        BY <1>2, <2>1
      <3>. QED
        BY <1>6, <3>1, <3>2, <3>3
    <2>. QED
      BY <1>3, <2>2
  <1>9. \A i \in NewId(DOMAIN sold, MaxSold), of \in Quarters : RecordExternal(i, of) =>
            /\ sold' \in [DOMAIN sold' -> SaleRow] /\ DOMAIN sold' \subseteq Nat \ {0}
            /\ \A k \in DOMAIN sold' : sold'[k].rectifies \in DOMAIN sold' \cup {0}
    <2>1. ASSUME NEW i, NEW of \in Quarters, RecordExternal(i, of)
          PROVE  \E rec \in SaleRow : Sell(i, rec) /\ rec.rectifies = 0
      <3>1. PICK yes : yes = TRUE
        OBVIOUS
      <3>2. Sell(i, Invoice(of, "invoice", 0, 1, yes))
        BY <2>1, <3>1 DEF RecordExternal
      <3>. QED
        BY ZenonT(40), <1>6, <3>1, <3>2
    <2>. QED
      BY <1>3, <2>1
  <1>10. \A i \in DOMAIN sold : RemoveExternal(i) \/ UndoLast(i) =>
            RemoveSold(i) /\ ~Rectified(i)
    BY DEF RemoveExternal, UndoLast, MayUndo
  <1>. QED
    BY <1>1, <1>4, <1>5, <1>7, <1>8, <1>9, <1>10 DEF OnSold

LEMMA DocumentsStep ==
    ASSUME ClosingTyped, Linked, OnDocuments
    PROVE  /\ UNCHANGED <<quarter, booked, sold, sent, accepted, reasoned>>
           /\ documents' \in [DOMAIN documents' -> Paper]
           /\ DOMAIN documents' \subseteq Nat \ {0} /\ Linked'
  <1>1. UNCHANGED <<quarter, booked, sold, sent, accepted, reasoned>>
    BY DEF OnDocuments, Capture, DeleteDocument, OnPapers
  <1>2. documents \in [DOMAIN documents -> Paper] /\ DOMAIN documents \subseteq Nat \ {0}
        /\ quarter \in Quarters
    BY DEF ClosingTyped
  <1>3. ASSUME NEW d \in NewId(DOMAIN documents, MaxPapersIn), NEW of \in Quarters,
               Capture(d, of)
        PROVE  /\ documents' \in [DOMAIN documents' -> Paper]
               /\ DOMAIN documents' \subseteq Nat \ {0} /\ Linked'
    <2>1. d \in Nat \ {0} /\ d \notin DOMAIN documents
      BY <1>2, NewIs
    <2>2. PICK rec : rec = [of |-> of, status |-> "validated", bill |-> 0]
      OBVIOUS
    <2>3. rec \in Paper /\ rec.of = of /\ rec.bill = 0
      BY <2>2 DEF Paper
    <2>4. documents' = Written(documents, d, rec) /\ of <= quarter
      BY <1>3, <2>2 DEF Capture
    <2>5. /\ documents' \in [DOMAIN documents \cup {d} -> Paper]
          /\ DOMAIN documents' = DOMAIN documents \cup {d} /\ documents'[d] = rec
          /\ \A k \in DOMAIN documents : k # d => documents'[k] = documents[k]
      <3>1. documents' = [k \in DOMAIN documents \cup {d} |->
                             IF k = d THEN rec ELSE documents[k]]
        BY <2>4 DEF Written
      <3>. QED
        BY <3>1, <1>2, <2>3
    <2>6. Linked'
      BY <1>1, <2>1, <2>3, <2>4, <2>5 DEF Linked
    <2>. QED
      BY <1>2, <2>1, <2>5, <2>6
  <1>4. ASSUME NEW d \in DOMAIN documents, DeleteDocument(d)
        PROVE  /\ documents' \in [DOMAIN documents' -> Paper]
               /\ DOMAIN documents' \subseteq Nat \ {0} /\ Linked'
    <2>1. documents' = [e \in DOMAIN documents \ {d} |-> documents[e]] /\ documents[d].bill = 0
      BY <1>4 DEF DeleteDocument
    <2>2. \A b \in DOMAIN booked : booked[b].document # d
      BY <2>1, <1>2 DEF Linked, ClosingTyped
    <2>3. Linked'
      BY <1>1, <2>1, <2>2 DEF Linked
    <2>. QED
      BY <1>2, <2>1, <2>3
  <1>. QED
    BY <1>1, <1>3, <1>4 DEF OnDocuments

LEMMA ClosingStarts == ClosingInit => ClosingTyped /\ Linked /\ Justified
  <1> SUFFICES ASSUME ClosingInit PROVE ClosingTyped /\ Linked /\ Justified
    OBVIOUS
  <1>1. quarter \in Quarters /\ DOMAIN documents = {} /\ DOMAIN booked = {} /\ DOMAIN sold = {}
        /\ DOMAIN sent = {} /\ sent \in Seq(Package) /\ reasoned = {}
    BY QuartersAssumption DEF ClosingInit, Quarters
  <1>2. documents \in [{} -> Paper] /\ booked \in [{} -> Bill] /\ sold \in [{} -> SaleRow]
    BY <1>1 DEF ClosingInit
  <1>. QED
    BY <1>1, <1>2 DEF ClosingTyped, Linked, Justified, PackageStands, OneName, ReasonOfItsOwn

\* What a bill that is registered brings.
Brings(b, n, of, doc) ==
    \E rec \in Bill :
        /\ rec.number = n /\ rec.of = of /\ rec.document = doc
        /\ booked' = [c \in DOMAIN booked \cup {b} |-> IF c = b THEN rec ELSE booked[c]]
LEMMA RegisterIs ==
    ASSUME NEW b, NEW s \in Sellers, NEW n \in BillNumbers, NEW of \in Quarters,
           NEW doc \in Nat, Register(b, s, n, of, doc)
    PROVE  /\ UNCHANGED <<quarter, sold, sent, accepted, reasoned>>
           /\ NoNamesakes => /\ \A c \in DOMAIN booked : booked[c].number # n
                             /\ \A q \in Quarters : <<q, n>> \notin accepted
           /\ Brings(b, n, of, doc)
  <1>1. UNCHANGED <<quarter, sold, sent, accepted, reasoned>>
    BY Zenon DEF Register, OnPapers
  <1>2. NoNamesakes => /\ \A c \in DOMAIN booked : booked[c].number # n
                       /\ \A q \in Quarters : <<q, n>> \notin accepted
    BY Zenon DEF Register, NoNamesakes
  <1>3. booked' = Written(booked, b, [supplier |-> s, number |-> n, of |-> of,
                                      document |-> doc, paper |-> FALSE])
    BY Zenon DEF Register
  <1>4. PICK no : no = FALSE
    OBVIOUS
  <1>5. PICK rec : rec = [supplier |-> s, number |-> n, of |-> of, document |-> doc,
                          paper |-> no]
    OBVIOUS
  <1>6. rec \in Bill /\ rec.number = n /\ rec.of = of /\ rec.document = doc
    BY <1>4, <1>5 DEF Bill
  <1>7. booked' = Written(booked, b, rec)
    BY <1>3, <1>4, <1>5
  <1>. QED
    BY <1>1, <1>2, <1>6, <1>7 DEF Written, Brings

LEMMA RegistersStep ==
    ASSUME ClosingTyped, Linked, NEW b \in NewId(DOMAIN booked \cup reasoned, MaxBooked),
           Registers(b)
    PROVE  /\ ClosingTyped' /\ Linked' /\ UNCHANGED <<sent, accepted, reasoned>>
           /\ b \notin DOMAIN booked /\ DOMAIN booked' = DOMAIN booked \cup {b}
           /\ \A c \in DOMAIN booked : booked'[c] = booked[c]
           /\ NoNamesakes => /\ \A c \in DOMAIN booked : booked[c].number # booked'[b].number
                             /\ Key(b)' \notin accepted
  <1>1. b \in Nat \ {0} /\ b \in 1..MaxBooked /\ b \notin DOMAIN booked
    <2>1. DOMAIN booked \cup reasoned \subseteq Int
      BY DEF ClosingTyped
    <2>. QED
      BY <2>1, NewIs
  <1>2. /\ documents \in [DOMAIN documents -> Paper] /\ DOMAIN documents \subseteq Nat \ {0}
        /\ booked \in [DOMAIN booked -> Bill] /\ quarter \in Quarters
    BY DEF ClosingTyped
  <1>3. ASSUME NEW s \in Sellers, NEW n \in BillNumbers, NEW of \in Quarters, NEW doc \in Nat,
               Register(b, s, n, of, doc),
               documents' \in [DOMAIN documents -> Paper],
               \A d \in DOMAIN documents : documents'[d].of = documents[d].of,
               \A d \in DOMAIN documents : d # doc => documents'[d].bill = documents[d].bill,
               doc # 0 => /\ doc \in DOMAIN documents /\ documents[doc].bill = 0
                          /\ documents'[doc].bill = b
        PROVE  /\ ClosingTyped' /\ Linked' /\ UNCHANGED <<sent, accepted, reasoned>>
               /\ DOMAIN booked' = DOMAIN booked \cup {b}
               /\ \A c \in DOMAIN booked : booked'[c] = booked[c]
               /\ NoNamesakes =>
                      /\ \A c \in DOMAIN booked : booked[c].number # booked'[b].number
                      /\ Key(b)' \notin accepted
    <2>0. Register(b, s, n, of, doc)
      BY <1>3, Zenon
    <2>1. UNCHANGED <<quarter, sold, sent, accepted, reasoned>>
      BY <2>0, RegisterIs, Zenon
    <2>2. PICK rec \in Bill :
              /\ rec.number = n /\ rec.of = of /\ rec.document = doc
              /\ booked' = [c \in DOMAIN booked \cup {b} |-> IF c = b THEN rec ELSE booked[c]]
      <3>1. Brings(b, n, of, doc)
        BY <2>0, RegisterIs, Zenon
      <3>. QED
        BY <3>1 DEF Brings
    <2>3. /\ booked' \in [DOMAIN booked \cup {b} -> Bill] /\ booked'[b] = rec
          /\ DOMAIN booked' = DOMAIN booked \cup {b}
          /\ \A c \in DOMAIN booked : booked'[c] = booked[c]
      BY <1>1, <1>2, <2>2
    <2>4. ClosingTyped'
      BY <1>1, <1>2, <1>3, <2>1, <2>3 DEF ClosingTyped
    <2>5. \A d \in DOMAIN documents' :
             /\ documents'[d].of <= quarter'
             /\ documents'[d].bill # 0 =>
                    /\ documents'[d].bill \in DOMAIN booked'
                    /\ booked'[documents'[d].bill].document = d
      BY <1>1, <1>2, <1>3, <2>1, <2>2, <2>3 DEF Linked
    <2>6. \A c \in DOMAIN booked : booked[c].document # 0 => booked[c].document # doc
      BY <1>1, <1>3, <1>2 DEF Linked, ClosingTyped
    <2>7. \A c \in DOMAIN booked' : booked'[c].document # 0 =>
             /\ booked'[c].document \in DOMAIN documents'
             /\ documents'[booked'[c].document].bill = c
      <3>1. \A c \in DOMAIN booked : booked[c].document # 0 =>
               /\ booked[c].document \in DOMAIN documents'
               /\ documents'[booked[c].document].bill = c
        BY <1>3, <2>6 DEF Linked
      <3>. QED
        BY <1>3, <2>2, <2>3, <3>1
    <2>8. Linked'
      BY <2>1, <2>5, <2>7 DEF Linked
    <2>9. NoNamesakes => /\ \A c \in DOMAIN booked : booked[c].number # booked'[b].number
                         /\ Key(b)' \notin accepted
      <3>1. NoNamesakes => /\ \A c \in DOMAIN booked : booked[c].number # n
                           /\ <<of, n>> \notin accepted
        BY <2>0, RegisterIs, Zenon
      <3>2. Key(b)' = <<of, n>>
        BY <2>2, <2>3 DEF Key
      <3>. QED
        BY <2>2, <2>3, <3>1, <3>2
    <2>. QED
      BY <2>1, <2>3, <2>4, <2>8, <2>9
  <1>4. ASSUME NEW d \in DOMAIN documents, NEW s \in Sellers, NEW n \in BillNumbers,
               RegisterDocument(b, d, s, n)
        PROVE  /\ ClosingTyped' /\ Linked' /\ UNCHANGED <<sent, accepted, reasoned>>
               /\ DOMAIN booked' = DOMAIN booked \cup {b}
               /\ \A c \in DOMAIN booked : booked'[c] = booked[c]
               /\ NoNamesakes =>
                      /\ \A c \in DOMAIN booked : booked[c].number # booked'[b].number
                      /\ Key(b)' \notin accepted
    <2>1. PICK rec : rec = [documents[d] EXCEPT !.bill = b, !.status = "allocated"]
      OBVIOUS
    <2>2. documents[d] \in Paper /\ documents[d].of \in Quarters /\ d \in Nat /\ d # 0
      BY <1>2 DEF Paper
    <2>3. rec \in Paper /\ rec.of = documents[d].of /\ rec.bill = b
      BY <1>1, <2>1, <2>2 DEF Paper
    <2>4. /\ documents' = [documents EXCEPT ![d] = rec] /\ documents[d].bill = 0
          /\ Register(b, s, n, documents[d].of, d)
      BY <1>4, <2>1 DEF RegisterDocument
    <2>5. /\ documents' \in [DOMAIN documents -> Paper] /\ documents'[d] = rec
          /\ \A e \in DOMAIN documents : e # d => documents'[e] = documents[e]
      BY <1>2, <2>3, <2>4
    <2>6. /\ \A e \in DOMAIN documents : documents'[e].of = documents[e].of
          /\ \A e \in DOMAIN documents : e # d => documents'[e].bill = documents[e].bill
          /\ documents'[d].bill = b
      BY <2>3, <2>5
    <2>. QED
      BY <1>3, <2>2, <2>4, <2>5, <2>6
  <1>5. ASSUME NEW of \in Quarters, NEW s \in Sellers, NEW n \in BillNumbers,
               RegisterByHand(b, s, n, of)
        PROVE  /\ ClosingTyped' /\ Linked' /\ UNCHANGED <<sent, accepted, reasoned>>
               /\ DOMAIN booked' = DOMAIN booked \cup {b}
               /\ \A c \in DOMAIN booked : booked'[c] = booked[c]
               /\ NoNamesakes =>
                      /\ \A c \in DOMAIN booked : booked[c].number # booked'[b].number
                      /\ Key(b)' \notin accepted
    BY <1>2, <1>3, <1>5 DEF RegisterByHand
  <1>. QED
    BY <1>1, <1>4, <1>5 DEF Registers

LEMMA AttachStep ==
    ASSUME ClosingTyped, Linked, NEW b \in DOMAIN booked, AttachBillDoc(b)
    PROVE  /\ ClosingTyped' /\ Linked' /\ UNCHANGED <<sent, accepted, reasoned>>
           /\ DOMAIN booked' = DOMAIN booked
           /\ \A c \in DOMAIN booked : /\ booked'[c].of = booked[c].of
                                       /\ booked'[c].number = booked[c].number
                                       /\ booked'[c].document = booked[c].document
  <1>1. PICK yes : yes = TRUE
    OBVIOUS
  <1>2. PICK rec : rec = [booked[b] EXCEPT !.paper = yes]
    OBVIOUS
  <1>3. booked[b] \in Bill /\ booked \in [DOMAIN booked -> Bill]
    BY DEF ClosingTyped
  <1>4. rec \in Bill /\ rec.of = booked[b].of /\ rec.number = booked[b].number
        /\ rec.document = booked[b].document
    BY <1>1, <1>2, <1>3 DEF Bill
  <1>5. booked' = [booked EXCEPT ![b] = rec]
        /\ UNCHANGED <<quarter, documents, sold, sent, accepted, reasoned>>
    BY <1>1, <1>2 DEF AttachBillDoc, OnPapers
  <1>6. /\ booked' \in [DOMAIN booked -> Bill] /\ DOMAIN booked' = DOMAIN booked
        /\ \A c \in DOMAIN booked : /\ booked'[c].of = booked[c].of
                                    /\ booked'[c].number = booked[c].number
                                    /\ booked'[c].document = booked[c].document
    BY <1>3, <1>4, <1>5
  <1>7. ClosingTyped'
    BY <1>5, <1>6 DEF ClosingTyped
  <1>8. Linked'
    BY <1>5, <1>6 DEF Linked
  <1>. QED
    BY <1>5, <1>6, <1>7, <1>8

LEMMA DeleteStep ==
    ASSUME ClosingTyped, Linked, NEW b \in DOMAIN booked, DeleteBill(b)
    PROVE  /\ ClosingTyped' /\ Linked' /\ UNCHANGED <<sent, accepted, reasoned>>
           /\ booked' = [c \in DOMAIN booked \ {b} |-> booked[c]]
           /\ \A k \in DOMAIN sent : sent[k].of # booked[b].of
  <1>1. /\ booked' = [c \in DOMAIN booked \ {b} |-> booked[c]] /\ documents' = Released(b)
        /\ UNCHANGED <<quarter, sold, sent, accepted, reasoned>> /\ ~EverSent(booked[b].of)
    BY DEF DeleteBill, OnPapers, BillLocked
  <1>2. \A k \in DOMAIN sent : sent[k].of # booked[b].of
    BY <1>1 DEF EverSent, Packages
  <1>3. /\ documents \in [DOMAIN documents -> Paper] /\ booked \in [DOMAIN booked -> Bill]
        /\ DOMAIN booked \subseteq 1..MaxBooked /\ DOMAIN documents \subseteq Nat \ {0}
    BY DEF ClosingTyped
  <1>4. PICK doc : doc = booked[b].document
    OBVIOUS
  <1>5. PICK rec : rec = [documents[doc] EXCEPT !.bill = 0]
    OBVIOUS
  <1>6. documents' = [d \in DOMAIN documents |-> IF d = doc THEN rec ELSE documents[d]]
    BY <1>1, <1>4, <1>5 DEF Released
  <1>7. doc \in DOMAIN documents => /\ rec \in Paper /\ rec.of = documents[doc].of
                                    /\ rec.bill = 0
    <2>1. doc \in DOMAIN documents => documents[doc] \in Paper
      BY <1>3
    <2>. QED
      BY <1>5, <2>1 DEF Paper
  <1>8. /\ documents' \in [DOMAIN documents -> Paper] /\ DOMAIN documents' = DOMAIN documents
        /\ \A d \in DOMAIN documents : /\ documents'[d].of = documents[d].of
                                       /\ d = doc => documents'[d].bill = 0
                                       /\ d # doc => documents'[d].bill = documents[d].bill
    BY <1>3, <1>6, <1>7
  <1>9. booked' \in [DOMAIN booked \ {b} -> Bill] /\ DOMAIN booked' = DOMAIN booked \ {b}
        /\ \A c \in DOMAIN booked \ {b} : booked'[c] = booked[c]
    BY <1>1, <1>3
  <1>10. ClosingTyped'
    BY <1>1, <1>8, <1>9 DEF ClosingTyped
  <1>11. \A d \in DOMAIN documents : documents[d].bill = b /\ documents[d].bill # 0 => d = doc
    BY <1>4 DEF Linked
  <1>12. \A d \in DOMAIN documents' :
             /\ documents'[d].of <= quarter'
             /\ documents'[d].bill # 0 =>
                    /\ documents'[d].bill \in DOMAIN booked'
                    /\ booked'[documents'[d].bill].document = d
    BY <1>1, <1>8, <1>9, <1>11 DEF Linked
  <1>13. \A c \in DOMAIN booked' : booked'[c].document # 0 =>
             /\ booked'[c].document \in DOMAIN documents'
             /\ documents'[booked'[c].document].bill = c
    <2>1. ASSUME NEW c \in DOMAIN booked, c # b, booked[c].document # 0
          PROVE  booked[c].document \in DOMAIN documents /\ booked[c].document # doc
                 /\ documents[booked[c].document].bill = c
      BY <2>1, <1>4 DEF Linked
    <2>. QED
      BY <1>8, <1>9, <2>1
  <1>14. Linked'
    BY <1>1, <1>12, <1>13 DEF Linked
  <1>. QED
    BY <1>1, <1>2, <1>10, <1>14

\* The package that goes names the bills of its quarter, none of them unjustified.
LEMMA PackageStep ==
    ASSUME ClosingTyped, Linked, NEW q \in Quarters, QuarterlyPackage(q)
    PROVE  /\ ClosingTyped' /\ Linked' /\ UNCHANGED <<booked, accepted, reasoned>>
           /\ Unjustified(q) = {}
           /\ \E n \in Nat :
                  /\ DOMAIN sent = 1..n /\ DOMAIN sent' = 1..(n + 1)
                  /\ \A k \in 1..n : sent'[k] = sent[k]
                  /\ sent'[n + 1].of = q /\ sent'[n + 1].bills = BookedIn(q)
  <1>1. /\ MaySend(q) /\ UNCHANGED <<quarter, booked, sold, accepted, reasoned>>
        /\ sent' = Append(sent, [of |-> q, bills |-> BookedIn(q), reopened |-> FALSE])
    BY Zenon DEF QuarterlyPackage
  <1>2. documents' = [d \in DOMAIN documents |->
           IF documents[d].of = q /\ documents[d].status = "allocated"
           THEN [documents[d] EXCEPT !.status = "sentToAccounting"] ELSE documents[d]]
    BY Zenon DEF QuarterlyPackage
  <1>3. PICK no : no = FALSE
    OBVIOUS
  <1>4. PICK p : p = [of |-> q, bills |-> BookedIn(q), reopened |-> no]
    OBVIOUS
  <1>5. BookedIn(q) \in SUBSET (1..MaxBooked)
    BY DEF BookedIn, ClosingTyped
  <1>6. p \in Package /\ p.of = q /\ p.bills = BookedIn(q)
    BY <1>3, <1>4, <1>5 DEF Package
  <1>7. sent' = Append(sent, p) /\ sent \in Seq(Package)
    BY <1>1, <1>3, <1>4 DEF ClosingTyped
  <1>8. PICK n \in Nat : n = Len(sent)
    BY <1>7
  <1>9. /\ sent' \in Seq(Package) /\ DOMAIN sent = 1..n /\ DOMAIN sent' = 1..(n + 1)
        /\ \A k \in 1..n : sent'[k] = sent[k]
    BY <1>6, <1>7, <1>8
  <1>10. sent'[n + 1] = p
    BY <1>6, <1>7, <1>8
  <1>11. documents \in [DOMAIN documents -> Paper] /\ DOMAIN documents \subseteq Nat \ {0}
    BY DEF ClosingTyped
  <1>12. /\ documents' \in [DOMAIN documents -> Paper] /\ DOMAIN documents' = DOMAIN documents
         /\ \A d \in DOMAIN documents : /\ documents'[d].of = documents[d].of
                                        /\ documents'[d].bill = documents[d].bill
    <2>1. ASSUME NEW d \in DOMAIN documents
          PROVE  /\ documents'[d] \in Paper /\ documents'[d].of = documents[d].of
                 /\ documents'[d].bill = documents[d].bill
      <3>1. PICK rec : rec = [documents[d] EXCEPT !.status = "sentToAccounting"]
        OBVIOUS
      <3>2. documents[d] \in Paper
        BY <1>11
      <3>3. rec \in Paper /\ rec.of = documents[d].of /\ rec.bill = documents[d].bill
        BY <3>1, <3>2 DEF Paper
      <3>4. documents'[d] = rec \/ documents'[d] = documents[d]
        BY <1>2, <3>1
      <3>. QED
        BY <3>2, <3>3, <3>4
    <2>2. DOMAIN documents' = DOMAIN documents
          /\ documents' = [d \in DOMAIN documents |-> documents'[d]]
      BY <1>2
    <2>. QED
      BY <2>1, <2>2
  <1>13. ClosingTyped'
    BY <1>1, <1>9, <1>11, <1>12 DEF ClosingTyped
  <1>14. Linked'
    BY <1>1, <1>12 DEF Linked
  <1>. QED
    BY <1>1, <1>6, <1>9, <1>10, <1>13, <1>14 DEF MaySend

LEMMA ReopenStep ==
    ASSUME ClosingTyped, Linked, NEW q \in Quarters, ReopenQuarter(q)
    PROVE  /\ ClosingTyped' /\ Linked' /\ UNCHANGED <<booked, accepted, reasoned>>
           /\ DOMAIN sent' = DOMAIN sent
           /\ \A k \in DOMAIN sent : sent'[k].of = sent[k].of /\ sent'[k].bills = sent[k].bills
  <1>1. PICK m : m = Max(Packages(q))
    OBVIOUS
  <1>2. PICK yes : yes = TRUE
    OBVIOUS
  <1>3. PICK p : p = [sent[m] EXCEPT !.reopened = yes]
    OBVIOUS
  <1>4. sent' = [sent EXCEPT ![m] = p]
        /\ UNCHANGED <<quarter, documents, booked, sold, accepted, reasoned>>
    BY <1>1, <1>2, <1>3 DEF ReopenQuarter
  <1>5. m \in DOMAIN sent => /\ p \in Package /\ p.of = sent[m].of /\ p.bills = sent[m].bills
    <2>1. m \in DOMAIN sent => sent[m] \in Package
      BY DEF ClosingTyped
    <2>. QED
      BY <1>2, <1>3, <2>1 DEF Package
  <1>6. sent \in Seq(Package)
    BY DEF ClosingTyped
  <1>7. PICK n \in Nat : n = Len(sent) /\ DOMAIN sent = 1..n /\ sent \in [1..n -> Package]
    BY <1>6
  <1>8. /\ sent' \in [1..n -> Package] /\ DOMAIN sent' = DOMAIN sent
        /\ \A k \in DOMAIN sent : sent'[k].of = sent[k].of /\ sent'[k].bills = sent[k].bills
    BY <1>4, <1>5, <1>7
  <1>9. sent' \in Seq(Package)
    BY <1>7, <1>8
  <1>. QED
    BY <1>4, <1>8, <1>9 DEF ClosingTyped, Linked

LEMMA StepClosing ==
    ClosingTyped /\ Linked /\ [ClosingNext]_closingVars => ClosingTyped' /\ Linked'
  <1> SUFFICES ASSUME ClosingTyped, Linked, [ClosingNext]_closingVars
               PROVE  ClosingTyped' /\ Linked'
    OBVIOUS
  <1>1. CASE QuarterEnds
    <2>1. quarter' = quarter + 1 /\ quarter' \in Quarters /\ quarter \in Nat
          /\ UNCHANGED <<documents, booked, sold, sent, accepted, reasoned>>
      BY <1>1, QuartersAssumption DEF QuarterEnds, ClosingTyped, Quarters
    <2>2. \A d \in DOMAIN documents : documents[d].of \in Nat /\ documents[d].of <= quarter'
      <3>1. \A d \in DOMAIN documents : documents[d].of \in Nat
        BY QuartersAssumption DEF ClosingTyped, Paper, Quarters
      <3>. QED
        BY <3>1, <2>1 DEF Linked
    <2>. QED
      BY <2>1, <2>2 DEF ClosingTyped, Linked
  <1>2. CASE OnDocuments
    BY <1>2, DocumentsStep DEF ClosingTyped
  <1>3. CASE OnSold
    BY <1>3, SoldStep DEF ClosingTyped, Linked
  <1>4. ASSUME NEW q \in Quarters, NEW b \in DOMAIN booked, AcceptException(q, b)
        PROVE  ClosingTyped' /\ Linked'
    BY <1>4 DEF AcceptException, ClosingTyped, Linked
  <1>5. CASE UNCHANGED closingVars
    BY <1>5 DEF closingVars, ClosingTyped, Linked
  <1>. QED
    BY <1>1, <1>2, <1>3, <1>4, <1>5, ClosingSplits, RegistersStep, AttachStep, DeleteStep,
       PackageStep, ReopenStep

\* While no two bills carry one number, each reason stays with the bill it was given for.
LEMMA JustifiedStep ==
    ASSUME NoNamesakes
    PROVE  ClosingTyped /\ Linked /\ Justified /\ [ClosingNext]_closingVars => Justified'
  <1> SUFFICES ASSUME ClosingTyped, Linked, Justified, [ClosingNext]_closingVars
               PROVE  Justified'
    OBVIOUS
  <1>1. ASSUME UNCHANGED <<booked, sent, accepted, reasoned>>
        PROVE  Justified'
    BY <1>1 DEF Justified, PackageStands, OneName, ReasonOfItsOwn, Key
  <1>2. CASE QuarterEnds \/ OnDocuments \/ OnSold \/ UNCHANGED closingVars
    <2>1. QuarterEnds \/ UNCHANGED closingVars => UNCHANGED <<booked, sent, accepted, reasoned>>
      BY DEF QuarterEnds, closingVars
    <2>. QED
      BY <1>1, <1>2, <2>1, DocumentsStep, SoldStep
  <1>3. ASSUME NEW b \in NewId(DOMAIN booked \cup reasoned, MaxBooked), Registers(b)
        PROVE  Justified'
    <2>1. /\ UNCHANGED <<sent, accepted, reasoned>>
          /\ b \notin DOMAIN booked /\ DOMAIN booked' = DOMAIN booked \cup {b}
          /\ \A c \in DOMAIN booked : booked'[c] = booked[c]
          /\ \A c \in DOMAIN booked : booked[c].number # booked'[b].number
          /\ Key(b)' \notin accepted
      BY <1>3, RegistersStep
    <2>2. PackageStands'
      BY <2>1 DEF Justified, PackageStands
    <2>3. OneName'
      BY <2>1 DEF Justified, OneName
    <2>4. \A c \in DOMAIN booked : Key(c)' = Key(c)
      BY <2>1 DEF Key
    <2>5. ReasonOfItsOwn'
      BY <2>1, <2>4 DEF Justified, ReasonOfItsOwn
    <2>. QED
      BY <2>2, <2>3, <2>5 DEF Justified
  <1>4. ASSUME NEW b \in DOMAIN booked, AttachBillDoc(b)
        PROVE  Justified'
    <2>1. /\ UNCHANGED <<sent, accepted, reasoned>> /\ DOMAIN booked' = DOMAIN booked
          /\ \A c \in DOMAIN booked : /\ booked'[c].of = booked[c].of
                                      /\ booked'[c].number = booked[c].number
                                      /\ booked'[c].document = booked[c].document
      BY <1>4, AttachStep
    <2>. QED
      BY <2>1 DEF Justified, PackageStands, OneName, ReasonOfItsOwn, Key
  <1>5. ASSUME NEW b \in DOMAIN booked, DeleteBill(b)
        PROVE  Justified'
    <2>1. /\ UNCHANGED <<sent, accepted, reasoned>>
          /\ booked' = [c \in DOMAIN booked \ {b} |-> booked[c]]
          /\ \A k \in DOMAIN sent : sent[k].of # booked[b].of
      BY <1>5, DeleteStep
    <2>2. PackageStands'
      BY <2>1 DEF Justified, PackageStands
    <2>3. OneName'
      BY <2>1 DEF Justified, OneName
    <2>4. ReasonOfItsOwn'
      BY <2>1 DEF Justified, ReasonOfItsOwn, Key
    <2>. QED
      BY <2>2, <2>3, <2>4 DEF Justified
  <1>6. ASSUME NEW q \in Quarters, QuarterlyPackage(q)
        PROVE  Justified'
    <2>1. UNCHANGED <<booked, accepted, reasoned>> /\ Unjustified(q) = {}
      BY <1>6, PackageStep
    <2>2. PICK n \in Nat :
              /\ DOMAIN sent = 1..n /\ DOMAIN sent' = 1..(n + 1)
              /\ \A k \in 1..n : sent'[k] = sent[k]
              /\ sent'[n + 1].of = q /\ sent'[n + 1].bills = BookedIn(q)
      BY <1>6, PackageStep
    <2>3. \A b \in BookedIn(q) : /\ b \in DOMAIN booked /\ booked[b].of = q
                                 /\ booked[b].document = 0 => b \in reasoned
      BY <2>1 DEF BookedIn, Unjustified, WithoutDocument, Justified, ReasonOfItsOwn
    <2>4. PackageStands'
      <3>1. \A k \in DOMAIN sent' : k \in DOMAIN sent \/ k = n + 1
        BY <2>2
      <3>2. \A k \in DOMAIN sent : sent'[k] = sent[k]
        BY <2>2
      <3>. QED
        <4>1. \A k \in DOMAIN sent : \A b \in sent[k].bills :
                 /\ b \in DOMAIN booked /\ booked[b].of = sent[k].of
                 /\ booked[b].document = 0 => b \in reasoned
          BY DEF Justified, PackageStands
        <4>2. ASSUME NEW k \in DOMAIN sent', NEW b \in sent'[k].bills
              PROVE  /\ b \in DOMAIN booked /\ booked[b].of = sent'[k].of
                     /\ booked[b].document = 0 => b \in reasoned
          <5>1. CASE k \in DOMAIN sent
            BY <4>1, <4>2, <3>2, <5>1
          <5>2. CASE k = n + 1
            <6>1. sent'[k].of = q /\ sent'[k].bills = BookedIn(q)
              BY <2>2, <5>2
            <6>. QED
              BY <4>2, <2>3, <6>1
          <5>. QED
            BY <3>1, <5>1, <5>2
        <4>. QED
          BY <2>1, <4>2 DEF PackageStands
    <2>. QED
      BY <2>1, <2>4 DEF Justified, OneName, ReasonOfItsOwn, Key
  <1>7. ASSUME NEW q \in Quarters, ReopenQuarter(q)
        PROVE  Justified'
    <2>1. /\ UNCHANGED <<booked, accepted, reasoned>> /\ DOMAIN sent' = DOMAIN sent
          /\ \A k \in DOMAIN sent : sent'[k].of = sent[k].of /\ sent'[k].bills = sent[k].bills
      BY <1>7, ReopenStep
    <2>. QED
      BY <2>1 DEF Justified, PackageStands, OneName, ReasonOfItsOwn, Key
  <1>8. ASSUME NEW q \in Quarters, NEW b \in DOMAIN booked, AcceptException(q, b)
        PROVE  Justified'
    <2>1. /\ accepted' = accepted \cup {Key(b)} /\ reasoned' = reasoned \cup {b}
          /\ UNCHANGED <<booked, sent>>
      BY <1>8 DEF AcceptException
    <2>2. ReasonOfItsOwn'
      <3>1. \A c \in DOMAIN booked : Key(c)' = Key(c)
        BY <2>1 DEF Key
      <3>2. \A c \in DOMAIN booked : Key(c) = Key(b) => c = b
        BY DEF Key, Justified, OneName
      <3>. QED
        BY <2>1, <3>1, <3>2 DEF Justified, ReasonOfItsOwn
    <2>3. PackageStands' /\ OneName'
      BY <2>1 DEF Justified, PackageStands, OneName
    <2>. QED
      BY <2>2, <2>3 DEF Justified
  <1>. QED
    BY <1>2, <1>3, <1>4, <1>5, <1>6, <1>7, <1>8, ClosingSplits

LEMMA LinkedTypes == ClosingTyped /\ Linked => ClosingTypeOK
  <1> SUFFICES ASSUME ClosingTyped, Linked
               PROVE  ClosingTypeOK
    OBVIOUS
  <1>1. \A d \in DOMAIN documents : documents[d].of \in 1..quarter
    <2>1. quarter \in Nat /\ \A d \in DOMAIN documents : documents[d].of \in Nat \ {0}
      BY QuartersAssumption DEF ClosingTyped, Paper, Quarters
    <2>. QED
      BY <2>1 DEF Linked
  <1>2. \A k \in DOMAIN sent : sent[k].bills \subseteq 1..MaxBooked
    <2>1. PICK n \in Nat : DOMAIN sent = 1..n /\ sent \in [1..n -> Package]
      BY DEF ClosingTyped
    <2>2. \A k \in DOMAIN sent : sent[k] \in Package
      BY <2>1
    <2>. QED
      BY <2>2 DEF Package
  <1>3. \A b \in DOMAIN booked :
           booked[b].document \in DOMAIN documents => documents[booked[b].document].bill = b
    BY DEF ClosingTyped, Linked
  <1>. QED
    BY <1>1, <1>2, <1>3 DEF ClosingTyped, Linked, ClosingTypeOK

(* Whatever is captured, registered, sold, sent and reopened, and whatever   *)
(* the freedoms: a document and the bill made of it name each other, a       *)
(* credit note names an invoice that is there, and a package lists bills     *)
(* (site/erp-engine.js billFromCapture, billDeleteBlock, quarterlyPackage). *)
THEOREM PackagesTyped == ClosingSpec => []ClosingTypeOK
  <1>1. ClosingInit => ClosingTyped /\ Linked
    BY ClosingStarts
  <1>2. ClosingTyped /\ Linked => ClosingTypeOK
    BY LinkedTypes
  <1>. QED
    BY <1>1, <1>2, StepClosing, PTL DEF ClosingSpec

(* As long as no two bills carry one number, no bill without a document goes *)
(* to the adviser unless somebody gave a reason for that very bill: the key  *)
(* of an exception is the quarter and the number, and it outlives its bill   *)
(* (site/erp-engine.js exceptionList, acceptException, quarterlyPackage). *)
THEOREM PackagesKept == ASSUME NoNamesakes PROVE ClosingSpec => []PackagesHold
  <1>1. ClosingInit => ClosingTyped /\ Linked /\ Justified
    BY ClosingStarts
  <1>2. ClosingTyped /\ Linked /\ Justified /\ [ClosingNext]_closingVars
            => (ClosingTyped /\ Linked /\ Justified)'
    BY StepClosing, JustifiedStep
  <1>3. ClosingTyped /\ Linked /\ Justified => PackagesHold
    <2>1. Justified => JustifiedByName
      BY DEF Justified, PackageStands, JustifiedByName
    <2>. QED
      BY <2>1, LinkedTypes DEF PackagesHold
  <1>. QED
    BY <1>1, <1>2, <1>3, PTL DEF ClosingSpec

-----------------------------------------------------------------------------
(* Outbox: the reminders. *)

OutboxSpec == OutboxInit /\ [][OutboxNext]_outboxVars

Issued == [life : 0..MaxLives, is : {"none", "issued", "overdue", "paid"}]
Call == [key : Keys, swept : BOOLEAN, reply : {"none", "mailbox", "error"}]
Queued == UNION {[S -> Message] : S \in SUBSET Keys}

\* The types, and that a call answered with a draft left one in the mailbox.
OTyped ==
    /\ invoiced \in [Invoiced -> Issued]
    /\ \A s \in Invoiced : invoiced[s].is # "none" => invoiced[s].life # 0
    /\ queue \in Queued
    /\ filing \in Seq(Call) /\ \A i \in DOMAIN filing : filing[i].key \in DOMAIN queue
    /\ sweep \in [on : BOOLEAN, rows : SUBSET Keys]
    /\ sweep.rows \subseteq DOMAIN queue /\ (~sweep.on => sweep.rows = {})
    /\ mailbox \in [Keys -> Nat] /\ late \subseteq Keys /\ lost \subseteq Keys
    /\ \A k \in DOMAIN queue : queue[k].filed = "mailbox" => mailbox[k] # 0
    /\ \A i \in DOMAIN filing : filing[i].reply = "mailbox" => mailbox[filing[i].key] # 0

\* Whatever was not declined is about the invoice it was queued for.
Standing ==
    \A k \in DOMAIN queue : queue[k].status # "cancelled" =>
        invoiced[k[2]].is # "none" /\ invoiced[k[2]].life = queue[k].life
\* What is being filed, or is to be filed by a sweep, was not declined.
Wanted ==
    /\ \A i \in DOMAIN filing : queue[filing[i].key].status # "cancelled"
    /\ \A k \in sweep.rows : queue[k].status # "cancelled"
    /\ late = {}
\* One call at a time files a message, and a sweep does not have it as well; the draft
\* in the mailbox is known to the row or to the call that is still to be answered.
OneEach == \A i, j \in DOMAIN filing : filing[i].key = filing[j].key => i = j
NotSwept ==
    \A i \in DOMAIN filing : /\ filing[i].key \notin sweep.rows
                            /\ queue[filing[i].key].filed # "mailbox"
BeingFiled(k) == \E i \in DOMAIN filing : filing[i].key = k /\ filing[i].reply = "mailbox"
DraftKnown ==
    \A k \in Keys : k \notin lost /\ mailbox[k] # 0 =>
        /\ mailbox[k] = 1 /\ k \in DOMAIN queue
        /\ queue[k].filed = "mailbox" \/ BeingFiled(k)
OneCall == OneEach /\ NotSwept /\ DraftKnown

\* No two calls file one message, and no page is reloaded while drafts are being filed.
Undisturbed == "at once" \notin Mishaps /\ "reloaded" \notin Mishaps

-----------------------------------------------------------------------------
(* What the steps do to the queue and to the calls. *)

LEMMA QueuedIs ==
    ASSUME NEW q \in Queued
    PROVE  /\ q \in [DOMAIN q -> Message] /\ DOMAIN q \subseteq Keys
           /\ \A k \in DOMAIN q : /\ q[k] \in Message /\ q[k].status \in Statuses
                                  /\ q[k].filed \in {"no", "mailbox", "error"}
  BY DEF Queued, Message

LEMMA Turned ==
    ASSUME queue \in Queued, NEW k \in DOMAIN queue, NEW st \in Statuses, TurnTo(k, st)
    PROVE  /\ queue' \in Queued /\ DOMAIN queue' = DOMAIN queue /\ queue'[k].status = st
           /\ \A j \in DOMAIN queue : /\ queue'[j].filed = queue[j].filed
                                      /\ queue'[j].life = queue[j].life
                                      /\ j # k => queue'[j].status = queue[j].status
  <1>1. queue \in [DOMAIN queue -> Message] /\ queue[k] \in Message
        /\ DOMAIN queue \subseteq Keys
    BY QueuedIs
  <1>2. PICK msg : msg = [queue[k] EXCEPT !.status = st]
    OBVIOUS
  <1>3. msg \in Message /\ msg.status = st /\ msg.filed = queue[k].filed
        /\ msg.life = queue[k].life
    BY <1>1, <1>2 DEF Message
  <1>4. queue' = [queue EXCEPT ![k] = msg]
    BY <1>2 DEF TurnTo
  <1>5. queue' \in [DOMAIN queue -> Message]
    BY <1>1, <1>3, <1>4
  <1>. QED
    BY <1>1, <1>3, <1>4, <1>5 DEF Queued

LEMMA FiledBeside ==
    ASSUME queue \in Queued, NEW k \in DOMAIN queue, NEW r \in {"mailbox", "error"},
           queue' = FiledAs(k, r)
    PROVE  /\ queue' \in Queued /\ DOMAIN queue' = DOMAIN queue /\ queue'[k].filed = r
           /\ \A j \in DOMAIN queue : /\ queue'[j].status = queue[j].status
                                      /\ queue'[j].life = queue[j].life
                                      /\ j # k => queue'[j].filed = queue[j].filed
  <1>1. queue \in [DOMAIN queue -> Message] /\ queue[k] \in Message
        /\ DOMAIN queue \subseteq Keys
    BY QueuedIs
  <1>2. PICK msg : msg = [queue[k] EXCEPT !.filed = r]
    OBVIOUS
  <1>3. msg \in Message /\ msg.filed = r /\ msg.status = queue[k].status
        /\ msg.life = queue[k].life
    BY <1>1, <1>2 DEF Message
  <1>4. queue' = [queue EXCEPT ![k] = msg]
    BY <1>2 DEF FiledAs
  <1>5. queue' \in [DOMAIN queue -> Message]
    BY <1>1, <1>3, <1>4
  <1>. QED
    BY <1>1, <1>3, <1>4, <1>5 DEF Queued

LEMMA CallIs ==
    ASSUME filing \in Seq(Call), NEW i \in DOMAIN filing
    PROVE  /\ filing[i] \in Call /\ filing[i].key \in Keys
           /\ filing[i].reply \in {"none", "mailbox", "error"}
  <1>1. filing[i] \in Call
    OBVIOUS
  <1>. QED
    BY <1>1 DEF Call

\* A call begins, or the row is filed already and none does.
LEMMA Begun ==
    ASSUME filing \in Seq(Call), NEW k \in Keys, NEW sw \in BOOLEAN,
           filing' = FiledBy(filing, queue, k, sw)
    PROVE  \/ filing' = filing
           \/ \E n \in Nat :
                  /\ queue[k].filed # "mailbox" /\ filing' \in Seq(Call)
                  /\ DOMAIN filing = 1..n /\ DOMAIN filing' = 1..(n + 1)
                  /\ \A i \in 1..n : filing'[i] = filing[i]
                  /\ filing'[n + 1].key = k /\ filing'[n + 1].reply = "none"
  <1>1. CASE queue[k].filed = "mailbox"
    BY <1>1 DEF FiledBy
  <1>2. CASE queue[k].filed # "mailbox"
    <2>1. PICK c : c = [key |-> k, swept |-> sw, reply |-> "none"]
      OBVIOUS
    <2>2. c \in Call /\ c.key = k /\ c.reply = "none"
      BY <2>1 DEF Call
    <2>3. filing' = Append(filing, c)
      BY <1>2, <2>1 DEF FiledBy
    <2>4. PICK n \in Nat : n = Len(filing)
      OBVIOUS
    <2>5. /\ DOMAIN filing = 1..n /\ DOMAIN filing' = 1..(n + 1) /\ filing' \in Seq(Call)
          /\ \A i \in 1..n : filing'[i] = filing[i]
          /\ filing'[n + 1] = c
      BY <2>2, <2>3, <2>4
    <2>. QED
      BY <1>2, <2>2, <2>5
  <1>. QED
    BY <1>1, <1>2

LEMMA Replied ==
    ASSUME filing \in Seq(Call), NEW i \in DOMAIN filing, NEW r \in {"mailbox", "error"},
           Reply(i, r)
    PROVE  /\ filing' \in Seq(Call) /\ DOMAIN filing' = DOMAIN filing
           /\ filing'[i].reply = r
           /\ \A j \in DOMAIN filing : /\ filing'[j].key = filing[j].key
                                       /\ j # i => filing'[j].reply = filing[j].reply
  <1>1. filing[i] \in Call
    OBVIOUS
  <1>2. PICK c : c = [filing[i] EXCEPT !.reply = r]
    OBVIOUS
  <1>3. c \in Call /\ c.reply = r /\ c.key = filing[i].key
    BY <1>1, <1>2 DEF Call
  <1>4. filing' = [filing EXCEPT ![i] = c]
    BY <1>2 DEF Reply
  <1>. QED
    BY <1>3, <1>4

\* The answered call goes; the others are the calls there were.
Moved(i, j) == IF j < i THEN j ELSE j + 1
LEMMA Removed ==
    ASSUME filing \in Seq(Call), NEW i \in DOMAIN filing, filing' = RemoveAt(filing, i)
    PROVE  /\ filing' \in Seq(Call)
           /\ \A j \in DOMAIN filing' : /\ Moved(i, j) \in DOMAIN filing /\ Moved(i, j) # i
                                        /\ filing'[j] = filing[Moved(i, j)]
           /\ \A j \in DOMAIN filing : j # i => \E m \in DOMAIN filing' : Moved(i, m) = j
           /\ \A j, m \in DOMAIN filing' : Moved(i, j) = Moved(i, m) => j = m
  <1>1. PICK n \in Nat : n = Len(filing) /\ DOMAIN filing = 1..n /\ i \in 1..n
    OBVIOUS
  <1>2. PICK f : f = SubSeq(filing, 1, i - 1)
    OBVIOUS
  <1>3. PICK g : g = SubSeq(filing, i + 1, n)
    OBVIOUS
  <1>4. f \in Seq(Call) /\ Len(f) = i - 1 /\ \A j \in 1..(i - 1) : f[j] = filing[j]
    BY <1>1, <1>2
  <1>5. g \in Seq(Call) /\ Len(g) = n - i /\ \A j \in 1..(n - i) : g[j] = filing[i + j]
    BY <1>1, <1>3
  <1>6. filing' = f \o g
    BY <1>1, <1>2, <1>3 DEF RemoveAt
  <1>7. filing' \in Seq(Call) /\ Len(filing') = n - 1 /\ DOMAIN filing' = 1..(n - 1)
    BY <1>1, <1>4, <1>5, <1>6
  <1>8. \A j \in 1..(n - 1) : filing'[j] = IF j < i THEN filing[j] ELSE filing[j + 1]
    <2>1. \A j \in 1..(n - 1) : filing'[j] = IF j <= i - 1 THEN f[j] ELSE g[j - (i - 1)]
      BY <1>1, <1>4, <1>5, <1>6
    <2>2. ASSUME NEW j \in 1..(n - 1), j < i PROVE filing'[j] = filing[j]
      BY <1>1, <1>4, <2>1, <2>2
    <2>3. ASSUME NEW j \in 1..(n - 1), ~(j < i) PROVE filing'[j] = filing[j + 1]
      <3>1. j - (i - 1) \in 1..(n - i) /\ i + (j - (i - 1)) = j + 1
        BY <1>1, <2>3
      <3>2. filing'[j] = g[j - (i - 1)]
        BY <1>1, <2>1, <2>3
      <3>. QED
        BY <3>1, <3>2, <1>5
    <2>. QED
      BY <2>2, <2>3
  <1>9. \A j \in 1..n : j # i => \E m \in 1..(n - 1) : Moved(i, m) = j
    <2>1. ASSUME NEW j \in 1..n, j < i PROVE j \in 1..(n - 1) /\ Moved(i, j) = j
      BY <1>1, <2>1 DEF Moved
    <2>2. ASSUME NEW j \in 1..n, i < j PROVE j - 1 \in 1..(n - 1) /\ Moved(i, j - 1) = j
      BY <1>1, <2>2 DEF Moved
    <2>. QED
      BY <1>1, <2>1, <2>2
  <1>10. \A j \in 1..(n - 1) : /\ Moved(i, j) \in 1..n /\ Moved(i, j) # i
                               /\ filing'[j] = filing[Moved(i, j)]
    BY <1>1, <1>8 DEF Moved
  <1>11. \A j, m \in 1..(n - 1) : Moved(i, j) = Moved(i, m) => j = m
    BY <1>1 DEF Moved
  <1>. QED
    BY <1>1, <1>7, <1>9, <1>10, <1>11

LEMMA SweptRows == queue \in Queued => Swept(queue) \subseteq DOMAIN queue
  BY DEF Swept

\* The rows the button queues.
LEMMA NowQueued ==
    ASSUME OTyped, QueuePending
    PROVE  /\ queue' \in Queued /\ DOMAIN queue' = Pending \cup DOMAIN queue
           /\ Pending \cap DOMAIN queue = {}
           /\ \A k \in DOMAIN queue : queue'[k] = queue[k]
           /\ \A k \in Pending : /\ queue'[k].filed = "no"
                                 /\ queue'[k].life = invoiced[k[2]].life
                                 /\ invoiced[k[2]].is # "none"
                                 /\ queue'[k].status \in {"draft", "blocked"}
  <1>1. Pending \subseteq Keys /\ Pending \cap DOMAIN queue = {}
        /\ \A k \in Pending : k[2] \in Invoiced /\ invoiced[k[2]].is # "none"
    BY DEF Pending, Planned, Unseen, Happened, Keys
  <1>2. DEFINE msg(k) == IF k \notin Pending THEN queue[k]
                        ELSE [status |-> IF k[2] \in reachable THEN "draft" ELSE "blocked",
                              filed |-> "no", life |-> invoiced[k[2]].life]
  <1>3. ASSUME NEW k \in Pending
        PROVE  /\ msg(k) \in Message /\ msg(k).filed = "no"
               /\ msg(k).life = invoiced[k[2]].life /\ msg(k).status \in {"draft", "blocked"}
    <2>1. PICK st : st = IF k[2] \in reachable THEN "draft" ELSE "blocked"
      OBVIOUS
    <2>2. msg(k) = [status |-> st, filed |-> "no", life |-> invoiced[k[2]].life]
      BY <2>1
    <2>3. invoiced[k[2]].life \in 1..MaxLives
      BY <1>1, LivesAssumption DEF OTyped, Issued
    <2>4. st \in Statuses /\ st \in {"draft", "blocked"}
      BY <2>1 DEF Statuses
    <2>. HIDE DEF msg
    <2>. QED
      BY <2>2, <2>3, <2>4 DEF Message
  <1>4. \A k \in DOMAIN queue : msg(k) = queue[k] /\ queue[k] \in Message
    BY <1>1, QueuedIs DEF OTyped
  <1>5. queue' = [k \in Pending \cup DOMAIN queue |-> msg(k)]
    BY DEF QueuePending
  <1>. HIDE DEF msg
  <1>6. queue' \in [Pending \cup DOMAIN queue -> Message]
    BY <1>3, <1>4, <1>5
  <1>7. Pending \cup DOMAIN queue \in SUBSET Keys
    BY <1>1, QueuedIs DEF OTyped
  <1>8. queue' \in Queued
    BY <1>6, <1>7 DEF Queued
  <1>. QED
    BY <1>1, <1>3, <1>4, <1>5, <1>8

LEMMA OutboxStarts == OutboxInit => OTyped /\ Standing /\ Wanted /\ OneCall
  <1> SUFFICES ASSUME OutboxInit PROVE OTyped /\ Standing /\ Wanted /\ OneCall
    OBVIOUS
  <1>1. /\ invoiced = [s \in Invoiced |-> [life |-> 0, is |-> "none"]]
        /\ queue = [k \in {} |-> {}] /\ filing = <<>>
        /\ mailbox = [k \in Keys |-> 0] /\ late = {} /\ lost = {}
    BY DEF OutboxInit
  <1>2. sweep.rows = {} /\ sweep \in [on : BOOLEAN, rows : SUBSET Keys]
    BY DEF OutboxInit
  <1>3. [life |-> 0, is |-> "none"] \in Issued
    BY LivesAssumption DEF Issued
  <1>4. queue \in Queued /\ DOMAIN queue = {}
    <2>1. queue \in [{} -> Message] /\ {} \in SUBSET Keys
      BY <1>1
    <2>. QED
      BY <2>1, <1>1 DEF Queued
  <1>5. OTyped
    BY <1>1, <1>2, <1>3, <1>4 DEF OTyped
  <1>. QED
    BY <1>1, <1>2, <1>4, <1>5 DEF Standing, Wanted, OneCall, OneEach, NotSwept, DraftKnown

\* What happens to the invoices and to the addresses.
Outside == \E s \in Invoiced : IssueOf(s) \/ FallsDue(s) \/ Collected(s) \/ Withdraw(s)
                               \/ LearnAddress(s)
\* A person turns a message; none of the calls changes but for the one of a sent message.
StatusTurns(k) == Approve(k) \/ Cancel(k) \/ RecordSent(k)

LEMMA OutsideTouches ==
    ASSUME OTyped, Outside
    PROVE  /\ UNCHANGED <<queue, filing, sweep, mailbox, late, lost>>
           /\ invoiced' \in [Invoiced -> Issued]
           /\ \A s \in Invoiced : invoiced'[s].is # "none" => invoiced'[s].life # 0
           /\ \A s \in Invoiced : \/ invoiced[s].is = "none"
                                  \/ /\ invoiced'[s].is # "none"
                                     /\ invoiced'[s].life = invoiced[s].life
                                  \/ Withdraw(s)
  <1>1. UNCHANGED <<queue, filing, sweep, mailbox, late, lost>>
    BY DEF Outside, IssueOf, FallsDue, Collected, Withdraw, LearnAddress, OnInvoices
  <1>2. PICK s \in Invoiced : IssueOf(s) \/ FallsDue(s) \/ Collected(s) \/ Withdraw(s)
                             \/ LearnAddress(s)
    BY DEF Outside
  <1>3. invoiced[s] \in Issued /\ invoiced \in [Invoiced -> Issued]
    BY DEF OTyped
  <1>4. CASE LearnAddress(s)
    BY <1>1, <1>4 DEF LearnAddress, OTyped
  <1>5. ASSUME NEW msg \in Issued, msg.is # "none" => msg.life # 0,
               invoiced' = [invoiced EXCEPT ![s] = msg],
               \/ invoiced[s].is = "none" \/ Withdraw(s)
               \/ msg.is # "none" /\ msg.life = invoiced[s].life
        PROVE  /\ invoiced' \in [Invoiced -> Issued]
               /\ \A t \in Invoiced : invoiced'[t].is # "none" => invoiced'[t].life # 0
               /\ \A t \in Invoiced : \/ invoiced[t].is = "none"
                                      \/ /\ invoiced'[t].is # "none"
                                         /\ invoiced'[t].life = invoiced[t].life
                                      \/ Withdraw(t)
    BY <1>3, <1>5 DEF OTyped
  <1>6. CASE IssueOf(s)
    <2>1. PICK msg : msg = [life |-> invoiced[s].life + 1, is |-> "issued"]
      OBVIOUS
    <2>2. msg \in Issued /\ msg.life # 0
      BY <2>1, <1>3, <1>6, LivesAssumption DEF Issued, IssueOf
    <2>3. invoiced' = [invoiced EXCEPT ![s] = msg] /\ invoiced[s].is = "none"
      BY <1>6, <2>1 DEF IssueOf
    <2>. QED
      BY <1>1, <1>5, <2>2, <2>3
  <1>7. ASSUME NEW st \in {"none", "overdue", "paid"}, invoiced[s].is # "none",
               invoiced' = [invoiced EXCEPT ![s].is = st], st = "none" => Withdraw(s)
        PROVE  /\ invoiced' \in [Invoiced -> Issued]
               /\ \A t \in Invoiced : invoiced'[t].is # "none" => invoiced'[t].life # 0
               /\ \A t \in Invoiced : \/ invoiced[t].is = "none"
                                      \/ /\ invoiced'[t].is # "none"
                                         /\ invoiced'[t].life = invoiced[t].life
                                      \/ Withdraw(t)
    <2>1. PICK msg : msg = [invoiced[s] EXCEPT !.is = st]
      OBVIOUS
    <2>2. msg \in Issued /\ msg.is = st /\ msg.life = invoiced[s].life
      BY <2>1, <1>3, <1>7 DEF Issued
    <2>3. invoiced' = [invoiced EXCEPT ![s] = msg] /\ invoiced[s].life # 0
      BY <2>1, <1>7 DEF OTyped
    <2>. QED
      BY <1>5, <1>7, <2>2, <2>3
  <1>8. CASE FallsDue(s)
    BY <1>1, <1>7, <1>8 DEF FallsDue
  <1>9. CASE Collected(s)
    BY <1>1, <1>7, <1>9 DEF Collected
  <1>10. CASE Withdraw(s)
    BY <1>1, <1>7, <1>10 DEF Withdraw
  <1>. QED
    BY <1>1, <1>2, <1>4, <1>6, <1>8, <1>9, <1>10

LEMMA OutboxSplits ==
    ASSUME OutboxNext
    PROVE  \/ Outside \/ QueuePending \/ SweepEnd \/ StartAgain
           \/ \E k \in DOMAIN queue : StatusTurns(k) \/ Refile(k) \/ SweepNext(k)
           \/ \E i \in DOMAIN filing : Deliver(i) \/ Refuse(i) \/ Lose(i) \/ Answer(i)
  BY DEF OutboxNext, Outside, StatusTurns

LEMMA TurnsRow ==
    ASSUME OTyped, NEW k \in DOMAIN queue, StatusTurns(k)
    PROVE  /\ \E st \in {"approved", "cancelled", "sent"} :
                  TurnTo(k, st) /\ queue'[k].status = st
           /\ UNCHANGED <<invoiced, sweep, mailbox, late, lost>>
           /\ RecordSent(k) \/ UNCHANGED filing
           /\ queue' \in Queued /\ DOMAIN queue' = DOMAIN queue
           /\ \A j \in DOMAIN queue : /\ queue'[j].filed = queue[j].filed
                                      /\ queue'[j].life = queue[j].life
                                      /\ j # k => queue'[j].status = queue[j].status
  <1>1. PICK st \in {"approved", "cancelled", "sent"} : TurnTo(k, st)
    BY DEF StatusTurns, Approve, Cancel, RecordSent
  <1>2. st \in Statuses /\ queue \in Queued
    BY DEF Statuses, OTyped
  <1>3. UNCHANGED <<invoiced, sweep, mailbox, late, lost>>
        /\ (RecordSent(k) \/ UNCHANGED filing)
    BY DEF StatusTurns, Approve, Cancel, RecordSent
  <1>. QED
    BY <1>1, <1>2, <1>3, Turned

\* The steps that may begin a call.
LEMMA BeginsCall ==
    ASSUME OTyped, NEW k \in DOMAIN queue, RecordSent(k) \/ Refile(k) \/ SweepNext(k)
    PROVE  /\ UNCHANGED <<invoiced, mailbox, late, lost>> /\ DOMAIN queue' = DOMAIN queue
           /\ queue' \in Queued
           /\ \A j \in DOMAIN queue : queue'[j].filed = queue[j].filed
           /\ sweep'.on = sweep.on /\ sweep'.rows \subseteq sweep.rows
           /\ SweepNext(k) => sweep'.rows = sweep.rows \ {k} /\ k \in sweep.rows
           /\ \/ filing' = filing
              \/ \E n \in Nat :
                    /\ queue[k].filed # "mailbox" /\ filing' \in Seq(Call)
                    /\ DOMAIN filing = 1..n /\ DOMAIN filing' = 1..(n + 1)
                    /\ \A i \in 1..n : filing'[i] = filing[i]
                    /\ filing'[n + 1].key = k /\ filing'[n + 1].reply = "none"
  <1>1. k \in Keys /\ filing \in Seq(Call) /\ queue \in Queued
    BY QueuedIs DEF OTyped
  <1>2. \E sw \in BOOLEAN : filing' = FiledBy(filing, queue, k, sw)
    BY DEF RecordSent, Refile, SweepNext
  <1>3. UNCHANGED <<invoiced, mailbox, late, lost>>
    BY DEF RecordSent, Refile, SweepNext
  <1>7. SweepNext(k) => /\ sweep'.rows = sweep.rows \ {k} /\ k \in sweep.rows
                        /\ sweep'.on = sweep.on
    <2>1. PICK after : after = sweep.rows \ {k}
      OBVIOUS
    <2>2. SweepNext(k) => sweep' = [sweep EXCEPT !.rows = after] /\ k \in sweep.rows
      BY <2>1 DEF SweepNext
    <2>3. sweep \in [on : BOOLEAN, rows : SUBSET Keys]
      BY DEF OTyped
    <2>. QED
      BY <2>1, <2>2, <2>3
  <1>4. CASE RecordSent(k)
    <2>1. StatusTurns(k) /\ UNCHANGED sweep
      BY <1>4, <1>1 DEF StatusTurns, RecordSent
    <2>. QED
      BY <1>1, <1>2, <1>3, <1>7, <2>1, TurnsRow, Begun
  <1>5. CASE Refile(k)
    <2>1. UNCHANGED <<queue, sweep>>
      BY <1>5 DEF Refile
    <2>. QED
      BY <1>1, <1>2, <1>3, <1>7, <2>1, Begun
  <1>6. CASE SweepNext(k)
    <2>1. UNCHANGED queue
      BY <1>6 DEF SweepNext
    <2>. QED
      BY <1>1, <1>2, <1>3, <1>6, <1>7, <2>1, Begun
  <1>. QED
    BY <1>4, <1>5, <1>6

LEMMA SweepBegins ==
    ASSUME OTyped, NEW after \in Queued, DOMAIN queue \subseteq DOMAIN after,
           NEW sw, sw = [on |-> Swept(after) # {}, rows |-> Swept(after)] \/ sw = SweepOf(after)
    PROVE  /\ sw \in [on : BOOLEAN, rows : SUBSET Keys]
           /\ sw.rows \subseteq DOMAIN after /\ (~sw.on => sw.rows = {})
           /\ sw.rows \subseteq sweep.rows \cup Swept(after)
           /\ ~sweep.on => sw.rows = Swept(after)
  <1>1. Swept(after) \subseteq DOMAIN after /\ DOMAIN after \subseteq Keys
    BY QueuedIs DEF Swept
  <1>2. PICK o \in BOOLEAN : o = (Swept(after) # {})
    OBVIOUS
  <1>3. CASE sw = [on |-> o, rows |-> Swept(after)]
    BY <1>1, <1>2, <1>3
  <1>4. CASE sw = sweep /\ sweep.on
    BY <1>4 DEF OTyped
  <1>. QED
    BY <1>2, <1>3, <1>4 DEF SweepOf

\* A reply is written beside the call, with or without a draft in the mailbox.
LEMMA RepliedTyped ==
    ASSUME OTyped, NEW i \in DOMAIN filing, Deliver(i) \/ Refuse(i) \/ Lose(i)
    PROVE  /\ OTyped' /\ UNCHANGED <<invoiced, queue, sweep>>
           /\ \A k \in Keys : mailbox'[k] = IF Deliver(i) /\ k = filing[i].key
                                           THEN mailbox[k] + 1 ELSE mailbox[k]
           /\ filing' \in Seq(Call) /\ DOMAIN filing' = DOMAIN filing
           /\ \E r \in {"mailbox", "error"} :
                  filing'[i].reply = r /\ (Deliver(i) <=> r = "mailbox")
           /\ \A j \in DOMAIN filing : /\ filing'[j].key = filing[j].key
                                       /\ j # i => filing'[j].reply = filing[j].reply
  <1>1. filing[i] \in Call /\ filing[i].key \in Keys /\ filing \in Seq(Call)
        /\ mailbox \in [Keys -> Nat]
    BY CallIs DEF OTyped
  <1>2. UNCHANGED <<invoiced, queue, sweep>>
    BY DEF Deliver, Refuse, Lose
  <1>3. Deliver(i) => Reply(i, "mailbox")
    BY DEF Deliver
  <1>4. Refuse(i) \/ Lose(i) => Reply(i, "error")
    BY DEF Refuse, Lose, Fails
  <1>5. PICK r \in {"mailbox", "error"} : Reply(i, r) /\ (Deliver(i) => r = "mailbox")
                                         /\ (~Deliver(i) => r = "error")
    BY <1>3, <1>4
  <1>6. /\ filing' \in Seq(Call) /\ DOMAIN filing' = DOMAIN filing /\ filing'[i].reply = r
        /\ \A j \in DOMAIN filing : /\ filing'[j].key = filing[j].key
                                    /\ j # i => filing'[j].reply = filing[j].reply
    BY <1>1, <1>5, Replied
  <1>7. /\ mailbox' \in [Keys -> Nat]
        /\ \A k \in Keys : mailbox'[k] = IF Deliver(i) /\ k = filing[i].key
                                        THEN mailbox[k] + 1 ELSE mailbox[k]
    <2>1. CASE Deliver(i)
      <3>1. mailbox' = [mailbox EXCEPT ![filing[i].key] = mailbox[filing[i].key] + 1]
        BY <2>1 DEF Deliver
      <3>2. mailbox[filing[i].key] + 1 \in Nat
        BY <1>1
      <3>. QED
        BY <2>1, <3>1, <3>2, <1>1
    <2>2. CASE ~Deliver(i)
      <3>1. mailbox' = mailbox
        BY <2>2 DEF Refuse, Lose
      <3>. QED
        BY <2>2, <3>1, <1>1
    <2>. QED
      BY <2>1, <2>2
  <1>8. late' \subseteq Keys /\ lost' \subseteq Keys
    BY <1>1 DEF OTyped, Deliver, Refuse, Lose
  <1>9. \A k \in Keys : mailbox[k] # 0 => mailbox'[k] # 0
    BY <1>1, <1>7
  <1>10. \A j \in DOMAIN filing' : filing'[j].reply = "mailbox" => mailbox'[filing'[j].key] # 0
    <2>1. ASSUME NEW j \in DOMAIN filing', j # i, filing'[j].reply = "mailbox"
          PROVE  mailbox'[filing'[j].key] # 0
      <3>1. j \in DOMAIN filing /\ filing[j].reply = "mailbox"
        BY <2>1, <1>6
      <3>2. filing[j].key \in Keys /\ mailbox[filing[j].key] # 0
        BY <3>1, <1>1, CallIs DEF OTyped
      <3>. QED
        BY <3>1, <3>2, <1>6, <1>9
    <2>2. filing'[i].reply = "mailbox" => mailbox'[filing'[i].key] # 0
      <3>1. filing'[i].reply = "mailbox" => Deliver(i)
        BY <1>5, <1>6
      <3>. QED
        BY <3>1, <1>1, <1>6, <1>7
    <2>. QED
      BY <2>1, <2>2
  <1>11. \A k \in DOMAIN queue : queue[k].filed = "mailbox" => mailbox'[k] # 0
    BY <1>9, QueuedIs DEF OTyped
  <1>12. OTyped'
    BY <1>2, <1>6, <1>7, <1>8, <1>10, <1>11 DEF OTyped
  <1>. QED
    BY <1>2, <1>5, <1>6, <1>7, <1>12

\* An answer is written beside the row, and its call is over.
LEMMA Answered ==
    ASSUME OTyped, NEW i \in DOMAIN filing, Answer(i)
    PROVE  /\ UNCHANGED <<invoiced, sweep, mailbox, late, lost>>
           /\ filing' = RemoveAt(filing, i) /\ filing' \in Seq(Call)
           /\ \A j \in DOMAIN filing' : \E m \in DOMAIN filing : filing'[j] = filing[m]
           /\ queue' \in Queued /\ DOMAIN queue' = DOMAIN queue
           /\ filing[i].key \in DOMAIN queue
           /\ queue'[filing[i].key].filed = filing[i].reply
           /\ \A j \in DOMAIN queue :
                  /\ queue'[j].status = queue[j].status /\ queue'[j].life = queue[j].life
                  /\ j # filing[i].key => queue'[j].filed = queue[j].filed
  <1>1. PICK k \in DOMAIN queue : k = filing[i].key
    BY DEF OTyped
  <1>2. filing \in Seq(Call) /\ queue \in Queued
    BY DEF OTyped
  <1>3. PICK r \in {"mailbox", "error"} : r = filing[i].reply
    BY <1>2, CallIs DEF Answer
  <1>4. /\ queue' = FiledAs(k, r) /\ filing' = RemoveAt(filing, i)
        /\ UNCHANGED <<invoiced, sweep, mailbox, late, lost>>
    BY <1>1, <1>3 DEF Answer
  <1>5. /\ queue' \in Queued /\ DOMAIN queue' = DOMAIN queue /\ queue'[k].filed = r
        /\ \A j \in DOMAIN queue : /\ queue'[j].status = queue[j].status
                                   /\ queue'[j].life = queue[j].life
                                   /\ j # k => queue'[j].filed = queue[j].filed
    BY <1>2, <1>4, FiledBeside
  <1>6. /\ filing' \in Seq(Call)
        /\ \A j \in DOMAIN filing' : \E m \in DOMAIN filing : filing'[j] = filing[m]
    BY <1>2, <1>4, Removed
  <1>. QED
    BY <1>1, <1>3, <1>4, <1>5, <1>6

LEMMA StepOutbox == OTyped /\ [OutboxNext]_outboxVars => OTyped'
  <1> SUFFICES ASSUME OTyped, [OutboxNext]_outboxVars PROVE OTyped'
    OBVIOUS
  <1>1. CASE Outside
    BY <1>1, OutsideTouches DEF OTyped
  <1>2. CASE QueuePending
    <2>1. UNCHANGED <<invoiced, filing, mailbox, late, lost>> /\ sweep' = SweepOf(queue')
      BY <1>2 DEF QueuePending
    <2>2. /\ queue' \in Queued /\ DOMAIN queue \subseteq DOMAIN queue'
          /\ \A k \in DOMAIN queue : queue'[k] = queue[k]
          /\ \A k \in DOMAIN queue' : k \in DOMAIN queue \/ queue'[k].filed = "no"
      BY <1>2, NowQueued
    <2>3. /\ sweep' \in [on : BOOLEAN, rows : SUBSET Keys]
          /\ sweep'.rows \subseteq DOMAIN queue' /\ (~sweep'.on => sweep'.rows = {})
      BY <2>1, <2>2, SweepBegins
    <2>4. \A k \in DOMAIN queue' : queue'[k].filed = "mailbox" => mailbox[k] # 0
      BY <2>2 DEF OTyped
    <2>. QED
      BY <2>1, <2>2, <2>3, <2>4 DEF OTyped
  <1>3. CASE SweepEnd
    <2>1. UNCHANGED <<invoiced, queue, filing, mailbox, late, lost>>
      BY <1>3 DEF SweepEnd
    <2>2. PICK no : no = FALSE
      OBVIOUS
    <2>3. sweep' = [sweep EXCEPT !.on = no] /\ sweep.rows = {}
      BY <1>3, <2>2 DEF SweepEnd
    <2>4. sweep' \in [on : BOOLEAN, rows : SUBSET Keys] /\ sweep'.rows = {}
      BY <2>2, <2>3 DEF OTyped
    <2>. QED
      BY <2>1, <2>4 DEF OTyped
  <1>4. CASE StartAgain
    <2>1. UNCHANGED <<invoiced, queue, mailbox, late, lost>> /\ filing' = <<>>
          /\ sweep' = [on |-> Swept(queue) # {}, rows |-> Swept(queue)]
      BY <1>4 DEF StartAgain
    <2>2. /\ sweep' \in [on : BOOLEAN, rows : SUBSET Keys]
          /\ sweep'.rows \subseteq DOMAIN queue /\ (~sweep'.on => sweep'.rows = {})
      BY <2>1, SweepBegins DEF OTyped
    <2>. QED
      BY <2>1, <2>2 DEF OTyped
  <1>5. ASSUME NEW k \in DOMAIN queue, RecordSent(k) \/ Refile(k) \/ SweepNext(k)
        PROVE  OTyped'
    <2>1. /\ UNCHANGED <<invoiced, mailbox, late, lost>> /\ DOMAIN queue' = DOMAIN queue
          /\ queue' \in Queued /\ \A j \in DOMAIN queue : queue'[j].filed = queue[j].filed
          /\ sweep'.on = sweep.on /\ sweep'.rows \subseteq sweep.rows
      BY <1>5, BeginsCall
    <2>2. sweep' \in [on : BOOLEAN, rows : SUBSET Keys]
      <3>1. \/ UNCHANGED sweep
            \/ \E after \in SUBSET sweep.rows : sweep' = [sweep EXCEPT !.rows = after]
        BY <1>5 DEF RecordSent, Refile, SweepNext
      <3>. QED
        BY <3>1 DEF OTyped
    <2>3. /\ filing' \in Seq(Call)
          /\ \A i \in DOMAIN filing' :
                 /\ filing'[i].key \in DOMAIN queue
                 /\ filing'[i].reply = "mailbox" => mailbox[filing'[i].key] # 0
      <3>1. CASE filing' = filing
        BY <3>1 DEF OTyped
      <3>2. ASSUME NEW n \in Nat, filing' \in Seq(Call), DOMAIN filing = 1..n,
                   DOMAIN filing' = 1..(n + 1), \A i \in 1..n : filing'[i] = filing[i],
                   filing'[n + 1].key = k, filing'[n + 1].reply = "none"
            PROVE  \A i \in DOMAIN filing' :
                       /\ filing'[i].key \in DOMAIN queue
                       /\ filing'[i].reply = "mailbox" => mailbox[filing'[i].key] # 0
        <4>1. \A i \in 1..n : /\ filing[i].key \in DOMAIN queue
                              /\ filing[i].reply = "mailbox" => mailbox[filing[i].key] # 0
          BY <3>2 DEF OTyped
        <4>. QED
          BY <3>2, <4>1
      <3>. QED
        BY <1>5, <3>1, <3>2, BeginsCall
    <2>. QED
      BY <2>1, <2>2, <2>3 DEF OTyped
  <1>6. ASSUME NEW k \in DOMAIN queue, StatusTurns(k), UNCHANGED filing PROVE OTyped'
    BY <1>6, TurnsRow DEF OTyped
  <1>7. ASSUME NEW i \in DOMAIN filing, Deliver(i) \/ Refuse(i) \/ Lose(i) PROVE OTyped'
    BY <1>7, RepliedTyped
  <1>8. ASSUME NEW i \in DOMAIN filing, Answer(i) PROVE OTyped'
    <2>1. /\ UNCHANGED <<invoiced, sweep, mailbox, late, lost>>
          /\ filing' \in Seq(Call)
          /\ \A j \in DOMAIN filing' : \E m \in DOMAIN filing : filing'[j] = filing[m]
          /\ queue' \in Queued /\ DOMAIN queue' = DOMAIN queue
          /\ filing[i].key \in DOMAIN queue
          /\ queue'[filing[i].key].filed = filing[i].reply
          /\ \A j \in DOMAIN queue : j # filing[i].key => queue'[j].filed = queue[j].filed
      BY <1>8, Answered
    <2>2. \A j \in DOMAIN queue' : queue'[j].filed = "mailbox" => mailbox[j] # 0
      BY <2>1 DEF OTyped
    <2>3. \A j \in DOMAIN filing' :
             /\ filing'[j].key \in DOMAIN queue
             /\ filing'[j].reply = "mailbox" => mailbox[filing'[j].key] # 0
      BY <2>1 DEF OTyped
    <2>. QED
      BY <2>1, <2>2, <2>3 DEF OTyped
  <1>9. CASE UNCHANGED outboxVars
    BY <1>9 DEF outboxVars, OTyped
  <1>. QED
    BY <1>1, <1>2, <1>3, <1>4, <1>5, <1>6, <1>7, <1>8, <1>9, OutboxSplits, TurnsRow

LEMMA OutboxTyped == OTyped => OutboxTypeOK
  <1> SUFFICES ASSUME OTyped PROVE OutboxTypeOK
    OBVIOUS
  <1>1. \A s \in Invoiced : invoiced[s].life \in 0..MaxLives
    BY DEF OTyped, Issued
  <1>2. \A k \in DOMAIN queue : k \in Keys /\ queue[k] \in Message
    BY QueuedIs DEF OTyped
  <1>3. \A k \in DOMAIN queue : queue[k].filed = "mailbox" => mailbox[k] > 0
    BY <1>2 DEF OTyped
  <1>. QED
    BY <1>1, <1>2, <1>3 DEF OTyped, OutboxTypeOK

-----------------------------------------------------------------------------
(* A message that was sent stands for an invoice that does. *)

LEMMA StepStanding ==
    ASSUME "undone" \notin Mishaps
    PROVE  OTyped /\ Standing /\ [OutboxNext]_outboxVars => Standing'
  <1> SUFFICES ASSUME OTyped, Standing, [OutboxNext]_outboxVars PROVE Standing'
    OBVIOUS
  <1>1. \A k \in DOMAIN queue : k \in Keys /\ k[2] \in Invoiced
    BY QueuedIs DEF OTyped, Keys
  <1>2. ASSUME UNCHANGED invoiced, DOMAIN queue' = DOMAIN queue,
               \A k \in DOMAIN queue :
                   /\ queue'[k].life = queue[k].life
                   /\ queue'[k].status # "cancelled" => queue[k].status # "cancelled"
        PROVE  Standing'
    BY <1>2 DEF Standing
  <1>3. CASE Outside
    <2>1. UNCHANGED queue
      BY <1>3, OutsideTouches
    <2>2. ASSUME NEW k \in DOMAIN queue, queue[k].status # "cancelled"
          PROVE  invoiced'[k[2]].is # "none" /\ invoiced'[k[2]].life = queue[k].life
      <3>1. invoiced[k[2]].is # "none" /\ invoiced[k[2]].life = queue[k].life
        BY <2>2 DEF Standing
      <3>2. ~Withdraw(k[2])
        <4>1. ASSUME Withdraw(k[2]) PROVE FALSE
          <5>1. queue[k].status = "sent" /\ ~WentOut(k[2])
            BY <4>1, <2>2 DEF Withdraw
          <5>. QED
            BY <5>1 DEF WentOut
        <4>. QED
          BY <4>1
      <3>. QED
        BY <1>1, <1>3, <3>1, <3>2, OutsideTouches
    <2>. QED
      BY <2>1, <2>2 DEF Standing
  <1>4. CASE QueuePending
    <2>1. UNCHANGED invoiced
      BY <1>4 DEF QueuePending
    <2>. QED
      BY <1>4, <2>1, NowQueued DEF Standing
  <1>5. CASE SweepEnd \/ StartAgain
    BY <1>2, <1>5 DEF SweepEnd, StartAgain
  <1>6. ASSUME NEW k \in DOMAIN queue, StatusTurns(k) PROVE Standing'
    <2>1. queue'[k].status # "cancelled" => queue[k].status # "cancelled"
      <3>1. CASE Approve(k) \/ RecordSent(k)
        BY <3>1 DEF Approve, RecordSent, MayBeSent
      <3>2. CASE Cancel(k)
        <4>1. TurnTo(k, "cancelled") /\ "cancelled" \in Statuses /\ queue \in Queued
          BY <3>2 DEF Cancel, Statuses, OTyped
        <4>. QED
          BY <4>1, Turned
      <3>. QED
        BY <1>6, <3>1, <3>2 DEF StatusTurns
    <2>. QED
      BY <1>2, <1>6, <2>1, TurnsRow
  <1>7. ASSUME NEW k \in DOMAIN queue, Refile(k) \/ SweepNext(k) PROVE Standing'
    BY <1>2, <1>7 DEF Refile, SweepNext
  <1>8. ASSUME NEW i \in DOMAIN filing, Deliver(i) \/ Refuse(i) \/ Lose(i) PROVE Standing'
    BY <1>2, <1>8 DEF Deliver, Refuse, Lose
  <1>9. ASSUME NEW i \in DOMAIN filing, Answer(i) PROVE Standing'
    BY <1>2, <1>9, Answered
  <1>10. CASE UNCHANGED outboxVars
    BY <1>2, <1>10 DEF outboxVars
  <1>. QED
    BY <1>3, <1>4, <1>5, <1>6, <1>7, <1>8, <1>9, <1>10, OutboxSplits

-----------------------------------------------------------------------------
(* What was declined is not filed. *)

LEMMA StepWanted ==
    ASSUME "declined" \notin Mishaps
    PROVE  OTyped /\ Wanted /\ [OutboxNext]_outboxVars => Wanted'
  <1> SUFFICES ASSUME OTyped, Wanted, [OutboxNext]_outboxVars PROVE Wanted'
    OBVIOUS
  <1>1. \A i \in DOMAIN filing : filing[i].key \in DOMAIN queue
    BY DEF OTyped
  <1>2. CASE Outside
    BY <1>2, OutsideTouches DEF Wanted
  <1>3. ASSUME NEW after, \A k \in Swept(after) : after[k].status # "cancelled",
               queue' = after, queue' \in Queued, DOMAIN queue \subseteq DOMAIN queue',
               \A k \in DOMAIN queue : queue'[k] = queue[k], UNCHANGED late,
               filing' = filing \/ filing' = <<>>,
               sweep'.rows \subseteq sweep.rows \cup Swept(after)
        PROVE  Wanted'
    <2>1. \A k \in sweep.rows : k \in DOMAIN queue
      BY DEF OTyped
    <2>. QED
      BY <1>1, <1>3, <2>1 DEF Wanted
  <1>4. CASE QueuePending
    <2>1. /\ queue' \in Queued /\ DOMAIN queue \subseteq DOMAIN queue'
          /\ \A k \in DOMAIN queue : queue'[k] = queue[k]
      BY <1>4, NowQueued
    <2>2. sweep' = SweepOf(queue') /\ UNCHANGED <<filing, late>>
      BY <1>4 DEF QueuePending
    <2>3. sweep'.rows \subseteq sweep.rows \cup Swept(queue')
      BY <2>1, <2>2, SweepBegins
    <2>4. \A k \in Swept(queue') : queue'[k].status # "cancelled"
      BY DEF Swept
    <2>. QED
      BY <1>3, <2>1, <2>2, <2>3, <2>4
  <1>5. CASE SweepEnd
    <2>1. UNCHANGED <<queue, filing, late>> /\ sweep.rows = {}
          /\ sweep' = [sweep EXCEPT !.on = FALSE]
      BY <1>5 DEF SweepEnd
    <2>2. sweep'.rows = {}
      BY <2>1 DEF OTyped
    <2>. QED
      BY <2>1, <2>2 DEF Wanted
  <1>6. CASE StartAgain
    <2>1. UNCHANGED <<queue, late>> /\ filing' = <<>>
          /\ sweep' = [on |-> Swept(queue) # {}, rows |-> Swept(queue)]
      BY <1>6 DEF StartAgain
    <2>2. sweep'.rows \subseteq sweep.rows \cup Swept(queue)
      BY <2>1, SweepBegins DEF OTyped
    <2>3. \A k \in Swept(queue) : queue[k].status # "cancelled"
      BY DEF Swept
    <2>. QED
      BY <2>1, <2>2, <2>3 DEF Wanted
  <1>7. ASSUME NEW k \in DOMAIN queue, RecordSent(k) \/ Refile(k) \/ SweepNext(k)
        PROVE  Wanted'
    <2>1. /\ UNCHANGED late /\ DOMAIN queue' = DOMAIN queue /\ sweep'.rows \subseteq sweep.rows
          /\ \/ filing' = filing
             \/ \E n \in Nat :
                  /\ DOMAIN filing = 1..n /\ DOMAIN filing' = 1..(n + 1)
                  /\ \A i \in 1..n : filing'[i] = filing[i]
                  /\ filing'[n + 1].key = k
      BY <1>7, BeginsCall
    <2>2. queue'[k].status # "cancelled"
          /\ \A j \in DOMAIN queue : j # k => queue'[j].status = queue[j].status
      <3>1. CASE RecordSent(k)
        <4>1. TurnTo(k, "sent") /\ "sent" \in Statuses /\ queue \in Queued
          BY <3>1 DEF RecordSent, Statuses, OTyped
        <4>. QED
          BY <4>1, Turned
      <3>2. CASE Refile(k)
        BY <3>2 DEF Refile
      <3>3. CASE SweepNext(k)
        BY <3>3 DEF SweepNext, Wanted
      <3>. QED
        BY <1>7, <3>1, <3>2, <3>3
    <2>3. \A j \in DOMAIN queue :
              queue[j].status # "cancelled" => queue'[j].status # "cancelled"
      BY <2>2
    <2>4. \A j \in sweep'.rows : queue'[j].status # "cancelled"
      BY <2>1, <2>3 DEF Wanted, OTyped
    <2>5. \A i \in DOMAIN filing' : queue'[filing'[i].key].status # "cancelled"
      BY <1>1, <2>1, <2>2, <2>3 DEF Wanted
    <2>. QED
      BY <2>1, <2>4, <2>5 DEF Wanted
  <1>8. ASSUME NEW k \in DOMAIN queue, Approve(k) \/ Cancel(k) PROVE Wanted'
    <2>1. PICK st \in Statuses : TurnTo(k, st) /\ (Approve(k) \/ Cancel(k))
                                 /\ (st = "cancelled" => Cancel(k))
      BY <1>8 DEF Approve, Cancel, Statuses
    <2>2. UNCHANGED <<filing, sweep, late>>
      BY <1>8 DEF Approve, Cancel
    <2>3. /\ DOMAIN queue' = DOMAIN queue /\ queue'[k].status = st
          /\ \A j \in DOMAIN queue : j # k => queue'[j].status = queue[j].status
      BY <2>1, Turned DEF OTyped
    <2>4. CASE st = "cancelled"
      <3>1. ~InFlight(k) /\ k \notin sweep.rows
        BY <2>1, <2>4 DEF Cancel
      <3>. QED
        BY <1>1, <2>2, <2>3, <3>1 DEF Wanted, InFlight, OTyped
    <2>5. CASE st # "cancelled"
      BY <1>1, <2>2, <2>3, <2>5 DEF Wanted, OTyped
    <2>. QED
      BY <2>4, <2>5
  <1>9. ASSUME NEW i \in DOMAIN filing, Deliver(i) \/ Refuse(i) \/ Lose(i) PROVE Wanted'
    <2>1. UNCHANGED <<queue, sweep>> /\ DOMAIN filing' = DOMAIN filing
          /\ \A j \in DOMAIN filing : filing'[j].key = filing[j].key
      BY <1>9, RepliedTyped
    <2>2. queue[filing[i].key].status # "cancelled"
      BY DEF Wanted
    <2>3. late' = late
      BY <1>9, <2>2 DEF Deliver, Refuse, Lose
    <2>. QED
      BY <2>1, <2>3 DEF Wanted
  <1>10. ASSUME NEW i \in DOMAIN filing, Answer(i) PROVE Wanted'
    <2>1. /\ UNCHANGED <<sweep, late>>
          /\ \A j \in DOMAIN queue : queue'[j].status = queue[j].status
          /\ \A j \in DOMAIN filing' : \E m \in DOMAIN filing : filing'[j] = filing[m]
      BY <1>10, Answered
    <2>2. \A m \in DOMAIN filing : /\ filing[m].key \in DOMAIN queue
                                   /\ queue'[filing[m].key].status = queue[filing[m].key].status
      BY <1>1, <2>1 DEF OTyped
    <2>3. \A k \in sweep.rows : queue'[k].status = queue[k].status
      BY <1>1, <2>1 DEF OTyped
    <2>4. \A j \in DOMAIN filing' : queue'[filing'[j].key].status # "cancelled"
      BY <2>1, <2>2 DEF Wanted
    <2>. QED
      BY <2>1, <2>3, <2>4 DEF Wanted
  <1>11. CASE UNCHANGED outboxVars
    BY <1>11 DEF outboxVars, Wanted
  <1>. QED
    BY <1>2, <1>4, <1>5, <1>6, <1>7, <1>8, <1>9, <1>10, <1>11, OutboxSplits DEF StatusTurns

-----------------------------------------------------------------------------
(* A message has one draft. *)

\* Steps that leave the calls, or all of a sweep, where they are.
LEMMA CallsStay ==
    ASSUME OTyped, OneCall, UNCHANGED <<mailbox, lost>>, filing' = filing,
           sweep'.rows \subseteq sweep.rows, DOMAIN queue \subseteq DOMAIN queue',
           \A k \in DOMAIN queue : queue'[k].filed = queue[k].filed
    PROVE  OneCall'
  <1>1. \A i \in DOMAIN filing : filing[i].key \in DOMAIN queue
    BY DEF OTyped
  <1>2. OneEach'
    BY DEF OneCall, OneEach
  <1>3. NotSwept'
    BY <1>1 DEF OneCall, NotSwept
  <1>4. \A k \in Keys : BeingFiled(k)' <=> BeingFiled(k)
    BY DEF BeingFiled
  <1>5. DraftKnown'
    BY <1>4 DEF OneCall, DraftKnown
  <1>. QED
    BY <1>2, <1>3, <1>5 DEF OneCall

LEMMA StepBegins ==
    ASSUME Undisturbed, OTyped, OneCall,
           NEW k \in DOMAIN queue, RecordSent(k) \/ Refile(k) \/ SweepNext(k)
    PROVE  OneCall'
  <1>1. \A i \in DOMAIN filing : filing[i].key \in DOMAIN queue
    BY DEF OTyped
  <1>2. \A i \in DOMAIN filing : filing[i].key # k
    <2>1. CASE RecordSent(k) \/ Refile(k)
      BY <2>1 DEF RecordSent, Refile, Alone, InFlight, Undisturbed
    <2>2. CASE SweepNext(k)
      BY <2>2 DEF SweepNext, OneCall, NotSwept
    <2>. QED
      BY <2>1, <2>2
  <1>3. k \notin sweep'.rows /\ sweep'.rows \subseteq sweep.rows
    <2>1. CASE SweepNext(k)
      BY <2>1, BeginsCall
    <2>2. CASE RecordSent(k) \/ Refile(k)
      <3>1. k \notin sweep.rows
        BY <2>2 DEF RecordSent, Refile, Alone, Undisturbed
      <3>. QED
        BY <3>1, <2>2, BeginsCall
    <2>. QED
      BY <2>1, <2>2
  <1>4. /\ UNCHANGED <<mailbox, lost>> /\ DOMAIN queue' = DOMAIN queue
        /\ \A j \in DOMAIN queue : queue'[j].filed = queue[j].filed
    BY BeginsCall
  <1>5. CASE filing' = filing
    BY <1>3, <1>4, <1>5, CallsStay
  <1>6. ASSUME NEW n \in Nat, queue[k].filed # "mailbox", DOMAIN filing = 1..n,
               DOMAIN filing' = 1..(n + 1), \A i \in 1..n : filing'[i] = filing[i],
               filing'[n + 1].key = k
        PROVE  OneCall'
    <2>1. OneEach'
      <3>1. \A i, j \in 1..n : filing'[i].key = filing'[j].key => i = j
        BY <1>6 DEF OneCall, OneEach
      <3>2. \A i \in 1..n : filing'[i].key # filing'[n + 1].key
        BY <1>2, <1>6
      <3>3. \A i \in 1..(n + 1) : i \in 1..n \/ i = n + 1
        BY <1>6
      <3>. QED
        BY <1>6, <3>1, <3>2, <3>3 DEF OneEach
    <2>2. NotSwept'
      <3>1. \A i \in 1..n : /\ filing'[i].key \notin sweep'.rows
                            /\ queue'[filing'[i].key].filed # "mailbox"
        BY <1>1, <1>3, <1>4, <1>6 DEF OneCall, NotSwept
      <3>2. \A i \in 1..(n + 1) : i \in 1..n \/ i = n + 1
        BY <1>6
      <3>3. /\ filing'[n + 1].key \notin sweep'.rows
            /\ queue'[filing'[n + 1].key].filed # "mailbox"
        BY <1>3, <1>4, <1>6
      <3>. QED
        BY <1>6, <3>1, <3>2, <3>3 DEF NotSwept
    <2>3. \A j \in Keys : BeingFiled(j) => BeingFiled(j)'
      <3>1. \A i \in DOMAIN filing : i \in DOMAIN filing' /\ filing'[i] = filing[i]
        BY <1>6
      <3>. QED
        BY <3>1 DEF BeingFiled
    <2>4. DraftKnown'
      BY <1>4, <2>3 DEF OneCall, DraftKnown
    <2>. QED
      BY <2>1, <2>2, <2>4 DEF OneCall
  <1>. QED
    BY <1>5, <1>6, BeginsCall

LEMMA StepReplied ==
    ASSUME OTyped, OneCall, NEW i \in DOMAIN filing, Deliver(i) \/ Refuse(i) \/ Lose(i)
    PROVE  OneCall'
  <1>1. filing[i].key \in DOMAIN queue /\ filing[i].key \in Keys /\ mailbox \in [Keys -> Nat]
    BY CallIs DEF OTyped
  <1>2. PICK r \in {"mailbox", "error"} :
            filing'[i].reply = r /\ (Deliver(i) <=> r = "mailbox")
    BY RepliedTyped
  <1>3. /\ UNCHANGED <<queue, sweep>> /\ DOMAIN filing' = DOMAIN filing
        /\ \A j \in DOMAIN filing : /\ filing'[j].key = filing[j].key
                                    /\ j # i => filing'[j].reply = filing[j].reply
        /\ \A k \in Keys : mailbox'[k] = IF Deliver(i) /\ k = filing[i].key
                                        THEN mailbox[k] + 1 ELSE mailbox[k]
    BY RepliedTyped
  <1>4. Deliver(i) \/ Refuse(i) => filing[i].reply = "none"
    BY DEF Deliver, Refuse
  <1>5. lost \subseteq lost' /\ (Lose(i) => filing[i].key \in lost')
    BY DEF Deliver, Refuse, Lose
  <1>6. OneEach' /\ NotSwept'
    BY <1>3 DEF OneCall, OneEach, NotSwept
  <1>7. ASSUME NEW k \in Keys, k \notin lost', mailbox'[k] # 0
        PROVE  /\ mailbox'[k] = 1 /\ k \in DOMAIN queue
               /\ queue[k].filed = "mailbox" \/ BeingFiled(k)'
    <2>1. CASE Deliver(i) /\ k = filing[i].key
      <3>1. queue[k].filed # "mailbox"
        BY <2>1 DEF OneCall, NotSwept
      <3>2. ~BeingFiled(k)
        BY <2>1, <1>4 DEF OneCall, OneEach, BeingFiled
      <3>3. mailbox[k] = 0
        BY <3>1, <3>2, <1>5, <1>7 DEF OneCall, DraftKnown
      <3>4. BeingFiled(k)'
        BY <2>1, <1>2, <1>3 DEF BeingFiled
      <3>. QED
        BY <2>1, <3>3, <3>4, <1>1, <1>3
    <2>2. CASE ~(Deliver(i) /\ k = filing[i].key)
      <3>1. mailbox'[k] = mailbox[k] /\ k \notin lost
        BY <2>2, <1>3, <1>5, <1>7
      <3>2. /\ mailbox[k] = 1 /\ k \in DOMAIN queue
            /\ queue[k].filed = "mailbox" \/ BeingFiled(k)
        BY <3>1, <1>7 DEF OneCall, DraftKnown
      <3>3. ASSUME NEW j \in DOMAIN filing, filing[j].key = k, filing[j].reply = "mailbox"
            PROVE  BeingFiled(k)'
        <4>1. j # i
          BY <3>3, <1>4, <1>5, <1>7
        <4>. QED
          BY <3>3, <4>1, <1>3 DEF BeingFiled
      <3>. QED
        BY <3>1, <3>2, <3>3 DEF BeingFiled
    <2>. QED
      BY <2>1, <2>2
  <1>. QED
    BY <1>3, <1>6, <1>7 DEF OneCall, DraftKnown

LEMMA StepAnswered ==
    ASSUME OTyped, OneCall, NEW i \in DOMAIN filing, Answer(i)
    PROVE  OneCall'
  <1>1. PICK k \in DOMAIN queue : k = filing[i].key
    BY DEF OTyped
  <1>2. /\ UNCHANGED <<sweep, mailbox, lost>> /\ DOMAIN queue' = DOMAIN queue
        /\ queue'[k].filed = filing[i].reply
        /\ \A j \in DOMAIN queue : j # k => queue'[j].filed = queue[j].filed
        /\ filing' = RemoveAt(filing, i)
    BY <1>1, Answered
  <1>3. /\ \A j \in DOMAIN filing' : /\ Moved(i, j) \in DOMAIN filing /\ Moved(i, j) # i
                                     /\ filing'[j] = filing[Moved(i, j)]
        /\ \A j \in DOMAIN filing : j # i => \E m \in DOMAIN filing' : Moved(i, m) = j
        /\ \A j, m \in DOMAIN filing' : Moved(i, j) = Moved(i, m) => j = m
    BY <1>2, Removed DEF OTyped
  <1>4. OneEach'
    <2>1. ASSUME NEW j \in DOMAIN filing', NEW m \in DOMAIN filing',
                 filing'[j].key = filing'[m].key
          PROVE  j = m
      <3>1. Moved(i, j) = Moved(i, m)
        BY <2>1, <1>3 DEF OneCall, OneEach
      <3>. QED
        BY <3>1, <1>3
    <2>. QED
      BY <2>1 DEF OneEach
  <1>5. \A j \in DOMAIN filing' : filing'[j].key # k /\ filing'[j].key \in DOMAIN queue
    <2>1. ASSUME NEW j \in DOMAIN filing'
          PROVE  filing'[j].key # k /\ filing'[j].key \in DOMAIN queue
      <3>1. filing[Moved(i, j)].key # filing[i].key
        BY <1>3 DEF OneCall, OneEach
      <3>. QED
        BY <3>1, <1>1, <1>3 DEF OTyped
    <2>. QED
      BY <2>1
  <1>6. NotSwept'
    BY <1>2, <1>3, <1>5 DEF OneCall, NotSwept
  <1>7. ASSUME NEW l \in Keys, l \notin lost, mailbox[l] # 0
        PROVE  /\ mailbox[l] = 1 /\ l \in DOMAIN queue
               /\ queue'[l].filed = "mailbox" \/ BeingFiled(l)'
    <2>1. /\ mailbox[l] = 1 /\ l \in DOMAIN queue
          /\ queue[l].filed = "mailbox" \/ BeingFiled(l)
      BY <1>7 DEF OneCall, DraftKnown
    <2>2. CASE queue[l].filed = "mailbox"
      <3>1. l # k
        BY <2>2, <1>1 DEF OneCall, NotSwept
      <3>. QED
        BY <2>1, <2>2, <3>1, <1>2
    <2>3. ASSUME NEW j \in DOMAIN filing, filing[j].key = l, filing[j].reply = "mailbox"
          PROVE  queue'[l].filed = "mailbox" \/ BeingFiled(l)'
      <3>1. CASE j = i
        BY <3>1, <2>3, <1>1, <1>2
      <3>2. CASE j # i
        <4>1. PICK m \in DOMAIN filing' : Moved(i, m) = j
          BY <1>3, <3>2
        <4>. QED
          BY <1>3, <2>3, <4>1 DEF BeingFiled
      <3>. QED
        BY <3>1, <3>2
    <2>. QED
      BY <2>1, <2>2, <2>3 DEF BeingFiled
  <1>8. DraftKnown'
    BY <1>2, <1>7 DEF DraftKnown
  <1>. QED
    BY <1>4, <1>6, <1>8 DEF OneCall

LEMMA StepOneCall ==
    ASSUME Undisturbed
    PROVE  OTyped /\ OneCall /\ [OutboxNext]_outboxVars => OneCall'
  <1> SUFFICES ASSUME OTyped, OneCall, [OutboxNext]_outboxVars PROVE OneCall'
    OBVIOUS
  <1>1. CASE Outside
    BY <1>1, OutsideTouches, CallsStay
  <1>2. CASE QueuePending
    <2>1. /\ DOMAIN queue \subseteq DOMAIN queue' /\ queue' \in Queued
          /\ \A k \in DOMAIN queue : queue'[k] = queue[k]
      BY <1>2, NowQueued
    <2>2. sweep' = SweepOf(queue') /\ UNCHANGED <<filing, mailbox, lost>>
          /\ (filing = <<>> \/ sweep.on)
      BY <1>2 DEF QueuePending, Undisturbed
    <2>3. CASE sweep.on
      <3>1. sweep' = sweep
        BY <2>2, <2>3 DEF SweepOf
      <3>. QED
        BY <2>1, <2>2, <3>1, CallsStay
    <2>4. CASE filing = <<>>
      <3>1. OneEach' /\ NotSwept'
        BY <2>2, <2>4 DEF OneEach, NotSwept
      <3>3. \A k \in Keys : ~BeingFiled(k)
        BY <2>4 DEF BeingFiled
      <3>2. DraftKnown'
        BY <2>1, <2>2, <3>3 DEF OneCall, DraftKnown
      <3>. QED
        BY <3>1, <3>2 DEF OneCall
    <2>. QED
      BY <2>2, <2>3, <2>4
  <1>3. CASE SweepEnd
    <2>1. UNCHANGED <<queue, filing, mailbox, lost>> /\ sweep.rows = {}
          /\ sweep' = [sweep EXCEPT !.on = FALSE]
      BY <1>3 DEF SweepEnd
    <2>2. sweep'.rows = {}
      BY <2>1 DEF OTyped
    <2>. QED
      BY <2>1, <2>2, CallsStay
  <1>4. CASE StartAgain
    <2>1. UNCHANGED <<queue, mailbox, lost>> /\ filing' = <<>> /\ filing = <<>>
      BY <1>4 DEF StartAgain, Undisturbed
    <2>2. OneEach' /\ NotSwept'
      BY <2>1 DEF OneEach, NotSwept
    <2>4. \A k \in Keys : ~BeingFiled(k)
      BY <2>1 DEF BeingFiled
    <2>3. DraftKnown'
      BY <2>1, <2>4 DEF OneCall, DraftKnown
    <2>. QED
      BY <2>2, <2>3 DEF OneCall
  <1>5. ASSUME NEW k \in DOMAIN queue, Approve(k) \/ Cancel(k) PROVE OneCall'
    <2>1. UNCHANGED <<filing, sweep, mailbox, lost>>
      BY <1>5 DEF Approve, Cancel
    <2>2. /\ DOMAIN queue' = DOMAIN queue
          /\ \A j \in DOMAIN queue : queue'[j].filed = queue[j].filed
      BY <1>5, TurnsRow DEF StatusTurns
    <2>. QED
      BY <2>1, <2>2, CallsStay
  <1>6. CASE UNCHANGED outboxVars
    BY <1>6, CallsStay DEF outboxVars
  <1>. QED
    BY <1>1, <1>2, <1>3, <1>4, <1>5, <1>6, StepBegins, StepReplied, StepAnswered, OutboxSplits
    DEF StatusTurns

\* A message that was sent is about the invoice it was queued for, as long as none is
\* withdrawn while its message waits (invoiceUndoBlock of erp-engine.js asks about the
\* sent ones alone).
THEOREM SentKept ==
    ASSUME "undone" \notin Mishaps
    PROVE  OutboxSpec => []SentStillStands
  <1>1. OTyped /\ Standing => SentStillStands
    BY DEF Standing, SentStillStands
  <1>. QED
    BY <1>1, OutboxStarts, StepOutbox, StepStanding, PTL DEF OutboxSpec

\* What was declined before its draft was filed is not filed after, as long as nobody
\* declines a message that is being filed (fileDraftForComm of erp.html).
THEOREM DeclinedKept ==
    ASSUME "declined" \notin Mishaps
    PROVE  OutboxSpec => []DeclinedStaysOut
  <1>1. OTyped /\ Wanted => DeclinedStaysOut
    BY DEF Wanted, DeclinedStaysOut
  <1>. QED
    BY <1>1, OutboxStarts, StepOutbox, StepWanted, PTL DEF OutboxSpec

\* A message has one draft in the mailbox at most unless an answer about it was lost, as
\* long as no two calls file it and no page is reloaded meanwhile (fileDraftForComm and
\* sweepMailboxDrafts of erp.html).
THEOREM DraftsKept ==
    ASSUME Undisturbed
    PROVE  OutboxSpec => []FiledOnce
  <1>1. ASSUME OTyped, OneCall, NEW k \in Keys, k \notin lost PROVE mailbox[k] <= 1
    <2>1. PICK n \in Nat : n = mailbox[k]
      BY <1>1 DEF OTyped
    <2>2. mailbox[k] # 0 => mailbox[k] = 1
      BY <1>1 DEF OneCall, DraftKnown
    <2>. QED
      BY <2>1, <2>2
  <1>2. OTyped /\ OneCall => FiledOnce
    BY <1>1 DEF FiledOnce
  <1>. QED
    BY <1>2, OutboxStarts, StepOutbox, StepOneCall, PTL DEF OutboxSpec

\* The three, with the types, where none of this happens.
THEOREM OutboxKept == ASSUME Mishaps = {} PROVE OutboxSpec => []OutboxHolds
  <1>1. OutboxSpec => []OutboxTypeOK
    BY OutboxStarts, StepOutbox, OutboxTyped, PTL DEF OutboxSpec
  <1>2. OutboxSpec => [](FiledOnce /\ DeclinedStaysOut /\ SentStillStands)
    <2>1. "undone" \notin Mishaps /\ "declined" \notin Mishaps /\ Undisturbed
      BY DEF Undisturbed
    <2>2. OutboxSpec => []SentStillStands
      BY <2>1, SentKept
    <2>3. OutboxSpec => []DeclinedStaysOut
      BY <2>1, DeclinedKept
    <2>4. OutboxSpec => []FiledOnce
      BY <2>1, DraftsKept
    <2>. QED
      BY <2>2, <2>3, <2>4, PTL
  <1>3. OutboxTypeOK /\ FiledOnce /\ DeclinedStaysOut /\ SentStillStands => OutboxHolds
    BY DEF OutboxHolds
  <1>. QED
    BY <1>1, <1>2, <1>3, PTL

-----------------------------------------------------------------------------
(* Agenda: alerts and tasks. *)

AgendaSpec == AgendaInit /\ [][AgendaNext]_agendaVars

\* Somebody put this alert away, for some days or for good.
WasPutAway(a) == overrides[a].resolved \/ overrides[a].until # 0

\* All that an alert may come to rest on where nothing happens again.
AllGrounds(a) ==
    CASE a[1] = "AR-OVERDUE" -> {0}
      [] a[1] = "WORKER-DOC-EXPIRED" ->
             {<<k, onFile[a[2]][k]>> : k \in {j \in Kinds : onFile[a[2]][j] # NoPaper}}
      [] a[1] = "AP-UNALLOCATED" -> arrived
      [] OTHER -> {a[2]}

\* Each worker has one paper at most, one bill arrives and no collection is undone.
OnceEach ==
    /\ \A i \in Receivable : undone[i] = 0
    /\ \A w \in Hands : \A j, k \in Kinds :
           onFile[w][j] # NoPaper /\ onFile[w][k] # NoPaper => j = k
    /\ \A m, n \in arrived : m = n
\* What was put away rests on something, and on nothing else later.
SeenWhole ==
    \A a \in Alert : WasPutAway(a) => AllGrounds(a) # {} /\ AllGrounds(a) \subseteq grounds[a]
\* A task was marked beside the alert it was made of.
Tasked == \A m \in DOMAIN tasks : overrides[tasks[m]].task

AgInv == AgendaTypeOK /\ OneTaskEach /\ Tasked
SeenInv == AgInv /\ OnceEach /\ SeenWhole

-----------------------------------------------------------------------------
LEMMA CodesApart ==
    ASSUME NEW a \in Alert
    PROVE  /\ a = <<a[1], a[2]>> /\ a[1] \in AlertCodes
           /\ a[1] = "AR-OVERDUE" => a[2] \in Receivable
           /\ a[1] = "WORKER-DOC-EXPIRED" => a[2] \in Hands
  BY DEF Alert, AlertCodes

LEMMA ListedIsAlert == Listed \subseteq Alerts /\ (AgendaTypeOK => Alerts \subseteq Alert)
  <1>1. Listed \subseteq Alerts
    BY DEF Listed
  <1>2. ASSUME AgendaTypeOK, NEW a \in Alerts PROVE a \in Alert
    <2>1. CASE a \in {"AR-OVERDUE"} \X OverdueInvoices
      BY <2>1 DEF OverdueInvoices, Alert
    <2>2. CASE a \in {"WORKER-DOC-EXPIRED"} \X {w \in Hands : ExpiredPapers(w) # {}}
      BY <2>2 DEF Alert
    <2>3. CASE a \in {<<"AP-UNALLOCATED", "payables">> : b \in arrived \ placedOn}
      BY <2>3 DEF Alert
    <2>4. CASE a \in {"GES-PACKAGE-DUE"} \X PackagesDue
      <3>1. QuarterOf(today) \in QuartersSeen
        BY <1>2 DEF AgendaTypeOK, QuartersSeen
      <3>. QED
        BY <2>4, <3>1 DEF PackagesDue, Alert
    <2>. QED
      BY <1>2, <2>1, <2>2, <2>3, <2>4 DEF Alerts
  <1>. QED
    BY <1>1, <1>2

\* What an alert that is raised rests on is part of the whole, and not empty.
LEMMA GroundsInWhole ==
    ASSUME AgendaTypeOK, OnceEach, NEW a \in Alerts
    PROVE  /\ a \in Alert /\ GroundsOf(a) \subseteq AllGrounds(a) /\ GroundsOf(a) # {}
  <1>1. a \in Alert
    BY ListedIsAlert
  <1>2. CASE a \in {"AR-OVERDUE"} \X OverdueInvoices
    <2>1. a[1] = "AR-OVERDUE" /\ a[2] \in Receivable
      BY <1>2 DEF OverdueInvoices
    <2>. QED
      BY <1>1, <2>1 DEF GroundsOf, AllGrounds, OnceEach
  <1>3. CASE a \in {"WORKER-DOC-EXPIRED"} \X {w \in Hands : ExpiredPapers(w) # {}}
    <2>1. a[1] = "WORKER-DOC-EXPIRED" /\ a[2] \in Hands /\ ExpiredPapers(a[2]) # {}
      BY <1>3
    <2>2. GroundsOf(a) = {<<k, onFile[a[2]][k]>> : k \in ExpiredPapers(a[2])}
      BY <2>1 DEF GroundsOf
    <2>3. AllGrounds(a) = {<<k, onFile[a[2]][k]>> : k \in {j \in Kinds : onFile[a[2]][j] # NoPaper}}
      BY <2>1 DEF AllGrounds
    <2>4. ExpiredPapers(a[2]) \subseteq {j \in Kinds : onFile[a[2]][j] # NoPaper}
      BY DEF ExpiredPapers
    <2>. QED
      BY ZenonT(40), <1>1, <2>1, <2>2, <2>3, <2>4
  <1>4. CASE a \in {<<"AP-UNALLOCATED", "payables">> : b \in arrived \ placedOn}
    <2>1. a[1] = "AP-UNALLOCATED" /\ arrived \ placedOn # {}
      BY <1>4
    <2>. QED
      BY <1>1, <2>1 DEF GroundsOf, AllGrounds
  <1>5. CASE a \in {"GES-PACKAGE-DUE"} \X PackagesDue
    <2>1. a[1] = "GES-PACKAGE-DUE"
      BY <1>5
    <2>. QED
      BY <1>1, <2>1 DEF GroundsOf, AllGrounds
  <1>. QED
    BY <1>2, <1>3, <1>4, <1>5 DEF Alerts

\* Where nothing happens again, an alert that is raised rests on all it may rest on.
LEMMA GroundsAreWhole ==
    ASSUME AgendaTypeOK, OnceEach, NEW a \in Alerts
    PROVE  AllGrounds(a) \subseteq GroundsOf(a)
  <1>1. a \in Alert /\ GroundsOf(a) # {}
    BY GroundsInWhole
  <1>2. CASE a[1] = "AR-OVERDUE"
    BY <1>1, <1>2, CodesApart DEF GroundsOf, AllGrounds, OnceEach
  <1>3. CASE a[1] = "WORKER-DOC-EXPIRED"
    <2>1. GroundsOf(a) = {<<k, onFile[a[2]][k]>> : k \in ExpiredPapers(a[2])}
      BY <1>3 DEF GroundsOf
    <2>2. AllGrounds(a) = {<<k, onFile[a[2]][k]>> : k \in {j \in Kinds : onFile[a[2]][j] # NoPaper}}
      BY <1>3 DEF AllGrounds
    <2>3. PICK k \in Kinds : k \in ExpiredPapers(a[2]) /\ onFile[a[2]][k] # NoPaper
      BY <1>1, <2>1 DEF ExpiredPapers
    <2>4. \A j \in Kinds : onFile[a[2]][j] # NoPaper => j = k
      BY <1>1, <1>3, <2>3, CodesApart DEF OnceEach
    <2>. QED
      BY <2>1, <2>2, <2>3, <2>4
  <1>4. CASE a[1] = "AP-UNALLOCATED"
    <2>1. GroundsOf(a) = arrived \ placedOn /\ AllGrounds(a) = arrived
      BY <1>4 DEF GroundsOf, AllGrounds
    <2>. QED
      BY <1>1, <2>1 DEF OnceEach
  <1>5. CASE a[1] \notin {"AR-OVERDUE", "WORKER-DOC-EXPIRED", "AP-UNALLOCATED"}
    BY <1>5 DEF GroundsOf, AllGrounds
  <1>. QED
    BY <1>2, <1>3, <1>4, <1>5

LEMMA HiddenWasSeenHolds == SeenInv => HiddenWasSeen
  <1> SUFFICES ASSUME SeenInv, NEW a \in Alerts \ Listed
               PROVE  GroundsOf(a) \subseteq grounds[a]
    BY DEF HiddenWasSeen
  <1>1. AgendaTypeOK /\ OnceEach /\ a \in Alerts
    BY DEF SeenInv, AgInv
  <1>2. a \in Alert /\ GroundsOf(a) \subseteq AllGrounds(a)
    BY <1>1, GroundsInWhole
  <1>3. WasPutAway(a)
    <2>1. overrides[a].resolved \/ ~(overrides[a].until <= today)
      BY <1>1 DEF Listed, OverrideOf
    <2>2. today \in Nat
      BY <1>1, DaysAssumption DEF AgendaTypeOK, Days
    <2>. QED
      BY <2>1, <2>2 DEF WasPutAway
  <1>. QED
    BY <1>2, <1>3 DEF SeenInv, SeenWhole

-----------------------------------------------------------------------------
LEMMA AgendaStarts == AgendaInit => SeenInv
  <1> SUFFICES ASSUME AgendaInit PROVE SeenInv
    OBVIOUS
  <1>1. AgendaTypeOK
    <2>1. (CHOOSE n \in Cushions : TRUE) \in Cushions
      BY NotesAssumption
    <2>2. PICK c \in Cushions : c = CHOOSE n \in Cushions : TRUE
      BY <2>1
    <2>3. [enabled |-> TRUE, cushion |-> c] \in [enabled : BOOLEAN, cushion : Cushions]
      OBVIOUS
    <2>4. alertRules \in [AlertCodes -> [enabled : BOOLEAN, cushion : Cushions]]
      BY <2>2, <2>3 DEF AgendaInit
    <2>5. [until |-> 0, resolved |-> FALSE, task |-> FALSE]
              \in [until : 0..(LastDay + 1), resolved : BOOLEAN, task : BOOLEAN]
      BY DaysAssumption
    <2>6. overrides \in [Alert -> [until : 0..(LastDay + 1), resolved : BOOLEAN,
                                   task : BOOLEAN]]
      BY <2>5 DEF AgendaInit
    <2>7. today \in Days /\ notes \in 0..MaxNotes
      BY DaysAssumption, NotesAssumption DEF AgendaInit, Days
    <2>. QED
      BY <2>4, <2>6, <2>7 DEF AgendaInit, AgendaTypeOK
  <1>2. \A a \in Alert : ~WasPutAway(a)
    <2>1. ASSUME NEW a \in Alert PROVE ~WasPutAway(a)
      <3>1. PICK no : no = FALSE
        OBVIOUS
      <3>2. overrides = [b \in Alert |-> [until |-> 0, resolved |-> no, task |-> no]]
        BY <3>1 DEF AgendaInit
      <3>3. overrides[a].until = 0 /\ overrides[a].resolved = no
        BY <3>2
      <3>. QED
        BY <3>1, <3>3 DEF WasPutAway
    <2>. QED
      BY <2>1
  <1>3. OneTaskEach /\ Tasked
    BY DEF AgendaInit, OneTaskEach, Tasked
  <1>4. OnceEach
    BY DEF AgendaInit, OnceEach
  <1>. QED
    BY <1>1, <1>2, <1>3, <1>4 DEF SeenInv, AgInv, SeenWhole

\* The facts of the register change and what people did about them stays.
Facts ==
    \/ NextDay
    \/ \E i \in Receivable : Collect(i) \/ Uncollect(i)
    \/ \E w \in Hands, k \in Kinds, day \in Days : AddWorkerDoc(w, k, day)
    \/ \E b \in Arriving : BillArrives(b) \/ AllocateBill(b)
    \/ \E q \in QuartersSeen : SendQuarter(q)
Puts(a) == ResolveAlert(a) \/ \E day \in 1..(LastDay + 1) : SnoozeAlert(a, day)

LEMMA AgendaSplits ==
    ASSUME AgendaNext
    PROVE  \/ Facts
           \/ \E code \in AlertCodes, enabled \in BOOLEAN, cushion \in Cushions :
                  UpdateAlertRule(code, enabled, cushion)
           \/ \E a \in Alert : Puts(a) \/ ConvertAlertToTask(a)
  BY DEF AgendaNext, Facts, Puts

LEMMA FactsTyped ==
    ASSUME AgendaTypeOK, Facts
    PROVE  AgendaTypeOK' /\ UNCHANGED <<overrides, tasks, grounds>>
  <1> USE DaysAssumption, NotesAssumption
  <1>1. notes' \in 0..MaxNotes
    <2>1. Noted \/ UNCHANGED notes
      BY DEF Facts, NextDay, Collect, Uncollect, AddWorkerDoc, BillArrives, AllocateBill,
             SendQuarter
    <2>. QED
      BY <2>1 DEF Noted, AgendaTypeOK
  <1>2. UNCHANGED <<overrides, tasks, grounds, alertRules>>
    BY DEF Facts, NextDay, Collect, Uncollect, AddWorkerDoc, BillArrives, AllocateBill,
           SendQuarter, deskVars
  <1>3. CASE NextDay
    BY <1>1, <1>2, <1>3 DEF NextDay, AgendaTypeOK, Days, factVars
  <1>4. ASSUME NEW i \in Receivable, Collect(i) \/ Uncollect(i) PROVE AgendaTypeOK'
    <2>1. undone' \in [Receivable -> Nat]
      <3>1. CASE Collect(i)
        BY <3>1 DEF Collect, AgendaTypeOK
      <3>2. CASE Uncollect(i)
        <4>1. undone \in [Receivable -> Nat] /\ undone' = [undone EXCEPT ![i] = undone[i] + 1]
          BY <3>2 DEF Uncollect, AgendaTypeOK
        <4>2. undone[i] + 1 \in Nat
          BY <4>1
        <4>. QED
          BY <4>1, <4>2
      <3>. QED
        BY <1>4, <3>1, <3>2
    <2>2. /\ collected' \subseteq Receivable
          /\ UNCHANGED <<today, onFile, arrived, placedOn, sentOff>>
      BY <1>4 DEF Collect, Uncollect, AgendaTypeOK
    <2>. QED
      BY <1>1, <1>2, <2>1, <2>2 DEF AgendaTypeOK
  <1>5. ASSUME NEW w \in Hands, NEW k \in Kinds, NEW day \in Days, AddWorkerDoc(w, k, day)
        PROVE  AgendaTypeOK'
    <2>1. onFile' \in [Hands -> [Kinds -> Days \cup {NoPaper}]]
      BY <1>5 DEF AddWorkerDoc, AgendaTypeOK
    <2>. QED
      BY <1>1, <1>2, <1>5, <2>1 DEF AddWorkerDoc, AgendaTypeOK
  <1>6. ASSUME NEW b \in Arriving, BillArrives(b) \/ AllocateBill(b) PROVE AgendaTypeOK'
    BY <1>1, <1>2, <1>6 DEF BillArrives, AllocateBill, AgendaTypeOK
  <1>7. ASSUME NEW q \in QuartersSeen, SendQuarter(q) PROVE AgendaTypeOK'
    BY <1>1, <1>2, <1>7 DEF SendQuarter, AgendaTypeOK
  <1>. QED
    BY <1>2, <1>3, <1>4, <1>5, <1>6, <1>7 DEF Facts

\* What a press does to the alert it is about.
LEMMA PutsAway ==
    ASSUME AgendaTypeOK, NEW a \in Alert, Puts(a)
    PROVE  /\ a \in Alerts /\ UNCHANGED <<factVars, today, alertRules, tasks>>
           /\ notes' \in 0..MaxNotes
           /\ overrides' \in [Alert -> [until : 0..(LastDay + 1), resolved : BOOLEAN,
                                       task : BOOLEAN]]
           /\ \A b \in Alert : b # a => overrides'[b] = overrides[b]
           /\ overrides'[a].task = overrides[a].task
           /\ DOMAIN grounds' = Alert
           /\ grounds'[a] = grounds[a] \cup GroundsOf(a)
           /\ \A b \in Alert : b # a => grounds'[b] = grounds[b]
  <1> USE DaysAssumption, NotesAssumption
  <1>1. overrides[a] \in [until : 0..(LastDay + 1), resolved : BOOLEAN, task : BOOLEAN]
        /\ DOMAIN grounds = Alert
        /\ overrides \in [Alert -> [until : 0..(LastDay + 1), resolved : BOOLEAN,
                                    task : BOOLEAN]]
    BY DEF AgendaTypeOK
  <1>2. PICK o : /\ PutAway(a, o) /\ UNCHANGED tasks
                 /\ o \in [until : 0..(LastDay + 1), resolved : BOOLEAN, task : BOOLEAN]
                 /\ o.task = overrides[a].task
    <2>1. CASE ResolveAlert(a)
      <3>1. PICK yes : yes = TRUE
        OBVIOUS
      <3>2. PICK o : o = [overrides[a] EXCEPT !.resolved = yes]
        OBVIOUS
      <3>3. o \in [until : 0..(LastDay + 1), resolved : BOOLEAN, task : BOOLEAN]
            /\ o.task = overrides[a].task
        BY <1>1, <3>1, <3>2
      <3>. QED
        BY <2>1, <3>1, <3>2, <3>3 DEF ResolveAlert
    <2>2. ASSUME NEW day \in 1..(LastDay + 1), SnoozeAlert(a, day)
          PROVE  \E o : /\ PutAway(a, o) /\ UNCHANGED tasks
                        /\ o \in [until : 0..(LastDay + 1), resolved : BOOLEAN, task : BOOLEAN]
                        /\ o.task = overrides[a].task
      <3>1. PICK o : o = [overrides[a] EXCEPT !.until = day]
        OBVIOUS
      <3>2. o \in [until : 0..(LastDay + 1), resolved : BOOLEAN, task : BOOLEAN]
            /\ o.task = overrides[a].task
        BY <1>1, <2>2, <3>1
      <3>. QED
        BY <2>2, <3>1, <3>2 DEF SnoozeAlert
    <2>. QED
      BY <2>1, <2>2 DEF Puts
  <1>3. a \in Alerts /\ notes' \in 0..MaxNotes
        /\ UNCHANGED <<factVars, today, alertRules, tasks>>
    BY <1>2, ListedIsAlert DEF PutAway, Noted, AgendaTypeOK
  <1>4. overrides' = [overrides EXCEPT ![a] = o]
        /\ grounds' = [grounds EXCEPT ![a] = @ \cup GroundsOf(a)]
    BY <1>2 DEF PutAway
  <1>5. overrides'[a].task = overrides[a].task
    BY <1>1, <1>2, <1>4
  <1>. QED
    BY <1>1, <1>2, <1>3, <1>4, <1>5

LEMMA PutsKeeps ==
    ASSUME AgInv, NEW a \in Alert, Puts(a)
    PROVE  AgInv'
  <1>1. AgendaTypeOK'
    BY PutsAway DEF AgInv, AgendaTypeOK, factVars
  <1>2. UNCHANGED tasks /\ tasks \in Seq(Alert)
    BY PutsAway DEF AgInv, AgendaTypeOK
  <1>3. \A b \in Alert : overrides'[b].task = overrides[b].task
    BY PutsAway DEF AgInv
  <1>4. Tasked'
    <2>1. \A m \in DOMAIN tasks : tasks[m] \in Alert
      BY <1>2
    <2>. QED
      BY <1>2, <1>3, <2>1 DEF AgInv, Tasked
  <1>. QED
    BY <1>1, <1>2, <1>4 DEF AgInv, OneTaskEach

LEMMA Converts ==
    ASSUME AgInv, NEW a \in Alert, ConvertAlertToTask(a)
    PROVE  /\ AgInv' /\ UNCHANGED <<factVars, today, alertRules, grounds>>
           /\ \A b \in Alert : WasPutAway(b)' <=> WasPutAway(b)
  <1>1. /\ overrides \in [Alert -> [until : 0..(LastDay + 1), resolved : BOOLEAN,
                                    task : BOOLEAN]]
        /\ tasks \in Seq(Alert) /\ OneTaskEach /\ Tasked /\ ~overrides[a].task
    BY DEF AgInv, AgendaTypeOK, ConvertAlertToTask
  <1>2. PICK yes : yes = TRUE
    OBVIOUS
  <1>3. PICK o : o = [overrides[a] EXCEPT !.task = yes]
    OBVIOUS
  <1>4. o \in [until : 0..(LastDay + 1), resolved : BOOLEAN, task : BOOLEAN] /\ o.task = yes
        /\ o.until = overrides[a].until /\ o.resolved = overrides[a].resolved
    BY <1>1, <1>2, <1>3
  <1>5. overrides' = [overrides EXCEPT ![a] = o] /\ tasks' = Append(tasks, a)
        /\ UNCHANGED <<factVars, today, alertRules, grounds>>
    BY <1>2, <1>3 DEF ConvertAlertToTask
  <1>6. /\ overrides' \in [Alert -> [until : 0..(LastDay + 1), resolved : BOOLEAN,
                                     task : BOOLEAN]]
        /\ overrides'[a] = o /\ \A b \in Alert : b # a => overrides'[b] = overrides[b]
    BY <1>1, <1>4, <1>5
  <1>7. notes' \in 0..MaxNotes
    BY NotesAssumption DEF ConvertAlertToTask, Noted, AgInv, AgendaTypeOK
  <1>8. AgendaTypeOK'
    BY <1>1, <1>5, <1>6, <1>7 DEF AgInv, AgendaTypeOK, factVars
  <1>9. \A m \in DOMAIN tasks : tasks[m] # a /\ tasks[m] \in Alert
    BY <1>1 DEF Tasked
  <1>10. PICK n \in Nat : n = Len(tasks) /\ DOMAIN tasks = 1..n
    BY <1>1
  <1>11. DOMAIN tasks' = 1..(n + 1) /\ tasks'[n + 1] = a
         /\ \A m \in 1..n : tasks'[m] = tasks[m]
    BY <1>1, <1>5, <1>10
  <1>12. OneTaskEach'
    BY <1>1, <1>9, <1>10, <1>11 DEF OneTaskEach
  <1>13. \A m \in DOMAIN tasks' : overrides'[tasks'[m]].task
    <2>1. overrides'[a].task
      BY <1>2, <1>4, <1>6
    <2>2. \A m \in 1..n : overrides'[tasks[m]].task
      BY <1>1, <1>6, <1>9, <1>10 DEF Tasked
    <2>3. ASSUME NEW m \in 1..(n + 1) PROVE overrides'[tasks'[m]].task
      <3>1. CASE m = n + 1
        BY <2>1, <3>1, <1>11
      <3>2. CASE m # n + 1
        <4>1. m \in 1..n
          BY <3>2, <1>10
        <4>. QED
          BY <4>1, <2>2, <1>11
      <3>. QED
        BY <3>1, <3>2
    <2>. QED
      BY <2>3, <1>11
  <1>14. \A b \in Alert : WasPutAway(b)' <=> WasPutAway(b)
    BY <1>4, <1>6 DEF WasPutAway
  <1>. QED
    BY <1>5, <1>8, <1>12, <1>13, <1>14 DEF AgInv, Tasked

LEMMA RuleTyped ==
    ASSUME AgendaTypeOK, NEW code \in AlertCodes, NEW enabled \in BOOLEAN,
           NEW cushion \in Cushions, UpdateAlertRule(code, enabled, cushion)
    PROVE  AgendaTypeOK' /\ UNCHANGED <<factVars, today, overrides, tasks, grounds>>
  <1>1. notes' \in 0..MaxNotes
    BY NotesAssumption DEF UpdateAlertRule, Noted, AgendaTypeOK
  <1>2. PICK rule : rule = [enabled |-> enabled, cushion |-> cushion]
    OBVIOUS
  <1>3. rule \in [enabled : BOOLEAN, cushion : Cushions]
    BY <1>2
  <1>4. alertRules' = [alertRules EXCEPT ![code] = rule]
        /\ UNCHANGED <<factVars, today, overrides, tasks, grounds>>
    BY <1>2 DEF UpdateAlertRule
  <1>5. alertRules' \in [AlertCodes -> [enabled : BOOLEAN, cushion : Cushions]]
    BY <1>3, <1>4 DEF AgendaTypeOK
  <1>. QED
    BY <1>1, <1>4, <1>5 DEF AgendaTypeOK, factVars

LEMMA StepTasks == AgInv /\ [AgendaNext]_agendaVars => AgInv'
  <1> SUFFICES ASSUME AgInv, [AgendaNext]_agendaVars PROVE AgInv'
    OBVIOUS
  <1>1. CASE Facts
    BY <1>1, FactsTyped DEF AgInv, OneTaskEach, Tasked
  <1>2. ASSUME NEW code \in AlertCodes, NEW enabled \in BOOLEAN, NEW cushion \in Cushions,
               UpdateAlertRule(code, enabled, cushion)
        PROVE  AgInv'
    BY <1>2, RuleTyped DEF AgInv, OneTaskEach, Tasked
  <1>3. ASSUME NEW a \in Alert, Puts(a) \/ ConvertAlertToTask(a) PROVE AgInv'
    BY <1>3, PutsKeeps, Converts
  <1>4. CASE UNCHANGED agendaVars
    BY <1>4 DEF agendaVars, AgInv, AgendaTypeOK, OneTaskEach, Tasked
  <1>. QED
    BY <1>1, <1>2, <1>3, <1>4, AgendaSplits

-----------------------------------------------------------------------------
(* Where nothing happens again. *)

LEMMA WholeStays ==
    ASSUME OnceEach, OnceEach', NEW a \in Alert,
           onFile' = onFile \/ (a[1] = "WORKER-DOC-EXPIRED" => onFile'[a[2]] = onFile[a[2]]),
           arrived' = arrived \/ a[1] # "AP-UNALLOCATED"
    PROVE  AllGrounds(a)' = AllGrounds(a)
  <1>1. CASE a[1] = "WORKER-DOC-EXPIRED"
    BY <1>1 DEF AllGrounds
  <1>2. CASE a[1] = "AP-UNALLOCATED"
    BY <1>2 DEF AllGrounds
  <1>3. CASE a[1] \notin {"WORKER-DOC-EXPIRED", "AP-UNALLOCATED"}
    BY <1>3 DEF AllGrounds
  <1>. QED
    BY <1>1, <1>2, <1>3

LEMMA StepFacts ==
    ASSUME Lapses = {}, SeenInv, Facts
    PROVE  OnceEach' /\ SeenWhole'
  <1>1. AgendaTypeOK /\ OnceEach /\ SeenWhole /\ AgendaTypeOK'
        /\ UNCHANGED <<overrides, tasks, grounds>>
    BY FactsTyped DEF SeenInv, AgInv
  <1>2. \A a \in Alert : WasPutAway(a)' <=> WasPutAway(a)
    BY <1>1 DEF WasPutAway
  <1>3. ASSUME UNCHANGED <<onFile, arrived, undone>> PROVE OnceEach' /\ SeenWhole'
    <2>1. OnceEach'
      BY <1>1, <1>3 DEF OnceEach
    <2>2. \A a \in Alert : AllGrounds(a)' = AllGrounds(a)
      BY <1>1, <1>3, <2>1, WholeStays
    <2>. QED
      BY <1>1, <1>2, <2>1, <2>2 DEF SeenWhole
  <1>4. CASE NextDay
    BY <1>3, <1>4 DEF NextDay, factVars
  <1>5. ASSUME NEW i \in Receivable, Collect(i) \/ Uncollect(i)
        PROVE  OnceEach' /\ SeenWhole'
    BY <1>3, <1>5 DEF Collect, Uncollect
  <1>6. ASSUME NEW b \in Arriving, AllocateBill(b) PROVE OnceEach' /\ SeenWhole'
    BY <1>3, <1>6 DEF AllocateBill
  <1>7. ASSUME NEW q \in QuartersSeen, SendQuarter(q) PROVE OnceEach' /\ SeenWhole'
    BY <1>3, <1>7 DEF SendQuarter
  <1>8. ASSUME NEW b \in Arriving, BillArrives(b) PROVE OnceEach' /\ SeenWhole'
    <2>1. arrived = {} /\ arrived' = {b} /\ UNCHANGED <<onFile, undone>>
      BY <1>8 DEF BillArrives
    <2>2. OnceEach'
      BY <1>1, <2>1 DEF OnceEach
    <2>3. \A a \in Alert : a[1] # "AP-UNALLOCATED" => AllGrounds(a)' = AllGrounds(a)
      BY <1>1, <2>1, <2>2, WholeStays
    <2>4. \A a \in Alert : a[1] = "AP-UNALLOCATED" => ~WasPutAway(a)
      BY <1>1, <2>1 DEF SeenWhole, AllGrounds
    <2>. QED
      BY <1>1, <1>2, <2>2, <2>3, <2>4 DEF SeenWhole
  <1>9. ASSUME NEW w \in Hands, NEW k \in Kinds, NEW day \in Days, AddWorkerDoc(w, k, day)
        PROVE  OnceEach' /\ SeenWhole'
    <2>1. /\ \A j \in Kinds : onFile[w][j] = NoPaper
          /\ onFile' = [onFile EXCEPT ![w][k] = day] /\ UNCHANGED <<arrived, undone>>
      BY <1>9 DEF AddWorkerDoc
    <2>2. PICK papers : papers = [onFile[w] EXCEPT ![k] = day]
      OBVIOUS
    <2>3. onFile' = [onFile EXCEPT ![w] = papers]
      BY <2>1, <2>2
    <2>4. \A v \in Hands : v # w => onFile'[v] = onFile[v]
      BY <1>1, <2>3 DEF AgendaTypeOK
    <2>5. onFile'[w] = papers /\ \A j \in Kinds : j # k => papers[j] = NoPaper
      BY <1>1, <2>1, <2>2, <2>3 DEF AgendaTypeOK
    <2>6. OnceEach'
      BY <1>1, <2>1, <2>4, <2>5 DEF OnceEach
    <2>7. \A a \in Alert : a # <<"WORKER-DOC-EXPIRED", w>> => AllGrounds(a)' = AllGrounds(a)
      <3> SUFFICES ASSUME NEW a \in Alert, a # <<"WORKER-DOC-EXPIRED", w>>
                   PROVE  AllGrounds(a)' = AllGrounds(a)
        OBVIOUS
      <3>1. a[1] = "WORKER-DOC-EXPIRED" => a[2] \in Hands /\ a[2] # w
        BY CodesApart
      <3>. QED
        BY <1>1, <2>1, <2>4, <2>6, <3>1, WholeStays
    <2>8. ~WasPutAway(<<"WORKER-DOC-EXPIRED", w>>)
      <3>1. <<"WORKER-DOC-EXPIRED", w>> \in Alert
        BY DEF Alert
      <3>2. AllGrounds(<<"WORKER-DOC-EXPIRED", w>>) = {}
        BY <2>1 DEF AllGrounds
      <3>. QED
        BY <1>1, <3>1, <3>2 DEF SeenWhole
    <2>. QED
      BY <1>1, <1>2, <2>6, <2>7, <2>8 DEF SeenWhole
  <1>. QED
    BY <1>4, <1>5, <1>6, <1>7, <1>8, <1>9 DEF Facts

LEMMA StepSeen ==
    ASSUME Lapses = {}
    PROVE  SeenInv /\ [AgendaNext]_agendaVars => SeenInv'
  <1> SUFFICES ASSUME SeenInv, [AgendaNext]_agendaVars PROVE OnceEach' /\ SeenWhole'
    BY StepTasks DEF SeenInv
  <1>1. AgInv /\ AgendaTypeOK /\ OnceEach /\ SeenWhole
    BY DEF SeenInv, AgInv
  <1>2. ASSUME UNCHANGED <<onFile, arrived, undone>>
        PROVE  OnceEach' /\ \A a \in Alert : AllGrounds(a)' = AllGrounds(a)
    <2>1. OnceEach'
      BY <1>1, <1>2 DEF OnceEach
    <2>. QED
      BY <1>1, <1>2, <2>1, WholeStays
  <1>3. CASE Facts
    BY <1>3, StepFacts
  <1>4. ASSUME NEW code \in AlertCodes, NEW enabled \in BOOLEAN, NEW cushion \in Cushions,
               UpdateAlertRule(code, enabled, cushion)
        PROVE  OnceEach' /\ SeenWhole'
    <2>1. UNCHANGED <<factVars, overrides, grounds>>
      BY <1>1, <1>4, RuleTyped
    <2>. QED
      BY <1>1, <1>2, <2>1 DEF factVars, SeenWhole, WasPutAway
  <1>5. ASSUME NEW a \in Alert, ConvertAlertToTask(a) PROVE OnceEach' /\ SeenWhole'
    <2>1. UNCHANGED <<factVars, grounds>> /\ \A b \in Alert : WasPutAway(b)' <=> WasPutAway(b)
      BY <1>1, <1>5, Converts
    <2>. QED
      BY <1>1, <1>2, <2>1 DEF factVars, SeenWhole
  <1>6. ASSUME NEW a \in Alert, Puts(a) PROVE OnceEach' /\ SeenWhole'
    <2>1. /\ a \in Alerts /\ UNCHANGED factVars
          /\ \A b \in Alert : b # a => overrides'[b] = overrides[b] /\ grounds'[b] = grounds[b]
          /\ grounds'[a] = grounds[a] \cup GroundsOf(a)
      BY <1>1, <1>6, PutsAway
    <2>2. AllGrounds(a) \subseteq GroundsOf(a) /\ AllGrounds(a) # {}
      BY <1>1, <2>1, GroundsInWhole, GroundsAreWhole
    <2>3. \A b \in Alert : b # a => (WasPutAway(b)' <=> WasPutAway(b))
      BY <2>1 DEF WasPutAway
    <2>. QED
      BY <1>1, <1>2, <2>1, <2>2, <2>3 DEF factVars, SeenWhole
  <1>7. CASE UNCHANGED agendaVars
    <2>1. UNCHANGED <<onFile, arrived, undone, overrides, grounds>>
      BY <1>7 DEF agendaVars
    <2>. QED
      BY <1>1, <1>2, <2>1 DEF SeenWhole, WasPutAway
  <1>. QED
    BY <1>3, <1>4, <1>5, <1>6, <1>7, AgendaSplits

\* However facts return and papers and bills are renewed, an alert is made one task at
\* most (alertToTask of erp-engine.js).
THEOREM TasksAreOne == AgendaSpec => [](AgendaTypeOK /\ OneTaskEach)
  BY AgendaStarts, StepTasks, PTL DEF AgendaSpec, SeenInv, AgInv

\* Where no collection is undone, no paper renewed and no second bill arrives, an alert
\* is off the list only if all that it rests on was before whoever put it away
\* (managedAlerts, snoozeAlert and resolveAlert of erp-engine.js).
THEOREM AlertsKept == ASSUME Lapses = {} PROVE AgendaSpec => []AgendaHolds
  <1>1. SeenInv => AgendaHolds
    BY HiddenWasSeenHolds DEF AgendaHolds, SeenInv, AgInv
  <1>. QED
    BY <1>1, AgendaStarts, StepSeen, PTL DEF AgendaSpec
-----------------------------------------------------------------------------
(* Accounts. *)

\* A request that is past its checks writes to a row that exists.
RowsExist ==
    \A w \in Workers : job[w].stage \in {"write", "promote"} => rows[job[w].email] # NoRow

\* An account is created with the role its request named.
RolesNamed ==
    \A w \in Workers : job[w].stage \in {"create", "insert"} => job[w].role \in Roles

TInv == TypeOK /\ RowsExist /\ RolesNamed

-----------------------------------------------------------------------------
(* Helpers about requests. *)

LEMMA JobType ==
    ASSUME TypeOK, NEW w \in Workers
    PROVE  /\ job[w] \in Job \cup {Idle}
           /\ job[w].stage # "idle" => job[w] \in Job
           /\ job[w].stage = "idle" <=> job[w] = Idle
  <1>1. job[w] \in Job \cup {Idle}
    BY DEF TypeOK
  <1>2. Idle.stage = "idle"
    BY DEF Idle
  <1>3. job[w] \in Job => job[w].stage # "idle"
    BY DEF Job
  <1>. QED
    BY <1>1, <1>2, <1>3

LEMMA RowType ==
    ASSUME TypeOK, NEW e \in People, rows[e] # NoRow
    PROVE  rows[e] \in Row
  BY DEF TypeOK

LEMMA RowIsSomething == NoRow \notin Row
  BY DEF Row, NoRow, Roles

LEMMA UserType ==
    ASSUME TypeOK, NEW e \in People
    PROVE  UserOf(e) \in Row \cup {NoRow}
  BY DEF TypeOK, UserOf, Bootstrap, Row, Roles

\* A row that is written takes the place of whatever account there was.
LEMMA RowWritten ==
    ASSUME TypeOK, NEW e \in People, NEW r \in Row, rows' = [rows EXCEPT ![e] = r],
           UNCHANGED env
    PROVE  /\ rows' \in [People -> Row \cup {NoRow}]
           /\ rows'[e] = r /\ r # NoRow
           /\ \A u \in People : u # e => rows'[u] = rows[u]
           /\ \A u \in People : UserOf(u)' = (IF u = e THEN r ELSE UserOf(u))
  BY RowIsSomething DEF TypeOK, UserOf

\* What a step makes of the jobs.
LEMMA Became ==
    ASSUME TypeOK, NEW w \in Workers, NEW next \in Job \cup {Idle}, Become(w, next)
    PROVE  /\ job' \in [Workers -> Job \cup {Idle}]
           /\ job'[w] = next
           /\ \A v \in Workers : v # w => job'[v] = job[v]
  BY DEF TypeOK, Become

LEMMA Advanced ==
    ASSUME TypeOK, NEW w \in Workers, job[w] \in Job,
           NEW stage \in {"insert", "write", "mint", "credential", "allowed", "spend", "retire"},
           Advance(w, stage)
    PROVE  /\ job' \in [Workers -> Job \cup {Idle}]
           /\ job'[w] = [job[w] EXCEPT !.stage = stage]
           /\ job'[w].stage = stage /\ job'[w].email = job[w].email
           /\ job'[w].role = job[w].role /\ job'[w].state = job[w].state
           /\ job'[w].link = job[w].link
           /\ \A v \in Workers : v # w => job'[v] = job[v]
  <1>1. [job[w] EXCEPT !.stage = stage] \in Job
    BY DEF Job
  <1>2. job' = [job EXCEPT ![w] = [job[w] EXCEPT !.stage = stage]]
    BY DEF Advance
  <1>. QED
    BY <1>1, <1>2 DEF TypeOK, Job

-----------------------------------------------------------------------------
(* Types. *)

LEMMA InitTInv == Init => TInv
  <1> SUFFICES ASSUME Init PROVE TInv
    OBVIOUS
  <1>1. env \subseteq People
    BY PeopleAssumption DEF Init
  <1>2. rows \in [People -> Row \cup {NoRow}]
    BY DEF Init, Bootstrap, Row, Roles
  <1>3. links \in [Links -> Link]
    <2>1. PICK e \in People : links = [l \in Links |-> [status |-> "unminted", email |-> e]]
      BY DEF Init
    <2>2. [status |-> "unminted", email |-> e] \in Link
      BY DEF Link
    <2>. QED
      BY <2>1, <2>2
  <1>4. job = [w \in Workers |-> Idle] /\ spent = [l \in Links |-> 0]
        /\ meanwhile = [w \in Workers |-> {}] /\ begun = 0
    BY DEF Init
  <1>5. TypeOK
    BY <1>1, <1>2, <1>3, <1>4, BoundAssumption DEF TypeOK
  <1>6. RowsExist /\ RolesNamed
    BY <1>4 DEF RowsExist, RolesNamed, Idle
  <1>. QED
    BY <1>5, <1>6 DEF TInv

LEMMA OneMoreBegun ==
    ASSUME begun \in 0..MaxRequests, begun < MaxRequests, begun' = begun + 1
    PROVE  begun' \in 0..MaxRequests
  BY BoundAssumption

\* A request begins: nothing but its job changes.
LEMMA BeginTInv ==
    ASSUME TInv, NEW w \in Workers, NEW e \in People,
           NEW stage \in {"create", "patch", "retire", "holding", "promote"},
           NEW role \in Roles \cup {""}, NEW state \in {"active", "disabled", ""},
           NEW link \in Links \cup {NoLink},
           stage = "promote" => rows[e] # NoRow,
           stage = "create" => role \in Roles,
           Begin(w, stage, e, role, state, link),
           meanwhile' \in [Workers -> SUBSET (People \cup Links)]
    PROVE  TInv'
  <1> DEFINE next == [stage |-> stage, email |-> e, role |-> role, state |-> state, link |-> link]
  <1>1. next \in Job /\ next.stage = stage /\ next.email = e /\ next.role = role
    BY DEF Job
  <1>2. Become(w, next) /\ UNCHANGED <<env, rows, links, spent>>
    BY DEF Begin
  <1>. HIDE DEF next
  <1>3. /\ job' \in [Workers -> Job \cup {Idle}]
        /\ job'[w] = next
        /\ \A v \in Workers : v # w => job'[v] = job[v]
    BY <1>1, <1>2, Became DEF TInv
  <1>4. begun' \in 0..MaxRequests
    <2>1. begun \in 0..MaxRequests
      BY DEF TInv, TypeOK
    <2>2. begun < MaxRequests /\ begun' = begun + 1
      BY DEF Begin
    <2>. QED
      BY <2>1, <2>2, OneMoreBegun
  <1>5. TypeOK'
    BY <1>2, <1>3, <1>4 DEF TInv, TypeOK
  <1>6. RowsExist' /\ RolesNamed'
    BY <1>1, <1>2, <1>3 DEF TInv, RowsExist, RolesNamed
  <1>. QED
    BY <1>5, <1>6 DEF TInv

\* A step of a request under way.
LEMMA JobTInv ==
    ASSUME TInv, NEW w \in Workers, NEW next \in Job \cup {Idle},
           job' \in [Workers -> Job \cup {Idle}], job'[w] = next,
           \A v \in Workers : v # w => job'[v] = job[v],
           rows' \in [People -> Row \cup {NoRow}],
           \A e \in People : rows[e] # NoRow => rows'[e] # NoRow,
           next.stage \in {"write", "promote"} => rows[next.email] # NoRow /\ next.email \in People,
           next.stage \in {"create", "insert"} => next.role \in Roles,
           links' \in [Links -> Link], spent' \in [Links -> Nat],
           UNCHANGED <<env, begun>>,
           meanwhile' \in [Workers -> SUBSET (People \cup Links)]
    PROVE  TInv'
  <1>1. TypeOK'
    BY DEF TInv, TypeOK
  <1>2. RowsExist'
    <2> SUFFICES ASSUME NEW v \in Workers, job'[v].stage \in {"write", "promote"}
                 PROVE  rows'[job'[v].email] # NoRow
      BY DEF RowsExist
    <2>1. CASE v = w
      BY <2>1
    <2>2. CASE v # w
      <3>1. job'[v] = job[v] /\ rows[job[v].email] # NoRow
        BY <2>2 DEF TInv, RowsExist
      <3>2. job[v].email \in People
        BY <3>1, JobType DEF TInv, Job
      <3>. QED
        BY <3>1, <3>2
    <2>. QED
      BY <2>1, <2>2
  <1>3. RolesNamed'
    BY DEF TInv, RolesNamed
  <1>. QED
    BY <1>1, <1>2, <1>3 DEF TInv

\* One that moves on to a stage that needs nothing.
LEMMA AdvanceTInv ==
    ASSUME TInv, NEW w \in Workers, job[w] \in Job,
           NEW stage \in {"insert", "write", "mint", "credential", "allowed", "spend", "retire"},
           Advance(w, stage),
           stage = "write" => rows[job[w].email] # NoRow,
           stage = "insert" => job[w].stage = "create",
           rows' \in [People -> Row \cup {NoRow}],
           \A e \in People : rows[e] # NoRow => rows'[e] # NoRow,
           links' \in [Links -> Link], UNCHANGED <<env, spent, begun>>,
           meanwhile' \in [Workers -> SUBSET (People \cup Links)]
    PROVE  TInv'
  <1>1. /\ job' \in [Workers -> Job \cup {Idle}]
        /\ job'[w] = [job[w] EXCEPT !.stage = stage]
        /\ job'[w].stage = stage /\ job'[w].email = job[w].email
        /\ job'[w].role = job[w].role
        /\ \A v \in Workers : v # w => job'[v] = job[v]
    BY Advanced DEF TInv
  <1>2. job'[w] \in Job \cup {Idle} /\ job[w].email \in People
    BY <1>1 DEF Job
  <1>3. spent' \in [Links -> Nat]
    BY DEF TInv, TypeOK
  <1>4. stage \in {"create", "insert"} => job'[w].role \in Roles
    BY <1>1 DEF TInv, RolesNamed
  <1>. QED
    BY <1>1, <1>2, <1>3, <1>4, JobTInv

\* One that ends.
LEMMA EndTInv ==
    ASSUME TInv, NEW w \in Workers, Become(w, Idle),
           rows' \in [People -> Row \cup {NoRow}],
           \A e \in People : rows[e] # NoRow => rows'[e] # NoRow,
           links' \in [Links -> Link], spent' \in [Links -> Nat], UNCHANGED <<env, begun>>,
           meanwhile' \in [Workers -> SUBSET (People \cup Links)]
    PROVE  TInv'
  <1>1. /\ job' \in [Workers -> Job \cup {Idle}]
        /\ job'[w] = Idle
        /\ \A v \in Workers : v # w => job'[v] = job[v]
    BY Became DEF TInv
  <1>2. Idle.stage \notin {"write", "promote", "create", "insert"}
    BY DEF Idle
  <1>. QED
    BY <1>1, <1>2, JobTInv

\* What a request writes to its row, and that the row is there.
LEMMA PatchWritten ==
    ASSUME TInv, NEW w \in Workers, WritePatch(w)
    PROVE  LET j == job[w]
           IN  /\ j \in Job /\ j.email \in People /\ rows[j.email] # NoRow
               /\ \E r \in Row :
                     /\ rows' = [rows EXCEPT ![j.email] = r]
                     /\ r.role = (IF j.role = "" THEN rows[j.email].role ELSE j.role)
                     /\ r.state = (IF j.state = "" THEN rows[j.email].state ELSE j.state)
  <1> DEFINE j == job[w]
             r == [rows[j.email] EXCEPT !.role = IF j.role = "" THEN @ ELSE j.role,
                                        !.state = IF j.state = "" THEN @ ELSE j.state]
  <1>1. j \in Job /\ rows[j.email] # NoRow
    BY JobType DEF WritePatch, TInv, RowsExist
  <1>2. /\ j.email \in People /\ j.role \in Roles \cup {""}
        /\ j.state \in {"active", "disabled", ""}
    BY <1>1 DEF Job
  <1>3. rows[j.email] \in Row
    BY <1>1, <1>2, RowType DEF TInv
  <1>4. /\ r \in Row
        /\ r.role = (IF j.role = "" THEN rows[j.email].role ELSE j.role)
        /\ r.state = (IF j.state = "" THEN rows[j.email].state ELSE j.state)
    BY <1>2, <1>3 DEF Row, Roles
  <1>5. rows' = [rows EXCEPT ![j.email] = r]
    BY <1>2 DEF WritePatch, TInv, TypeOK
  <1>. QED
    BY <1>1, <1>2, <1>4, <1>5

\* The same of the steps that write a password or make an account active.
LEMMA ActivationWritten ==
    ASSUME TInv, NEW w \in Workers, Credential(w) \/ SetPassword(w) \/ Promote(w)
    PROVE  LET e == job[w].email
           IN  /\ job[w] \in Job /\ e \in People
               /\ \/ UNCHANGED rows
                  \/ /\ rows[e] # NoRow
                     /\ \E r \in Row : /\ rows' = [rows EXCEPT ![e] = r]
                                       /\ r.role = rows[e].role
                                       /\ Credential(w) => r.state = rows[e].state
                                       /\ ~Credential(w) => r.state = "active"
  <1> DEFINE e == job[w].email
  <1>1. job[w] \in Job
    BY JobType DEF Credential, SetPassword, Promote, TInv
  <1>2. e \in People
    BY <1>1 DEF Job
  <1>3. CASE UNCHANGED rows
    BY <1>1, <1>2, <1>3
  <1>4. CASE Credential(w) /\ rows[e] # NoRow
    <2> DEFINE r == [rows[e] EXCEPT !.password = TRUE]
    <2>1. rows[e] \in Row
      BY <1>2, <1>4, RowType DEF TInv
    <2>2. r \in Row /\ r.role = rows[e].role /\ r.state = rows[e].state
      BY <2>1 DEF Row
    <2>3. rows' = [rows EXCEPT ![e] = r]
      BY <1>2, <1>4 DEF Credential, TInv, TypeOK
    <2>. QED
      BY <1>1, <1>2, <1>4, <2>2, <2>3
  <1>5. CASE SetPassword(w) /\ rows[e] # NoRow
    <2> DEFINE r == [rows[e] EXCEPT !.password = TRUE, !.state = "active"]
    <2>1. rows[e] \in Row
      BY <1>2, <1>5, RowType DEF TInv
    <2>2. r \in Row /\ r.role = rows[e].role /\ r.state = "active"
      BY <2>1 DEF Row
    <2>3. rows' = [rows EXCEPT ![e] = r] /\ ~Credential(w)
      BY <1>2, <1>5 DEF SetPassword, Credential, TInv, TypeOK
    <2>. QED
      BY <1>1, <1>2, <1>5, <2>2, <2>3
  <1>6. CASE Promote(w)
    <2> DEFINE r == [rows[e] EXCEPT !.state = "active"]
    <2>1. rows[e] # NoRow
      BY <1>6 DEF Promote, TInv, RowsExist
    <2>2. rows[e] \in Row
      BY <1>2, <2>1, RowType DEF TInv
    <2>3. r \in Row /\ r.role = rows[e].role /\ r.state = "active"
      BY <2>2 DEF Row
    <2>4. rows' = [rows EXCEPT ![e] = r] /\ ~Credential(w)
      BY <1>2, <1>6 DEF Promote, Credential, TInv, TypeOK
    <2>. QED
      BY <1>1, <1>2, <2>1, <2>3, <2>4
  <1>. QED
    BY <1>3, <1>4, <1>5, <1>6 DEF Credential, SetPassword

LEMMA InsertWritten ==
    ASSUME TInv, NEW w \in Workers, Insert(w)
    PROVE  LET e == job[w].email
               r == [role |-> job[w].role, state |-> "invited", password |-> FALSE]
           IN  /\ job[w] \in Job /\ e \in People /\ r \in Row
               /\ rows[e] = NoRow => rows' = [rows EXCEPT ![e] = r] /\ Advance(w, "retire")
               /\ rows[e] # NoRow => UNCHANGED rows /\ Become(w, Idle)
  <1>1. job[w] \in Job
    BY JobType DEF Insert, TInv
  <1>2. [role |-> job[w].role, state |-> "invited", password |-> FALSE] \in Row
    BY DEF Insert, TInv, RolesNamed, Row
  <1>. QED
    BY <1>1, <1>2 DEF Insert, Job

LEMMA AskTInv ==
    ASSUME TInv, NEW w \in Workers, Ask(w),
           meanwhile' \in [Workers -> SUBSET (People \cup Links)]
    PROVE  TInv'
  <1>1. PICK e \in People :
            \/ \E role \in Roles : Begin(w, "create", e, role, "", NoLink)
            \/ \E role \in Roles : Begin(w, "patch", e, role, "", NoLink)
            \/ \E state \in {"active", "disabled"} : Begin(w, "patch", e, "", state, NoLink)
            \/ Begin(w, "retire", e, "", "", NoLink)
    BY DEF Ask
  <1>2. ASSUME NEW role \in Roles, Begin(w, "create", e, role, "", NoLink) PROVE TInv'
    BY <1>2, BeginTInv
  <1>3. ASSUME NEW role \in Roles, Begin(w, "patch", e, role, "", NoLink) PROVE TInv'
    BY <1>3, BeginTInv
  <1>4. ASSUME NEW state \in {"active", "disabled"}, Begin(w, "patch", e, "", state, NoLink)
        PROVE  TInv'
    BY <1>4, BeginTInv
  <1>5. CASE Begin(w, "retire", e, "", "", NoLink)
    BY <1>5, BeginTInv
  <1>. QED
    BY <1>1, <1>2, <1>3, <1>4, <1>5

\* What is noted are accounts and links.
LEMMA NoteType ==
    ASSUME TypeOK, NEW w \in Workers, Note(w)
    PROVE  meanwhile' \in [Workers -> SUBSET (People \cup Links)]
  <1>1. Changed \subseteq People \cup Links
    BY DEF Changed
  <1>2. PICK C \in SUBSET (People \cup Links) : C = Changed
    BY <1>1
  <1>3. meanwhile' = [v \in Workers |-> IF job'[v] = Idle THEN {}
                                       ELSE meanwhile[v] \cup IF v = w THEN {} ELSE C]
    BY <1>2 DEF Note
  <1>. QED
    BY <1>3 DEF TypeOK

LEMMA StepTInv ==
    ASSUME TInv, NEW w \in Workers, Step(w),
           meanwhile' \in [Workers -> SUBSET (People \cup Links)]
    PROVE  TInv'
  <1>1. /\ rows \in [People -> Row \cup {NoRow}] /\ links \in [Links -> Link]
        /\ spent \in [Links -> Nat]
    BY DEF TInv, TypeOK
  <1>2. job[w].stage # "idle" => job[w] \in Job /\ job[w].email \in People
    BY JobType DEF TInv, Job
  <1>3. CASE CheckCreate(w)
    BY <1>1, <1>2, <1>3, AdvanceTInv, EndTInv DEF CheckCreate
  <1>4. CASE Insert(w)
    <2> DEFINE e == job[w].email
               r == [role |-> job[w].role, state |-> "invited", password |-> FALSE]
    <2>1. /\ job[w] \in Job /\ e \in People /\ r \in Row
          /\ rows[e] = NoRow => rows' = [rows EXCEPT ![e] = r] /\ Advance(w, "retire")
          /\ rows[e] # NoRow => UNCHANGED rows /\ Become(w, Idle)
      BY <1>4, InsertWritten
    <2>2. UNCHANGED <<env, links, spent, begun>>
      BY <1>4 DEF Insert
    <2>3. CASE rows[e] = NoRow
      <3>. HIDE DEF r
      <3>1. /\ rows' \in [People -> Row \cup {NoRow}]
            /\ \A x \in People : rows[x] # NoRow => rows'[x] # NoRow
        BY <2>1, <2>2, <2>3, RowWritten DEF TInv
      <3>. QED
        BY <1>1, <2>1, <2>2, <2>3, <3>1, AdvanceTInv
    <2>4. CASE rows[e] # NoRow
      BY <1>1, <2>1, <2>2, <2>4, EndTInv
    <2>. QED
      BY <2>3, <2>4
  <1>5. CASE CheckPatch(w)
    BY <1>1, <1>2, <1>5, AdvanceTInv, EndTInv DEF CheckPatch
  <1>6. CASE WritePatch(w)
    <2>0. job[w].email \in People
      BY <1>6, PatchWritten
    <2>1. PICK r \in Row : rows' = [rows EXCEPT ![job[w].email] = r]
      BY <1>6, PatchWritten
    <2>2. Become(w, Idle) /\ UNCHANGED <<env, links, spent, begun>>
      BY <1>6 DEF WritePatch
    <2>3. /\ rows' \in [People -> Row \cup {NoRow}]
          /\ \A x \in People : rows[x] # NoRow => rows'[x] # NoRow
      BY <2>0, <2>1, <2>2, RowWritten DEF TInv
    <2>. QED
      BY <1>1, <2>2, <2>3, EndTInv
  <1>7. CASE Credential(w) \/ SetPassword(w) \/ Promote(w)
    <2>1. \/ UNCHANGED rows
          \/ \E r \in Row : rows' = [rows EXCEPT ![job[w].email] = r]
      BY <1>7, ActivationWritten
    <2>2. job[w] \in Job /\ job[w].email \in People
      BY <1>7, ActivationWritten
    <2>3. UNCHANGED <<env, links, spent, begun>>
      BY <1>7 DEF Credential, SetPassword, Promote
    <2>4. /\ rows' \in [People -> Row \cup {NoRow}]
          /\ \A x \in People : rows[x] # NoRow => rows'[x] # NoRow
      BY <1>1, <2>1, <2>2, <2>3, RowWritten DEF TInv
    <2>5. Become(w, Idle) \/ Advance(w, "spend")
      BY <1>7 DEF Credential, SetPassword, Promote
    <2>. QED
      BY <1>1, <2>2, <2>3, <2>4, <2>5, EndTInv, AdvanceTInv
  <1>8. CASE Retire(w)
    <2>1. links' \in [Links -> Link]
      <3>1. \A l \in Links : [links[l] EXCEPT !.status = "used"] \in Link
        BY <1>1 DEF Link
      <3>. QED
        BY <1>1, <1>8, <3>1 DEF Retire
    <2>. QED
      BY <1>1, <1>2, <1>8, <2>1, AdvanceTInv DEF Retire
  <1>9. ASSUME NEW l \in Links, Mint(w, l) PROVE TInv'
    <2>1. job[w] \in Job /\ job[w].email \in People
      BY <1>2, <1>9 DEF Mint
    <2>2. [status |-> "live", email |-> job[w].email] \in Link
      BY <2>1 DEF Link
    <2>3. links' \in [Links -> Link]
      BY <1>1, <1>9, <2>2 DEF Mint
    <2>. QED
      BY <1>1, <1>9, <2>1, <2>3, AdvanceTInv DEF Mint
  <1>10. ASSUME NEW l \in Links, Follow(w, l) PROVE TInv'
    <2>1. links[l].email \in People
      BY <1>1 DEF Link
    <2>. QED
      BY <1>10, <2>1, BeginTInv DEF Follow
  <1>11. CASE Allow(w)
    BY <1>1, <1>2, <1>11, AdvanceTInv, EndTInv DEF Allow
  <1>12. CASE Spend(w)
    <2>1. [links[job[w].link] EXCEPT !.status = "used"] \in Link \/ job[w].link \notin Links
      BY <1>1 DEF Link
    <2>2. links' = [links EXCEPT ![job[w].link] = [links[job[w].link] EXCEPT !.status = "used"]]
      BY <1>12 DEF Spend
    <2>3. links' \in [Links -> Link]
      BY <1>1, <2>1, <2>2
    <2>4. spent' \in [Links -> Nat]
      <3>1. spent' = [spent EXCEPT ![job[w].link] = spent[job[w].link] + 1]
        BY <1>12 DEF Spend
      <3>2. job[w].link \in Links => spent[job[w].link] + 1 \in Nat
        BY <1>1
      <3>. QED
        BY <1>1, <3>1, <3>2
    <2>. QED
      BY <1>1, <1>12, <2>3, <2>4, EndTInv DEF Spend
  <1>13. ASSUME NEW e \in People, SignIn(w, e) PROVE TInv'
    <2>1. rows[e] # NoRow
      BY <1>13 DEF SignIn, UserOf, Bootstrap, NoRow
    <2>. QED
      BY <1>13, <2>1, BeginTInv DEF SignIn
  <1>14. CASE Crash(w)
    BY <1>1, <1>14, EndTInv DEF Crash
  <1>. QED
    BY <1>3, <1>4, <1>5, <1>6, <1>7, <1>8, <1>9, <1>10, <1>11, <1>12, <1>13, <1>14, AskTInv
       DEF Step

LEMMA NextTInv == TInv /\ [Next]_vars => TInv'
  <1> SUFFICES ASSUME TInv, [Next]_vars PROVE TInv'
    OBVIOUS
  <1>1. ASSUME NEW l \in Links, Expire(l), UNCHANGED meanwhile PROVE TInv'
    <2>1. links \in [Links -> Link] /\ [links[l] EXCEPT !.status = "expired"] \in Link
      BY DEF TInv, TypeOK, Link
    <2>2. links' = [links EXCEPT ![l] = [links[l] EXCEPT !.status = "expired"]]
      BY <1>1 DEF Expire
    <2>3. links' \in [Links -> Link] /\ UNCHANGED <<env, rows, job, spent, meanwhile, begun>>
      BY <1>1, <2>1, <2>2 DEF Expire
    <2>. QED
      BY <2>3 DEF TInv, TypeOK, RowsExist, RolesNamed
  <1>2. CASE UNCHANGED vars
    BY <1>2 DEF vars, TInv, TypeOK, RowsExist, RolesNamed
  <1>3. ASSUME NEW w \in Workers, Step(w), Note(w) PROVE TInv'
    BY <1>3, StepTInv, NoteType DEF TInv
  <1>. QED
    BY <1>1, <1>2, <1>3 DEF Next

\* Every row, link and request is well formed, however many requests there are
\* at once: a row that was checked is still there when it is written.
THEOREM TypeCorrect == Spec => []TypeOK
  <1>1. TInv => TypeOK
    BY DEF TInv
  <1>. QED
    BY <1>1, InitTInv, NextTInv, PTL DEF Spec

-----------------------------------------------------------------------------
(* Requests that overlap.  What a request checked still holds when it comes *)
(* to write, or it is noted who changed it meanwhile.                       *)

NoteOnAdmins(w) ==
    job[w].stage = "write" =>
        \/ ~WouldOrphanAdmins(job[w].email, job[w].role, job[w].state)
        \/ meanwhile[w] \cap People # {}

NoteOnState(w) ==
    job[w].stage \in {"allowed", "promote"} =>
        rows[job[w].email].state # "disabled" \/ job[w].email \in meanwhile[w]

NoteOnLink(w) ==
    job[w].stage \in {"holding", "allowed", "spend"} =>
        /\ job[w].link \in Links
        /\ links[job[w].link].status \in {"live", "expired"} \/ job[w].link \in meanwhile[w]

NoteOnOthers(w) ==
    job[w].stage = "mint" =>
        \A l \in Links : (links[l].status = "live" /\ links[l].email = job[w].email)
                             => l \in meanwhile[w]

\* The one that creates an account found no line of it in ERP_USERS.
NotConfigured(w) == job[w].stage = "insert" => job[w].email \notin env

NotesHold(w) ==
    /\ NoteOnAdmins(w) /\ NoteOnState(w) /\ NoteOnLink(w) /\ NoteOnOthers(w)
    /\ NotConfigured(w)

SpentAreUsed == \A l \in Links : spent[l] > 0 => links[l].status = "used"

AInv == TInv /\ SpentAreUsed /\ \A w \in Workers : NotesHold(w)

\* A stage that writes nothing a check was about needs no note.
LEMMA NothingToNote ==
    ASSUME NEW w \in Workers,
           job'[w].stage \in {"idle", "create", "patch", "retire", "credential"}
    PROVE  NotesHold(w)'
  BY DEF NotesHold, NoteOnAdmins, NoteOnState, NoteOnLink, NoteOnOthers, NotConfigured

LEMMA InitAInv == Init => AInv
  <1> SUFFICES ASSUME Init PROVE AInv
    OBVIOUS
  <1>1. \A w \in Workers : job[w].stage = "idle"
    BY DEF Init, Idle
  <1>2. \A w \in Workers : NotesHold(w)
    BY <1>1 DEF NotesHold, NoteOnAdmins, NoteOnState, NoteOnLink, NoteOnOthers, NotConfigured
  <1>3. SpentAreUsed
    <2>1. \A l \in Links : spent[l] = 0
      BY DEF Init
    <2>. QED
      BY <2>1 DEF SpentAreUsed
  <1>. QED
    BY <1>2, <1>3, InitTInv DEF AInv

\* Nobody can do a thing to a request in progress that is not noted.
LEMMA OthersNoted ==
    ASSUME AInv, NEW w \in Workers, Note(w), UNCHANGED env,
           NEW v \in Workers, v # w, job'[v] = job[v]
    PROVE  NotesHold(v)'
  <1>1. NotesHold(v) /\ TypeOK
    BY DEF AInv, TInv
  <1>2. CASE job[v] = Idle
    BY <1>2, NothingToNote DEF Idle
  <1>3. CASE job[v] # Idle
    <2>1. /\ meanwhile'[v] = meanwhile[v] \cup Changed
          /\ job[v] \in Job /\ job[v].email \in People
      BY <1>1, <1>3 DEF Note, TypeOK, Job
    <2>2. \A e \in People : rows'[e] # rows[e] => e \in meanwhile'[v]
      BY <2>1 DEF Changed
    <2>3. \A l \in Links : links'[l] # links[l] => l \in meanwhile'[v]
      BY <2>1 DEF Changed
    <2>4. meanwhile[v] \subseteq meanwhile'[v]
      BY <2>1
    <2>5. NoteOnAdmins(v)'
      <3>1. CASE \E e \in People : rows'[e] # rows[e]
        BY <2>2, <3>1 DEF NoteOnAdmins
      <3>2. CASE \A e \in People : rows'[e] = rows[e]
        <4>1. \A e \in People : UserOf(e)' = UserOf(e)
          BY <3>2 DEF UserOf
        <4>. QED
          BY <1>1, <2>4, <4>1 DEF NotesHold, NoteOnAdmins, WouldOrphanAdmins
      <3>. QED
        BY <3>1, <3>2
    <2>6. NoteOnState(v)'
      BY <1>1, <2>1, <2>2, <2>4 DEF NotesHold, NoteOnState
    <2>7. NoteOnLink(v)'
      BY <1>1, <2>3, <2>4 DEF NotesHold, NoteOnLink
    <2>8. NoteOnOthers(v)'
      BY <1>1, <2>3, <2>4 DEF NotesHold, NoteOnOthers
    <2>9. NotConfigured(v)'
      BY <1>1 DEF NotesHold, NotConfigured
    <2>. QED
      BY <2>5, <2>6, <2>7, <2>8, <2>9 DEF NotesHold
  <1>. QED
    BY <1>2, <1>3

\* A request that goes on keeps its notes.
LEMMA OwnNotes ==
    ASSUME AInv, NEW w \in Workers, Note(w), job'[w] # Idle
    PROVE  meanwhile'[w] = meanwhile[w]
  BY DEF Note, AInv, TInv, TypeOK

\* A link that is used stays used.
LEMMA UsedStays ==
    ASSUME AInv, UNCHANGED <<links, spent>>
    PROVE  SpentAreUsed'
  BY DEF AInv, SpentAreUsed

-----------------------------------------------------------------------------
(* What a request notes of itself. *)

LEMMA BeginNoted ==
    ASSUME AInv, NEW w \in Workers, Note(w),
           \/ Ask(w)
           \/ \E l \in Links : Follow(w, l)
           \/ \E e \in People : SignIn(w, e)
    PROVE  /\ UNCHANGED <<env, links, spent>> /\ NotesHold(w)'
           /\ \A v \in Workers : v # w => job'[v] = job[v]
  <1>1. /\ UNCHANGED <<env, rows, links, spent>>
        /\ \A v \in Workers : v # w => job'[v] = job[v]
    BY DEF Ask, Follow, SignIn, Begin, Become, AInv, TInv, TypeOK
  <1>2. CASE Ask(w)
    <2>1. \E stage \in {"create", "patch", "retire"} : \E e, role, state :
              Begin(w, stage, e, role, state, NoLink)
      BY <1>2 DEF Ask
    <2>2. job'[w].stage \in {"create", "patch", "retire"}
      BY <2>1 DEF Begin, Become, AInv, TInv, TypeOK
    <2>. QED
      BY <1>1, <2>2, NothingToNote
  <1>3. ASSUME NEW l \in Links, Follow(w, l) PROVE NotesHold(w)'
    <2>1. /\ job'[w].stage = "holding" /\ job'[w].link = l
          /\ links'[l].status = "live"
      BY <1>1, <1>3 DEF Follow, Begin, Become, AInv, TInv, TypeOK
    <2>. QED
      BY <2>1 DEF NotesHold, NoteOnAdmins, NoteOnState, NoteOnLink, NoteOnOthers, NotConfigured
  <1>4. ASSUME NEW e \in People, SignIn(w, e) PROVE NotesHold(w)'
    <2>1. job'[w].stage = "promote" /\ job'[w].email = e
      BY <1>4 DEF SignIn, Begin, Become, AInv, TInv, TypeOK
    <2>2. rows'[e].state # "disabled"
      BY <1>1, <1>4 DEF SignIn, UserOf, Bootstrap, NoRow
    <2>. QED
      BY <2>1, <2>2 DEF NotesHold, NoteOnAdmins, NoteOnState, NoteOnLink, NoteOnOthers, NotConfigured
  <1>. QED
    BY <1>1, <1>2, <1>3, <1>4

LEMMA ChecksNoted ==
    ASSUME AInv, NEW w \in Workers, Note(w),
           CheckCreate(w) \/ CheckPatch(w) \/ Allow(w) \/ Crash(w)
    PROVE  /\ UNCHANGED <<env, links, spent>> /\ NotesHold(w)'
           /\ \A v \in Workers : v # w => job'[v] = job[v]
  <1>1. UNCHANGED <<env, rows, links, spent>>
    BY DEF CheckCreate, CheckPatch, Allow, Crash
  <1>2. \A e \in People : UserOf(e)' = UserOf(e)
    BY <1>1 DEF UserOf
  <1>3. job[w].stage # "idle" => job[w] \in Job /\ job[w].email \in People
    BY JobType DEF AInv, TInv, Job
  <1>4. CASE Become(w, Idle)
    <2>1. job'[w].stage = "idle" /\ \A v \in Workers : v # w => job'[v] = job[v]
      BY <1>4, Became DEF AInv, TInv, Idle
    <2>. QED
      BY <1>1, <2>1, NothingToNote
  <1>5. CASE CheckCreate(w) /\ ~Taken(job[w].email) /\ Advance(w, "insert")
    <2>1. job[w] \in Job /\ job[w].email \in People
      BY <1>3, <1>5 DEF CheckCreate
    <2>2. /\ job'[w].stage = "insert" /\ job'[w].email = job[w].email
          /\ \A v \in Workers : v # w => job'[v] = job[v]
      BY <1>5, <2>1, Advanced DEF AInv, TInv
    <2>3. job[w].email \notin env
      BY <1>5 DEF Taken, UserOf, Bootstrap, NoRow
    <2>. QED
      BY <1>1, <2>2, <2>3
         DEF NotesHold, NoteOnAdmins, NoteOnState, NoteOnLink, NoteOnOthers, NotConfigured
  <1>6. CASE /\ CheckPatch(w) /\ Advance(w, "write")
             /\ ~WouldOrphanAdmins(job[w].email, job[w].role, job[w].state)
    <2>1. job[w] \in Job /\ job[w].email \in People
      BY <1>3, <1>6 DEF CheckPatch
    <2>2. /\ job'[w].stage = "write" /\ job'[w].email = job[w].email
          /\ job'[w].role = job[w].role /\ job'[w].state = job[w].state
          /\ \A v \in Workers : v # w => job'[v] = job[v]
      BY <1>6, <2>1, Advanced DEF AInv, TInv
    <2>3. ~WouldOrphanAdmins(job[w].email, job[w].role, job[w].state)'
      BY <1>2, <1>6, <2>2 DEF WouldOrphanAdmins
    <2>. QED
      BY <1>1, <2>2, <2>3
         DEF NotesHold, NoteOnAdmins, NoteOnState, NoteOnLink, NoteOnOthers, NotConfigured
  <1>7. CASE /\ Allow(w) /\ Advance(w, "allowed")
             /\ UserOf(job[w].email).state \notin {"none", "disabled"}
    <2>1. job[w] \in Job /\ job[w].email \in People /\ job[w].stage = "holding"
      BY <1>3, <1>7 DEF Allow
    <2>2. /\ job'[w].stage = "allowed" /\ job'[w].email = job[w].email
          /\ job'[w].link = job[w].link
          /\ \A v \in Workers : v # w => job'[v] = job[v]
      BY <1>7, <2>1, Advanced DEF AInv, TInv
    <2>3. NoteOnLink(w) /\ meanwhile'[w] = meanwhile[w]
      <3>1. job'[w] # Idle
        BY <2>2 DEF Idle
      <3>. QED
        BY <3>1, OwnNotes DEF AInv, NotesHold
    <2>4. rows[job[w].email].state # "disabled"
      <3>1. rows[job[w].email] = NoRow \/ UserOf(job[w].email) = rows[job[w].email]
        BY DEF UserOf
      <3>. QED
        BY <1>7, <3>1 DEF NoRow
    <2>5. NoteOnState(w)' /\ NoteOnLink(w)'
      BY <1>1, <2>1, <2>2, <2>3, <2>4 DEF NoteOnState, NoteOnLink
    <2>. QED
      BY <1>1, <2>2, <2>5 DEF NotesHold, NoteOnAdmins, NoteOnOthers, NotConfigured
  <1>. QED
    BY <1>4, <1>5, <1>6, <1>7 DEF CheckCreate, CheckPatch, Allow, Crash

LEMMA WritesNoted ==
    ASSUME AInv, NEW w \in Workers, Note(w),
           Insert(w) \/ WritePatch(w) \/ Credential(w) \/ SetPassword(w) \/ Promote(w)
    PROVE  /\ UNCHANGED <<env, links, spent>> /\ NotesHold(w)'
           /\ \A v \in Workers : v # w => job'[v] = job[v]
  <1>1. UNCHANGED <<env, links, spent>>
    BY DEF Insert, WritePatch, Credential, SetPassword, Promote
  <1>2. job[w] \in Job
    BY JobType DEF Insert, WritePatch, Credential, SetPassword, Promote, AInv, TInv
  <1>3. CASE Become(w, Idle)
    <2>1. job'[w].stage = "idle" /\ \A v \in Workers : v # w => job'[v] = job[v]
      BY <1>3, Became DEF AInv, TInv, Idle
    <2>. QED
      BY <1>1, <2>1, NothingToNote
  <1>4. CASE Insert(w) /\ Advance(w, "retire")
    <2>1. job'[w].stage = "retire" /\ \A v \in Workers : v # w => job'[v] = job[v]
      BY <1>2, <1>4, Advanced DEF AInv, TInv
    <2>. QED
      BY <1>1, <2>1, NothingToNote
  <1>5. CASE SetPassword(w) /\ Advance(w, "spend")
    <2>1. /\ job'[w].stage = "spend" /\ job'[w].link = job[w].link
          /\ \A v \in Workers : v # w => job'[v] = job[v]
      BY <1>2, <1>5, Advanced DEF AInv, TInv
    <2>2. NoteOnLink(w) /\ meanwhile'[w] = meanwhile[w]
      <3>1. job'[w] # Idle
        BY <2>1 DEF Idle
      <3>. QED
        BY <3>1, OwnNotes DEF AInv, NotesHold
    <2>3. NoteOnLink(w)'
      BY <1>1, <1>5, <2>1, <2>2 DEF NoteOnLink, SetPassword
    <2>. QED
      BY <1>1, <2>1, <2>3 DEF NotesHold, NoteOnAdmins, NoteOnState, NoteOnOthers, NotConfigured
  <1>. QED
    BY <1>3, <1>4, <1>5 DEF Insert, WritePatch, Credential, SetPassword, Promote

LEMMA LinksNoted ==
    ASSUME AInv, NEW w \in Workers, Note(w),
           Retire(w) \/ (\E l \in Links : Mint(w, l)) \/ Spend(w)
    PROVE  /\ UNCHANGED env /\ SpentAreUsed' /\ NotesHold(w)'
           /\ \A v \in Workers : v # w => job'[v] = job[v]
  <1>1. /\ UNCHANGED <<env, rows>> /\ job[w] \in Job
        /\ links \in [Links -> Link] /\ spent \in [Links -> Nat]
    BY JobType DEF Retire, Mint, Spend, AInv, TInv, TypeOK
  <1>2. \A l \in Links : spent[l] > 0 => links[l].status = "used"
    BY DEF AInv, SpentAreUsed
  <1>3. CASE Retire(w)
    <2>1. \A l \in Links :
              IF links[l].email = job[w].email /\ links[l].status \in {"live", "expired"}
              THEN links'[l] = [links[l] EXCEPT !.status = "used"]
              ELSE links'[l] = links[l]
      BY <1>3 DEF Retire
    <2>2. \A l \in Links :
              /\ links'[l].email = links[l].email
              /\ ~(links'[l].status = "live" /\ links[l].email = job[w].email)
              /\ links[l].status = "used" => links'[l].status = "used"
      <3> TAKE l \in Links
      <3>1. links[l] \in [status : {"unminted", "live", "expired", "used"}, email : People]
        BY <1>1 DEF Link
      <3>. QED
        BY <2>1, <3>1
    <2>3. /\ job'[w].stage = "mint" /\ job'[w].email = job[w].email
          /\ \A v \in Workers : v # w => job'[v] = job[v]
      BY <1>1, <1>3, Advanced DEF Retire, AInv, TInv
    <2>4. NoteOnOthers(w)'
      BY <2>2, <2>3 DEF NoteOnOthers
    <2>5. SpentAreUsed'
      BY <1>2, <1>3, <2>2 DEF Retire, SpentAreUsed
    <2>. QED
      BY <1>1, <2>3, <2>4, <2>5 DEF NotesHold, NoteOnAdmins, NoteOnState, NoteOnLink, NotConfigured
  <1>4. ASSUME NEW l \in Links, Mint(w, l)
        PROVE  SpentAreUsed' /\ NotesHold(w)' /\ \A v \in Workers : v # w => job'[v] = job[v]
    <2>1. job'[w].stage = "credential" /\ \A v \in Workers : v # w => job'[v] = job[v]
      BY <1>1, <1>4, Advanced DEF Mint, AInv, TInv
    <2>2. \A k \in Links : links[k].status = "used" => links'[k] = links[k]
      BY <1>1, <1>4 DEF Mint
    <2>3. SpentAreUsed'
      BY <1>2, <1>4, <2>2 DEF Mint, SpentAreUsed
    <2>. QED
      BY <2>1, <2>3, NothingToNote
  <1>5. CASE Spend(w)
    <2>1. job'[w].stage = "idle" /\ \A v \in Workers : v # w => job'[v] = job[v]
      BY <1>5, Became DEF Spend, AInv, TInv, Idle
    <2>2. \A k \in Links : /\ links[k].status = "used" => links'[k].status = "used"
                           /\ k = job[w].link => links'[k].status = "used"
                           /\ k # job[w].link => spent'[k] = spent[k]
      <3> TAKE k \in Links
      <3>1. links[k] \in [status : {"unminted", "live", "expired", "used"}, email : People]
        BY <1>1 DEF Link
      <3>. QED
        BY <1>1, <1>5, <3>1 DEF Spend
    <2>3. SpentAreUsed'
      BY <1>2, <2>2 DEF SpentAreUsed
    <2>. QED
      BY <1>1, <2>1, <2>3, NothingToNote
  <1>. QED
    BY <1>1, <1>3, <1>4, <1>5

\* Time passes for a link, whoever is in the middle of what.
LEMMA ExpireNoted ==
    ASSUME AInv, TInv', NEW l \in Links, Expire(l), UNCHANGED meanwhile
    PROVE  AInv'
  <1>1. UNCHANGED <<env, rows, job, spent, meanwhile>>
    BY DEF Expire
  <1>2. \A e \in People : UserOf(e)' = UserOf(e)
    BY <1>1 DEF UserOf
  <1>3. \A k \in Links :
            /\ links'[k].email = links[k].email
            /\ k # l => links'[k] = links[k]
            /\ k = l => links[k].status = "live" /\ links'[k].status = "expired"
    <2> TAKE k \in Links
    <2>1. links[k] \in [status : {"unminted", "live", "expired", "used"}, email : People]
      BY DEF AInv, TInv, TypeOK, Link
    <2>. QED
      BY <2>1 DEF Expire, AInv, TInv, TypeOK
  <1>4. SpentAreUsed'
    BY <1>1, <1>3 DEF AInv, SpentAreUsed
  <1>5. ASSUME NEW w \in Workers PROVE NotesHold(w)'
    <2>1. NotesHold(w) /\ (job[w].stage # "idle" => job[w].email \in People)
      BY JobType DEF AInv, TInv, Job
    <2>2. NoteOnAdmins(w)'
      BY <1>1, <1>2, <2>1 DEF NotesHold, NoteOnAdmins, WouldOrphanAdmins
    <2>3. NoteOnLink(w)'
      BY <1>1, <1>3, <2>1 DEF NotesHold, NoteOnLink
    <2>4. NoteOnOthers(w)'
      BY <1>1, <1>3, <2>1 DEF NotesHold, NoteOnOthers
    <2>5. NoteOnState(w)' /\ NotConfigured(w)'
      BY <1>1, <2>1 DEF NotesHold, NoteOnState, NotConfigured
    <2>. QED
      BY <2>2, <2>3, <2>4, <2>5 DEF NotesHold
  <1>. QED
    BY <1>4, <1>5 DEF AInv

LEMMA NextAInv == AInv /\ [Next]_vars => AInv'
  <1> SUFFICES ASSUME AInv, [Next]_vars PROVE AInv'
    OBVIOUS
  <1>1. TInv'
    BY NextTInv DEF AInv
  <1>2. ASSUME NEW w \in Workers, Step(w), Note(w) PROVE AInv'
    <2>1. /\ UNCHANGED env /\ SpentAreUsed' /\ NotesHold(w)'
          /\ \A v \in Workers : v # w => job'[v] = job[v]
      BY <1>2, UsedStays, BeginNoted, ChecksNoted, WritesNoted, LinksNoted DEF Step
    <2>2. \A v \in Workers : v # w => NotesHold(v)'
      BY <1>2, <2>1, OthersNoted
    <2>. QED
      BY <1>1, <2>1, <2>2 DEF AInv
  <1>3. CASE UNCHANGED vars
    <2>1. UNCHANGED <<env, rows, links, job, spent, meanwhile>>
      BY <1>3 DEF vars
    <2>2. \A e \in People : UserOf(e)' = UserOf(e)
      BY <2>1 DEF UserOf
    <2>3. ASSUME NEW w \in Workers PROVE NotesHold(w)'
      <3>1. NotesHold(w) /\ (job[w].stage # "idle" => job[w].email \in People)
        BY JobType DEF AInv, TInv, Job
      <3>2. NoteOnAdmins(w)'
        BY <2>1, <2>2, <3>1 DEF NotesHold, NoteOnAdmins, WouldOrphanAdmins
      <3>3. NoteOnLink(w)' /\ NoteOnOthers(w)' /\ NoteOnState(w)' /\ NotConfigured(w)'
        BY <2>1, <3>1 DEF NotesHold, NoteOnLink, NoteOnOthers, NoteOnState, NotConfigured
      <3>. QED
        BY <3>2, <3>3 DEF NotesHold
    <2>4. SpentAreUsed'
      BY <2>1 DEF AInv, SpentAreUsed
    <2>. QED
      BY <1>1, <2>3, <2>4 DEF AInv
  <1>. QED
    BY <1>1, <1>2, <1>3, ExpireNoted DEF Next

\* However many requests overlap, what one of them checked still holds when it writes, or
\* an account or a link it is about was changed by another in its course.
THEOREM OverlapsNoted == Spec => []AInv
  BY InitAInv, NextAInv, PTL DEF Spec

-----------------------------------------------------------------------------
(* What follows. *)

\* The steps that write accounts.
LEMMA WhoWrites ==
    ASSUME NEW w \in Workers, Step(w), ~UNCHANGED rows
    PROVE  Insert(w) \/ WritePatch(w) \/ Credential(w) \/ SetPassword(w) \/ Promote(w)
  BY DEF Step, Ask, Begin, Follow, SignIn, CheckCreate, CheckPatch, Retire, Mint,
         Allow, Spend, Crash

\* An account that becomes active, or keeps its state, is no loss.
LEMMA AdminsKept ==
    ASSUME TInv, SomebodyAdministers, NEW e \in People, NEW r \in Row,
           rows' = [rows EXCEPT ![e] = r], UNCHANGED env,
           \/ UserOf(e) = NoRow
           \/ /\ rows[e] # NoRow /\ r.role = rows[e].role
              /\ r.state = rows[e].state \/ r.state # "disabled"
    PROVE  SomebodyAdministers'
  <1>1. PICK a \in People : UserOf(a).role = "admin" /\ UserOf(a).state # "disabled"
    BY DEF SomebodyAdministers
  <1>2. \A u \in People : UserOf(u)' = (IF u = e THEN r ELSE UserOf(u))
    BY RowWritten DEF TInv
  <1>3. CASE a # e
    BY <1>1, <1>2, <1>3 DEF SomebodyAdministers
  <1>4. CASE a = e
    <2>1. UserOf(e) # NoRow
      BY <1>1, <1>4 DEF NoRow
    <2>2. UserOf(e) = rows[e]
      BY <2>1 DEF UserOf
    <2>3. UserOf(e)'.role = "admin" /\ UserOf(e)'.state # "disabled"
      BY <1>1, <1>2, <1>4, <2>1, <2>2
    <2>. QED
      BY <2>3 DEF SomebodyAdministers
  <1>. QED
    BY <1>3, <1>4

LEMMA StepKeepsAdmins ==
    ASSUME AInv, SomebodyAdministers, NEW w \in Workers, Step(w),
           ~(job[w].stage = "write" /\ meanwhile[w] \cap People # {})
    PROVE  SomebodyAdministers'
  <1>1. UNCHANGED env /\ TInv /\ NotesHold(w)
    BY DEF AInv, Step, Ask, Begin, Follow, SignIn, CheckCreate, CheckPatch, Retire, Mint, Allow,
           Spend, Crash, Insert, WritePatch, Credential, SetPassword, Promote
  <1>2. CASE UNCHANGED rows
    BY <1>1, <1>2 DEF SomebodyAdministers, UserOf
  <1>3. CASE ~UNCHANGED rows /\ Insert(w)
    <2> DEFINE e == job[w].email
               r == [role |-> job[w].role, state |-> "invited", password |-> FALSE]
    <2>1. /\ e \in People /\ r \in Row
          /\ rows[e] = NoRow /\ rows' = [rows EXCEPT ![e] = r]
      BY <1>1, <1>3, InsertWritten
    <2>2. UserOf(e) = NoRow
      BY <1>1, <1>3, <2>1 DEF NotesHold, NotConfigured, Insert, UserOf
    <2>. HIDE DEF r, e
    <2>. QED
      BY <1>1, <2>1, <2>2, AdminsKept
  <1>4. CASE WritePatch(w)
    <2> DEFINE j == job[w]
    <2>0. j \in Job /\ j.email \in People /\ rows[j.email] # NoRow
      BY <1>1, <1>4, PatchWritten
    <2>1. PICK r \in Row :
              /\ rows' = [rows EXCEPT ![j.email] = r]
              /\ r.role = (IF j.role = "" THEN rows[j.email].role ELSE j.role)
              /\ r.state = (IF j.state = "" THEN rows[j.email].state ELSE j.state)
      BY <1>1, <1>4, PatchWritten
    <2>2. ~WouldOrphanAdmins(j.email, j.role, j.state)
      BY <1>1, <1>4 DEF WritePatch, NotesHold, NoteOnAdmins
    <2>3. PICK u \in People :
              /\ (IF u = j.email /\ j.role # "" THEN j.role ELSE UserOf(u).role) = "admin"
              /\ (IF u = j.email /\ j.state # "" THEN j.state ELSE UserOf(u).state) # "disabled"
      BY <2>2 DEF WouldOrphanAdmins
    <2>4. \A x \in People : UserOf(x)' = (IF x = j.email THEN r ELSE UserOf(x))
      BY <1>1, <2>0, <2>1, RowWritten DEF TInv
    <2>5. UserOf(j.email) = rows[j.email]
      BY <2>0 DEF UserOf
    <2>6. UserOf(u)'.role = "admin" /\ UserOf(u)'.state # "disabled"
      BY <2>0, <2>1, <2>3, <2>4, <2>5
    <2>. QED
      BY <2>6 DEF SomebodyAdministers
  <1>5. CASE ~UNCHANGED rows /\ (Credential(w) \/ SetPassword(w) \/ Promote(w))
    <2> DEFINE e == job[w].email
    <2>1. e \in People
      BY <1>1, <1>5, ActivationWritten
    <2>2. PICK r \in Row : /\ rows[e] # NoRow /\ rows' = [rows EXCEPT ![e] = r]
                           /\ r.role = rows[e].role
                           /\ r.state = rows[e].state \/ r.state # "disabled"
      BY <1>1, <1>5, ActivationWritten
    <2>. QED
      BY <1>1, <2>1, <2>2, AdminsKept
  <1>. QED
    BY <1>2, <1>3, <1>4, <1>5, WhoWrites

LastAdminNoted ==
    (SomebodyAdministers /\ ~SomebodyAdministers') =>
        \E w \in Workers : job[w].stage = "write" /\ meanwhile[w] \cap People # {}

\* However many requests overlap, the last admin goes only where two of them do
\* (wouldOrphanAdmins, which updateUser asks before it writes).
THEOREM LastAdminKept == Spec => LastAdminStays
  <1>1. AInv /\ [Next]_vars => [LastAdminNoted]_vars
    <2> SUFFICES ASSUME AInv, Next PROVE LastAdminNoted \/ UNCHANGED vars
      OBVIOUS
    <2>1. ASSUME NEW l \in Links, Expire(l) PROVE LastAdminNoted
      BY <2>1 DEF Expire, LastAdminNoted, SomebodyAdministers, UserOf
    <2>2. ASSUME NEW w \in Workers, Step(w) PROVE LastAdminNoted
      BY <2>2, StepKeepsAdmins DEF LastAdminNoted
    <2>. QED
      BY <2>1, <2>2 DEF Next
  <1>2. Spec => [][LastAdminNoted]_vars
    BY <1>1, InitAInv, NextAInv, PTL DEF Spec
  <1>. QED
    BY <1>2 DEF LastAdminStays, LastAdminNoted

AcceptedAgain ==
    \A l \in Links : (spent[l] > 0 /\ spent'[l] # spent[l]) =>
        \E w \in Workers : job[w].stage = "spend" /\ job[w].link = l /\ l \in meanwhile[w]

SecondWorks ==
    \A k, l \in Links :
        (/\ links[k].status = "live" /\ links[l].status # "live"
         /\ links'[l] = links[k]) =>
        \E w \in Workers : /\ job[w].stage = "mint" /\ job[w].email = links[k].email
                           /\ k \in meanwhile[w]

LEMMA StepAccepts ==
    ASSUME AInv, NEW w \in Workers, Step(w)
    PROVE  AcceptedAgain
  <1> SUFFICES ASSUME NEW l \in Links, spent[l] > 0, spent'[l] # spent[l]
               PROVE  job[w].stage = "spend" /\ job[w].link = l /\ l \in meanwhile[w]
    BY DEF AcceptedAgain
  <1>1. Spend(w)
    BY DEF Step, Ask, Begin, Follow, SignIn, CheckCreate, CheckPatch, Retire, Mint, Allow, Crash,
           Insert, WritePatch, Credential, SetPassword, Promote
  <1>2. job[w].stage = "spend" /\ job[w].link = l
    BY <1>1 DEF Spend, AInv, TInv, TypeOK
  <1>3. links[l].status = "used" /\ NoteOnLink(w)
    BY DEF AInv, SpentAreUsed, NotesHold
  <1>. QED
    BY <1>2, <1>3 DEF NoteOnLink

LEMMA StepWorks ==
    ASSUME AInv, NEW w \in Workers, Step(w)
    PROVE  SecondWorks
  <1> SUFFICES ASSUME NEW k \in Links, NEW l \in Links, links[k].status = "live",
                      links[l].status # "live", links'[l] = links[k]
               PROVE  /\ job[w].stage = "mint" /\ job[w].email = links[k].email
                      /\ k \in meanwhile[w]
    BY DEF SecondWorks
  <1>1. links \in [Links -> Link] /\ links'[l] # links[l]
    BY DEF AInv, TInv, TypeOK
  <1>2. ~Retire(w) /\ ~Spend(w)
    <2>1. links[l] \in [status : {"unminted", "live", "expired", "used"}, email : People]
      BY <1>1 DEF Link
    <2>2. [links[l] EXCEPT !.status = "used"].status = "used"
      BY <2>1
    <2>3. Retire(w) \/ Spend(w) =>
              links'[l] = links[l] \/ links'[l] = [links[l] EXCEPT !.status = "used"]
      BY <1>1 DEF Retire, Spend
    <2>. QED
      BY <1>1, <2>2, <2>3
  <1>3. PICK m \in Links : Mint(w, m)
    BY <1>1, <1>2 DEF Step, Ask, Begin, Follow, SignIn, CheckCreate, CheckPatch, Allow, Crash,
           Insert, WritePatch, Credential, SetPassword, Promote
  <1>4. m = l
    BY <1>1, <1>3 DEF Mint
  <1>5. links'[l] = [status |-> "live", email |-> job[w].email]
    BY <1>1, <1>3, <1>4 DEF Mint
  <1>6. job[w].stage = "mint" /\ job[w].email = links[k].email
    BY <1>3, <1>5 DEF Mint
  <1>7. NoteOnOthers(w)
    BY DEF AInv, NotesHold
  <1>. QED
    BY <1>6, <1>7 DEF NoteOnOthers

\* However many requests overlap, a link sets a password once and is the only one of its
\* person that works, but for what another request did to it meanwhile (useToken,
\* revokeTokens).
THEOREM LinksAreKept == Spec => LinksHold
  <1>1. AInv /\ [Next]_vars => [AcceptedAgain]_vars /\ [SecondWorks]_vars
    <2> SUFFICES ASSUME AInv, Next PROVE AcceptedAgain /\ SecondWorks
      BY DEF vars, AcceptedAgain, SecondWorks
    <2>1. ASSUME NEW l \in Links, Expire(l) PROVE AcceptedAgain /\ SecondWorks
      <3>1. AcceptedAgain
        BY <2>1 DEF Expire, AcceptedAgain
      <3>2. \A k \in Links : k # l => links'[k] = links[k]
        BY <2>1 DEF Expire, AInv, TInv, TypeOK
      <3>3. links[l].status = "live"
        BY <2>1 DEF Expire
      <3>. QED
        BY <3>1, <3>2, <3>3 DEF SecondWorks
    <2>2. ASSUME NEW w \in Workers, Step(w) PROVE AcceptedAgain /\ SecondWorks
      BY <2>2, StepAccepts, StepWorks
    <2>. QED
      BY <2>1, <2>2 DEF Next
  <1>2. Spec => [][AcceptedAgain]_vars /\ [][SecondWorks]_vars
    BY <1>1, InitAInv, NextAInv, PTL DEF Spec
  <1>. QED
    BY <1>2 DEF LinksHold, AcceptedOnce, OneWorks, AcceptedAgain, SecondWorks

RestoredByAdministrator ==
    \A e \in People :
        (rows[e].state = "disabled" /\ rows'[e].state # "disabled") =>
            \E w \in Workers :
                /\ job[w].stage \in {"write", "allowed", "promote"} /\ job[w].email = e
                /\ IF job[w].stage = "write" THEN job[w].state = "active"
                                             ELSE e \in meanwhile[w]

LEMMA StepRestores ==
    ASSUME AInv, NEW w \in Workers, Step(w)
    PROVE  RestoredByAdministrator
  <1> SUFFICES ASSUME NEW e \in People, rows[e].state = "disabled",
                      rows'[e].state # "disabled"
               PROVE  /\ job[w].stage \in {"write", "allowed", "promote"} /\ job[w].email = e
                      /\ IF job[w].stage = "write" THEN job[w].state = "active"
                                                   ELSE e \in meanwhile[w]
    BY DEF RestoredByAdministrator
  <1>1. /\ rows \in [People -> Row \cup {NoRow}]
        /\ rows[e] # NoRow
    BY DEF AInv, TInv, TypeOK, NoRow
  <1>2. NoteOnState(w)
    BY DEF AInv, NotesHold
  <1>3. ~UNCHANGED rows
    OBVIOUS
  <1>4. Insert(w) \/ WritePatch(w) \/ Credential(w) \/ SetPassword(w) \/ Promote(w)
    BY <1>3, WhoWrites
  <1>5. ~Insert(w)
    <2>1. Insert(w) => rows[job[w].email] = NoRow
      BY <1>3 DEF Insert
    <2>2. Insert(w) => \E r : rows' = [rows EXCEPT ![job[w].email] = r]
      BY <1>3 DEF Insert
    <2>. QED
      BY <1>1, <2>1, <2>2
  <1>6. CASE Credential(w) \/ SetPassword(w) \/ Promote(w)
    <2>1. PICK r \in Row : /\ rows' = [rows EXCEPT ![job[w].email] = r]
                           /\ Credential(w) => r.state = rows[job[w].email].state
      BY <1>3, <1>6, ActivationWritten DEF AInv
    <2>2. e = job[w].email
      BY <1>1, <2>1
    <2>3. ~Credential(w)
      BY <1>1, <2>1, <2>2
    <2>4. job[w].stage \in {"allowed", "promote"}
      BY <1>6, <2>3 DEF SetPassword, Promote
    <2>. QED
      BY <1>2, <2>2, <2>4 DEF NoteOnState
  <1>7. CASE WritePatch(w)
    <2>1. /\ job[w] \in Job /\ job[w].stage = "write"
      BY <1>7, PatchWritten DEF WritePatch, AInv
    <2>2. PICK r \in Row :
              /\ rows' = [rows EXCEPT ![job[w].email] = r]
              /\ r.state = (IF job[w].state = "" THEN rows[job[w].email].state
                            ELSE job[w].state)
      BY <1>7, PatchWritten DEF AInv
    <2>3. e = job[w].email
      BY <1>1, <2>2
    <2>4. rows'[e] = r
      BY <1>1, <2>2, <2>3
    <2>5. job[w].state \in {"active", "disabled", ""}
      BY <2>1 DEF Job
    <2>. QED
      BY <2>1, <2>2, <2>3, <2>4, <2>5
  <1>. QED
    BY <1>4, <1>5, <1>6, <1>7

\* However many requests overlap, only a request of an administrator that says so gives a
\* disabled account back, but for a link or a sign-in in whose course it was disabled.
THEOREM OnlyAdministratorsRestore == Spec => DisabledStaysDisabled
  <1>1. AInv /\ [Next]_vars => [RestoredByAdministrator]_vars
    <2> SUFFICES ASSUME AInv, Next PROVE RestoredByAdministrator \/ UNCHANGED vars
      OBVIOUS
    <2>1. ASSUME NEW l \in Links, Expire(l) PROVE RestoredByAdministrator
      BY <2>1 DEF Expire, RestoredByAdministrator
    <2>. QED
      BY <2>1, StepRestores DEF Next
  <1>2. Spec => [][RestoredByAdministrator]_vars
    BY <1>1, InitAInv, NextAInv, PTL DEF Spec
  <1>. QED
    BY <1>2 DEF DisabledStaysDisabled, RestoredByAdministrator

-----------------------------------------------------------------------------
(* One request at a time. *)

Serial == \A v, w \in Workers : v = w

NothingMeanwhile == AInv /\ SomebodyAdministers /\ \A w \in Workers : meanwhile[w] = {}

\* Where requests come one at a time there is always somebody who can administer the
\* system (wouldOrphanAdmins).
THEOREM KeepsAnAdministrator == ASSUME Serial PROVE Spec => []SomebodyAdministers
  <1>1. Init => NothingMeanwhile
    <2> SUFFICES ASSUME Init PROVE NothingMeanwhile
      OBVIOUS
    <2>1. PICK founders \in SUBSET Founders :
              /\ founders \cup env # {}
              /\ rows = [e \in People |-> IF e \in founders THEN Bootstrap ELSE NoRow]
      BY DEF Init
    <2>2. PICK e \in founders \cup env : TRUE
      BY <2>1
    <2>3. e \in People
      BY <2>2, PeopleAssumption DEF Init
    <2>4. UserOf(e) = Bootstrap
      BY <2>1, <2>2, <2>3 DEF UserOf, Bootstrap, NoRow
    <2>5. Bootstrap.role = "admin" /\ Bootstrap.state # "disabled"
      BY DEF Bootstrap
    <2>6. SomebodyAdministers
      BY <2>3, <2>4, <2>5 DEF SomebodyAdministers
    <2>7. \A w \in Workers : meanwhile[w] = {}
      BY DEF Init
    <2>. QED
      BY <2>6, <2>7, InitAInv DEF NothingMeanwhile
  <1>2. NothingMeanwhile /\ [Next]_vars => NothingMeanwhile'
    <2> SUFFICES ASSUME NothingMeanwhile, [Next]_vars PROVE NothingMeanwhile'
      OBVIOUS
    <2>1. AInv'
      BY NextAInv DEF NothingMeanwhile
    <2>2. ASSUME NEW w \in Workers, Step(w), Note(w) PROVE NothingMeanwhile'
      <3>1. \A v \in Workers : meanwhile'[v] = {}
        BY <2>2 DEF Note, Serial, NothingMeanwhile
      <3>2. SomebodyAdministers'
        BY <2>2, StepKeepsAdmins DEF NothingMeanwhile
      <3>. QED
        BY <2>1, <3>1, <3>2 DEF NothingMeanwhile
    <2>3. ASSUME UNCHANGED <<env, rows, meanwhile>> PROVE NothingMeanwhile'
      BY <2>1, <2>3 DEF NothingMeanwhile, SomebodyAdministers, UserOf
    <2>. QED
      BY <2>2, <2>3 DEF Next, Expire, vars
  <1>. QED
    BY <1>1, <1>2, PTL DEF Spec, NothingMeanwhile

-----------------------------------------------------------------------------
(* Margins: the costs of a job while its scope moves. *)

Chapter == [id : Nat, lines : UNION {[S -> Int] : S \in SUBSET (1..MaxItems)}]
Scope == [chapters : Seq(Chapter), of : Nat, built : SUBSET (1..MaxItems),
          answered : BOOLEAN, superseded : BOOLEAN]
AnnexRow == [version : Nat, cents : Int, applied : BOOLEAN]
CostRow == [line : Nat, chapter : Nat, cents : Int]

LinesOf(c) == UNION {DOMAIN c[n].lines : n \in DOMAIN c}
Apart(c) ==
    \A n, m \in DOMAIN c : n # m => DOMAIN c[n].lines \cap DOMAIN c[m].lines = {}
\* The chapters of w are still there in c, in their places, with their lines.
Grown(w, c) ==
    /\ Len(w) <= Len(c)
    /\ \A n \in 1..Len(w) : DOMAIN w[n].lines \subseteq DOMAIN c[n].lines
WholeScope(c, top) == Apart(c) /\ LinesOf(c) \subseteq 1..top

\* The version in force when the first k annexes of a are.
Reached(a, k) == IF k = 0 THEN 1 ELSE a[k].version
OpenScope(s) == ~s.answered /\ ~s.superseded

SizesTyped == /\ scopes \in Seq(Scope) /\ items \in 1..MaxItems /\ moves \in 0..MaxMoves
              /\ annexes \in Seq(AnnexRow) /\ costs \in Seq(CostRow)
              /\ underContract \in BOOLEAN /\ removed \in BOOLEAN
ScopesWhole ==
    \A v \in DOMAIN scopes : /\ WholeScope(scopes[v].chapters, items)
                             /\ scopes[v].built \subseteq LinesOf(scopes[v].chapters)
Lineage ==
    \A v \in DOMAIN scopes :
        IF v = 1 THEN scopes[v].of = 0 /\ scopes[v].answered
        ELSE /\ scopes[v].of \in 1..v - 1 /\ scopes[scopes[v].of].answered
             /\ Grown(ChaptersIn(scopes[v].of), ChaptersIn(v))
             /\ OpenScope(scopes[v]) => scopes[v].of = agreed
\* What chapters are sold for.
WorthOf(c) == Sale * SumOn([n \in DOMAIN c |-> UnitsOf(c[n])], DOMAIN c)

ScopeStanding ==
    IF scopes = <<>> THEN agreed = 0 /\ inForce = 0 /\ ~underContract
    ELSE /\ agreed \in DOMAIN scopes /\ scopes[agreed].answered
         /\ inForce \in DOMAIN scopes /\ scopes[inForce].answered
\* An annex continues from the one before, and its price is what it adds.
RowSound(s, a, k) ==
    LET v == a[k].version
    IN /\ v \in DOMAIN s /\ v # 1 /\ s[v].answered /\ s[v].of = Reached(a, k - 1)
       /\ a[k].cents = WorthOf(s[v].chapters) - WorthOf(s[s[v].of].chapters)
ChainRows == \A k \in DOMAIN annexes : RowSound(scopes, annexes, k)
\* The annexes in force are the first ones.
AsFarAs(a, v) ==
    \E m \in 0..Len(a) : v = Reached(a, m) /\ \A k \in DOMAIN a : a[k].applied <=> k <= m
ChainEnds ==
    /\ underContract => /\ ~removed => agreed = Reached(annexes, Len(annexes))
                        /\ AsFarAs(annexes, inForce)
    /\ ~underContract => annexes = <<>> /\ agreed = inForce
SignedSet(a) == {k \in DOMAIN a : a[k].applied}
SignedSum(a) == SumOn([k \in SignedSet(a) |-> a[k].cents], SignedSet(a))
BuiltInv ==
    underContract =>
        WorthOf(scopes[inForce].chapters) = WorthOf(scopes[1].chapters) + SignedSum(annexes)
CostsPlaced ==
    \A i \in DOMAIN costs :
        IF Quick THEN costs[i].line = 0 /\ costs[i].chapter \in {0, 1}
        ELSE /\ costs[i].chapter \in InScope
             /\ costs[i].line \in DOMAIN ChaptersIn(inForce)[costs[i].chapter].lines

MInv == SizesTyped /\ ScopesWhole /\ Lineage /\ ScopeStanding
        /\ ChainRows /\ ChainEnds /\ CostsPlaced /\ BuiltInv

-----------------------------------------------------------------------------
CostCents == [i \in DOMAIN costs |-> costs[i].cents]

\* The cost of a set of rows, and what the rows of one chapter are.
LEMMA CostOfIs ==
    ASSUME SizesTyped, NEW S \in SUBSET DOMAIN costs
    PROVE  /\ IsFiniteSet(S) /\ CostOf(S) = SumOn(CostCents, S) /\ CostOf(S) \in Int
           /\ \A i \in S : CostCents[i] \in Int
  <1>0. costs \in Seq(CostRow)
    BY DEF SizesTyped
  <1>1. DOMAIN costs = 1..Len(costs) /\ Len(costs) \in Nat
        /\ \A i \in DOMAIN costs : costs[i] \in CostRow
    BY <1>0
  <1>2. IsFiniteSet(S)
    <2>1. IsFiniteSet(1..Len(costs))
      BY <1>1, FS_Interval
    <2> QED BY <1>1, <2>1, FS_Subset
  <1>3. \A i \in S : CostCents[i] \in Int /\ CostCents[i] = costs[i].cents
    BY <1>1 DEF CostCents, CostRow
  <1>4. SumOn(CostCents, S) = SumOn([i \in S |-> costs[i].cents], S)
    <2> DEFINE g == [i \in S |-> costs[i].cents]
    <2>1. \A i \in S : CostCents[i] \in Int /\ CostCents[i] = g[i]
      BY <1>3
    <2> HIDE DEF g
    <2>2. SumOn(CostCents, S) = SumOn(g, S)
      BY <1>2, <2>1, SumAlike
    <2> QED BY <2>2 DEF g
  <1>5. SumOn(CostCents, S) \in Int
    BY <1>2, <1>3, SumIsInt
  <1> QED BY <1>2, <1>3, <1>4, <1>5 DEF CostOf

\* The chapters of a version are positions of a sequence.
\* The version in force: its chapters, and the lines of each.
LEMMA ScopeIs ==
    ASSUME SizesTyped, NEW v \in DOMAIN scopes
    PROVE  /\ scopes[v] \in Scope /\ ChaptersIn(v) = scopes[v].chapters
           /\ ChaptersIn(v) \in Seq(Chapter) /\ v \in Nat \ {0} /\ v \in 1..Len(scopes)
           /\ DOMAIN ChaptersIn(v) = 1..Len(ChaptersIn(v)) /\ Len(ChaptersIn(v)) \in Nat
           /\ \A n \in DOMAIN ChaptersIn(v) :
                 /\ ChaptersIn(v)[n] \in Chapter
                 /\ DOMAIN ChaptersIn(v)[n].lines \subseteq 1..MaxItems
  <1>1. /\ scopes[v] \in Scope /\ ChaptersIn(v) = scopes[v].chapters
        /\ v \in Nat \ {0} /\ v \in 1..Len(scopes)
    BY DEF SizesTyped, ChaptersIn
  <1>2. ChaptersIn(v) \in Seq(Chapter)
    BY <1>1 DEF Scope
  <1>3. DOMAIN ChaptersIn(v) = 1..Len(ChaptersIn(v)) /\ Len(ChaptersIn(v)) \in Nat
        /\ \A n \in DOMAIN ChaptersIn(v) : ChaptersIn(v)[n] \in Chapter
    BY <1>2
  <1>4. \A c \in Chapter : DOMAIN c.lines \subseteq 1..MaxItems
    BY DEF Chapter
  <1> QED BY <1>1, <1>2, <1>3, <1>4

\* The chapters of the table are finitely many, and every cost is on one or waits.
LEMMA TableIs ==
    ASSUME MInv
    PROVE  /\ IsFiniteSet(InTable) /\ 0 \notin InTable
           /\ \A i \in DOMAIN costs : costs[i].chapter \in InTable \cup {0}
           /\ \A n \in InTable : /\ IsFiniteSet(LineRows(n)) /\ 0 \notin LineRows(n)
                                 /\ \A i \in OnChapter(n) : costs[i].line \in LineRows(n) \cup {0}
  <1>1. CASE scopes = <<>>
    <2>1. inForce = 0
      BY <1>1 DEF MInv, ScopeStanding
    <2>2. InTable = {1} /\ \A n \in InTable : LineRows(n) = {}
      BY <2>1 DEF InTable, Baseline, InScope, Quick, LineRows
    <2>3. \A i \in DOMAIN costs : costs[i].line = 0 /\ costs[i].chapter \in {0, 1}
      BY <2>1 DEF MInv, CostsPlaced, Quick
    <2>4. IsFiniteSet({1}) /\ IsFiniteSet({})
      BY FS_Singleton, FS_EmptySet
    <2> QED BY <2>2, <2>3, <2>4 DEF OnChapter
  <1>2. CASE scopes # <<>>
    <2>1. inForce \in DOMAIN scopes /\ 1 \in DOMAIN scopes /\ SizesTyped
      BY <1>2 DEF MInv, ScopeStanding, SizesTyped
    <2>2. inForce # 0 /\ DOMAIN ChaptersIn(1) = 1..Len(ChaptersIn(1))
          /\ DOMAIN ChaptersIn(inForce) = 1..Len(ChaptersIn(inForce))
          /\ Len(ChaptersIn(1)) \in Nat /\ Len(ChaptersIn(inForce)) \in Nat
          /\ \A n \in DOMAIN ChaptersIn(inForce) : DOMAIN ChaptersIn(inForce)[n].lines \subseteq 1..MaxItems
      BY <2>1, ScopeIs
    <2>3. InTable = DOMAIN ChaptersIn(1) \cup DOMAIN ChaptersIn(inForce) /\ InScope = DOMAIN ChaptersIn(inForce)
      BY <2>2 DEF InTable, Baseline, InScope, Quick
    <2>4. IsFiniteSet(InTable) /\ 0 \notin InTable
      <3>1. IsFiniteSet(1..Len(ChaptersIn(1))) /\ IsFiniteSet(1..Len(ChaptersIn(inForce)))
        BY <2>2, FS_Interval
      <3>2. IsFiniteSet(InTable)
        BY <2>2, <2>3, <3>1, FS_Union
      <3> QED BY <2>2, <2>3, <3>2
    <2>5. \A i \in DOMAIN costs : /\ costs[i].chapter \in InScope
                                  /\ costs[i].line \in DOMAIN ChaptersIn(inForce)[costs[i].chapter].lines
      BY <2>2 DEF MInv, CostsPlaced, Quick
    <2>6. ASSUME NEW n \in InTable
          PROVE  /\ IsFiniteSet(LineRows(n)) /\ 0 \notin LineRows(n)
                 /\ \A i \in OnChapter(n) : costs[i].line \in LineRows(n) \cup {0}
      <3>1. LineRows(n) \subseteq 1..MaxItems
        BY <2>2, <2>3 DEF LineRows
      <3>2. IsFiniteSet(LineRows(n)) /\ 0 \notin LineRows(n)
        <4>1. IsFiniteSet(1..MaxItems)
          BY FS_Interval, MarginAmounts
        <4>2. IsFiniteSet(LineRows(n))
          BY <3>1, <4>1, FS_Subset
        <4>3. 0 \notin 1..MaxItems
          BY MarginAmounts
        <4> QED BY <3>1, <4>2, <4>3
      <3>3. ASSUME NEW i \in OnChapter(n) PROVE costs[i].line \in LineRows(n)
        BY <2>5 DEF OnChapter, LineRows
      <3> QED BY <3>2, <3>3
    <2> QED BY <2>3, <2>4, <2>5, <2>6
  <1> QED BY <1>1, <1>2

\* The table adds up to the cost of the job.
LEMMA TableAddsUp == ASSUME MInv PROVE TableFoots
  <1> DEFINE S == DOMAIN costs
             g == [i \in S |-> costs[i].chapter]
             h == [n \in InTable \cup {0} |-> CostOf(OnChapter(n))]
             k == [n \in InTable |-> CostOf(OnChapter(n))]
  <1>0. SizesTyped
    BY DEF MInv
  <1>1. \A n : OnChapter(n) \in SUBSET S /\ OnChapter(n) = {i \in S : g[i] = n}
    BY DEF OnChapter
  <1>2. IsFiniteSet(S) /\ \A i \in S : CostCents[i] \in Int
    BY <1>0, CostOfIs
  <1>3. \A n : CostOf(OnChapter(n)) \in Int /\ CostOf(OnChapter(n)) = SumOn(CostCents, {i \in S : g[i] = n})
    <2>1. TAKE n
    <2>2. OnChapter(n) \in SUBSET DOMAIN costs
      BY DEF OnChapter
    <2>3. CostOf(OnChapter(n)) \in Int /\ CostOf(OnChapter(n)) = SumOn(CostCents, OnChapter(n))
      BY <1>0, <2>2, CostOfIs
    <2> QED BY <1>1, <2>3
  <1>4. IsFiniteSet(InTable) /\ 0 \notin InTable /\ \A i \in S : g[i] \in InTable \cup {0}
    BY TableIs
  <1>5. IsFiniteSet(InTable \cup {0})
    BY <1>4, FS_AddElement
  <1>6. \A n \in InTable \cup {0} : h[n] \in Int /\ h[n] = SumOn(CostCents, {i \in S : g[i] = n})
    BY <1>3
  <1>7. \A n \in InTable : h[n] \in Int /\ h[n] = k[n]
    BY <1>3
  <1>8. h[0] = CostOf(Unassigned) /\ h[0] \in Int
    BY <1>3 DEF Unassigned, OnChapter
  <1>9. CostOf(S) = SumOn(CostCents, S)
    BY <1>0, CostOfIs
  <1> HIDE DEF S, g, h, k
  <1>10. SumOn(h, InTable \cup {0}) = SumOn(CostCents, S)
    <2>1. Parted(h, InTable \cup {0}, g, CostCents, S)
      BY <1>2, <1>4, <1>5, <1>6 DEF Parted
    <2> QED BY <2>1, SumByPart
  <1>11. SumOn(h, InTable \cup {0}) = h[0] + SumOn(h, InTable)
    BY <1>4, <1>6, SumWith
  <1>12. SumOn(h, InTable) = SumOn(k, InTable) /\ SumOn(h, InTable) \in Int
    BY <1>4, <1>7, SumAlike, SumIsInt
  <1>13. SumOn(k, InTable) + CostOf(Unassigned) = CostOf(S)
    BY <1>8, <1>9, <1>10, <1>11, <1>12
  <1> QED BY <1>13 DEF TableFoots, ActualCost, S, k

\* And each of its chapters, opened, to what the table says of it.
LEMMA LinesAddUp == ASSUME MInv PROVE LinesFoot
  <1> SUFFICES ASSUME NEW n \in InTable
               PROVE  SumOn([l \in LineRows(n) |-> LineCost(n, l)], LineRows(n)) + LineCost(n, 0)
                      = CostOf(OnChapter(n))
    BY DEF LinesFoot
  <1> DEFINE S == OnChapter(n)
             R == LineRows(n)
             g == [i \in S |-> costs[i].line]
             h == [l \in R \cup {0} |-> LineCost(n, l)]
             k == [l \in R |-> LineCost(n, l)]
  <1>0. SizesTyped /\ S \in SUBSET DOMAIN costs
    BY DEF MInv, OnChapter
  <1>2. IsFiniteSet(S) /\ (\A i \in S : CostCents[i] \in Int) /\ CostOf(S) = SumOn(CostCents, S)
    BY <1>0, CostOfIs
  <1>3. \A l : LineCost(n, l) \in Int /\ LineCost(n, l) = SumOn(CostCents, {i \in S : g[i] = l})
    <2>1. TAKE l
    <2>2. {i \in S : costs[i].line = l} \in SUBSET DOMAIN costs
      BY <1>0
    <2>3. {i \in S : costs[i].line = l} = {i \in S : g[i] = l}
      OBVIOUS
    <2>4. /\ CostOf({i \in S : costs[i].line = l}) \in Int
          /\ CostOf({i \in S : costs[i].line = l}) = SumOn(CostCents, {i \in S : costs[i].line = l})
      BY <1>0, <2>2, CostOfIs
    <2> QED BY <2>3, <2>4 DEF LineCost
  <1>4. IsFiniteSet(R) /\ 0 \notin R /\ \A i \in S : g[i] \in R \cup {0}
    BY TableIs
  <1>5. IsFiniteSet(R \cup {0})
    BY <1>4, FS_AddElement
  <1>6. \A l \in R \cup {0} : h[l] \in Int /\ h[l] = SumOn(CostCents, {i \in S : g[i] = l})
    BY <1>3
  <1>7. \A l \in R : h[l] \in Int /\ h[l] = k[l]
    BY <1>3
  <1>8. h[0] = LineCost(n, 0) /\ h[0] \in Int
    BY <1>3
  <1> HIDE DEF S, g, h, k, R
  <1>10. SumOn(h, R \cup {0}) = SumOn(CostCents, S)
    <2>1. Parted(h, R \cup {0}, g, CostCents, S)
      BY <1>2, <1>4, <1>5, <1>6 DEF Parted
    <2> QED BY <2>1, SumByPart
  <1>11. SumOn(h, R \cup {0}) = h[0] + SumOn(h, R)
    BY <1>4, <1>6, SumWith
  <1>12. SumOn(h, R) = SumOn(k, R) /\ SumOn(h, R) \in Int
    BY <1>4, <1>7, SumAlike, SumIsInt
  <1>13. SumOn(k, R) + LineCost(n, 0) = CostOf(S)
    BY <1>2, <1>8, <1>10, <1>11, <1>12
  <1> QED BY <1>13 DEF S, k, R

-----------------------------------------------------------------------------
\* A sequence of chapters: its positions, and the lines of each.
LEMMA ChapterIs ==
    ASSUME NEW c \in Seq(Chapter)
    PROVE  /\ DOMAIN c = 1..Len(c) /\ Len(c) \in Nat
           /\ \A n \in DOMAIN c : /\ c[n] \in Chapter /\ DOMAIN c[n].lines \subseteq 1..MaxItems
                                  /\ c[n].lines \in [DOMAIN c[n].lines -> Int]
  <1>1. DOMAIN c = 1..Len(c) /\ Len(c) \in Nat /\ \A n \in DOMAIN c : c[n] \in Chapter
    OBVIOUS
  <1>2. \A x \in Chapter : DOMAIN x.lines \subseteq 1..MaxItems /\ x.lines \in [DOMAIN x.lines -> Int]
    BY DEF Chapter
  <1> QED BY <1>1, <1>2

\* A line is in some chapter.
LEMMA LinesAre ==
    ASSUME NEW c, NEW l
    PROVE  l \in LinesOf(c) <=> \E n \in DOMAIN c : l \in DOMAIN c[n].lines
  BY DEF LinesOf

\* Chapters that only change places, those of w staying where they are.
LEMMA Rearranged ==
    ASSUME NEW c \in Seq(Chapter), NEW d \in Seq(Chapter), NEW w \in Seq(Chapter),
           Grown(w, c), Apart(c), NEW g,
           \A k \in DOMAIN d : g[k] \in DOMAIN c /\ d[k] = c[g[k]],
           \A j, k \in DOMAIN d : j # k => g[j] # g[k],
           Len(w) <= Len(d), \A k \in 1..Len(w) : g[k] = k
    PROVE  Grown(w, d) /\ Apart(d) /\ LinesOf(d) \subseteq LinesOf(c)
  <1>1. DOMAIN d = 1..Len(d) /\ Len(d) \in Nat /\ Len(w) \in Nat
    BY ChapterIs
  <1>2. Grown(w, d)
    BY <1>1 DEF Grown
  <1>3. Apart(d)
    <2>1. ASSUME NEW j \in DOMAIN d, NEW k \in DOMAIN d, j # k
          PROVE  DOMAIN d[j].lines \cap DOMAIN d[k].lines = {}
      <3>1. g[j] \in DOMAIN c /\ g[k] \in DOMAIN c /\ g[j] # g[k]
        BY <2>1
      <3>2. d[j] = c[g[j]] /\ d[k] = c[g[k]]
        OBVIOUS
      <3> QED BY <3>1, <3>2 DEF Apart
    <2> QED BY <2>1 DEF Apart
  <1>4. LinesOf(d) \subseteq LinesOf(c)
    <2>1. ASSUME NEW l \in LinesOf(d) PROVE l \in LinesOf(c)
      <3>1. PICK n \in DOMAIN d : l \in DOMAIN d[n].lines
        BY LinesAre
      <3>2. g[n] \in DOMAIN c /\ l \in DOMAIN c[g[n]].lines
        BY <3>1
      <3> QED BY <3>2, LinesAre
    <2> QED BY <2>1
  <1> QED BY <1>2, <1>3, <1>4

\* Two sequences, one after the other.
LEMMA ConcatIs ==
    ASSUME NEW R, NEW a \in Seq(R), NEW b \in Seq(R)
    PROVE  /\ a \o b \in Seq(R) /\ Len(a \o b) = Len(a) + Len(b)
           /\ \A k \in 1..Len(a) + Len(b) :
                 (a \o b)[k] = IF k <= Len(a) THEN a[k] ELSE b[k - Len(a)]
  OBVIOUS

\* A chapter taken out.
LEMMA RemoveIs ==
    ASSUME NEW R, NEW c \in Seq(R), NEW n \in DOMAIN c
    PROVE  /\ RemoveAt(c, n) \in Seq(R) /\ Len(RemoveAt(c, n)) = Len(c) - 1
           /\ \A k \in 1..Len(c) - 1 : RemoveAt(c, n)[k] = IF k < n THEN c[k] ELSE c[k + 1]
  <1>1. n \in 1..Len(c) /\ Len(c) \in Nat
    OBVIOUS
  <1>2. /\ SubSeq(c, 1, n - 1) \in Seq(R) /\ Len(SubSeq(c, 1, n - 1)) = n - 1
        /\ \A k \in 1..n - 1 : SubSeq(c, 1, n - 1)[k] = c[k]
    BY <1>1
  <1>3. /\ SubSeq(c, n + 1, Len(c)) \in Seq(R) /\ Len(SubSeq(c, n + 1, Len(c))) = Len(c) - n
        /\ \A k \in 1..Len(c) - n : SubSeq(c, n + 1, Len(c))[k] = c[n + k]
    BY <1>1
  <1> DEFINE a == SubSeq(c, 1, n - 1)
             b == SubSeq(c, n + 1, Len(c))
  <1>4. RemoveAt(c, n) = a \o b
    BY DEF RemoveAt
  <1> HIDE DEF a, b
  <1>5. /\ a \o b \in Seq(R) /\ Len(a \o b) = Len(c) - 1
        /\ \A k \in 1..Len(c) - 1 : (a \o b)[k] = IF k < n THEN a[k] ELSE b[k - (n - 1)]
    <2>1. /\ a \in Seq(R) /\ Len(a) = n - 1 /\ b \in Seq(R) /\ Len(b) = Len(c) - n
          /\ Len(a) + Len(b) = Len(c) - 1
      <3>1. a \in Seq(R) /\ Len(a) = n - 1
        BY <1>2 DEF a
      <3>2. b \in Seq(R) /\ Len(b) = Len(c) - n
        BY <1>3 DEF b
      <3> QED BY <1>1, <3>1, <3>2
    <2>2. /\ a \o b \in Seq(R) /\ Len(a \o b) = Len(a) + Len(b)
          /\ \A k \in 1..Len(a) + Len(b) :
                (a \o b)[k] = IF k <= Len(a) THEN a[k] ELSE b[k - Len(a)]
      BY <2>1, ConcatIs
    <2>3. \A k \in 1..Len(c) - 1 : k <= n - 1 <=> k < n
      BY <1>1
    <2> QED BY <2>1, <2>2, <2>3
  <1>6. \A k \in 1..Len(c) - 1 : ~(k < n) => k - (n - 1) \in 1..Len(c) - n /\ n + (k - (n - 1)) = k + 1
    BY <1>1
  <1>7. \A k \in 1..Len(c) - 1 : k < n => k \in 1..n - 1
    BY <1>1
  <1>8. \A k \in 1..Len(c) - 1 : ~(k < n) => b[k - (n - 1)] = c[k + 1]
    BY <1>3, <1>6 DEF b
  <1>9. \A k \in 1..Len(c) - 1 : k < n => a[k] = c[k]
    BY <1>2, <1>7 DEF a
  <1> QED BY <1>4, <1>5, <1>8, <1>9

\* A chapter put in.
LEMMA InsertedChapter ==
    ASSUME NEW c \in Seq(Chapter), NEW e \in Chapter, NEW n \in 1..Len(c) + 1
    PROVE  /\ InsertAt(c, n, e) \in Seq(Chapter) /\ Len(InsertAt(c, n, e)) = Len(c) + 1
           /\ \A k \in 1..Len(c) + 1 :
                 InsertAt(c, n, e)[k] = IF k < n THEN c[k] ELSE IF k = n THEN e ELSE c[k - 1]
  <1>1. Len(c) \in Nat
    OBVIOUS
  <1> DEFINE a == SubSeq(c, 1, n - 1)
             b == SubSeq(c, n, Len(c))
  <1>2. /\ a \in Seq(Chapter) /\ Len(a) = n - 1 /\ \A k \in 1..n - 1 : a[k] = c[k]
    BY <1>1
  <1>3. /\ b \in Seq(Chapter) /\ Len(b) = Len(c) - n + 1
        /\ \A k \in 1..Len(c) - n + 1 : b[k] = c[n - 1 + k]
    BY <1>1
  <1>4. InsertAt(c, n, e) = (a \o <<e>>) \o b
    BY DEF InsertAt
  <1> HIDE DEF a, b
  <1>5. /\ a \o <<e>> \in Seq(Chapter) /\ Len(a \o <<e>>) = n
        /\ \A k \in 1..n : (a \o <<e>>)[k] = IF k < n THEN a[k] ELSE e
    BY <1>1, <1>2
  <1> DEFINE f == a \o <<e>>
  <1> HIDE DEF f
  <1>6. /\ f \o b \in Seq(Chapter) /\ Len(f \o b) = Len(c) + 1
        /\ \A k \in 1..Len(c) + 1 : (f \o b)[k] = IF k <= n THEN f[k] ELSE b[k - n]
    <2>1. f \in Seq(Chapter) /\ Len(f) = n /\ Len(f) + Len(b) = Len(c) + 1
      <3>1. f \in Seq(Chapter) /\ Len(f) = n
        BY <1>5, Zenon DEF f
      <3>2. n + (Len(c) - n + 1) = Len(c) + 1
        BY <1>1
      <3> QED BY <1>3, <3>1, <3>2
    <2>2. /\ f \o b \in Seq(Chapter) /\ Len(f \o b) = Len(f) + Len(b)
          /\ \A k \in 1..Len(f) + Len(b) :
                (f \o b)[k] = IF k <= Len(f) THEN f[k] ELSE b[k - Len(f)]
      BY <1>3, <2>1, ConcatIs
    <2> QED BY <2>1, <2>2
  <1>7. \A k \in 1..Len(c) + 1 : ~(k <= n) => b[k - n] = c[k - 1]
    <2>1. TAKE k \in 1..Len(c) + 1
    <2>2. ~(k <= n) => k - n \in 1..Len(c) - n + 1 /\ n - 1 + (k - n) = k - 1
      BY <1>1
    <2> QED BY <1>3, <2>2
  <1>8. \A k \in 1..Len(c) + 1 : k <= n => f[k] = IF k < n THEN c[k] ELSE e
    BY <1>1, <1>2, <1>5 DEF f
  <1>9. InsertAt(c, n, e) = f \o b
    BY <1>4 DEF f
  <1>10. ASSUME NEW k \in 1..Len(c) + 1
         PROVE  InsertAt(c, n, e)[k] = IF k < n THEN c[k] ELSE IF k = n THEN e ELSE c[k - 1]
    <2>1. (f \o b)[k] = IF k <= n THEN f[k] ELSE b[k - n]
      BY <1>6
    <2>2. k < n \/ k = n \/ ~(k <= n)
      BY <1>1
    <2> QED BY <1>7, <1>8, <1>9, <2>1, <2>2
  <1> QED BY <1>6, <1>9, <1>10

\* A chapter taken out, or moved, after those of w.
LEMMA RemovedGrown ==
    ASSUME NEW c \in Seq(Chapter), NEW w \in Seq(Chapter), Grown(w, c), Apart(c),
           NEW n \in DOMAIN c, n > Len(w)
    PROVE  LET d == RemoveAt(c, n)
           IN d \in Seq(Chapter) /\ Grown(w, d) /\ Apart(d) /\ LinesOf(d) \subseteq LinesOf(c)
  <1> DEFINE d == RemoveAt(c, n)
             g == [k \in 1..Len(c) - 1 |-> IF k < n THEN k ELSE k + 1]
  <1>1. /\ Len(c) \in Nat /\ Len(w) \in Nat /\ n \in 1..Len(c) /\ DOMAIN c = 1..Len(c)
    BY ChapterIs
  <1>2. /\ d \in Seq(Chapter) /\ Len(d) = Len(c) - 1
        /\ \A k \in 1..Len(c) - 1 : d[k] = IF k < n THEN c[k] ELSE c[k + 1]
    BY RemoveIs
  <1> HIDE DEF d
  <1>3. DOMAIN d = 1..Len(c) - 1
    BY <1>2, ChapterIs
  <1>4. \A k \in DOMAIN d : g[k] \in DOMAIN c /\ d[k] = c[g[k]]
    BY <1>1, <1>2, <1>3
  <1>5. \A j, k \in DOMAIN d : j # k => g[j] # g[k]
    BY <1>1, <1>3
  <1>6. Len(w) <= Len(d) /\ \A k \in 1..Len(w) : g[k] = k
    BY <1>1, <1>2
  <1> HIDE DEF g
  <1>7. Grown(w, d) /\ Apart(d) /\ LinesOf(d) \subseteq LinesOf(c)
    BY <1>2, <1>4, <1>5, <1>6, Rearranged
  <1> QED BY <1>2, <1>7 DEF d

\* A chapter put elsewhere, among those that come after w.
LEMMA MovedGrown ==
    ASSUME NEW c \in Seq(Chapter), NEW w \in Seq(Chapter), Grown(w, c), Apart(c),
           NEW n \in DOMAIN c, n > Len(w), NEW at \in DOMAIN c, at > Len(w)
    PROVE  LET d == InsertAt(RemoveAt(c, n), at, c[n])
           IN d \in Seq(Chapter) /\ Grown(w, d) /\ Apart(d) /\ LinesOf(d) \subseteq LinesOf(c)
  <1> DEFINE b == RemoveAt(c, n)
             d == InsertAt(b, at, c[n])
             from(k) == IF k < n THEN k ELSE k + 1
             g == [k \in 1..Len(c) |-> IF k < at THEN from(k) ELSE IF k = at THEN n ELSE from(k - 1)]
  <1>1. /\ Len(c) \in Nat /\ Len(w) \in Nat /\ n \in 1..Len(c) /\ at \in 1..Len(c)
        /\ DOMAIN c = 1..Len(c) /\ c[n] \in Chapter
    BY ChapterIs
  <1>2. /\ b \in Seq(Chapter) /\ Len(b) = Len(c) - 1
        /\ \A k \in 1..Len(c) - 1 : b[k] = IF k < n THEN c[k] ELSE c[k + 1]
    BY RemoveIs
  <1> HIDE DEF b
  <1>a. Len(b) + 1 = Len(c) /\ at \in 1..Len(b) + 1
    BY <1>1, <1>2
  <1>3. /\ d \in Seq(Chapter) /\ Len(d) = Len(c)
        /\ \A k \in 1..Len(c) : d[k] = IF k < at THEN b[k] ELSE IF k = at THEN c[n] ELSE b[k - 1]
    <2> DEFINE e == c[n]
    <2>1. e \in Chapter /\ Len(c) = Len(b) + 1
      BY <1>1, <1>2
    <2> HIDE DEF e
    <2>2. /\ InsertAt(b, at, e) \in Seq(Chapter) /\ Len(InsertAt(b, at, e)) = Len(b) + 1
          /\ \A k \in 1..Len(b) + 1 :
                InsertAt(b, at, e)[k] = IF k < at THEN b[k] ELSE IF k = at THEN e ELSE b[k - 1]
      BY <1>2, <1>a, <2>1, InsertedChapter
    <2> QED BY <2>1, <2>2 DEF e
  <1> HIDE DEF d
  <1>4. DOMAIN d = 1..Len(c)
    BY <1>3, ChapterIs
  <1>5. \A k \in 1..Len(c) : g[k] \in 1..Len(c)
    BY <1>1
  <1>6. ASSUME NEW k \in 1..Len(c) PROVE d[k] = c[g[k]]
    <2>1. CASE k < at
      <3>1. k \in 1..Len(c) - 1
        BY <1>1, <2>1
      <3>2. d[k] = b[k] /\ b[k] = IF k < n THEN c[k] ELSE c[k + 1]
        BY <1>2, <1>3, <2>1, <3>1
      <3>3. g[k] = IF k < n THEN k ELSE k + 1
        BY <2>1
      <3> QED BY <3>2, <3>3
    <2>2. CASE k = at
      BY <1>1, <1>3, <2>2
    <2>3. CASE ~(k < at) /\ k # at
      <3>1. k - 1 \in 1..Len(c) - 1 /\ (k - 1) + 1 = k
        BY <1>1, <2>3
      <3>2. d[k] = b[k - 1]
        BY <1>3, <2>3
      <3>3. b[k - 1] = IF k - 1 < n THEN c[k - 1] ELSE c[k]
        BY <1>2, <3>1
      <3>4. g[k] = IF k - 1 < n THEN k - 1 ELSE k
        BY <2>3, <3>1
      <3> QED BY <3>2, <3>3, <3>4
    <2> QED BY <2>1, <2>2, <2>3
  <1>7. \A j, k \in 1..Len(c) : j # k => g[j] # g[k]
    BY <1>1
  <1>8. Len(w) <= Len(d) /\ \A k \in 1..Len(w) : g[k] = k
    BY <1>1, <1>3
  <1> HIDE DEF g
  <1>9. Grown(w, d) /\ Apart(d) /\ LinesOf(d) \subseteq LinesOf(c)
    <2>1. \A k \in DOMAIN d : g[k] \in DOMAIN c /\ d[k] = c[g[k]]
      BY <1>1, <1>4, <1>5, <1>6
    <2>2. \A j, k \in DOMAIN d : j # k => g[j] # g[k]
      BY <1>4, <1>7
    <2>3. d \in Seq(Chapter)
      BY <1>3
    <2> QED BY <1>8, <2>1, <2>2, <2>3, Rearranged
  <1> QED BY <1>3, <1>9 DEF d, b

-----------------------------------------------------------------------------
\* What chapters are sold for is a number.
LEMMA WorthIsInt == ASSUME NEW c \in Seq(Chapter) PROVE WorthOf(c) \in Int
  <1> DEFINE f == [n \in DOMAIN c |-> UnitsOf(c[n])]
  <1>1. DOMAIN c = 1..Len(c) /\ Len(c) \in Nat
    BY ChapterIs
  <1>2. IsFiniteSet(DOMAIN c)
    BY <1>1, FS_Interval
  <1>3. \A n \in DOMAIN c : f[n] \in Int
    <2>1. TAKE n \in DOMAIN c
    <2>2. DOMAIN c[n].lines \subseteq 1..MaxItems /\ c[n].lines \in [DOMAIN c[n].lines -> Int]
      BY ChapterIs
    <2>3. IsFiniteSet(1..MaxItems)
      BY FS_Interval, MarginAmounts
    <2>4. IsFiniteSet(DOMAIN c[n].lines)
      BY <2>2, <2>3, FS_Subset
    <2>5. \A l \in DOMAIN c[n].lines : c[n].lines[l] \in Int
      BY <2>2
    <2>6. SumOn(c[n].lines, DOMAIN c[n].lines) \in Int
      BY <2>4, <2>5, SumIsInt
    <2> QED BY <2>6 DEF UnitsOf
  <1> HIDE DEF f
  <1>4. SumOn(f, DOMAIN c) \in Int
    BY <1>2, <1>3, SumIsInt
  <1> QED BY <1>4 DEF WorthOf, f, Sale

\* The operators of Margins, for a version, are those of its chapters.
LEMMA SaleIs ==
    ASSUME NEW v
    PROVE  /\ SaleOf(v) = WorthOf(scopes[v].chapters)
           /\ SaleOf(v)' = WorthOf(scopes'[v].chapters)
           /\ LinesIn(v) = LinesOf(scopes[v].chapters)
           /\ LinesIn(v)' = LinesOf(scopes'[v].chapters)
  BY DEF SaleOf, UnitsIn, ChaptersIn, WorthOf, LinesIn, LinesOf

\* A row replaced.
LEMMA ReplacedIs ==
    ASSUME NEW R, NEW s \in Seq(R), NEW i \in DOMAIN s, NEW e \in R
    PROVE  LET t == [s EXCEPT ![i] = e]
           IN /\ t \in Seq(R) /\ Len(t) = Len(s) /\ DOMAIN t = DOMAIN s /\ t[i] = e
              /\ \A j \in DOMAIN s : j # i => t[j] = s[j]
  OBVIOUS

\* A row added.
LEMMA AppendedIs ==
    ASSUME NEW R, NEW s \in Seq(R), NEW e \in R
    PROVE  LET t == Append(s, e)
           IN /\ t \in Seq(R) /\ Len(t) = Len(s) + 1 /\ Len(s) \in Nat
              /\ DOMAIN s = 1..Len(s) /\ DOMAIN t = 1..Len(s) + 1 /\ t[Len(s) + 1] = e
              /\ \A j \in DOMAIN s : j \in DOMAIN t /\ t[j] = s[j]
              /\ \A j \in DOMAIN t : j \in DOMAIN s \/ j = Len(s) + 1
  OBVIOUS

Redrafted(x, c, b) == [x EXCEPT !.chapters = c, !.built = b]

\* A draft rewritten is a version.
LEMMA RedraftedIs ==
    ASSUME NEW x \in Scope, NEW c \in Seq(Chapter), NEW b \in SUBSET (1..MaxItems)
    PROVE  LET y == Redrafted(x, c, b)
           IN /\ y \in Scope /\ y.chapters = c /\ y.built = b /\ y.of = x.of
              /\ y.answered = x.answered /\ y.superseded = x.superseded
  BY DEF Redrafted, Scope

\* Whatever has happened to the versions, as long as their chapters are what they were.
LEMMA ScopesStay ==
    ASSUME SizesTyped, ScopesWhole, Lineage, items' = items,
           scopes' \in Seq(Scope), DOMAIN scopes' = DOMAIN scopes,
           \A v \in DOMAIN scopes :
               /\ scopes'[v].chapters = scopes[v].chapters /\ scopes'[v].of = scopes[v].of
               /\ scopes[v].answered => scopes'[v].answered
               /\ scopes'[v].built \subseteq LinesOf(scopes[v].chapters)
               /\ v # 1 /\ OpenScope(scopes'[v]) => scopes[v].of = agreed'
    PROVE  ScopesWhole' /\ Lineage'
  <1>1. ScopesWhole'
    BY DEF ScopesWhole, WholeScope
  <1>2. ASSUME NEW v \in DOMAIN scopes', v # 1
        PROVE  /\ scopes'[v].of \in 1..v - 1 /\ scopes'[scopes'[v].of].answered
               /\ Grown(scopes'[scopes'[v].of].chapters, scopes'[v].chapters)
               /\ OpenScope(scopes'[v]) => scopes'[v].of = agreed'
    <2> DEFINE u == scopes[v].of
    <2>1. v \in DOMAIN scopes /\ scopes'[v].of = u
      BY <1>2
    <2>2. u \in 1..v - 1 /\ scopes[u].answered /\ Grown(scopes[u].chapters, scopes[v].chapters)
      BY <1>2, <2>1 DEF Lineage, ChaptersIn
    <2>3. u \in DOMAIN scopes
      BY <2>1, <2>2 DEF SizesTyped
    <2> QED BY <1>2, <2>1, <2>2, <2>3
  <1>3. \A v \in DOMAIN scopes' : v = 1 => scopes'[v].of = 0 /\ scopes'[v].answered
    BY DEF Lineage
  <1> QED BY <1>1, <1>2, <1>3 DEF Lineage, ChaptersIn

\* Rewriting the draft: nothing that anybody has answered changes.
LEMMA RewriteKeeps ==
    ASSUME MInv, NEW c \in Seq(Chapter), Rewrite(c), items' \in items..MaxItems,
           WholeScope(c, items'),
           Len(scopes) > 1 => Grown(ChaptersIn(scopes[Len(scopes)].of), c)
    PROVE  MInv'
  <1> DEFINE v == Len(scopes)
             x == scopes[v]
             b == x.built \cap UNION {DOMAIN d.lines : d \in Range(c)}
  <1>0. /\ SizesTyped /\ ScopesWhole /\ Lineage /\ ScopeStanding /\ ChainRows /\ ChainEnds
        /\ CostsPlaced /\ BuiltInv
    BY DEF MInv
  <1>1. /\ scopes \in Seq(Scope) /\ v \in Nat /\ DOMAIN scopes = 1..v
        /\ items \in 1..MaxItems /\ MaxItems \in Nat
    BY <1>0, MarginAmounts DEF SizesTyped
  <1>2. v > 1 /\ ~x.answered /\ ~x.superseded /\ v \in DOMAIN scopes /\ x \in Scope
    BY <1>1 DEF Rewrite
  <1>3. b \in SUBSET (1..MaxItems) /\ b \subseteq LinesOf(c)
    <2>1. x.built \in SUBSET (1..MaxItems)
      BY <1>2 DEF Scope
    <2>2. \A d \in Range(c) : \E n \in DOMAIN c : d = c[n]
      BY DEF Range
    <2> QED BY <2>1, <2>2 DEF LinesOf
  <1>4. scopes' = [scopes EXCEPT ![v] = Redrafted(x, c, b)]
    BY <1>2 DEF Rewrite, Redrafted
  <1>5. UNCHANGED <<agreed, inForce, annexes, removed, costs, underContract>>
        /\ moves < MaxMoves /\ moves' = moves + 1
    BY DEF Rewrite, Move
  <1> DEFINE y == Redrafted(x, c, b)
  <1>6. /\ y \in Scope /\ y.chapters = c /\ y.built = b /\ y.of = x.of
        /\ y.answered = x.answered /\ y.superseded = x.superseded
    BY <1>2, <1>3, RedraftedIs
  <1> HIDE DEF y, b
  <1>7. /\ scopes' \in Seq(Scope) /\ DOMAIN scopes' = DOMAIN scopes /\ scopes'[v] = y
        /\ \A u \in DOMAIN scopes : u # v => scopes'[u] = scopes[u]
        /\ Len(scopes') = Len(scopes)
    <2>1. scopes' = [scopes EXCEPT ![v] = y]
      BY <1>4 DEF y
    <2> HIDE DEF v
    <2> QED BY <1>1, <1>2, <1>6, <2>1, ReplacedIs
  <1>8. SizesTyped'
    BY <1>0, <1>1, <1>5, <1>7, MarginAmounts DEF SizesTyped
  <1>9. ScopesWhole'
    <2>1. ASSUME NEW u \in DOMAIN scopes'
          PROVE  /\ WholeScope(scopes'[u].chapters, items')
                 /\ scopes'[u].built \subseteq LinesOf(scopes'[u].chapters)
      <3>1. CASE u = v
        BY <1>3, <1>6, <1>7, <3>1
      <3>2. CASE u # v
        <4>1. 1..items \subseteq 1..items'
          BY <1>1
        <4>2. u \in DOMAIN scopes /\ scopes'[u] = scopes[u]
          BY <1>7, <2>1, <3>2
        <4>3. /\ WholeScope(scopes[u].chapters, items)
              /\ scopes[u].built \subseteq LinesOf(scopes[u].chapters)
          BY <1>0, <4>2 DEF ScopesWhole
        <4> QED BY <4>1, <4>2, <4>3 DEF WholeScope
      <3> QED BY <3>1, <3>2
    <2> QED BY <2>1 DEF ScopesWhole
  <1>10. \A u \in DOMAIN scopes : scopes[u].answered => u # v /\ scopes'[u] = scopes[u]
    BY <1>2, <1>7
  <1>11. ASSUME NEW u \in DOMAIN scopes', u # 1
         PROVE  /\ scopes'[u].of \in 1..u - 1 /\ scopes'[scopes'[u].of].answered
                /\ Grown(scopes'[scopes'[u].of].chapters, scopes'[u].chapters)
                /\ OpenScope(scopes'[u]) => scopes'[u].of = agreed'
    <2> DEFINE w == scopes[u].of
    <2>1. u \in DOMAIN scopes /\ scopes'[u].of = w
      BY <1>6, <1>7, <1>11
    <2>2. /\ w \in 1..u - 1 /\ scopes[w].answered /\ Grown(scopes[w].chapters, scopes[u].chapters)
          /\ OpenScope(scopes[u]) => w = agreed
      BY <1>0, <1>11, <2>1 DEF Lineage, ChaptersIn
    <2>3. w \in DOMAIN scopes
      BY <1>1, <2>1, <2>2
    <2>4. scopes'[w] = scopes[w]
      BY <1>10, <2>2, <2>3
    <2>5. Grown(scopes[w].chapters, scopes'[u].chapters)
      <3>1. CASE u = v
        BY <1>2, <1>6, <1>7, <2>1, <3>1 DEF ChaptersIn
      <3>2. CASE u # v
        BY <1>7, <2>1, <2>2, <3>2
      <3> QED BY <3>1, <3>2
    <2>6. OpenScope(scopes'[u]) => OpenScope(scopes[u])
      BY <1>6, <1>7, <2>1 DEF OpenScope
    <2> QED BY <1>5, <2>1, <2>2, <2>4, <2>5, <2>6
  <1>12. Lineage'
    <2>1. \A u \in DOMAIN scopes' : u = 1 => scopes'[u].of = 0 /\ scopes'[u].answered
      BY <1>0, <1>2, <1>7 DEF Lineage
    <2> QED BY <1>11, <2>1 DEF Lineage, ChaptersIn
  <1>13. /\ agreed \in DOMAIN scopes /\ scopes[agreed].answered
         /\ inForce \in DOMAIN scopes /\ scopes[inForce].answered /\ scopes # <<>>
    BY <1>0, <1>1, <1>2 DEF ScopeStanding
  <1>14. ScopeStanding'
    BY <1>1, <1>2, <1>5, <1>7, <1>10, <1>13 DEF ScopeStanding
  <1>16. ChainRows' /\ ChainEnds'
    <2>2. ASSUME NEW k \in DOMAIN annexes
          PROVE  RowSound(scopes', annexes, k)
      <3> DEFINE u == annexes[k].version
                 w == scopes[u].of
      <3>1. /\ u \in DOMAIN scopes /\ u # 1 /\ scopes[u].answered /\ w = Reached(annexes, k - 1)
            /\ annexes[k].cents = WorthOf(scopes[u].chapters) - WorthOf(scopes[w].chapters)
        BY <1>0 DEF ChainRows, RowSound
      <3>2. w \in DOMAIN scopes /\ scopes[w].answered
        BY <1>0, <1>1, <3>1 DEF Lineage
      <3>3. scopes'[u] = scopes[u] /\ scopes'[w] = scopes[w]
        BY <1>10, <3>1, <3>2
      <3> QED BY <1>7, <3>1, <3>3 DEF RowSound
    <2> QED BY <1>0, <1>5, <2>2 DEF ChainRows, ChainEnds
  <1>17. CostsPlaced'
    BY <1>0, <1>5, <1>10, <1>13 DEF CostsPlaced, Quick, InScope, ChaptersIn
  <1>18. BuiltInv'
    <2>1. 1 \in DOMAIN scopes /\ scopes[1].answered
      BY <1>0, <1>1, <1>2 DEF Lineage
    <2> QED BY <1>0, <1>5, <1>10, <1>13, <2>1 DEF BuiltInv
  <1> QED BY <1>8, <1>9, <1>12, <1>14, <1>16, <1>17, <1>18 DEF MInv

-----------------------------------------------------------------------------
\* What a step that rewrites the draft may rely on.
LEMMA DraftIs ==
    ASSUME MInv, Len(scopes) > 1
    PROVE  /\ Draft \in Seq(Chapter) /\ ChaptersIn(Before) \in Seq(Chapter)
           /\ Before = scopes[Len(scopes)].of /\ Before # 0 /\ Before \in DOMAIN scopes
           /\ Grown(ChaptersIn(Before), Draft) /\ WholeScope(Draft, items)
           /\ LinesIn(Before) = LinesOf(ChaptersIn(Before))
           /\ items \in 1..MaxItems /\ MaxItems \in Nat
  <1> DEFINE v == Len(scopes)
  <1>0. SizesTyped /\ ScopesWhole /\ Lineage
    BY DEF MInv
  <1>1. /\ scopes \in Seq(Scope) /\ v \in Nat /\ DOMAIN scopes = 1..v /\ v > 1
        /\ items \in 1..MaxItems /\ MaxItems \in Nat
    BY <1>0, MarginAmounts DEF SizesTyped
  <1>2. v \in DOMAIN scopes /\ v # 1 /\ scopes # <<>>
    BY <1>1
  <1>3. Draft = ChaptersIn(v) /\ Before = scopes[v].of
    BY <1>2 DEF Draft, Before, Last, ChaptersIn
  <1>4. scopes[v].of \in 1..v - 1 /\ Grown(ChaptersIn(scopes[v].of), ChaptersIn(v))
    BY <1>0, <1>2 DEF Lineage
  <1>5. Before \in DOMAIN scopes /\ Before # 0
    BY <1>1, <1>3, <1>4
  <1>6. Draft \in Seq(Chapter) /\ ChaptersIn(Before) \in Seq(Chapter)
    BY <1>0, <1>2, <1>3, <1>5, ScopeIs
  <1>7. WholeScope(Draft, items)
    BY <1>0, <1>2, <1>3 DEF ScopesWhole, ChaptersIn
  <1>8. LinesIn(Before) = LinesOf(ChaptersIn(Before))
    BY DEF LinesIn, LinesOf
  <1> QED BY <1>1, <1>3, <1>4, <1>5, <1>6, <1>7, <1>8

\* A chapter given other lines: some of its own, and others no chapter has.
LEMMA Relined ==
    ASSUME NEW c \in Seq(Chapter), NEW n \in DOMAIN c, NEW D \in SUBSET (1..MaxItems),
           NEW L \in [D -> Int], NEW w \in Seq(Chapter), Grown(w, c),
           NEW top \in Nat, NEW later \in Nat, top <= later, WholeScope(c, top),
           D \subseteq 1..later, \A l \in D : l \in DOMAIN c[n].lines \/ l \notin LinesOf(c),
           n <= Len(w) => DOMAIN w[n].lines \subseteq D
    PROVE  LET d == [c EXCEPT ![n].lines = L]
           IN d \in Seq(Chapter) /\ Grown(w, d) /\ WholeScope(d, later)
  <1> DEFINE x == c[n]
             y == [x EXCEPT !.lines = L]
             d == [c EXCEPT ![n] = y]
  <1>0. /\ DOMAIN c = 1..Len(c) /\ Len(c) \in Nat /\ DOMAIN w = 1..Len(w) /\ Len(w) \in Nat
        /\ \A m \in DOMAIN c : c[m] \in Chapter
    BY ChapterIs
  <1>1. L \in UNION {[S -> Int] : S \in SUBSET (1..MaxItems)} /\ DOMAIN L = D
    OBVIOUS
  <1>2. y \in Chapter /\ y.lines = L
    <2>1. x \in Chapter
      BY <1>0
    <2> HIDE DEF x
    <2> QED BY <1>1, <2>1 DEF Chapter
  <1>3. [c EXCEPT ![n].lines = L] = d
    OBVIOUS
  <1> HIDE DEF y
  <1>4. /\ d \in Seq(Chapter) /\ Len(d) = Len(c) /\ DOMAIN d = DOMAIN c /\ d[n] = y
        /\ \A m \in DOMAIN c : m # n => d[m] = c[m]
    BY <1>2, ReplacedIs
  <1> HIDE DEF d, x
  <1>5. DOMAIN d[n].lines = D
    BY <1>1, <1>2, <1>4
  <1>6. ASSUME NEW m \in DOMAIN d, NEW k \in DOMAIN d, m # k
        PROVE  DOMAIN d[m].lines \cap DOMAIN d[k].lines = {}
    <2>1. DOMAIN c[m].lines \cap DOMAIN c[k].lines = {}
      BY <1>4, <1>6 DEF WholeScope, Apart
    <2>2. \A j \in DOMAIN c : \A l \in DOMAIN c[j].lines : l \in LinesOf(c)
      BY LinesAre
    <2>3. ASSUME m = n PROVE DOMAIN d[m].lines \cap DOMAIN d[k].lines = {}
      <3>1. DOMAIN d[m].lines = D /\ d[k] = c[k] /\ k \in DOMAIN c
        BY <1>4, <1>5, <1>6, <2>3
      <3> QED BY <2>1, <2>2, <2>3, <3>1
    <2>4. ASSUME k = n PROVE DOMAIN d[m].lines \cap DOMAIN d[k].lines = {}
      <3>1. DOMAIN d[k].lines = D /\ d[m] = c[m] /\ m \in DOMAIN c
        BY <1>4, <1>5, <1>6, <2>4
      <3> QED BY <2>1, <2>2, <2>4, <3>1
    <2>5. ASSUME m # n, k # n PROVE DOMAIN d[m].lines \cap DOMAIN d[k].lines = {}
      BY <1>4, <2>1, <2>5
    <2> QED BY <2>3, <2>4, <2>5
  <1>7. ASSUME NEW l \in LinesOf(d) PROVE l \in 1..later
    <2>1. PICK m \in DOMAIN d : l \in DOMAIN d[m].lines
      BY LinesAre
    <2>2. CASE m = n
      BY <1>5, <2>1, <2>2
    <2>3. CASE m # n
      <3>1. l \in LinesOf(c)
        BY <1>4, <2>1, <2>3, LinesAre
      <3>2. l \in 1..top
        BY <3>1 DEF WholeScope
      <3> QED BY <3>2
    <2> QED BY <2>2, <2>3
  <1>8. Grown(w, d)
    <2>1. ASSUME NEW m \in 1..Len(w) PROVE DOMAIN w[m].lines \subseteq DOMAIN d[m].lines
      <3>1. m \in DOMAIN c /\ DOMAIN w[m].lines \subseteq DOMAIN c[m].lines
        BY <1>0 DEF Grown
      <3> QED BY <1>4, <1>5, <3>1
    <2>2. Len(w) <= Len(d)
      BY <1>4 DEF Grown
    <2> QED BY <2>1, <2>2 DEF Grown
  <1>9. WholeScope(d, later)
    BY <1>6, <1>7 DEF WholeScope, Apart
  <1> QED BY Zenon, <1>3, <1>4, <1>8, <1>9

\* Every way of rewriting the draft.
LEMMA DraftsKeep ==
    ASSUME MInv, Liberties = {},
           \/ AddChapter
           \/ \E n \in DOMAIN Draft, q \in Qtys :
                  AddLine(n, q) \/ (\E l \in DOMAIN Draft[n].lines : Requantify(n, l, q))
           \/ \E n \in DOMAIN Draft :
                  \/ \E l \in DOMAIN Draft[n].lines : DeleteLine(n, l)
                  \/ RemoveChapter(n)
                  \/ \E at \in DOMAIN Draft : MoveChapter(n, at)
    PROVE  MInv'
  <1> DEFINE w == ChaptersIn(Before)
  <1>0. Len(scopes) > 1
    BY DEF AddChapter, AddLine, Requantify, DeleteLine, RemoveChapter, MoveChapter, Rewrite
  <1>1. /\ Draft \in Seq(Chapter) /\ w \in Seq(Chapter) /\ Before # 0
        /\ Before = scopes[Len(scopes)].of
        /\ Grown(w, Draft) /\ WholeScope(Draft, items) /\ Apart(Draft)
        /\ LinesOf(Draft) \subseteq 1..items
        /\ LinesIn(Before) = LinesOf(w) /\ items \in 1..MaxItems /\ MaxItems \in Nat
    BY <1>0, DraftIs DEF WholeScope
  <1>2. /\ Len(Draft) \in Nat /\ DOMAIN Draft = 1..Len(Draft)
        /\ Len(w) \in Nat /\ DOMAIN w = 1..Len(w)
        /\ \A n \in DOMAIN Draft :
              /\ Draft[n] \in Chapter /\ DOMAIN Draft[n].lines \subseteq 1..MaxItems
              /\ Draft[n].lines \in [DOMAIN Draft[n].lines -> Int]
              /\ DOMAIN Draft[n].lines \subseteq LinesOf(Draft)
              /\ n <= Len(w) => DOMAIN w[n].lines \subseteq DOMAIN Draft[n].lines
    <2>1. /\ Len(Draft) \in Nat /\ DOMAIN Draft = 1..Len(Draft)
          /\ Len(w) \in Nat /\ DOMAIN w = 1..Len(w)
          /\ \A n \in DOMAIN Draft :
                /\ Draft[n] \in Chapter /\ DOMAIN Draft[n].lines \subseteq 1..MaxItems
                /\ Draft[n].lines \in [DOMAIN Draft[n].lines -> Int]
      BY <1>1, ChapterIs
    <2>2. \A n \in DOMAIN Draft : DOMAIN Draft[n].lines \subseteq LinesOf(Draft)
      BY DEF LinesOf
    <2>3. \A n \in DOMAIN Draft : n <= Len(w) => DOMAIN w[n].lines \subseteq DOMAIN Draft[n].lines
      BY <1>1, <2>1 DEF Grown
    <2> QED BY <2>1, <2>2, <2>3
  <1>w. Len(scopes) > 1 => w = ChaptersIn(scopes[Len(scopes)].of)
    BY <1>1
  <1> HIDE DEF w
  <1>3. ASSUME NEW c \in Seq(Chapter), Rewrite(c), items' \in items..MaxItems,
               WholeScope(c, items'), Grown(w, c)
        PROVE  MInv'
    BY <1>w, <1>3, RewriteKeeps
  <1>4. CASE AddChapter
    <2> DEFINE x == [id |-> items', lines |-> NoLines]
               c == Append(Draft, x)
    <2>1. Rewrite(c) /\ items' = items + 1 /\ items' \in items..MaxItems
      BY <1>1, <1>4 DEF AddChapter, FreshItem
    <2>2. x \in Chapter /\ DOMAIN x.lines = {}
      <3>1. NoLines \in [{} -> Int] /\ DOMAIN NoLines = {}
        BY DEF NoLines
      <3>2. NoLines \in UNION {[S -> Int] : S \in SUBSET (1..MaxItems)}
        BY <3>1
      <3>3. PICK i \in Nat : i = items'
        BY <1>1, <2>1
      <3>4. [id |-> i, lines |-> NoLines] \in Chapter
        BY <3>2 DEF Chapter
      <3> QED BY <3>1, <3>3, <3>4
    <2> HIDE DEF x
    <2>3. /\ c \in Seq(Chapter) /\ Len(c) = Len(Draft) + 1 /\ DOMAIN c = 1..Len(Draft) + 1
          /\ c[Len(Draft) + 1] = x /\ (\A n \in DOMAIN Draft : n \in DOMAIN c /\ c[n] = Draft[n])
          /\ \A n \in DOMAIN c : n \in DOMAIN Draft \/ n = Len(Draft) + 1
      BY <1>1, <2>2, AppendedIs
    <2> HIDE DEF c
    <2>4. \A n \in DOMAIN c : c[n] = x \/ (n \in DOMAIN Draft /\ c[n] = Draft[n])
      BY <2>3
    <2>5. ASSUME NEW n \in DOMAIN c, NEW m \in DOMAIN c, n # m
          PROVE  DOMAIN c[n].lines \cap DOMAIN c[m].lines = {}
      BY <1>1, <2>2, <2>4, <2>5 DEF Apart
    <2>6. LinesOf(c) \subseteq 1..items'
      <3>1. ASSUME NEW l \in LinesOf(c) PROVE l \in 1..items
        <4>1. PICK n \in DOMAIN c : l \in DOMAIN c[n].lines
          BY LinesAre
        <4> QED BY <1>1, <1>2, <2>2, <2>4, <4>1
      <3> QED BY <1>1, <2>1, <3>1
    <2>7. Grown(w, c)
      <3>1. \A n \in 1..Len(w) : n \in DOMAIN Draft /\ c[n] = Draft[n]
        BY <1>1, <1>2, <2>3 DEF Grown
      <3>2. Len(w) <= Len(c)
        BY <1>1, <1>2, <2>3 DEF Grown
      <3> QED BY <1>1, <3>1, <3>2 DEF Grown
    <2> QED BY <1>3, <2>1, <2>3, <2>5, <2>6, <2>7 DEF WholeScope, Apart
  <1>5. ASSUME NEW n \in DOMAIN Draft, NEW q \in Qtys, AddLine(n, q)
        PROVE  MInv'
    <2> DEFINE L == WithRow(Draft[n].lines, items', q)
               D == DOMAIN Draft[n].lines \cup {items'}
               c == [Draft EXCEPT ![n].lines = L]
    <2>1. Rewrite(c) /\ items' = items + 1 /\ items' \in items..MaxItems
      BY <1>1, <1>5 DEF AddLine, FreshItem
    <2>2. D \in SUBSET (1..MaxItems)
      BY <1>1, <1>2, <2>1
    <2>3. L \in [D -> Int]
      <3>1. \A l \in DOMAIN Draft[n].lines : Draft[n].lines[l] \in Int
        BY <1>2
      <3>2. q \in Int
        BY MarginAmounts
      <3> QED BY <3>1, <3>2 DEF WithRow
    <2>4. D \subseteq 1..items' /\ \A l \in D : l \in DOMAIN Draft[n].lines \/ l \notin LinesOf(Draft)
      BY <1>1, <1>2, <2>1
    <2>5. n <= Len(w) => DOMAIN w[n].lines \subseteq D
      BY <1>2
    <2>6. items \in Nat /\ items' \in Nat /\ items <= items'
      BY <1>1, <2>1
    <2> HIDE DEF L, D
    <2>7. c \in Seq(Chapter) /\ Grown(w, c) /\ WholeScope(c, items')
      BY <1>1, <2>2, <2>3, <2>4, <2>5, <2>6, Relined
    <2> QED BY <1>3, <2>1, <2>7
  <1>6. ASSUME NEW n \in DOMAIN Draft, NEW q \in Qtys, NEW l \in DOMAIN Draft[n].lines,
               Requantify(n, l, q)
        PROVE  MInv'
    <2> DEFINE L == [Draft[n].lines EXCEPT ![l] = q]
               D == DOMAIN Draft[n].lines
               c == [Draft EXCEPT ![n].lines = L]
    <2>1. Rewrite(c) /\ items' = items /\ items' \in items..MaxItems
      <3>1. [Draft EXCEPT ![n].lines[l] = q] = c
        OBVIOUS
      <3> QED BY <1>1, <1>6, <3>1 DEF Requantify
    <2>2. D \in SUBSET (1..MaxItems) /\ Draft[n].lines \in [D -> Int]
      BY <1>2
    <2>3. L \in [D -> Int]
      BY <2>2, MarginAmounts
    <2>4. D \subseteq 1..items' /\ \A k \in D : k \in DOMAIN Draft[n].lines \/ k \notin LinesOf(Draft)
      BY <1>1, <1>2, <2>1
    <2>5. n <= Len(w) => DOMAIN w[n].lines \subseteq D
      BY <1>2
    <2>6. items \in Nat /\ items' \in Nat /\ items <= items'
      BY <1>1, <2>1
    <2> HIDE DEF L, D
    <2>7. c \in Seq(Chapter) /\ Grown(w, c) /\ WholeScope(c, items')
      BY <1>1, <2>2, <2>3, <2>4, <2>5, <2>6, Relined
    <2> QED BY <1>3, <2>1, <2>7
  <1>7. ASSUME NEW n \in DOMAIN Draft, NEW l \in DOMAIN Draft[n].lines, DeleteLine(n, l)
        PROVE  MInv'
    <2> DEFINE D == DOMAIN Draft[n].lines \ {l}
               L == [k \in D |-> Draft[n].lines[k]]
               c == [Draft EXCEPT ![n].lines = L]
    <2>1. Rewrite(c) /\ items' = items /\ items' \in items..MaxItems /\ l \notin LinesOf(w)
      BY <1>1, <1>7 DEF DeleteLine, ItsOwnLine
    <2>2. D \in SUBSET (1..MaxItems)
      BY <1>2
    <2>3. L \in [D -> Int]
      BY <1>2
    <2>4. D \subseteq 1..items' /\ \A k \in D : k \in DOMAIN Draft[n].lines \/ k \notin LinesOf(Draft)
      BY <1>1, <1>2, <2>1
    <2>5. n <= Len(w) => DOMAIN w[n].lines \subseteq D
      <3>1. n <= Len(w) => l \notin DOMAIN w[n].lines
        BY <1>2, <2>1, LinesAre
      <3> QED BY <1>2, <3>1
    <2>6. items \in Nat /\ items' \in Nat /\ items <= items'
      BY <1>1, <2>1
    <2> HIDE DEF L, D
    <2>7. c \in Seq(Chapter) /\ Grown(w, c) /\ WholeScope(c, items')
      BY <1>1, <2>2, <2>3, <2>4, <2>5, <2>6, Relined
    <2> QED BY <1>3, <2>1, <2>7
  <1>o. \A n \in DOMAIN Draft : ItsOwnChapter(n) => n > Len(w)
    BY DEF ItsOwnChapter, w
  <1>8. ASSUME NEW n \in DOMAIN Draft, RemoveChapter(n)
        PROVE  MInv'
    <2> DEFINE c == RemoveAt(Draft, n)
    <2>1. Rewrite(c) /\ items' = items /\ items' \in items..MaxItems /\ n > Len(w)
      BY <1>1, <1>8, <1>o DEF RemoveChapter
    <2>2. c \in Seq(Chapter) /\ Grown(w, c) /\ Apart(c) /\ LinesOf(c) \subseteq LinesOf(Draft)
      BY <1>1, <2>1, RemovedGrown
    <2> HIDE DEF c
    <2>3. WholeScope(c, items')
      BY <1>1, <2>1, <2>2 DEF WholeScope
    <2> QED BY <1>3, <2>1, <2>2, <2>3
  <1>9. ASSUME NEW n \in DOMAIN Draft, NEW at \in DOMAIN Draft, MoveChapter(n, at)
        PROVE  MInv'
    <2> DEFINE c == InsertAt(RemoveAt(Draft, n), at, Draft[n])
    <2>1. /\ Rewrite(c) /\ items' = items /\ items' \in items..MaxItems
          /\ n > Len(w) /\ at > Len(w)
      BY <1>1, <1>9, <1>o DEF MoveChapter
    <2>2. c \in Seq(Chapter) /\ Grown(w, c) /\ Apart(c) /\ LinesOf(c) \subseteq LinesOf(Draft)
      BY <1>1, <2>1, MovedGrown
    <2> HIDE DEF c
    <2>3. WholeScope(c, items')
      BY <1>1, <2>1, <2>2 DEF WholeScope
    <2> QED BY <1>3, <2>1, <2>2, <2>3
  <1> QED BY <1>4, <1>5, <1>6, <1>7, <1>8, <1>9

-----------------------------------------------------------------------------
\* What the customer owes for the annexes in force.
LEMMA SignedAre ==
    ASSUME NEW a \in Seq(AnnexRow)
    PROVE  /\ IsFiniteSet(SignedSet(a)) /\ SignedSum(a) \in Int
           /\ \A k \in SignedSet(a) : a[k].cents \in Int
  <1> DEFINE f == [k \in SignedSet(a) |-> a[k].cents]
  <1>1. DOMAIN a = 1..Len(a) /\ Len(a) \in Nat /\ \A k \in DOMAIN a : a[k] \in AnnexRow
    OBVIOUS
  <1>2. IsFiniteSet(1..Len(a)) /\ SignedSet(a) \subseteq 1..Len(a)
    BY <1>1, FS_Interval DEF SignedSet
  <1>3. IsFiniteSet(SignedSet(a))
    BY <1>2, FS_Subset
  <1>4. \A k \in SignedSet(a) : a[k].cents \in Int
    BY <1>1 DEF SignedSet, AnnexRow
  <1>5. \A k \in SignedSet(a) : f[k] \in Int
    BY <1>4
  <1> HIDE DEF f
  <1>6. SumOn(f, SignedSet(a)) \in Int
    BY <1>3, <1>5, SumIsInt
  <1> QED BY <1>3, <1>4, <1>6 DEF SignedSum, f

\* Annexes of the same prices, as many of them in force, come to the same.
LEMMA SignedAlike ==
    ASSUME NEW a \in Seq(AnnexRow), NEW b, SignedSet(b) = SignedSet(a),
           \A k \in SignedSet(a) : b[k].cents = a[k].cents
    PROVE  SignedSum(b) = SignedSum(a)
  <1> DEFINE S == SignedSet(a)
             f == [k \in S |-> a[k].cents]
             g == [k \in S |-> b[k].cents]
  <1>1. IsFiniteSet(S) /\ \A k \in S : f[k] \in Int /\ f[k] = g[k]
    BY SignedAre
  <1>2. SignedSum(a) = SumOn(f, S) /\ SignedSum(b) = SumOn(g, S)
    BY DEF SignedSum
  <1> HIDE DEF f, g, S
  <1> QED BY <1>1, <1>2, SumAlike

\* One annex more in force.
LEMMA SignedOne ==
    ASSUME NEW a \in Seq(AnnexRow), NEW b \in Seq(AnnexRow), DOMAIN b = DOMAIN a,
           NEW k \in DOMAIN a, ~a[k].applied, b[k].applied, b[k].cents = a[k].cents,
           \A j \in DOMAIN a : j # k => b[j] = a[j]
    PROVE  SignedSum(b) = SignedSum(a) + a[k].cents
  <1> DEFINE S == SignedSet(a)
             f == [j \in S |-> a[j].cents]
             g == [j \in S \cup {k} |-> b[j].cents]
  <1>1. SignedSet(b) = S \cup {k} /\ k \notin S
    BY DEF SignedSet
  <1>2. IsFiniteSet(S) /\ \A j \in S : a[j].cents \in Int
    BY SignedAre
  <1>3. a[k].cents \in Int /\ \A j \in S : b[j] = a[j]
    <2>1. a[k] \in AnnexRow /\ \A j \in S : j \in DOMAIN a /\ j # k
      BY DEF SignedSet
    <2> QED BY <2>1 DEF AnnexRow
  <1>4. (\A j \in S \cup {k} : g[j] \in Int) /\ (\A j \in S : f[j] \in Int /\ f[j] = g[j])
        /\ g[k] = a[k].cents
    BY <1>2, <1>3
  <1>5. SignedSum(a) = SumOn(f, S) /\ SignedSum(b) = SumOn(g, S \cup {k})
    BY <1>1 DEF SignedSum
  <1> HIDE DEF f, g, S
  <1>6. SumOn(f, S) = SumOn(g, S)
    BY <1>2, <1>4, SumAlike
  <1>7. SumOn(g, S \cup {k}) = g[k] + SumOn(g, S)
    BY <1>1, <1>2, <1>4, SumWith
  <1>8. SumOn(g, S) \in Int
    BY <1>2, <1>4, SumIsInt
  <1> QED BY <1>3, <1>4, <1>5, <1>6, <1>7, <1>8

\* The invariant says what the property says.
LEMMA BuiltIs == (BuiltInv <=> SignedIsBuilt)
  BY SaleIs DEF BuiltInv, SignedIsBuilt, SignedFor, SignedSum, SignedSet

-----------------------------------------------------------------------------
\* Versions that keep their chapters and their origin.
SameScopes(s, t) ==
    /\ DOMAIN t = DOMAIN s
    /\ \A v \in DOMAIN s : /\ t[v].chapters = s[v].chapters /\ t[v].of = s[v].of
                           /\ s[v].answered => t[v].answered

\* An annex stays sound while versions are only answered and set aside.
LEMMA RowsStay ==
    ASSUME NEW s, NEW t, SameScopes(s, t), \A v \in DOMAIN s : v # 1 => s[v].of \in DOMAIN s,
           NEW a \in Seq(AnnexRow), NEW b \in Seq(AnnexRow),
           \A k \in DOMAIN a : RowSound(s, a, k),
           \A k \in DOMAIN b : k \in DOMAIN a /\ b[k].version = a[k].version /\ b[k].cents = a[k].cents
    PROVE  \A k \in DOMAIN b : RowSound(t, b, k)
  <1> TAKE k \in DOMAIN b
  <1> DEFINE v == a[k].version
  <1>1. /\ k \in DOMAIN a /\ b[k].version = v /\ b[k].cents = a[k].cents
    OBVIOUS
  <1>2. Reached(b, k - 1) = Reached(a, k - 1)
    <2>1. k - 1 = 0 \/ k - 1 \in DOMAIN b
      OBVIOUS
    <2> QED BY <2>1 DEF Reached
  <1>3. /\ v \in DOMAIN s /\ v # 1 /\ s[v].answered /\ s[v].of = Reached(a, k - 1)
        /\ a[k].cents = WorthOf(s[v].chapters) - WorthOf(s[s[v].of].chapters)
    BY <1>1 DEF RowSound
  <1>4. s[v].of \in DOMAIN s
    BY <1>3
  <1>5. /\ v \in DOMAIN t /\ t[v].answered /\ t[v].of = s[v].of /\ t[v].chapters = s[v].chapters
        /\ t[s[v].of].chapters = s[s[v].of].chapters
    BY <1>3, <1>4 DEF SameScopes
  <1> HIDE DEF v
  <1> QED BY <1>1, <1>2, <1>3, <1>5 DEF RowSound

\* What the invariant says of the versions.
LEMMA ScopesAre ==
    ASSUME MInv
    PROVE  /\ scopes \in Seq(Scope) /\ Len(scopes) \in Nat /\ DOMAIN scopes = 1..Len(scopes)
           /\ \A v \in DOMAIN scopes : scopes[v] \in Scope
           /\ \A v \in DOMAIN scopes : v # 1 => /\ scopes[v].of \in DOMAIN scopes
                                                /\ scopes[scopes[v].of].answered
                                                /\ Grown(scopes[scopes[v].of].chapters, scopes[v].chapters)
           /\ \A v \in DOMAIN scopes : scopes[v].built \subseteq LinesOf(scopes[v].chapters)
  <1>1. SizesTyped /\ Lineage /\ ScopesWhole
    BY DEF MInv
  <1>2. scopes \in Seq(Scope)
    BY <1>1 DEF SizesTyped
  <1>3. /\ Len(scopes) \in Nat /\ DOMAIN scopes = 1..Len(scopes)
        /\ \A v \in DOMAIN scopes : scopes[v] \in Scope
    BY <1>2
  <1>4. \A v \in DOMAIN scopes : v # 1 => /\ scopes[v].of \in 1..v - 1
                                          /\ scopes[scopes[v].of].answered
                                          /\ Grown(scopes[scopes[v].of].chapters, scopes[v].chapters)
    BY <1>1 DEF Lineage, ChaptersIn
  <1>5. \A v \in DOMAIN scopes : v # 1 => scopes[v].of \in DOMAIN scopes
    BY <1>3, <1>4
  <1> QED BY <1>1, <1>2, <1>3, <1>4, <1>5 DEF ScopesWhole

\* The costs follow the scope in force, to a version that grew from it.
LEMMA CostsFollow ==
    ASSUME MInv, NEW v \in DOMAIN scopes, v # 1, scopes[v].of = inForce,
           scopes'[v].chapters = scopes[v].chapters, inForce' = v, costs' = costs
    PROVE  CostsPlaced'
  <1>1. v # 0 /\ inForce # 0 /\ inForce \in DOMAIN scopes
        /\ Grown(scopes[inForce].chapters, scopes[v].chapters)
    BY ScopesAre
  <1>2. scopes[inForce].chapters \in Seq(Chapter) /\ scopes[v].chapters \in Seq(Chapter)
    BY <1>1, ScopesAre DEF Scope
  <1>3. ASSUME NEW i \in DOMAIN costs
        PROVE  /\ costs[i].chapter \in DOMAIN scopes[v].chapters
               /\ costs[i].line \in DOMAIN scopes[v].chapters[costs[i].chapter].lines
    <2> DEFINE n == costs[i].chapter
    <2>1. n \in DOMAIN scopes[inForce].chapters /\ costs[i].line \in DOMAIN scopes[inForce].chapters[n].lines
      BY <1>1 DEF MInv, CostsPlaced, Quick, InScope, ChaptersIn
    <2>2. n \in 1..Len(scopes[inForce].chapters) /\ Len(scopes[inForce].chapters) \in Nat
          /\ Len(scopes[v].chapters) \in Nat /\ DOMAIN scopes[v].chapters = 1..Len(scopes[v].chapters)
      BY <1>2, <2>1, ChapterIs
    <2> HIDE DEF n
    <2>3. n \in DOMAIN scopes[v].chapters /\ costs[i].line \in DOMAIN scopes[v].chapters[n].lines
      BY <1>1, <2>1, <2>2 DEF Grown
    <2> QED BY <2>3 DEF n
  <1> QED BY <1>1, <1>3 DEF CostsPlaced, Quick, InScope, ChaptersIn

\* Taking an annex back leaves the costs where they are, none being on what it brought.
LEMMA CostsFall ==
    ASSUME MInv, inForce \in DOMAIN scopes, inForce # 1,
           NEW w, w = scopes[inForce].of, inForce' = w, costs' = costs,
           scopes'[w].chapters = scopes[w].chapters,
           \A i \in DOMAIN costs : costs[i].line \notin Brought(inForce)
    PROVE  CostsPlaced'
  <1>1. inForce # 0 /\ w \in DOMAIN scopes /\ w # 0
        /\ Grown(scopes[w].chapters, scopes[inForce].chapters)
    BY ScopesAre
  <1>2. scopes[inForce].chapters \in Seq(Chapter) /\ scopes[w].chapters \in Seq(Chapter)
    BY <1>1, ScopesAre DEF Scope
  <1>3. Apart(scopes[inForce].chapters)
    BY DEF MInv, ScopesWhole, WholeScope
  <1>4. ASSUME NEW i \in DOMAIN costs
        PROVE  /\ costs[i].chapter \in DOMAIN scopes[w].chapters
               /\ costs[i].line \in DOMAIN scopes[w].chapters[costs[i].chapter].lines
    <2> DEFINE n == costs[i].chapter
               l == costs[i].line
    <2>1. n \in DOMAIN scopes[inForce].chapters /\ l \in DOMAIN scopes[inForce].chapters[n].lines
      BY <1>1 DEF MInv, CostsPlaced, Quick, InScope, ChaptersIn
    <2>2. l \in LinesOf(scopes[inForce].chapters)
      BY <2>1, LinesAre
    <2>3. l \in LinesOf(scopes[w].chapters)
      BY <2>2, SaleIs DEF Brought
    <2>4. PICK m \in DOMAIN scopes[w].chapters : l \in DOMAIN scopes[w].chapters[m].lines
      BY <2>3, LinesAre
    <2>5. m \in DOMAIN scopes[inForce].chapters /\ l \in DOMAIN scopes[inForce].chapters[m].lines
      <3>1. /\ m \in 1..Len(scopes[w].chapters) /\ Len(scopes[w].chapters) \in Nat
            /\ Len(scopes[inForce].chapters) \in Nat
            /\ DOMAIN scopes[inForce].chapters = 1..Len(scopes[inForce].chapters)
        BY <1>2, <2>4, ChapterIs
      <3> QED BY <1>1, <2>4, <3>1 DEF Grown
    <2>6. m = n
      BY <1>3, <2>1, <2>5 DEF Apart
    <2> QED BY <2>4, <2>6
  <1> QED BY <1>1, <1>4 DEF CostsPlaced, Quick, InScope, ChaptersIn

-----------------------------------------------------------------------------
\* The costs stay while the scope in force does.
LEMMA CostsStay ==
    ASSUME MInv, costs' = costs, inForce' = inForce,
           \A v \in DOMAIN scopes : scopes'[v].chapters = scopes[v].chapters
    PROVE  CostsPlaced'
  <1>1. inForce # 0 => scopes'[inForce].chapters = scopes[inForce].chapters
    BY DEF MInv, ScopeStanding
  <1> QED BY <1>1 DEF MInv, CostsPlaced, Quick, InScope, ChaptersIn

\* The versions agreed and in force are there and answered.
LEMMA StandingStays ==
    ASSUME MInv, scopes # <<>>, SameScopes(scopes, scopes'),
           agreed' \in DOMAIN scopes, scopes'[agreed'].answered,
           inForce' \in DOMAIN scopes, scopes'[inForce'].answered
    PROVE  ScopeStanding'
  <1>1. scopes' # <<>>
    <2>1. DOMAIN scopes' # {}
      BY DEF SameScopes
    <2>2. DOMAIN <<>> = {}
      OBVIOUS
    <2> QED BY <2>1, <2>2
  <1> QED BY <1>1 DEF SameScopes, ScopeStanding

\* Opening an adicional copies what the customer accepted.
LEMMA OpeningKeeps == ASSUME MInv, OpenAdicional PROVE MInv'
  <1> DEFINE n == Len(scopes)
             x == scopes[agreed]
             y == [x EXCEPT !.of = agreed, !.answered = FALSE, !.superseded = FALSE]
  <1>0. /\ SizesTyped /\ ScopesWhole /\ Lineage /\ ScopeStanding /\ ChainRows /\ ChainEnds
        /\ CostsPlaced /\ BuiltInv
    BY DEF MInv
  <1>1. /\ scopes \in Seq(Scope) /\ n \in Nat /\ DOMAIN scopes = 1..n
        /\ \A v \in DOMAIN scopes : scopes[v] \in Scope
    BY ScopesAre
  <1>2. /\ scopes # <<>> /\ agreed \in DOMAIN scopes /\ agreed # 0 /\ x \in Scope /\ x.answered
        /\ inForce \in DOMAIN scopes /\ agreed \in Nat
    BY <1>0, <1>1 DEF OpenAdicional, ScopeStanding
  <1>3. /\ scopes' = Append(scopes, y) /\ moves < MaxMoves /\ moves' = moves + 1
        /\ UNCHANGED <<agreed, inForce, annexes, removed, costs, items, underContract>>
    BY DEF OpenAdicional, Move
  <1>4. /\ y \in Scope /\ y.chapters = x.chapters /\ y.built = x.built
        /\ y.of = agreed /\ ~y.answered /\ ~y.superseded
    <2> HIDE DEF x
    <2> QED BY <1>2 DEF Scope
  <1> HIDE DEF y
  <1>5. /\ scopes' \in Seq(Scope) /\ DOMAIN scopes' = 1..n + 1 /\ scopes'[n + 1] = y
        /\ \A v \in DOMAIN scopes : v \in DOMAIN scopes' /\ scopes'[v] = scopes[v]
        /\ \A v \in DOMAIN scopes' : v \in DOMAIN scopes \/ v = n + 1
    BY <1>1, <1>3, <1>4, AppendedIs
  <1>6. SizesTyped'
    BY <1>0, <1>3, <1>5, MarginAmounts DEF SizesTyped
  <1>7. ScopesWhole'
    <2>1. /\ WholeScope(x.chapters, items) /\ x.built \subseteq LinesOf(x.chapters)
          /\ \A v \in DOMAIN scopes : /\ WholeScope(scopes[v].chapters, items)
                                      /\ scopes[v].built \subseteq LinesOf(scopes[v].chapters)
      BY <1>0, <1>2 DEF ScopesWhole
    <2> HIDE DEF x
    <2> QED BY <1>3, <1>4, <1>5, <2>1 DEF ScopesWhole
  <1>8. Lineage'
    <2>1. ASSUME NEW v \in DOMAIN scopes', v # 1
          PROVE  /\ scopes'[v].of \in 1..v - 1 /\ scopes'[scopes'[v].of].answered
                 /\ Grown(scopes'[scopes'[v].of].chapters, scopes'[v].chapters)
                 /\ OpenScope(scopes'[v]) => scopes'[v].of = agreed'
      <3>1. CASE v \in DOMAIN scopes
        <4>1. /\ scopes[v].of \in 1..v - 1 /\ scopes[scopes[v].of].answered
              /\ Grown(scopes[scopes[v].of].chapters, scopes[v].chapters)
              /\ OpenScope(scopes[v]) => scopes[v].of = agreed
          BY <1>0, <2>1, <3>1 DEF Lineage, ChaptersIn
        <4>2. scopes[v].of \in DOMAIN scopes
          BY <1>1, <3>1, <4>1
        <4> QED BY <1>3, <1>5, <3>1, <4>1, <4>2
      <3>2. CASE v = n + 1
        <4>1. scopes'[v].of = agreed /\ scopes'[agreed] = x /\ scopes'[v].chapters = x.chapters
          BY <1>2, <1>4, <1>5, <3>2
        <4>2. Grown(x.chapters, x.chapters)
          <5>1. Len(x.chapters) \in Nat
            <6>1. x.chapters \in Seq(Chapter)
              BY <1>2 DEF Scope
            <6> QED BY <6>1
          <5> QED BY <5>1 DEF Grown
        <4> HIDE DEF x
        <4>3. agreed \in 1..v - 1
          BY <1>1, <1>2, <3>2
        <4> QED BY <1>2, <1>3, <4>1, <4>2, <4>3
      <3> QED BY <1>5, <3>1, <3>2
    <2>2. \A v \in DOMAIN scopes' : v = 1 => scopes'[v].of = 0 /\ scopes'[v].answered
      <3>1. 1 \in DOMAIN scopes
        BY <1>1, <1>2
      <3> QED BY <1>0, <1>5, <3>1 DEF Lineage
    <2> QED BY <2>1, <2>2 DEF Lineage, ChaptersIn
  <1>9. ScopeStanding'
    BY <1>0, <1>2, <1>3, <1>5 DEF ScopeStanding
  <1>10. ChainRows'
    <2>1. ASSUME NEW k \in DOMAIN annexes PROVE RowSound(scopes', annexes, k)
      <3> DEFINE u == annexes[k].version
      <3>1. RowSound(scopes, annexes, k)
        BY <1>0 DEF ChainRows
      <3>2. u \in DOMAIN scopes /\ u # 1
        BY <3>1 DEF RowSound
      <3>3. scopes[u].of \in DOMAIN scopes
        BY <3>2, ScopesAre
      <3>4. scopes'[u] = scopes[u] /\ scopes'[scopes[u].of] = scopes[scopes[u].of] /\ u \in DOMAIN scopes'
        BY <1>5, <3>2, <3>3
      <3> QED BY <3>1, <3>4 DEF RowSound
    <2> QED BY <1>3, <2>1 DEF ChainRows
  <1>11. ChainEnds'
    BY <1>0, <1>3 DEF ChainEnds
  <1>12. CostsPlaced'
    BY <1>3, <1>5, CostsStay
  <1>13. BuiltInv'
    <2>1. 1 \in DOMAIN scopes
      BY <1>1, <1>2
    <2> QED BY <1>0, <1>2, <1>3, <1>5, <2>1 DEF BuiltInv
  <1> QED BY <1>6, <1>7, <1>8, <1>9, <1>10, <1>11, <1>12, <1>13 DEF MInv

\* A step that leaves the versions as they are.
LEMMA BookingKeeps ==
    ASSUME MInv, UNCHANGED <<scopes, agreed, inForce, annexes, removed, items, underContract>>,
           moves' \in 0..MaxMoves, costs' \in Seq(CostRow), CostsPlaced'
    PROVE  MInv'
  BY DEF MInv, SizesTyped, ScopesWhole, Lineage, ScopeStanding, ChainRows, ChainEnds, BuiltInv, ChaptersIn

\* The calls made stay within their bound.
LEMMA MovesTyped == ASSUME MInv, Move PROVE moves' \in 0..MaxMoves /\ underContract' = underContract
  BY MarginAmounts DEF Move, MInv, SizesTyped

\* A cost is put where the line it names is.
LEMMA CostsKeep ==
    ASSUME MInv,
           \/ \E l \in 1..MaxItems, c \in Costs : ~Quick /\ l \in LinesIn(inForce) /\ BookOn(l, c)
           \/ \E c \in Costs : BookLoose(c)
           \/ \E i \in DOMAIN costs, c \in Costs : AssignSplit(i, c)
    PROVE  MInv'
  <1>0. SizesTyped /\ CostsPlaced /\ costs \in Seq(CostRow)
    BY DEF MInv, SizesTyped
  <1>a. DOMAIN costs = 1..Len(costs) /\ Len(costs) \in Nat /\ \A i \in DOMAIN costs : costs[i] \in CostRow
    BY <1>0
  <1>1. ASSUME NEW l \in Nat, NEW n \in Nat, NEW d \in Int, Book(l, n, d),
               IF Quick THEN l = 0 /\ n \in {0, 1}
               ELSE n \in InScope /\ l \in DOMAIN ChaptersIn(inForce)[n].lines
        PROVE  MInv'
    <2> DEFINE r == [line |-> l, chapter |-> n, cents |-> d]
    <2>1. /\ costs' = Append(costs, r) /\ moves' \in 0..MaxMoves
          /\ UNCHANGED <<scopes, agreed, inForce, annexes, removed, items, underContract>>
      BY <1>1, MovesTyped DEF Book
    <2>2. r \in CostRow /\ r.line = l /\ r.chapter = n
      BY DEF CostRow
    <2> HIDE DEF r
    <2>3. /\ costs' \in Seq(CostRow) /\ DOMAIN costs' = 1..Len(costs) + 1
          /\ costs'[Len(costs) + 1] = r
          /\ \A i \in DOMAIN costs : costs'[i] = costs[i]
          /\ \A i \in DOMAIN costs' : i \in DOMAIN costs \/ i = Len(costs) + 1
      BY <1>0, <2>1, <2>2, AppendedIs
    <2>4. \A i \in DOMAIN costs' : costs'[i] = r \/ (i \in DOMAIN costs /\ costs'[i] = costs[i])
      BY <2>3
    <2>5. CostsPlaced'
      BY <1>0, <1>1, <2>1, <2>2, <2>4 DEF CostsPlaced, Quick, InScope, ChaptersIn
    <2> QED BY <2>1, <2>3, <2>5, BookingKeeps
  <1>2. ASSUME NEW l \in 1..MaxItems, NEW c \in Costs, ~Quick, l \in LinesIn(inForce), BookOn(l, c)
        PROVE  MInv'
    <2> DEFINE n == ChapterOf(l)
    <2>1. \E m \in InScope : l \in DOMAIN ChaptersIn(inForce)[m].lines
      BY <1>2 DEF LinesIn, InScope
    <2>2. n \in InScope /\ l \in DOMAIN ChaptersIn(inForce)[n].lines
      BY <2>1 DEF ChapterOf
    <2>3. n \in Nat
      <3>1. inForce \in DOMAIN scopes
        BY <1>2 DEF MInv, ScopeStanding, Quick
      <3>2. DOMAIN ChaptersIn(inForce) = 1..Len(ChaptersIn(inForce)) /\ Len(ChaptersIn(inForce)) \in Nat
        BY <1>0, <3>1, ScopeIs
      <3> QED BY <1>2, <2>2, <3>2 DEF InScope
    <2>4. l \in Nat /\ c \in Int /\ -c \in Int
      BY MarginAmounts
    <2>5. Book(l, n, c) \/ Book(l, n, -c)
      BY <1>2 DEF BookOn
    <2> HIDE DEF n
    <2>6. CASE Book(l, n, c)
      BY <1>1, <1>2, <2>2, <2>3, <2>4, <2>6
    <2>7. CASE Book(l, n, -c)
      <3>1. PICK d \in Int : d = -c
        BY <2>4
      <3>2. Book(l, n, d)
        BY <2>7, <3>1
      <3> QED BY <1>1, <1>2, <2>2, <2>3, <2>4, <3>2
    <2> QED BY <2>5, <2>6, <2>7
  <1>3. ASSUME NEW c \in Costs, BookLoose(c) PROVE MInv'
    <2>1. Quick /\ Book(0, 0, c) /\ c \in Int
      BY <1>3, MarginAmounts DEF BookLoose
    <2> QED BY <1>1, <2>1
  <1>4. ASSUME NEW i \in DOMAIN costs, NEW c \in Costs, AssignSplit(i, c) PROVE MInv'
    <2> DEFINE part(z) == [line |-> 0, chapter |-> 1, cents |-> z]
    <2>0. /\ costs[i].chapter = 0 /\ c \in Int /\ moves' \in 0..MaxMoves
          /\ UNCHANGED <<scopes, agreed, inForce, annexes, removed, items, underContract>>
      BY <1>4, MarginAmounts, MovesTyped DEF AssignSplit, Unassigned
    <2>1. PICK d \in Int : costs' = SplitInto(i, IF d = 0 THEN <<part(c)>> ELSE <<part(c), part(d)>>)
      BY <1>4 DEF AssignSplit
    <2>2. Quick
      <3>1. SUFFICES ASSUME ~Quick PROVE FALSE
        OBVIOUS
      <3>2. inForce \in DOMAIN scopes /\ 0 \in InScope
        BY <1>0, <2>0, <3>1 DEF MInv, CostsPlaced, ScopeStanding, Quick
      <3>3. InScope = 1..Len(ChaptersIn(inForce)) /\ Len(ChaptersIn(inForce)) \in Nat
        BY <1>0, <3>1, <3>2, ScopeIs DEF InScope
      <3> QED BY <3>2, <3>3
    <2>3. part(c) \in CostRow /\ part(d) \in CostRow
      BY <2>0 DEF CostRow
    <2>4. part(c).line = 0 /\ part(c).chapter = 1 /\ part(d).line = 0 /\ part(d).chapter = 1
      OBVIOUS
    <2> DEFINE p == part(c)
               q == part(d)
    <2>5. costs' = [costs EXCEPT ![i] = p] \o (IF d = 0 THEN <<>> ELSE <<q>>)
      <3>1. /\ Head(<<p>>) = p /\ Tail(<<p>>) = <<>>
            /\ Head(<<p, q>>) = p /\ Tail(<<p, q>>) = <<q>>
        <4> HIDE DEF p, q
        <4> QED OBVIOUS
      <3>2. costs' = SplitInto(i, IF d = 0 THEN <<p>> ELSE <<p, q>>)
        BY <2>1
      <3> HIDE DEF p, q, part
      <3>3. CASE d = 0
        BY <3>1, <3>2, <3>3 DEF SplitInto, ReplaceAt
      <3>4. CASE d # 0
        BY <3>1, <3>2, <3>4 DEF SplitInto, ReplaceAt
      <3> QED BY <3>3, <3>4
    <2>a. p \in CostRow /\ q \in CostRow /\ p.line = 0 /\ p.chapter = 1 /\ q.line = 0 /\ q.chapter = 1
      BY <2>3, <2>4
    <2> DEFINE s == [costs EXCEPT ![i] = p]
               t == IF d = 0 THEN <<>> ELSE <<q>>
    <2> HIDE DEF p, q, part
    <2>6. /\ s \in Seq(CostRow) /\ Len(s) = Len(costs) /\ s[i] = p
          /\ \A j \in DOMAIN costs : j # i => s[j] = costs[j]
      BY <1>0, <2>a, ReplacedIs
    <2>7. t \in Seq(CostRow) /\ Len(t) \in Nat /\ \A j \in 1..Len(t) : t[j] = q
      <3>1. CASE d = 0
        BY <3>1
      <3>2. CASE d # 0
        BY <2>a, <3>2
      <3> QED BY <3>1, <3>2
    <2>c. costs' = s \o t
      BY <2>5
    <2> HIDE DEF s, t
    <2>8. /\ costs' \in Seq(CostRow) /\ Len(costs') = Len(s) + Len(t)
          /\ \A j \in 1..Len(s) + Len(t) : costs'[j] = IF j <= Len(s) THEN s[j] ELSE t[j - Len(s)]
      BY <2>6, <2>7, <2>c, ConcatIs
    <2>9. ASSUME NEW j \in DOMAIN costs'
          PROVE  costs'[j] = p \/ costs'[j] = q \/ (j \in DOMAIN costs /\ costs'[j] = costs[j])
      <3>1. j \in 1..Len(s) + Len(t) /\ Len(s) = Len(costs) /\ j \in Nat
        BY <1>a, <2>6, <2>7, <2>8
      <3>2. CASE j <= Len(s)
        BY <1>a, <2>6, <2>8, <3>1, <3>2
      <3>3. CASE ~(j <= Len(s))
        <4>1. j - Len(s) \in 1..Len(t)
          BY <1>a, <2>7, <3>1, <3>3
        <4> QED BY <2>7, <2>8, <3>1, <3>3, <4>1
      <3> QED BY <3>2, <3>3
    <2>10. CostsPlaced'
      BY <1>0, <2>0, <2>2, <2>a, <2>9 DEF CostsPlaced, Quick
    <2> QED BY <2>0, <2>8, <2>10, BookingKeeps
  <1> QED BY <1>2, <1>3, <1>4

-----------------------------------------------------------------------------
\* Steps that answer, set aside and bring back versions, but leave their chapters.
LEMMA Switched ==
    ASSUME MInv, scopes # <<>>, scopes' \in Seq(Scope), SameScopes(scopes, scopes'),
           \A v \in DOMAIN scopes : scopes'[v].built = scopes[v].built,
           \A v \in DOMAIN scopes : v # 1 /\ OpenScope(scopes'[v]) => scopes[v].of = agreed',
           items' = items, moves' \in 0..MaxMoves, underContract' = underContract, costs' = costs,
           removed' \in BOOLEAN, annexes' \in Seq(AnnexRow),
           agreed' \in DOMAIN scopes, scopes'[agreed'].answered,
           inForce' \in DOMAIN scopes, scopes'[inForce'].answered
    PROVE  SizesTyped' /\ ScopesWhole' /\ Lineage' /\ ScopeStanding'
  <1>0. SizesTyped /\ ScopesWhole /\ Lineage
    BY DEF MInv
  <1>1. SizesTyped'
    BY <1>0 DEF SizesTyped
  <1>2. \A v \in DOMAIN scopes : scopes'[v].built \subseteq LinesOf(scopes[v].chapters)
    BY <1>0 DEF ScopesWhole
  <1>3. ScopesWhole' /\ Lineage'
    BY <1>0, <1>2, ScopesStay DEF SameScopes
  <1>4. ScopeStanding'
    BY StandingStays
  <1> QED BY <1>1, <1>3, <1>4

\* A version set aside, or brought back, is otherwise as it was.
LEMMA Superseding ==
    ASSUME MInv, NEW u \in DOMAIN scopes, NEW b \in BOOLEAN,
           scopes' = [scopes EXCEPT ![u].superseded = b]
    PROVE  /\ scopes' \in Seq(Scope) /\ SameScopes(scopes, scopes')
           /\ \A v \in DOMAIN scopes : /\ scopes'[v].built = scopes[v].built
                                       /\ scopes'[v].answered = scopes[v].answered
                                       /\ v # u => scopes'[v] = scopes[v]
           /\ scopes'[u].superseded = b
  <1> DEFINE x == scopes[u]
             y == [x EXCEPT !.superseded = b]
  <1>1. scopes \in Seq(Scope) /\ x \in Scope
    BY ScopesAre
  <1>2. scopes' = [scopes EXCEPT ![u] = y]
    OBVIOUS
  <1>3. /\ y \in Scope /\ y.chapters = x.chapters /\ y.of = x.of /\ y.built = x.built
        /\ y.answered = x.answered /\ y.superseded = b
    <2> HIDE DEF x
    <2> QED BY <1>1 DEF Scope
  <1> HIDE DEF y
  <1>4. /\ scopes' \in Seq(Scope) /\ DOMAIN scopes' = DOMAIN scopes /\ scopes'[u] = y
        /\ \A v \in DOMAIN scopes : v # u => scopes'[v] = scopes[v]
    BY <1>1, <1>2, <1>3, ReplacedIs
  <1> QED BY <1>3, <1>4 DEF SameScopes

\* What the invariant says of the annexes.
LEMMA AnnexesAre ==
    ASSUME MInv
    PROVE  /\ annexes \in Seq(AnnexRow) /\ Len(annexes) \in Nat /\ DOMAIN annexes = 1..Len(annexes)
           /\ \A k \in DOMAIN annexes : annexes[k] \in AnnexRow /\ RowSound(scopes, annexes, k)
           /\ \A k \in DOMAIN annexes :
                 LET v == annexes[k].version
                 IN /\ v \in DOMAIN scopes /\ v # 1 /\ scopes[v].answered
                    /\ scopes[v].of = Reached(annexes, k - 1) /\ scopes[v].of \in DOMAIN scopes
                    /\ scopes[scopes[v].of].answered
                    /\ annexes[k].cents
                          = WorthOf(scopes[v].chapters) - WorthOf(scopes[scopes[v].of].chapters)
           /\ (\E k \in DOMAIN annexes : TRUE) => underContract /\ scopes # <<>>
  <1>1. annexes \in Seq(AnnexRow)
    BY DEF MInv, SizesTyped
  <1>2. /\ Len(annexes) \in Nat /\ DOMAIN annexes = 1..Len(annexes)
        /\ \A k \in DOMAIN annexes : annexes[k] \in AnnexRow
    BY <1>1
  <1>3. \A k \in DOMAIN annexes : RowSound(scopes, annexes, k)
    BY DEF MInv, ChainRows
  <1>4. ASSUME NEW k \in DOMAIN annexes
        PROVE  LET v == annexes[k].version
               IN /\ v \in DOMAIN scopes /\ v # 1 /\ scopes[v].answered
                  /\ scopes[v].of = Reached(annexes, k - 1) /\ scopes[v].of \in DOMAIN scopes
                  /\ scopes[scopes[v].of].answered
                  /\ annexes[k].cents
                        = WorthOf(scopes[v].chapters) - WorthOf(scopes[scopes[v].of].chapters)
    <2> DEFINE v == annexes[k].version
    <2>1. /\ v \in DOMAIN scopes /\ v # 1 /\ scopes[v].answered /\ scopes[v].of = Reached(annexes, k - 1)
          /\ annexes[k].cents = WorthOf(scopes[v].chapters) - WorthOf(scopes[scopes[v].of].chapters)
      BY <1>3 DEF RowSound
    <2>2. scopes[v].of \in DOMAIN scopes /\ scopes[scopes[v].of].answered
      BY <2>1, ScopesAre
    <2> QED BY <2>1, <2>2
  <1>5. (\E k \in DOMAIN annexes : TRUE) => underContract /\ scopes # <<>>
    <2>1. DOMAIN <<>> = {}
      OBVIOUS
    <2> QED BY <2>1 DEF MInv, ChainEnds, ScopeStanding
  <1> QED BY <1>1, <1>2, <1>3, <1>4, <1>5

\* Marking progress.
LEMMA MarkingKeeps ==
    ASSUME MInv, NEW l \in 1..MaxItems, ~Quick, l \in LinesIn(inForce), MarkLine(l)
    PROVE  MInv'
  <1> DEFINE x == scopes[inForce]
             b == IF l \in x.built THEN x.built \ {l} ELSE x.built \cup {l}
             y == [x EXCEPT !.built = b]
  <1>1. inForce \in DOMAIN scopes /\ scopes[inForce].answered /\ scopes # <<>>
        /\ agreed \in DOMAIN scopes /\ scopes[agreed].answered
    BY DEF MInv, ScopeStanding, Quick
  <1>2. scopes \in Seq(Scope) /\ x \in Scope /\ x.built \subseteq LinesOf(x.chapters)
    BY <1>1, ScopesAre
  <1>3. b \in SUBSET (1..MaxItems) /\ b \subseteq LinesOf(x.chapters)
    <2>1. l \in LinesOf(x.chapters)
      BY SaleIs
    <2>2. x.built \in SUBSET (1..MaxItems)
      BY <1>2 DEF Scope
    <2> QED BY <1>2, <2>1, <2>2
  <1>4. /\ scopes' = [scopes EXCEPT ![inForce] = y] /\ moves' \in 0..MaxMoves
        /\ UNCHANGED <<agreed, inForce, annexes, removed, costs, items, underContract>>
    BY MovesTyped DEF MarkLine
  <1> HIDE DEF b
  <1>5. /\ y \in Scope /\ y.chapters = x.chapters /\ y.of = x.of /\ y.built = b
        /\ y.answered = x.answered /\ y.superseded = x.superseded
    <2> HIDE DEF x
    <2> QED BY <1>2, <1>3 DEF Scope
  <1> HIDE DEF y
  <1>6. /\ scopes' \in Seq(Scope) /\ DOMAIN scopes' = DOMAIN scopes /\ scopes'[inForce] = y
        /\ \A v \in DOMAIN scopes : v # inForce => scopes'[v] = scopes[v]
    BY <1>1, <1>2, <1>4, <1>5, ReplacedIs
  <1>7. \A v \in DOMAIN scopes :
            /\ scopes'[v].chapters = scopes[v].chapters /\ scopes'[v].of = scopes[v].of
            /\ scopes'[v].answered = scopes[v].answered
            /\ scopes'[v].superseded = scopes[v].superseded
            /\ scopes'[v].built \subseteq LinesOf(scopes[v].chapters)
    BY <1>3, <1>5, <1>6, ScopesAre
  <1>8. SameScopes(scopes, scopes')
    BY <1>6, <1>7 DEF SameScopes
  <1>9. \A v \in DOMAIN scopes : v # 1 /\ OpenScope(scopes'[v]) => scopes[v].of = agreed'
    BY <1>4, <1>7 DEF MInv, Lineage, OpenScope
  <1>10. SizesTyped'
    BY <1>4, <1>6 DEF MInv, SizesTyped
  <1>11. ScopesWhole' /\ Lineage'
    <2>1. SizesTyped /\ ScopesWhole /\ Lineage
      BY DEF MInv
    <2> QED BY <1>4, <1>6, <1>7, <1>9, <2>1, ScopesStay
  <1>12. ScopeStanding'
    BY <1>1, <1>4, <1>7, <1>8, StandingStays
  <1>13. ChainRows'
    BY <1>4, <1>8, ScopesAre, AnnexesAre, RowsStay DEF ChainRows
  <1>14. ChainEnds'
    BY <1>4 DEF MInv, ChainEnds
  <1>15. CostsPlaced'
    BY <1>4, <1>7, CostsStay
  <1>16. BuiltInv'
    <2>1. 1 \in DOMAIN scopes
      BY <1>1, ScopesAre
    <2> QED BY <1>1, <1>4, <1>7, <2>1 DEF MInv, BuiltInv
  <1> QED BY <1>10, <1>11, <1>12, <1>13, <1>14, <1>15, <1>16 DEF MInv

\* Signing the annex that follows the ones in force.
LEMMA SigningKeeps ==
    ASSUME MInv, Liberties = {}, NEW k \in DOMAIN annexes, Sign(k)
    PROVE  MInv'
  <1> DEFINE v == annexes[k].version
             u == scopes[v].of
  <1>1. /\ v \in DOMAIN scopes /\ v # 1 /\ scopes[v].answered /\ u = Reached(annexes, k - 1)
        /\ u \in DOMAIN scopes /\ underContract /\ scopes # <<>>
        /\ annexes[k].cents = WorthOf(scopes[v].chapters) - WorthOf(scopes[u].chapters)
        /\ annexes \in Seq(AnnexRow) /\ Len(annexes) \in Nat /\ DOMAIN annexes = 1..Len(annexes)
        /\ annexes[k] \in AnnexRow
    BY AnnexesAre
  <1>2. /\ ~annexes[k].applied /\ (\A j \in 1..k - 1 : annexes[j].applied)
        /\ annexes' = [annexes EXCEPT ![k].applied = TRUE]
        /\ scopes' = [scopes EXCEPT ![u].superseded = TRUE] /\ inForce' = v
        /\ UNCHANGED <<agreed, removed, costs, items, underContract>> /\ moves' \in 0..MaxMoves
    BY MovesTyped DEF Sign, PutInForce
  <1> DEFINE r == [annexes[k] EXCEPT !.applied = TRUE]
  <1>3. r \in AnnexRow /\ r.version = v /\ r.cents = annexes[k].cents /\ r.applied
    BY <1>1 DEF AnnexRow
  <1>4. /\ annexes' \in Seq(AnnexRow) /\ DOMAIN annexes' = DOMAIN annexes /\ annexes'[k] = r
        /\ Len(annexes') = Len(annexes)
        /\ \A j \in DOMAIN annexes : j # k => annexes'[j] = annexes[j]
    <2>1. annexes' = [annexes EXCEPT ![k] = r]
      BY <1>2
    <2> HIDE DEF r
    <2> QED BY <1>1, <1>3, <2>1, ReplacedIs
  <1> HIDE DEF r
  <1>5. \A j \in DOMAIN annexes' : /\ j \in DOMAIN annexes /\ annexes'[j].version = annexes[j].version
                                   /\ annexes'[j].cents = annexes[j].cents
    BY <1>3, <1>4
  <1>6. PICK m \in 0..Len(annexes) : /\ inForce = Reached(annexes, m)
                                     /\ \A j \in DOMAIN annexes : annexes[j].applied <=> j <= m
    BY <1>1 DEF MInv, ChainEnds, AsFarAs
  <1>7. m = k - 1
    <2>1. k \in Nat /\ m \in Nat /\ k \in 1..Len(annexes) /\ ~(k <= m)
      BY <1>1, <1>2, <1>6
    <2>2. m # k - 1 => m + 1 \in DOMAIN annexes /\ m + 1 \in 1..k - 1 /\ ~(m + 1 <= m)
      BY <1>1, <2>1
    <2> QED BY <1>2, <1>6, <2>1, <2>2
  <1>8. inForce = u
    BY <1>1, <1>6, <1>7
  <1> HIDE DEF u
  <1>9. /\ scopes' \in Seq(Scope) /\ SameScopes(scopes, scopes')
        /\ \A w \in DOMAIN scopes : /\ scopes'[w].built = scopes[w].built
                                    /\ scopes'[w].answered = scopes[w].answered
                                    /\ w # u => scopes'[w] = scopes[w]
        /\ scopes'[u].superseded = TRUE
    BY <1>1, <1>2, Superseding
  <1>10. \A w \in DOMAIN scopes : w # 1 /\ OpenScope(scopes'[w]) => scopes[w].of = agreed'
    BY <1>2, <1>9 DEF MInv, Lineage, OpenScope
  <1>11. agreed \in DOMAIN scopes /\ scopes[agreed].answered /\ removed \in BOOLEAN
    BY <1>1 DEF MInv, ScopeStanding, SizesTyped
  <1> HIDE DEF v
  <1>12. SizesTyped' /\ ScopesWhole' /\ Lineage' /\ ScopeStanding'
    BY <1>1, <1>2, <1>4, <1>9, <1>10, <1>11, Switched, ZenonT(40)
  <1>13. ChainRows'
    <2>1. \A j \in DOMAIN annexes' : RowSound(scopes', annexes', j)
      BY <1>1, <1>4, <1>5, <1>9, ScopesAre, AnnexesAre, RowsStay, ZenonT(40)
    <2> QED BY <2>1 DEF ChainRows
  <1>14. ChainEnds'
    <2>1. \A n \in 0..Len(annexes) : Reached(annexes', n) = Reached(annexes, n)
      BY <1>1, <1>4, <1>5 DEF Reached
    <2>2. k \in 0..Len(annexes') /\ inForce' = Reached(annexes', k)
      <3>1. annexes'[k].version = v /\ k # 0
        BY <1>1, <1>3, <1>4
      <3> QED BY <1>1, <1>2, <1>4, <3>1 DEF Reached
    <2>3. \A j \in DOMAIN annexes' : annexes'[j].applied <=> j <= k
      <3>1. \A j \in DOMAIN annexes : j # k => (annexes'[j].applied <=> j <= k)
        BY <1>1, <1>4, <1>6, <1>7
      <3> QED BY <1>1, <1>3, <1>4, <3>1
    <2>4. AsFarAs(annexes', inForce')
      BY <2>2, <2>3 DEF AsFarAs
    <2>5. Reached(annexes', Len(annexes')) = Reached(annexes, Len(annexes))
      BY <1>1, <1>4, <2>1
    <2> QED BY <1>1, <1>2, <2>4, <2>5 DEF MInv, ChainEnds
  <1>15. CostsPlaced'
    <2>1. scopes[v].of = inForce /\ scopes'[v].chapters = scopes[v].chapters
      BY <1>1, <1>8, <1>9 DEF SameScopes, u
    <2> QED BY <1>1, <1>2, <2>1, CostsFollow
  <1>16. BuiltInv'
    <2>1. SignedSum(annexes') = SignedSum(annexes) + annexes[k].cents
      <3>1. annexes'[k].applied /\ annexes'[k].cents = annexes[k].cents /\ ~annexes[k].applied
        BY <1>2, <1>3, <1>4
      <3>2. annexes \in Seq(AnnexRow) /\ annexes' \in Seq(AnnexRow) /\ DOMAIN annexes' = DOMAIN annexes
        BY <1>1, <1>4
      <3> QED BY <1>4, <3>1, <3>2, SignedOne
    <2>2. 1 \in DOMAIN scopes
      BY <1>1, ScopesAre
    <2>3. /\ WorthOf(scopes[1].chapters) \in Int /\ WorthOf(scopes[v].chapters) \in Int
          /\ WorthOf(scopes[u].chapters) \in Int /\ SignedSum(annexes) \in Int
      <3>1. /\ scopes[1].chapters \in Seq(Chapter) /\ scopes[v].chapters \in Seq(Chapter)
            /\ scopes[u].chapters \in Seq(Chapter)
        BY <1>1, <2>2, ScopesAre DEF Scope
      <3> QED BY <1>1, <3>1, WorthIsInt, SignedAre
    <2>4. WorthOf(scopes[u].chapters) = WorthOf(scopes[1].chapters) + SignedSum(annexes)
      BY <1>1, <1>8 DEF MInv, BuiltInv
    <2>5. scopes'[v].chapters = scopes[v].chapters /\ scopes'[1].chapters = scopes[1].chapters
      BY <1>1, <1>9, <2>2 DEF SameScopes
    <2>6. WorthOf(scopes[v].chapters) = WorthOf(scopes[1].chapters) + SignedSum(annexes')
      BY <1>1, <2>1, <2>3, <2>4
    <2> QED BY <1>2, <2>5, <2>6 DEF BuiltInv
  <1> QED BY <1>12, <1>13, <1>14, <1>15, <1>16 DEF MInv

\* Taking the scope of the newest annex in force back to where it came from.
LEMMA TakingBack ==
    ASSUME MInv, Liberties = {}, NEW k \in DOMAIN annexes, Unapply(k),
           annexes[k].applied, \A j \in k + 1..Len(annexes) : ~annexes[j].applied,
           costs' = costs
    PROVE  /\ scopes' \in Seq(Scope) /\ SameScopes(scopes, scopes')
           /\ \A w \in DOMAIN scopes : /\ scopes'[w].built = scopes[w].built
                                       /\ scopes'[w].answered = scopes[w].answered
           /\ \A w \in DOMAIN scopes : w # 1 /\ OpenScope(scopes'[w]) => scopes[w].of = agreed
           /\ inForce' = Reached(annexes, k - 1)
           /\ inForce' \in DOMAIN scopes /\ scopes'[inForce'].answered
           /\ \A j \in DOMAIN annexes : annexes[j].applied <=> j <= k
           /\ CostsPlaced'
           /\ WorthOf(scopes'[inForce'].chapters) \in Int
           /\ WorthOf(scopes'[1].chapters) = WorthOf(scopes[1].chapters)
           /\ WorthOf(scopes[1].chapters) \in Int
           /\ WorthOf(scopes'[inForce'].chapters)
                = WorthOf(scopes[1].chapters) + (SignedSum(annexes) - annexes[k].cents)
  <1> DEFINE v == annexes[k].version
             u == scopes[v].of
  <1>1. /\ v \in DOMAIN scopes /\ v # 1 /\ scopes[v].answered /\ u = Reached(annexes, k - 1)
        /\ u \in DOMAIN scopes /\ scopes[u].answered /\ underContract /\ scopes # <<>>
        /\ annexes[k].cents = WorthOf(scopes[v].chapters) - WorthOf(scopes[u].chapters)
        /\ annexes \in Seq(AnnexRow) /\ Len(annexes) \in Nat /\ DOMAIN annexes = 1..Len(annexes)
    BY AnnexesAre
  <1>2. /\ scopes' = [scopes EXCEPT ![u].superseded = FALSE] /\ inForce' = u
        /\ \A i \in DOMAIN costs : costs[i].line \notin Brought(v)
    BY DEF Unapply, TakenBack
  <1>6. PICK m \in 0..Len(annexes) : /\ inForce = Reached(annexes, m)
                                     /\ \A j \in DOMAIN annexes : annexes[j].applied <=> j <= m
    BY <1>1 DEF MInv, ChainEnds, AsFarAs
  <1>7. m = k
    <2>1. k \in Nat /\ m \in Nat /\ k \in 1..Len(annexes) /\ k <= m
      BY <1>1, <1>6
    <2>2. m # k => m \in DOMAIN annexes /\ m \in k + 1..Len(annexes) /\ m <= m
      BY <1>1, <2>1
    <2> QED BY <1>6, <2>1, <2>2
  <1>8. inForce = v
    BY <1>1, <1>6, <1>7 DEF Reached
  <1> HIDE DEF u, v
  <1>9. /\ scopes' \in Seq(Scope) /\ SameScopes(scopes, scopes')
        /\ \A w \in DOMAIN scopes : /\ scopes'[w].built = scopes[w].built
                                    /\ scopes'[w].answered = scopes[w].answered
                                    /\ w # u => scopes'[w] = scopes[w]
    BY <1>1, <1>2, Superseding
  <1>10. \A w \in DOMAIN scopes : w # 1 /\ OpenScope(scopes'[w]) => scopes[w].of = agreed
    BY <1>1, <1>9 DEF MInv, Lineage, OpenScope
  <1>11. CostsPlaced'
    <2>1. u = scopes[inForce].of /\ inForce # 1 /\ inForce \in DOMAIN scopes
          /\ scopes'[u].chapters = scopes[u].chapters
      BY <1>1, <1>8, <1>9 DEF SameScopes, u
    <2> QED BY <1>2, <1>8, <2>1, CostsFall
  <1>12. 1 \in DOMAIN scopes
    BY <1>1, ScopesAre
  <1>13. /\ WorthOf(scopes[1].chapters) \in Int /\ WorthOf(scopes[v].chapters) \in Int
         /\ WorthOf(scopes[u].chapters) \in Int /\ SignedSum(annexes) \in Int
    <2>1. /\ scopes[1].chapters \in Seq(Chapter) /\ scopes[v].chapters \in Seq(Chapter)
          /\ scopes[u].chapters \in Seq(Chapter)
      BY <1>1, <1>12, ScopesAre DEF Scope
    <2> QED BY <1>1, <2>1, WorthIsInt, SignedAre
  <1>14. WorthOf(scopes[v].chapters) = WorthOf(scopes[1].chapters) + SignedSum(annexes)
    BY <1>1, <1>8 DEF MInv, BuiltInv
  <1>15. scopes'[u].chapters = scopes[u].chapters /\ scopes'[1].chapters = scopes[1].chapters
    BY <1>1, <1>9, <1>12 DEF SameScopes
  <1>16. WorthOf(scopes[u].chapters) = WorthOf(scopes[1].chapters) + (SignedSum(annexes) - annexes[k].cents)
    BY <1>1, <1>13, <1>14
  <1>17. \A j \in DOMAIN annexes : annexes[j].applied <=> j <= k
    BY <1>6, <1>7
  <1> QED BY <1>1, <1>2, <1>9, <1>10, <1>11, <1>13, <1>15, <1>16, <1>17

\* Taking back the signature of the newest annex in force.
LEMMA UnsigningKeeps ==
    ASSUME MInv, Liberties = {}, NEW k \in DOMAIN annexes, Unsign(k)
    PROVE  MInv'
  <1>1. /\ annexes[k].applied /\ Unapply(k) /\ (\A j \in k + 1..Len(annexes) : ~annexes[j].applied)
        /\ annexes' = [annexes EXCEPT ![k].applied = FALSE]
        /\ UNCHANGED <<agreed, removed, costs, items, underContract>> /\ moves' \in 0..MaxMoves
    BY MovesTyped DEF Unsign
  <1>2. /\ annexes \in Seq(AnnexRow) /\ Len(annexes) \in Nat /\ DOMAIN annexes = 1..Len(annexes)
        /\ annexes[k] \in AnnexRow /\ underContract /\ scopes # <<>>
    BY AnnexesAre
  <1>3. /\ scopes' \in Seq(Scope) /\ SameScopes(scopes, scopes')
        /\ \A w \in DOMAIN scopes : /\ scopes'[w].built = scopes[w].built
                                    /\ scopes'[w].answered = scopes[w].answered
        /\ \A w \in DOMAIN scopes : w # 1 /\ OpenScope(scopes'[w]) => scopes[w].of = agreed
        /\ inForce' = Reached(annexes, k - 1)
        /\ inForce' \in DOMAIN scopes /\ scopes'[inForce'].answered
        /\ \A j \in DOMAIN annexes : annexes[j].applied <=> j <= k
        /\ CostsPlaced'
        /\ WorthOf(scopes'[inForce'].chapters) \in Int
        /\ WorthOf(scopes'[1].chapters) = WorthOf(scopes[1].chapters)
        /\ WorthOf(scopes[1].chapters) \in Int
        /\ WorthOf(scopes'[inForce'].chapters)
             = WorthOf(scopes[1].chapters) + (SignedSum(annexes) - annexes[k].cents)
    BY <1>1, TakingBack
  <1> DEFINE r == [annexes[k] EXCEPT !.applied = FALSE]
  <1>4. r \in AnnexRow /\ r.version = annexes[k].version /\ r.cents = annexes[k].cents /\ ~r.applied
    BY <1>2 DEF AnnexRow
  <1>5. /\ annexes' \in Seq(AnnexRow) /\ DOMAIN annexes' = DOMAIN annexes /\ annexes'[k] = r
        /\ Len(annexes') = Len(annexes)
        /\ \A j \in DOMAIN annexes : j # k => annexes'[j] = annexes[j]
    <2>1. annexes' = [annexes EXCEPT ![k] = r]
      BY <1>1
    <2> HIDE DEF r
    <2> QED BY <1>2, <1>4, <2>1, ReplacedIs
  <1> HIDE DEF r
  <1>6. \A j \in DOMAIN annexes' : /\ j \in DOMAIN annexes /\ annexes'[j].version = annexes[j].version
                                   /\ annexes'[j].cents = annexes[j].cents
    BY <1>4, <1>5
  <1>7. agreed' \in DOMAIN scopes /\ scopes'[agreed'].answered /\ removed' \in BOOLEAN
    BY <1>1, <1>2, <1>3 DEF MInv, ScopeStanding, SizesTyped
  <1>8. SizesTyped' /\ ScopesWhole' /\ Lineage' /\ ScopeStanding'
    BY <1>1, <1>2, <1>3, <1>5, <1>7, Switched
  <1>9. ChainRows'
    <2>1. \A j \in DOMAIN annexes' : RowSound(scopes', annexes', j)
      BY <1>2, <1>3, <1>5, <1>6, ScopesAre, AnnexesAre, RowsStay
    <2> QED BY <2>1 DEF ChainRows
  <1>10. ChainEnds'
    <2>1. \A n \in 0..Len(annexes) : Reached(annexes', n) = Reached(annexes, n)
      BY <1>2, <1>5, <1>6 DEF Reached
    <2>2. k - 1 \in 0..Len(annexes') /\ inForce' = Reached(annexes', k - 1)
      BY <1>2, <1>3, <1>5, <2>1
    <2>3. \A j \in DOMAIN annexes' : annexes'[j].applied <=> j <= k - 1
      <3>1. \A j \in DOMAIN annexes : j # k => (annexes'[j].applied <=> j <= k - 1)
        BY <1>2, <1>3, <1>5
      <3> QED BY <1>2, <1>4, <1>5, <3>1
    <2>4. AsFarAs(annexes', inForce')
      BY <2>2, <2>3 DEF AsFarAs
    <2>5. Reached(annexes', Len(annexes')) = Reached(annexes, Len(annexes))
      BY <1>2, <1>5, <2>1
    <2> QED BY <1>1, <1>2, <2>4, <2>5 DEF MInv, ChainEnds
  <1>11. BuiltInv'
    <2>1. SignedSum(annexes) = SignedSum(annexes') + annexes'[k].cents
      <3>1. /\ ~annexes'[k].applied /\ annexes[k].applied /\ annexes[k].cents = annexes'[k].cents
            /\ k \in DOMAIN annexes' /\ DOMAIN annexes = DOMAIN annexes'
            /\ \A j \in DOMAIN annexes' : j # k => annexes[j] = annexes'[j]
        BY <1>1, <1>4, <1>5
      <3>2. annexes \in Seq(AnnexRow) /\ annexes' \in Seq(AnnexRow)
        BY <1>2, <1>5
      <3> QED BY <3>1, <3>2, SignedOne
    <2>2. SignedSum(annexes') \in Int /\ annexes'[k].cents = annexes[k].cents /\ annexes[k].cents \in Int
      <3>1. annexes[k].cents \in Int
        BY <1>2 DEF AnnexRow
      <3> QED BY <1>4, <1>5, <3>1, SignedAre
    <2>3. SignedSum(annexes) - annexes[k].cents = SignedSum(annexes')
      BY <2>1, <2>2
    <2> QED BY <1>3, <2>3 DEF BuiltInv
  <1> QED BY <1>3, <1>8, <1>9, <1>10, <1>11 DEF MInv

\* Removing the last annex, in force or not.
LEMMA RemovingKeeps ==
    ASSUME MInv, Liberties = {}, NEW k \in DOMAIN annexes, RemoveAnnex(k)
    PROVE  MInv'
  <1>1. /\ k = Len(annexes) /\ annexes' = RemoveAt(annexes, k) /\ removed' = TRUE
        /\ IF annexes[k].applied THEN Unapply(k) ELSE UNCHANGED <<scopes, inForce>>
        /\ UNCHANGED <<agreed, costs, items, underContract>> /\ moves' \in 0..MaxMoves
    BY MovesTyped DEF RemoveAnnex
  <1>2. /\ annexes \in Seq(AnnexRow) /\ Len(annexes) \in Nat /\ DOMAIN annexes = 1..Len(annexes)
        /\ annexes[k] \in AnnexRow /\ underContract /\ scopes # <<>>
        /\ \A j \in DOMAIN annexes : annexes[j] \in AnnexRow
    BY AnnexesAre
  <1>3. /\ annexes' \in Seq(AnnexRow) /\ Len(annexes') = Len(annexes) - 1
        /\ DOMAIN annexes' = 1..Len(annexes) - 1
        /\ \A j \in DOMAIN annexes' : j \in DOMAIN annexes /\ j # k /\ annexes'[j] = annexes[j]
    <2>1. /\ annexes' \in Seq(AnnexRow) /\ Len(annexes') = Len(annexes) - 1
          /\ \A j \in 1..Len(annexes) - 1 : annexes'[j] = IF j < k THEN annexes[j] ELSE annexes[j + 1]
      BY <1>1, <1>2, RemoveIs
    <2>2. DOMAIN annexes' = 1..Len(annexes) - 1
      BY <2>1
    <2> QED BY <1>1, <1>2, <2>1, <2>2
  <1>4. \A j \in DOMAIN annexes' : /\ j \in DOMAIN annexes /\ annexes'[j].version = annexes[j].version
                                   /\ annexes'[j].cents = annexes[j].cents
    BY <1>3
  <1>5. \A n \in 0..Len(annexes') : Reached(annexes', n) = Reached(annexes, n)
    BY <1>2, <1>3 DEF Reached
  <1>6. agreed \in DOMAIN scopes /\ scopes[agreed].answered
        /\ inForce \in DOMAIN scopes /\ scopes[inForce].answered
    BY <1>2 DEF MInv, ScopeStanding
  <1>7. CASE annexes[k].applied
    <2>1. /\ scopes' \in Seq(Scope) /\ SameScopes(scopes, scopes')
          /\ \A w \in DOMAIN scopes : /\ scopes'[w].built = scopes[w].built
                                      /\ scopes'[w].answered = scopes[w].answered
          /\ \A w \in DOMAIN scopes : w # 1 /\ OpenScope(scopes'[w]) => scopes[w].of = agreed
          /\ inForce' = Reached(annexes, k - 1)
          /\ inForce' \in DOMAIN scopes /\ scopes'[inForce'].answered
          /\ \A j \in DOMAIN annexes : annexes[j].applied <=> j <= k
          /\ CostsPlaced'
          /\ WorthOf(scopes'[inForce'].chapters) \in Int
          /\ WorthOf(scopes'[1].chapters) = WorthOf(scopes[1].chapters)
          /\ WorthOf(scopes[1].chapters) \in Int
          /\ WorthOf(scopes'[inForce'].chapters)
               = WorthOf(scopes[1].chapters) + (SignedSum(annexes) - annexes[k].cents)
      <3>1. \A j \in k + 1..Len(annexes) : ~annexes[j].applied
        BY <1>1, <1>2
      <3> QED BY <1>1, <1>7, <3>1, TakingBack
    <2>2. SizesTyped' /\ ScopesWhole' /\ Lineage' /\ ScopeStanding'
      BY <1>1, <1>2, <1>3, <1>6, <2>1, Switched
    <2>3. ChainRows'
      <3>1. \A j \in DOMAIN annexes' : RowSound(scopes', annexes', j)
        BY <1>2, <1>3, <1>4, <2>1, ScopesAre, AnnexesAre, RowsStay, ZenonT(40)
      <3> QED BY <3>1 DEF ChainRows
    <2>4. ChainEnds'
      <3>1. k - 1 \in 0..Len(annexes') /\ inForce' = Reached(annexes', k - 1)
        BY <1>1, <1>2, <1>3, <1>5, <2>1
      <3>2. \A j \in DOMAIN annexes' : annexes'[j].applied <=> j <= k - 1
        BY <1>1, <1>2, <1>3, <2>1
      <3>3. AsFarAs(annexes', inForce')
        BY <3>1, <3>2 DEF AsFarAs
      <3> QED BY <1>1, <1>2, <3>3 DEF ChainEnds
    <2>5. BuiltInv'
      <3> DEFINE r == [annexes[k] EXCEPT !.applied = FALSE]
                 b == [annexes EXCEPT ![k] = r]
      <3>1. r \in AnnexRow /\ r.cents = annexes[k].cents /\ ~r.applied /\ annexes[k].cents \in Int
        BY <1>2 DEF AnnexRow
      <3> HIDE DEF r
      <3>2. /\ b \in Seq(AnnexRow) /\ DOMAIN b = DOMAIN annexes /\ b[k] = r
            /\ \A j \in DOMAIN annexes : j # k => b[j] = annexes[j]
        BY <1>2, <3>1, ReplacedIs
      <3> HIDE DEF b
      <3>3. SignedSum(annexes) = SignedSum(b) + b[k].cents
        <4>1. /\ ~b[k].applied /\ annexes[k].cents = b[k].cents /\ k \in DOMAIN b
              /\ DOMAIN annexes = DOMAIN b /\ \A j \in DOMAIN b : j # k => annexes[j] = b[j]
          BY <3>1, <3>2
        <4> QED BY <1>2, <1>7, <3>2, <4>1, SignedOne
      <3>4. SignedSum(annexes') = SignedSum(b)
        <4>1. SignedSet(annexes') = SignedSet(b)
          <5>1. \A j \in DOMAIN b : j # k => j \in DOMAIN annexes' /\ annexes'[j] = b[j]
            BY <1>1, <1>2, <1>3, <3>2
          <5>2. \A j \in DOMAIN annexes' : j \in DOMAIN b /\ j # k
            BY <1>3, <3>2
          <5> QED BY <3>1, <3>2, <5>1, <5>2 DEF SignedSet
        <4>2. \A j \in SignedSet(b) : annexes'[j].cents = b[j].cents
          BY <1>3, <3>2, <4>1 DEF SignedSet
        <4> QED BY <3>2, <4>1, <4>2, SignedAlike
      <3>5. SignedSum(b) \in Int /\ b[k].cents = annexes[k].cents
        BY <3>1, <3>2, SignedAre
      <3>6. SignedSum(annexes) - annexes[k].cents = SignedSum(annexes')
        BY <3>1, <3>3, <3>4, <3>5
      <3> QED BY <2>1, <3>6 DEF BuiltInv
    <2> QED BY <2>1, <2>2, <2>3, <2>4, <2>5 DEF MInv
  <1>8. CASE ~annexes[k].applied
    <2>1. scopes' = scopes /\ inForce' = inForce /\ SameScopes(scopes, scopes')
      BY <1>1, <1>8 DEF SameScopes
    <2>2. \A w \in DOMAIN scopes : w # 1 /\ OpenScope(scopes'[w]) => scopes[w].of = agreed'
      BY <1>1, <2>1 DEF MInv, Lineage
    <2>3. SizesTyped' /\ ScopesWhole' /\ Lineage' /\ ScopeStanding'
      <3>1. scopes' \in Seq(Scope)
        BY <2>1, ScopesAre
      <3> QED BY <1>1, <1>2, <1>3, <1>6, <2>1, <2>2, <3>1, Switched
    <2>4. ChainRows'
      <3>1. \A j \in DOMAIN annexes' : RowSound(scopes', annexes', j)
        BY <1>2, <1>3, <1>4, <2>1, ScopesAre, AnnexesAre, RowsStay, ZenonT(40)
      <3> QED BY <3>1 DEF ChainRows
    <2>5. ChainEnds'
      <3>1. PICK m \in 0..Len(annexes) : /\ inForce = Reached(annexes, m)
                                         /\ \A j \in DOMAIN annexes : annexes[j].applied <=> j <= m
        BY <1>2 DEF MInv, ChainEnds, AsFarAs
      <3>2. m \in 0..Len(annexes')
        BY <1>1, <1>2, <1>3, <1>8, <3>1
      <3>3. inForce' = Reached(annexes', m)
        BY <1>5, <2>1, <3>1, <3>2
      <3>4. \A j \in DOMAIN annexes' : annexes'[j].applied <=> j <= m
        BY <1>3, <3>1
      <3>5. AsFarAs(annexes', inForce')
        BY <3>2, <3>3, <3>4 DEF AsFarAs
      <3> QED BY <1>1, <1>2, <3>5 DEF ChainEnds
    <2>6. CostsPlaced'
      BY <1>1, <2>1, CostsStay
    <2>7. BuiltInv'
      <3>1. SignedSet(annexes') = SignedSet(annexes)
        <4>1. \A j \in DOMAIN annexes : j # k => j \in DOMAIN annexes'
          BY <1>1, <1>2, <1>3
        <4> QED BY <1>3, <1>8, <4>1 DEF SignedSet
      <3>2. \A j \in SignedSet(annexes) : annexes'[j].cents = annexes[j].cents
        BY <1>3, <3>1 DEF SignedSet
      <3>3. SignedSum(annexes') = SignedSum(annexes)
        BY <1>2, <3>1, <3>2, SignedAlike
      <3> QED BY <1>1, <2>1, <3>3 DEF MInv, BuiltInv
    <2> QED BY <2>3, <2>4, <2>5, <2>6, <2>7 DEF MInv
  <1> QED BY <1>7, <1>8

\* Accepting an adicional: it joins the contract, or comes into force where there is none.
LEMMA AcceptingKeeps ==
    ASSUME MInv, Liberties = {}, NEW v \in DOMAIN scopes, Accept(v)
    PROVE  MInv'
  <1> DEFINE n == Len(scopes)
             u == scopes[v].of
             row(w) == [scopes[w] EXCEPT !.superseded = @ \/ w \in SetAside(v),
                                         !.answered = @ \/ w = v]
             closed == [w \in DOMAIN scopes |-> row(w)]
  <1>1. /\ scopes \in Seq(Scope) /\ n \in Nat /\ DOMAIN scopes = 1..n
        /\ \A w \in DOMAIN scopes : scopes[w] \in Scope
    BY ScopesAre
  <1>2. /\ u # 0 /\ ~scopes[v].answered /\ ~scopes[v].superseded /\ agreed' = v /\ ~removed
        /\ UNCHANGED <<removed, costs, items, underContract>> /\ moves' \in 0..MaxMoves
    BY MovesTyped DEF Accept
  <1>3. IF underContract
        THEN /\ annexes' = Append(annexes, [version |-> v, applied |-> FALSE,
                                            cents |-> SaleOf(v) - SaleOf(u)])
             /\ scopes' = closed /\ UNCHANGED inForce
        ELSE /\ scopes' = [closed EXCEPT ![u].superseded = TRUE]
             /\ inForce' = v /\ UNCHANGED annexes
    BY DEF Accept
  <1>4. /\ v # 1 /\ u \in DOMAIN scopes /\ scopes[u].answered /\ u = agreed /\ scopes # <<>>
        /\ inForce \in DOMAIN scopes /\ scopes[inForce].answered
    <2>1. v # 1
      BY <1>2 DEF MInv, Lineage
    <2>2. u \in DOMAIN scopes /\ scopes[u].answered
      BY <2>1, ScopesAre
    <2>3. u = agreed
      BY <1>2, <2>1 DEF MInv, Lineage, OpenScope
    <2>4. scopes # <<>>
      BY <1>1
    <2> QED BY <2>1, <2>2, <2>3, <2>4 DEF MInv, ScopeStanding
  <1>5. ASSUME NEW w \in DOMAIN scopes
        PROVE  /\ row(w) \in Scope /\ row(w).chapters = scopes[w].chapters
               /\ row(w).of = scopes[w].of /\ row(w).built = scopes[w].built
               /\ row(w).answered = (scopes[w].answered \/ w = v)
               /\ row(w).superseded = (scopes[w].superseded \/ w \in SetAside(v))
    <2> DEFINE x == scopes[w]
               s == x.superseded \/ w \in SetAside(v)
               a == x.answered \/ w = v
    <2>1. x \in Scope /\ s \in BOOLEAN /\ a \in BOOLEAN
      BY <1>1
    <2>2. row(w) = [x EXCEPT !.superseded = s, !.answered = a]
      OBVIOUS
    <2> HIDE DEF x, s, a, row
    <2>3. /\ row(w) \in Scope /\ row(w).chapters = x.chapters /\ row(w).of = x.of
          /\ row(w).built = x.built /\ row(w).answered = a /\ row(w).superseded = s
      BY <2>1, <2>2 DEF Scope
    <2> QED BY <2>3 DEF x, s, a
  <1>6. ASSUME NEW w \in DOMAIN scopes, w # 1 PROVE row(w).answered \/ row(w).superseded
    <2>1. scopes[w].answered \/ scopes[w].superseded \/ w = v \/ w \in SetAside(v)
      BY <1>6 DEF SetAside
    <2> QED BY <1>5, <2>1
  <1> HIDE DEF row
  <1>7. /\ closed \in Seq(Scope) /\ DOMAIN closed = DOMAIN scopes
        /\ \A w \in DOMAIN scopes : closed[w] = row(w)
    <2>1. closed \in [1..n -> Scope]
      BY <1>1, <1>5
    <2>2. DOMAIN closed = DOMAIN scopes /\ \A w \in DOMAIN scopes : closed[w] = row(w)
      OBVIOUS
    <2> HIDE DEF closed
    <2> QED BY <1>1, <2>1, <2>2
  <1> HIDE DEF closed
  <1>8. /\ scopes' \in Seq(Scope) /\ DOMAIN scopes' = DOMAIN scopes
        /\ \A w \in DOMAIN scopes :
              /\ scopes'[w].chapters = scopes[w].chapters /\ scopes'[w].of = scopes[w].of
              /\ scopes'[w].built = scopes[w].built
              /\ scopes'[w].answered = (scopes[w].answered \/ w = v)
              /\ w # 1 => scopes'[w].answered \/ scopes'[w].superseded
    <2>1. CASE underContract
      BY <1>3, <1>5, <1>6, <1>7, <2>1
    <2>2. CASE ~underContract
      <3> DEFINE z == closed[u]
                 y == [z EXCEPT !.superseded = TRUE]
      <3>1. z = row(u) /\ z \in Scope
        BY <1>4, <1>5, <1>7
      <3>2. scopes' = [closed EXCEPT ![u] = y]
        BY <1>3, <2>2
      <3>3. /\ y \in Scope /\ y.chapters = z.chapters /\ y.of = z.of /\ y.built = z.built
            /\ y.answered = z.answered /\ y.superseded = TRUE
        <4> HIDE DEF z
        <4> QED BY <3>1 DEF Scope
      <3> HIDE DEF y
      <3>4. /\ scopes' \in Seq(Scope) /\ DOMAIN scopes' = DOMAIN closed /\ scopes'[u] = y
            /\ \A w \in DOMAIN closed : w # u => scopes'[w] = closed[w]
        BY <1>4, <1>7, <3>2, <3>3, ReplacedIs
      <3>5. \A w \in DOMAIN scopes :
              /\ scopes'[w].chapters = row(w).chapters /\ scopes'[w].of = row(w).of
              /\ scopes'[w].built = row(w).built /\ scopes'[w].answered = row(w).answered
              /\ row(w).superseded => scopes'[w].superseded
        BY <1>7, <3>1, <3>3, <3>4
      <3> QED BY <1>5, <1>6, <1>7, <3>4, <3>5
    <2> QED BY <2>1, <2>2
  <1>9. SameScopes(scopes, scopes')
    BY <1>8 DEF SameScopes
  <1>10. \A w \in DOMAIN scopes : w # 1 /\ OpenScope(scopes'[w]) => scopes[w].of = agreed'
    BY <1>8 DEF OpenScope
  <1>11. annexes \in Seq(AnnexRow) /\ Len(annexes) \in Nat /\ DOMAIN annexes = 1..Len(annexes)
    BY AnnexesAre
  <1>12. agreed' \in DOMAIN scopes /\ scopes'[agreed'].answered /\ removed' \in BOOLEAN
    BY <1>2, <1>8 DEF MInv, SizesTyped
  <1> HIDE DEF n
  <1>13. CASE underContract
    <2> DEFINE m == Len(annexes)
               c == WorthOf(scopes[v].chapters) - WorthOf(scopes[u].chapters)
               r == [version |-> v, applied |-> FALSE, cents |-> c]
    <2>1. annexes' = Append(annexes, r) /\ inForce' = inForce
      BY <1>3, <1>13, SaleIs
    <2>2. c \in Int /\ v \in Nat
      <3>1. scopes[v].chapters \in Seq(Chapter) /\ scopes[u].chapters \in Seq(Chapter)
        BY <1>1, <1>4 DEF Scope
      <3> QED BY <1>1, <3>1, WorthIsInt
    <2> HIDE DEF c
    <2>3. r \in AnnexRow /\ r.version = v /\ ~r.applied /\ r.cents = c
      BY <2>2 DEF AnnexRow
    <2> HIDE DEF r
    <2>4. /\ annexes' \in Seq(AnnexRow) /\ Len(annexes') = m + 1 /\ DOMAIN annexes' = 1..m + 1
          /\ annexes'[m + 1] = r
          /\ \A j \in DOMAIN annexes : j \in DOMAIN annexes' /\ annexes'[j] = annexes[j]
          /\ \A j \in DOMAIN annexes' : j \in DOMAIN annexes \/ j = m + 1
      BY <1>11, <2>1, <2>3, AppendedIs
    <2>5. inForce' \in DOMAIN scopes /\ scopes'[inForce'].answered
      BY <1>4, <1>8, <2>1
    <2>6. SizesTyped' /\ ScopesWhole' /\ Lineage' /\ ScopeStanding'
      BY <1>2, <1>4, <1>8, <1>9, <1>10, <1>12, <2>4, <2>5, Switched
    <2>7. \A i \in 0..m : Reached(annexes', i) = Reached(annexes, i)
      BY <1>11, <2>4 DEF Reached
    <2>8. ChainRows'
      <3>1. ASSUME NEW j \in DOMAIN annexes PROVE RowSound(scopes', annexes', j)
        <4> DEFINE x == annexes[j].version
        <4>1. /\ x \in DOMAIN scopes /\ x # 1 /\ scopes[x].answered
              /\ scopes[x].of = Reached(annexes, j - 1) /\ scopes[x].of \in DOMAIN scopes
              /\ annexes[j].cents = WorthOf(scopes[x].chapters) - WorthOf(scopes[scopes[x].of].chapters)
          BY AnnexesAre
        <4>2. annexes'[j] = annexes[j] /\ Reached(annexes', j - 1) = Reached(annexes, j - 1)
          <5>1. j - 1 \in 0..m
            BY <1>11
          <5> QED BY <2>4, <2>7, <5>1
        <4>3. /\ scopes'[x].chapters = scopes[x].chapters /\ scopes'[x].of = scopes[x].of
              /\ scopes'[x].answered
              /\ scopes'[scopes[x].of].chapters = scopes[scopes[x].of].chapters
          BY <1>8, <4>1
        <4> HIDE DEF x
        <4>4. annexes'[j].version = x /\ annexes'[j].cents = annexes[j].cents
          BY <4>2 DEF x
        <4> QED BY <1>8, <4>1, <4>2, <4>3, <4>4 DEF RowSound
      <3>2. RowSound(scopes', annexes', m + 1)
        <4>1. annexes'[m + 1].version = v /\ annexes'[m + 1].cents = c
          BY <2>3, <2>4
        <4>2. Reached(annexes', m + 1 - 1) = agreed
          <5>1. m + 1 - 1 = m /\ m \in 0..m
            BY <1>11
          <5>2. agreed = Reached(annexes, m)
            BY <1>2, <1>13 DEF MInv, ChainEnds
          <5> QED BY <2>7, <5>1, <5>2
        <4>3. /\ scopes'[v].chapters = scopes[v].chapters /\ scopes'[v].of = u
              /\ scopes'[u].chapters = scopes[u].chapters /\ scopes'[v].answered
          BY <1>4, <1>8
        <4> HIDE DEF u
        <4> QED BY <1>4, <1>8, <4>1, <4>2, <4>3 DEF RowSound, c
      <3>3. \A j \in DOMAIN annexes' : RowSound(scopes', annexes', j)
        BY <2>4, <3>1, <3>2
      <3> QED BY <3>3 DEF ChainRows
    <2>9. ChainEnds'
      <3>1. PICK i \in 0..m : /\ inForce = Reached(annexes, i)
                              /\ \A j \in DOMAIN annexes : annexes[j].applied <=> j <= i
        BY <1>13 DEF MInv, ChainEnds, AsFarAs
      <3>2. i \in 0..Len(annexes') /\ inForce' = Reached(annexes', i)
        BY <1>11, <2>1, <2>4, <2>7, <3>1
      <3>3. \A j \in DOMAIN annexes' : annexes'[j].applied <=> j <= i
        <4>1. ~annexes'[m + 1].applied /\ ~(m + 1 <= i)
          BY <1>11, <2>3, <2>4
        <4> QED BY <2>4, <3>1, <4>1
      <3>4. AsFarAs(annexes', inForce')
        BY <3>2, <3>3 DEF AsFarAs
      <3>5. Reached(annexes', Len(annexes')) = v
        BY <1>11, <2>3, <2>4 DEF Reached
      <3> QED BY <1>2, <1>13, <3>4, <3>5 DEF ChainEnds
    <2>10. CostsPlaced'
      BY <1>2, <1>8, <2>1, CostsStay
    <2>11. BuiltInv'
      <3>1. SignedSet(annexes') = SignedSet(annexes)
        BY <2>3, <2>4 DEF SignedSet
      <3>2. \A j \in SignedSet(annexes) : annexes'[j].cents = annexes[j].cents
        BY <2>4 DEF SignedSet
      <3>3. SignedSum(annexes') = SignedSum(annexes)
        BY <1>11, <3>1, <3>2, SignedAlike
      <3>4. 1 \in DOMAIN scopes
        BY <1>4, ScopesAre
      <3> QED BY <1>2, <1>4, <1>8, <1>13, <2>1, <3>3, <3>4 DEF MInv, BuiltInv
    <2> QED BY <2>6, <2>8, <2>9, <2>10, <2>11 DEF MInv
  <1>14. CASE ~underContract
    <2>1. inForce' = v /\ annexes' = annexes /\ annexes = <<>> /\ agreed = inForce
      BY <1>3, <1>14 DEF MInv, ChainEnds
    <2>2. inForce' \in DOMAIN scopes /\ scopes'[inForce'].answered
      BY <1>8, <2>1
    <2>3. SizesTyped' /\ ScopesWhole' /\ Lineage' /\ ScopeStanding'
      <3>1. annexes' \in Seq(AnnexRow)
        BY <1>11, <2>1
      <3> QED BY <1>2, <1>4, <1>8, <1>9, <1>10, <1>12, <2>2, <3>1, Switched
    <2>4. ChainRows'
      BY <2>1 DEF ChainRows
    <2>5. ChainEnds'
      BY <1>2, <1>14, <2>1 DEF ChainEnds
    <2>6. CostsPlaced'
      <3>1. scopes[v].of = inForce /\ scopes'[v].chapters = scopes[v].chapters
        BY <1>4, <1>8, <2>1
      <3> QED BY <1>2, <1>4, <2>1, <3>1, CostsFollow
    <2>7. BuiltInv'
      BY <1>2, <1>14 DEF BuiltInv
    <2> QED BY <2>3, <2>4, <2>5, <2>6, <2>7 DEF MInv
  <1> QED BY <1>13, <1>14

-----------------------------------------------------------------------------
MarginsSpec == MarginsInit /\ [][MarginsNext]_marginVars

\* A quick job, or one with an accepted budget.
LEMMA MarginsStart == ASSUME MarginsInit PROVE MInv
  <1>1. /\ annexes = <<>> /\ removed = FALSE /\ costs = <<>> /\ items = 2 /\ moves = 0
        /\ agreed = Len(scopes) /\ inForce = Len(scopes)
    BY DEF MarginsInit
  <1>2. PICK quick \in BOOLEAN :
            /\ scopes = IF quick THEN <<>> ELSE
                   <<[chapters |-> <<[id |-> 1, lines |-> [l \in {2} |-> 1]]>>, of |-> 0, built |-> {},
                      answered |-> TRUE, superseded |-> FALSE]>>
            /\ underContract \in (IF quick THEN {FALSE} ELSE BOOLEAN)
    BY DEF MarginsInit
  <1>3. MaxItems \in Nat /\ 2 <= MaxItems /\ MaxMoves \in Nat
    BY MarginAmounts
  <1> DEFINE f == [l \in {2} |-> 1]
             x == [id |-> 1, lines |-> f]
             c == <<x>>
             s == [chapters |-> c, of |-> 0, built |-> {}, answered |-> TRUE, superseded |-> FALSE]
  <1>4. f \in [{2} -> Int] /\ DOMAIN f = {2} /\ {2} \subseteq 1..MaxItems
    BY <1>3
  <1>5. f \in UNION {[S -> Int] : S \in SUBSET (1..MaxItems)}
    BY <1>4
  <1>a. quick => scopes = <<>> /\ underContract = FALSE
    BY <1>2
  <1>b. ~quick => scopes = <<s>>
    BY <1>2 DEF s, c, x, f
  <1> HIDE DEF f
  <1>6. x \in Chapter /\ x.lines = f
    BY <1>5 DEF Chapter
  <1> HIDE DEF x
  <1>7. c \in Seq(Chapter) /\ DOMAIN c = {1} /\ c[1] = x
    BY <1>6
  <1> HIDE DEF c
  <1>8. /\ s \in Scope /\ s.chapters = c /\ s.of = 0 /\ s.built = {} /\ s.answered /\ ~s.superseded
    BY <1>7 DEF Scope
  <1> HIDE DEF s
  <1>9. scopes = <<>> \/ scopes = <<s>>
    BY <1>a, <1>b
  <1>10. SizesTyped
    <2>1. underContract \in BOOLEAN
      BY <1>2
    <2>2. scopes \in Seq(Scope)
      <3>1. <<>> \in Seq(Scope)
        OBVIOUS
      <3>2. <<s>> \in Seq(Scope)
        BY <1>8
      <3> QED BY <1>9, <3>1, <3>2
    <2>3. annexes \in Seq(AnnexRow) /\ costs \in Seq(CostRow)
      BY <1>1
    <2>4. items \in 1..MaxItems /\ moves \in 0..MaxMoves
      <3>1. items = 2 /\ moves = 0
        BY <1>1
      <3> QED BY <1>3, <3>1
    <2>5. removed \in BOOLEAN
      BY <1>1
    <2> QED BY <2>1, <2>2, <2>3, <2>4, <2>5 DEF SizesTyped
  <1>11. \A v \in DOMAIN scopes : v = 1 /\ scopes[v] = s
    BY <1>9
  <1>12. WholeScope(c, items)
    <2>1. Apart(c)
      BY <1>7 DEF Apart
    <2>2. LinesOf(c) \subseteq 1..2
      BY <1>4, <1>6, <1>7 DEF LinesOf
    <2> QED BY <1>1, <2>1, <2>2 DEF WholeScope
  <1>13. ScopesWhole /\ Lineage
    BY <1>8, <1>11, <1>12 DEF ScopesWhole, Lineage
  <1>14. CASE scopes = <<>>
    <2>1. agreed = 0 /\ inForce = 0 /\ ~underContract
      <3>1. agreed = 0 /\ inForce = 0 /\ Len(scopes) = 0
        BY <1>1, <1>14
      <3>2. quick
        <4>1. Len(<<s>>) = 1
          OBVIOUS
        <4> QED BY <1>b, <3>1, <4>1
      <3> QED BY <1>a, <3>1, <3>2
    <2> QED BY <1>1, <1>10, <1>13, <1>14, <2>1
            DEF MInv, ScopeStanding, ChainRows, ChainEnds, CostsPlaced, BuiltInv
  <1>15. CASE scopes = <<s>>
    <2>1. agreed = 1 /\ inForce = 1 /\ DOMAIN scopes = {1} /\ scopes[1] = s /\ scopes # <<>>
      BY <1>1, <1>15
    <2>2. ScopeStanding
      BY <1>8, <2>1 DEF ScopeStanding
    <2>3. DOMAIN annexes = {} /\ Len(annexes) = 0 /\ DOMAIN costs = {}
      BY <1>1
    <2>4. ChainRows /\ CostsPlaced
      BY <2>3 DEF ChainRows, CostsPlaced
    <2>5. ChainEnds
      <3>1. Reached(annexes, 0) = 1 /\ 0 \in 0..Len(annexes)
        BY <2>3 DEF Reached
      <3>2. AsFarAs(annexes, inForce)
        BY <2>1, <2>3, <3>1 DEF AsFarAs
      <3> QED BY <1>1, <2>1, <2>3, <3>1, <3>2 DEF ChainEnds
    <2>6. BuiltInv
      <3>1. SignedSet(annexes) = {} /\ SignedSum(annexes) = 0
        BY <2>3, SumOfNone DEF SignedSum, SignedSet
      <3>2. WorthOf(scopes[1].chapters) \in Int
        BY <1>7, <1>8, <2>1, WorthIsInt
      <3> QED BY <2>1, <3>1, <3>2 DEF BuiltInv
    <2> QED BY <1>10, <1>13, <2>2, <2>4, <2>5, <2>6 DEF MInv
  <1> QED BY <1>9, <1>14, <1>15

\* No call of Margins breaks the invariant.
LEMMA MarginsStep == ASSUME MInv, Liberties = {}, [MarginsNext]_marginVars PROVE MInv'
  <1>1. CASE UNCHANGED marginVars
    BY <1>1 DEF marginVars, MInv, SizesTyped, ScopesWhole, Lineage, ScopeStanding, ChainRows, ChainEnds,
                CostsPlaced, BuiltInv, ChaptersIn, Quick, InScope
  <1>2. CASE MarginsNext
    <2>1. CASE OpenAdicional
      BY <2>1, OpeningKeeps
    <2>2. CASE \/ AddChapter
               \/ \E n \in DOMAIN Draft, q \in Qtys :
                      AddLine(n, q) \/ (\E l \in DOMAIN Draft[n].lines : Requantify(n, l, q))
               \/ \E n \in DOMAIN Draft :
                      \/ \E l \in DOMAIN Draft[n].lines : DeleteLine(n, l)
                      \/ RemoveChapter(n)
                      \/ \E at \in DOMAIN Draft : MoveChapter(n, at)
      BY <2>2, DraftsKeep
    <2>3. CASE \E v \in DOMAIN scopes : Accept(v)
      BY <2>3, AcceptingKeeps
    <2>4. CASE \E k \in DOMAIN annexes : Sign(k) \/ Unsign(k) \/ RemoveAnnex(k)
      BY <2>4, SigningKeeps, UnsigningKeeps, RemovingKeeps
    <2>5. CASE \E l \in 1..MaxItems : ~Quick /\ l \in LinesIn(inForce) /\ MarkLine(l)
      BY <2>5, MarkingKeeps
    <2>6. CASE \/ \E l \in 1..MaxItems, c \in Costs : ~Quick /\ l \in LinesIn(inForce) /\ BookOn(l, c)
               \/ \E c \in Costs : BookLoose(c)
               \/ \E i \in DOMAIN costs, c \in Costs : AssignSplit(i, c)
      BY <2>6, CostsKeep
    <2> QED BY <1>2, <2>1, <2>2, <2>3, <2>4, <2>5, <2>6 DEF MarginsNext
  <1> QED BY <1>1, <1>2

\* The invariant gives what the margins promise.
LEMMA MarginsAddUp == ASSUME MInv PROVE MarginsHold
  <1>1. SizesTyped /\ Lineage /\ ScopeStanding /\ ScopesWhole
    BY DEF MInv
  <1>2. /\ scopes \in Seq(Scope) /\ Len(scopes) \in Nat /\ DOMAIN scopes = 1..Len(scopes)
        /\ \A v \in DOMAIN scopes : scopes[v] \in Scope
    BY ScopesAre
  <1>3. agreed \in 0..Len(scopes) /\ inForce \in 0..Len(scopes) /\ moves \in 0..MaxMoves
    BY <1>1, <1>2 DEF ScopeStanding, SizesTyped
  <1>4. ASSUME NEW v \in DOMAIN scopes
        PROVE  /\ scopes[v].of \in 0..v - 1 /\ scopes[v].superseded \in BOOLEAN
               /\ scopes[v].built \subseteq LinesIn(v) /\ LinesIn(v) \subseteq 1..MaxItems
               /\ \A n, m \in DOMAIN ChaptersIn(v) : n # m =>
                      DOMAIN ChaptersIn(v)[n].lines \cap DOMAIN ChaptersIn(v)[m].lines = {}
    <2>1. scopes[v].of \in 0..v - 1 /\ scopes[v].superseded \in BOOLEAN
      <3>1. scopes[v].superseded \in BOOLEAN /\ v \in Nat /\ v >= 1
        BY <1>2 DEF Scope
      <3>2. v = 1 => scopes[v].of = 0
        BY <1>1 DEF Lineage
      <3>3. v # 1 => scopes[v].of \in 1..v - 1
        BY <1>1 DEF Lineage
      <3> QED BY <3>1, <3>2, <3>3
    <2>2. /\ Apart(scopes[v].chapters) /\ LinesOf(scopes[v].chapters) \subseteq 1..items
          /\ scopes[v].built \subseteq LinesOf(scopes[v].chapters)
      BY <1>1 DEF ScopesWhole, WholeScope
    <2>3. 1..items \subseteq 1..MaxItems
      BY <1>1, MarginAmounts DEF SizesTyped
    <2>4. LinesIn(v) = LinesOf(scopes[v].chapters)
      BY SaleIs
    <2> QED BY <2>1, <2>2, <2>3, <2>4 DEF Apart, ChaptersIn
  <1>5. ASSUME NEW k \in DOMAIN annexes PROVE annexes[k].version \in 2..Len(scopes)
    BY <1>2, AnnexesAre
  <1>6. MarginsTypeOK
    BY <1>3, <1>4, <1>5 DEF MarginsTypeOK
  <1>7. SignedIsBuilt
    BY BuiltIs DEF MInv
  <1> QED BY <1>6, <1>7, TableAddsUp, LinesAddUp DEF MarginsHold

\* The table of the margins adds up to the cost of the job, each chapter to its lines, and
\* what is built is what was signed, after any sequence of adicionales, annexes and costs.
THEOREM MarginsKept == ASSUME Liberties = {} PROVE MarginsSpec => []MarginsHold
  <1>1. MarginsInit => MInv
    BY MarginsStart
  <1>2. MInv /\ [MarginsNext]_marginVars => MInv'
    BY MarginsStep
  <1>3. MInv => MarginsHold
    BY MarginsAddUp
  <1> QED BY <1>1, <1>2, <1>3, PTL DEF MarginsSpec

-----------------------------------------------------------------------------
(* Ledgers: receivables, payables, procurement and projects. *)

Allocation == [invoice : Nat, cents : Nat]
Receipt == [amount : Nat, allocations : Seq(Allocation)]
Debt == [supplier : Suppliers, number : Numbers, total : Nat, payments : Seq(Nat)]
Order == [chapter : Partidas, total : Nat, status : {"draft", "sent", "received", "cancelled"}]
BudgetRow == [chapter : Partidas, cents : Nat]
Expense == [kind : {"committed", "actual"}, chapter : Partidas, cents : Nat]
Change == [chapter : Partidas, cents : Nat, status : {"proposed", "approved", "rejected"}]
Works == [baseline : Seq(BudgetRow), costs : Seq(Expense), changes : Seq(Change),
          status : {"none", "active", "closed"}]

LedgersTyped ==
    /\ invoices \in Seq(Amounts) /\ receipts \in Seq(Receipt)
    /\ dues \in Seq(Debt) /\ \A k \in DOMAIN dues : dues[k].payments \in Seq(Amounts)
    /\ placed \in Seq(Order) /\ project \in Works
AllocatedToWhatIs ==
    \A k \in DOMAIN receipts :
        /\ \A a \in DOMAIN receipts[k].allocations :
              receipts[k].allocations[a].invoice \in DOMAIN invoices
        /\ Within(receipts[k].amount, receipts[k].allocations)
\* No chapter has two rows in the budget a project was opened with.
OneRowEach ==
    \A j, k \in DOMAIN project.baseline :
        project.baseline[j].chapter = project.baseline[k].chapter => j = k
LedgersInv == LedgersTyped /\ AllocatedToWhatIs /\ OneRowEach /\ NothingOverpaid /\ NumbersBookedOnce

\* What a person allocated to an invoice, row by row.
LEMMA CentsAre ==
    ASSUME NEW n \in Nat, NEW ledger, NEW S \in SUBSET (1..n),
           \A k \in 1..n : ledger[k].cents \in Nat
    PROVE  /\ IsFiniteSet(S) /\ Cents(ledger, S) \in Nat
           /\ \A col : (\A k \in S : col[k] = ledger[k].cents) => Cents(ledger, S) = SumOn(col, S)
  <1> DEFINE f == [k \in S |-> ledger[k].cents]
  <1>1. IsFiniteSet(S)
    <2>1. IsFiniteSet(1..n)
      BY FS_Interval
    <2> QED BY <2>1, FS_Subset
  <1>2. \A k \in S : f[k] \in Nat /\ f[k] = ledger[k].cents
    OBVIOUS
  <1>3. Cents(ledger, S) = SumOn(f, S)
    BY DEF Cents
  <1> HIDE DEF f
  <1>4. SumOn(f, S) \in Nat
    BY <1>1, <1>2, SumNotNegative
  <1>5. ASSUME NEW col, \A k \in S : col[k] = ledger[k].cents PROVE SumOn(f, S) = SumOn(col, S)
    BY <1>1, <1>2, <1>5, SumAlike
  <1> QED BY <1>1, <1>3, <1>4, <1>5

\* No row, or a single one.
LEMMA CentsOfFew ==
    ASSUME NEW ledger
    PROVE  /\ Cents(ledger, {}) = 0
           /\ \A k : ledger[k].cents \in Nat => Cents(ledger, {k}) = ledger[k].cents
  <1>1. Cents(ledger, {}) = 0
    BY SumOfNone DEF Cents
  <1>2. ASSUME NEW k, ledger[k].cents \in Nat PROVE Cents(ledger, {k}) = ledger[k].cents
    <2> DEFINE f == [j \in {k} |-> ledger[j].cents]
    <2>1. f[k] = ledger[k].cents /\ Cents(ledger, {k}) = SumOn(f, {k})
      BY DEF Cents
    <2> HIDE DEF f
    <2>2. SumOn(f, {} \cup {k}) = f[k] + SumOn(f, {})
      <3>1. IsFiniteSet({}) /\ k \notin {} /\ \A y \in {} \cup {k} : f[y] \in Int
        BY <1>2, <2>1, FS_EmptySet
      <3> QED BY <3>1, SumWith
    <2>3. SumOn(f, {}) = 0 /\ {} \cup {k} = {k}
      BY SumOfNone
    <2> QED BY <1>2, <2>1, <2>2, <2>3
  <1> QED BY <1>1, <1>2
-----------------------------------------------------------------------------
\* What one receipt pays of an invoice.
LEMMA PaidInIs ==
    ASSUME NEW r \in Receipt, NEW i
    PROVE  /\ PaidIn(r, i) \in Nat
           /\ (\A k \in DOMAIN r.allocations : r.allocations[k].invoice # i) => PaidIn(r, i) = 0
           /\ \A k \in DOMAIN r.allocations :
                 /\ r.allocations[k].invoice = i
                 /\ \A l \in DOMAIN r.allocations : r.allocations[l].invoice = i => l = k
                 => PaidIn(r, i) = r.allocations[k].cents
  <1> DEFINE a == r.allocations
             n == Len(a)
             S == {k \in DOMAIN a : a[k].invoice = i}
  <1>1. a \in Seq(Allocation)
    BY DEF Receipt
  <1> HIDE DEF a
  <1>2. n \in Nat /\ DOMAIN a = 1..n /\ \A k \in 1..n : a[k] \in Allocation
    BY <1>1
  <1>3. \A k \in 1..n : a[k].cents \in Nat
    BY <1>2 DEF Allocation
  <1>4. PaidIn(r, i) = Cents(a, S)
    BY DEF PaidIn, a
  <1>5. S \in SUBSET (1..n)
    BY <1>2
  <1>6. Cents(a, S) \in Nat
    <2> HIDE DEF n, S
    <2> QED BY <1>2, <1>3, <1>5, CentsAre
  <1>7. ASSUME \A k \in DOMAIN a : a[k].invoice # i PROVE Cents(a, S) = 0
    <2>1. S = {}
      BY <1>7
    <2> QED BY <2>1, CentsOfFew
  <1>8. ASSUME NEW k \in DOMAIN a, a[k].invoice = i, \A l \in DOMAIN a : a[l].invoice = i => l = k
        PROVE  Cents(a, S) = a[k].cents
    <2>1. S = {k}
      BY <1>8
    <2> QED BY <1>2, <1>3, <2>1, CentsOfFew
  <1> QED BY <1>4, <1>6, <1>7, <1>8 DEF a

\* What all of them pay, and one more.
LEMMA PaidOfIs ==
    ASSUME receipts \in Seq(Receipt), NEW i
    PROVE  /\ PaidOf(i) \in Nat
           /\ (\A k \in DOMAIN receipts : PaidIn(receipts[k], i) = 0) => PaidOf(i) = 0
           /\ \A r \in Receipt : receipts' = Append(receipts, r) =>
                 PaidOf(i)' = PaidOf(i) + PaidIn(r, i)
  <1> DEFINE f == [k \in DOMAIN receipts |-> PaidIn(receipts[k], i)]
             n == Len(receipts)
  <1>1. n \in Nat /\ DOMAIN receipts = 1..n /\ \A k \in 1..n : receipts[k] \in Receipt
    OBVIOUS
  <1>2. \A k \in 1..n : PaidIn(receipts[k], i) \in Nat
    BY <1>1, PaidInIs
  <1>3. PaidOf(i) = SumOn(f, 1..n) /\ DOMAIN f = 1..n /\ IsFiniteSet(1..n)
    BY <1>1, FS_Interval DEF PaidOf, Added
  <1>4. \A k \in 1..n : f[k] = PaidIn(receipts[k], i) /\ f[k] \in Nat
    BY <1>1, <1>2
  <1>5. f \in Seq(Int) /\ Len(f) = n
    BY <1>1, <1>2
  <1>6. ASSUME NEW r \in Receipt, receipts' = Append(receipts, r)
        PROVE  PaidOf(i)' = PaidOf(i) + PaidIn(r, i)
    <2> DEFINE g == [k \in DOMAIN receipts' |-> PaidIn(receipts'[k], i)]
    <2>1. PaidOf(i)' = SumOn(g, DOMAIN g)
      BY DEF PaidOf, Added, PaidIn, Cents
    <2>2. g = Append(f, PaidIn(r, i))
      <3>1. /\ DOMAIN receipts' = 1..n + 1 /\ receipts'[n + 1] = r
            /\ \A k \in 1..n : receipts'[k] = receipts[k]
        BY <1>1, <1>6
      <3>2. \A k \in 1..n + 1 : g[k] = IF k = n + 1 THEN PaidIn(r, i) ELSE f[k]
        BY <1>1, <3>1
      <3>3. DOMAIN g = 1..n + 1
        BY <3>1
      <3> HIDE DEF f, g
      <3>4. DOMAIN Append(f, PaidIn(r, i)) = 1..n + 1
            /\ \A k \in 1..n + 1 : Append(f, PaidIn(r, i))[k] = IF k = n + 1 THEN PaidIn(r, i) ELSE f[k]
        BY <1>1, <1>5
      <3>5. Append(f, PaidIn(r, i)) \in Seq(Int) /\ Len(Append(f, PaidIn(r, i))) = n + 1
        BY <1>5, PaidInIs
      <3>6. \A k \in 1..n + 1 : g[k] \in Int
        <4>1. PaidIn(r, i) \in Int /\ \A k \in 1..n : f[k] \in Int
          BY <1>4, PaidInIs
        <4> QED BY <1>1, <3>2, <4>1
      <3>7. g \in Seq(Int) /\ Len(g) = n + 1
        BY <1>1, <3>3, <3>6 DEF g
      <3> QED BY <1>1, <3>2, <3>3, <3>4, <3>5, <3>7
    <2> HIDE DEF f, g
    <2>3. PaidIn(r, i) \in Int
      BY PaidInIs
    <2>4. SumOn(f, DOMAIN f) = PaidOf(i)
      BY <1>3
    <2> QED BY <1>5, <2>1, <2>2, <2>3, <2>4, SumOfAppended
  <1> HIDE DEF f, n
  <1>7. PaidOf(i) \in Nat
    BY <1>3, <1>4, SumNotNegative
  <1>8. (\A k \in DOMAIN receipts : PaidIn(receipts[k], i) = 0) => PaidOf(i) = 0
    BY <1>1, <1>3, <1>4, SumOfZeros
  <1> QED BY <1>6, <1>7, <1>8
-----------------------------------------------------------------------------
(* Receivables and payables: nothing is paid beyond its amount. *)

\* What may be typed on a receipt.
LEMMA ReceiptIs ==
    ASSUME invoices \in Seq(Amounts), NEW amount \in Amounts, NEW entries \in Allocations
    PROVE  /\ [amount |-> amount, allocations |-> entries] \in Receipt
           /\ \A a \in DOMAIN entries : entries[a].invoice \in DOMAIN invoices
  <1>1. Amounts \subseteq Nat /\ DOMAIN invoices \subseteq Nat
    BY LedgerAmounts
  <1>2. entries \in Seq(Allocation) /\ \A a \in DOMAIN entries : entries[a].invoice \in DOMAIN invoices
    <2>1. CASE \E i \in DOMAIN invoices, c \in Amounts : entries = <<[invoice |-> i, cents |-> c]>>
      <3>1. PICK i \in DOMAIN invoices, c \in Amounts : entries = <<[invoice |-> i, cents |-> c]>>
        BY <2>1
      <3>2. [invoice |-> i, cents |-> c] \in Allocation
        BY <1>1 DEF Allocation
      <3> QED BY <3>1, <3>2
    <2>2. CASE \E i, j \in DOMAIN invoices, c, d \in Amounts :
                   entries = <<[invoice |-> i, cents |-> c], [invoice |-> j, cents |-> d]>>
      <3>1. PICK i \in DOMAIN invoices, j \in DOMAIN invoices, c \in Amounts, d \in Amounts :
                entries = <<[invoice |-> i, cents |-> c], [invoice |-> j, cents |-> d]>>
        BY <2>2
      <3>2. [invoice |-> i, cents |-> c] \in Allocation /\ [invoice |-> j, cents |-> d] \in Allocation
        BY <1>1 DEF Allocation
      <3>3. DOMAIN entries = {1, 2}
        BY <3>1
      <3> QED BY <3>1, <3>2, <3>3
    <2> QED BY <2>1, <2>2 DEF Allocations
  <1> QED BY <1>1, <1>2 DEF Receipt

\* What an invoice is for.
LEMMA InvoicesAre ==
    ASSUME invoices \in Seq(Amounts)
    PROVE  \A i \in DOMAIN invoices : invoices[i] \in Nat
  <1>1. \A i \in DOMAIN invoices : invoices[i] \in Amounts
    OBVIOUS
  <1> QED BY <1>1, LedgerAmounts

\* Where the invoices and receipts stay, so does what is owed.
LEMMA OutstandingStays ==
    ASSUME UNCHANGED <<invoices, receipts>>
    PROVE  \A i : Outstanding(i)' = Outstanding(i)
  BY DEF Outstanding, PaidOf, PaidIn, Added, Cents
LEMMA OwedStays == ASSUME UNCHANGED dues PROVE \A k : Owed(k)' = Owed(k)
  BY DEF Owed, Added

\* An invoice that nothing was allocated to yet.
LEMMA RegisteringKeeps ==
    ASSUME LedgersInv, NEW total \in Amounts, RegisterInvoice(total) PROVE LedgersInv'
  <1> DEFINE n == Len(invoices)
  <1>1. /\ invoices' = Append(invoices, total) /\ UNCHANGED <<receipts, dues, placed, project>>
        /\ invoices \in Seq(Amounts) /\ receipts \in Seq(Receipt) /\ Amounts \subseteq Nat
    BY LedgerAmounts DEF RegisterInvoice, LedgersInv, LedgersTyped
  <1>2. /\ n \in Nat /\ DOMAIN invoices = 1..n /\ DOMAIN invoices' = 1..n + 1
        /\ invoices'[n + 1] = total /\ \A i \in 1..n : invoices'[i] = invoices[i]
    BY <1>1
  <1>3. LedgersTyped'
    BY <1>1 DEF LedgersInv, LedgersTyped
  <1>4. AllocatedToWhatIs'
    BY <1>1, <1>2 DEF LedgersInv, AllocatedToWhatIs, Within, Cents
  <1>5. OneRowEach' /\ NumbersBookedOnce'
    BY <1>1 DEF LedgersInv, OneRowEach, NumbersBookedOnce
  <1>6. PaidOf(n + 1) = 0
    <2>1. ASSUME NEW k \in DOMAIN receipts PROVE PaidIn(receipts[k], n + 1) = 0
      <3>1. \A a \in DOMAIN receipts[k].allocations : receipts[k].allocations[a].invoice \in 1..n
        BY <1>2 DEF LedgersInv, AllocatedToWhatIs
      <3>2. \A a \in DOMAIN receipts[k].allocations : receipts[k].allocations[a].invoice # n + 1
        BY <1>2, <3>1
      <3>3. receipts[k] \in Receipt
        BY <1>1
      <3> QED BY <3>2, <3>3, PaidInIs
    <2> QED BY <1>1, <2>1, PaidOfIs
  <1>7. \A i : PaidOf(i)' = PaidOf(i)
    BY <1>1 DEF PaidOf, PaidIn, Added, Cents
  <1>8. ASSUME NEW i \in 1..n + 1 PROVE Outstanding(i)' >= 0
    <2>1. CASE i = n + 1
      BY <1>1, <1>2, <1>6, <1>7, <2>1 DEF Outstanding
    <2>2. CASE i \in 1..n
      <3>1. Outstanding(i)' = Outstanding(i)
        BY <1>2, <1>7, <2>2 DEF Outstanding
      <3> QED BY <1>2, <2>2, <3>1 DEF LedgersInv, NothingOverpaid
    <2> QED BY <1>2, <2>1, <2>2
  <1>9. NothingOverpaid'
    BY <1>1, <1>2, <1>8, OwedStays DEF LedgersInv, NothingOverpaid
  <1> QED BY <1>3, <1>4, <1>5, <1>9 DEF LedgersInv

\* A receipt pays no invoice more than it owed, each of its rows being another invoice's.
LEMMA ReceivingKeeps ==
    ASSUME LedgersInv, NEW amount \in Amounts, NEW entries \in Allocations,
           RecordReceipt(amount, entries), Habits = {}
    PROVE  LedgersInv'
  <1> DEFINE r == [amount |-> amount, allocations |-> entries]
  <1>1. /\ receipts' = Append(receipts, r) /\ UNCHANGED <<invoices, dues, placed, project>>
        /\ Within(amount, entries) /\ \A k \in DOMAIN entries : Fits(entries[k])
        /\ \A k, l \in DOMAIN entries : entries[k].invoice = entries[l].invoice => k = l
    BY DEF RecordReceipt
  <1>2. invoices \in Seq(Amounts) /\ receipts \in Seq(Receipt) /\ Amounts \subseteq Nat
    BY LedgerAmounts DEF LedgersInv, LedgersTyped
  <1>3. /\ r \in Receipt /\ r.amount = amount /\ r.allocations = entries
        /\ \A a \in DOMAIN entries : entries[a].invoice \in DOMAIN invoices
    <2>1. r \in Receipt /\ \A a \in DOMAIN entries : entries[a].invoice \in DOMAIN invoices
      <3>1. invoices \in Seq(Amounts)
        BY <1>2
      <3> HIDE DEF r
      <3>2. r = [amount |-> amount, allocations |-> entries]
        BY DEF r
      <3> QED BY <3>1, <3>2, ReceiptIs, ZenonT(40)
    <2>2. r.amount = amount /\ r.allocations = entries
      BY ZenonT(40)
    <2> QED BY <2>1, <2>2
  <1> HIDE DEF r
  <1>4. PICK n \in Nat : /\ n = Len(receipts) /\ DOMAIN receipts = 1..n
                         /\ DOMAIN receipts' = 1..n + 1 /\ receipts'[n + 1] = r
                         /\ \A k \in 1..n : receipts'[k] = receipts[k]
    <2>1. Len(receipts) \in Nat /\ DOMAIN receipts = 1..Len(receipts)
      BY <1>2
    <2>2. /\ DOMAIN Append(receipts, r) = 1..Len(receipts) + 1
          /\ Append(receipts, r)[Len(receipts) + 1] = r
          /\ \A k \in 1..Len(receipts) : Append(receipts, r)[k] = receipts[k]
      BY <1>2, <1>3
    <2> QED BY <1>1, <2>1, <2>2
  <1>5. LedgersTyped'
    <2>1. receipts' \in Seq(Receipt)
      BY <1>1, <1>2, <1>3
    <2> QED BY <1>1, <2>1 DEF LedgersInv, LedgersTyped
  <1>6. AllocatedToWhatIs'
    <2>1. ASSUME NEW k \in 1..n + 1
          PROVE  /\ \A a \in DOMAIN receipts'[k].allocations :
                       receipts'[k].allocations[a].invoice \in DOMAIN invoices
                 /\ Within(receipts'[k].amount, receipts'[k].allocations)
      <3>1. CASE k = n + 1
        BY <1>1, <1>3, <1>4, <3>1
      <3>2. CASE k \in 1..n
        BY <1>4, <3>2 DEF LedgersInv, AllocatedToWhatIs
      <3>3. k = n + 1 \/ k \in 1..n
        BY <2>1
      <3> QED BY <3>1, <3>2, <3>3
    <2> QED BY <1>1, <1>4, <2>1 DEF AllocatedToWhatIs, Within, Cents
  <1>7. OneRowEach' /\ NumbersBookedOnce'
    BY <1>1 DEF LedgersInv, OneRowEach, NumbersBookedOnce
  <1>8. ASSUME NEW i \in DOMAIN invoices PROVE Outstanding(i)' >= 0
    <2>1. PICK o \in Int, p \in Nat : /\ o = Outstanding(i) /\ p = PaidIn(r, i)
                                      /\ Outstanding(i)' = o - p /\ o >= 0
      <3>1. PICK q \in Nat, p \in Nat : PaidOf(i) = q /\ PaidIn(r, i) = p /\ PaidOf(i)' = q + p
        <4>1. PaidOf(i) \in Nat /\ PaidOf(i)' = PaidOf(i) + PaidIn(r, i)
          BY <1>1, <1>2, <1>3, PaidOfIs
        <4>2. PaidIn(r, i) \in Nat
          BY <1>3, PaidInIs
        <4> QED BY <4>1, <4>2
      <3>2. PICK c \in Nat : invoices[i] = c /\ invoices'[i] = c
        BY <1>1, <1>2, InvoicesAre
      <3>3. Outstanding(i) = c - q /\ Outstanding(i)' = c - (q + p)
        BY <3>1, <3>2 DEF Outstanding
      <3>4. Outstanding(i) >= 0
        BY DEF LedgersInv, NothingOverpaid
      <3>5. c - q \in Int /\ c - (q + p) = (c - q) - p
        OBVIOUS
      <3> QED BY <3>1, <3>3, <3>4, <3>5
    <2>3. PaidIn(r, i) <= Outstanding(i)
      <3>1. CASE \A k \in DOMAIN entries : entries[k].invoice # i
        <4>1. PaidIn(r, i) = 0
          BY <1>3, <3>1, PaidInIs
        <4> QED BY <2>1, <4>1
      <3>2. CASE \E k \in DOMAIN entries : entries[k].invoice = i
        <4>1. PICK k \in DOMAIN entries : entries[k].invoice = i
          BY <3>2
        <4>2. \A l \in DOMAIN entries : entries[l].invoice = i => l = k
          BY <1>1, <4>1
        <4>3. PaidIn(r, i) = entries[k].cents
          BY <1>3, <4>1, <4>2, PaidInIs
        <4> QED BY <1>1, <4>1, <4>3 DEF Fits
      <3> QED BY <3>1, <3>2
    <2> QED BY <2>1, <2>3
  <1>9. NothingOverpaid'
    BY <1>1, <1>8, OwedStays DEF LedgersInv, NothingOverpaid
  <1> QED BY <1>5, <1>6, <1>7, <1>9 DEF LedgersInv

\* A bill nobody has paid yet, under a number its supplier has not used.
LEMMA BillingKeeps ==
    ASSUME LedgersInv, NEW s \in Suppliers, NEW number \in Numbers, NEW total \in Amounts,
           RegisterDue(s, number, total)
    PROVE  LedgersInv'
  <1> DEFINE b == [supplier |-> s, number |-> number, total |-> total, payments |-> <<>>]
  <1>1. /\ dues' = Append(dues, b) /\ UNCHANGED <<invoices, receipts, placed, project>>
        /\ ~IsDuplicate(s, number)
    BY DEF RegisterDue
  <1>2. dues \in Seq(Debt) /\ Amounts \subseteq Nat
    BY LedgerAmounts DEF LedgersInv, LedgersTyped
  <1>3. b \in Debt /\ b.payments = <<>> /\ b.total = total /\ b.supplier = s /\ b.number = number
        /\ b.payments \in Seq(Amounts)
    BY <1>2 DEF Debt
  <1> HIDE DEF b
  <1>4. PICK n \in Nat : /\ n = Len(dues) /\ DOMAIN dues = 1..n /\ DOMAIN dues' = 1..n + 1
                         /\ dues'[n + 1] = b /\ \A k \in 1..n : dues'[k] = dues[k]
    BY <1>1, <1>2
  <1>5. LedgersTyped'
    <2>1. dues' \in Seq(Debt)
      BY <1>1, <1>2, <1>3
    <2>2. ASSUME NEW k \in DOMAIN dues' PROVE dues'[k].payments \in Seq(Amounts)
      <3>1. k = n + 1 \/ k \in 1..n
        BY <1>4
      <3> QED BY <1>3, <1>4, <3>1 DEF LedgersInv, LedgersTyped
    <2> QED BY <1>1, <2>1, <2>2 DEF LedgersInv, LedgersTyped
  <1>6. AllocatedToWhatIs' /\ OneRowEach'
    BY <1>1 DEF LedgersInv, AllocatedToWhatIs, Within, Cents, OneRowEach
  <1>7. NumbersBookedOnce'
    <2>1. ASSUME NEW j \in 1..n + 1, NEW k \in 1..n + 1,
                 dues'[j].supplier = dues'[k].supplier, dues'[j].number = dues'[k].number
          PROVE  j = k
      <3>1. \A m \in 1..n : ~(dues[m].supplier = s /\ dues[m].number = number)
        BY <1>1, <1>4 DEF IsDuplicate
      <3>2. CASE j \in 1..n /\ k \in 1..n
        BY <1>4, <2>1, <3>2 DEF LedgersInv, NumbersBookedOnce
      <3>3. CASE j = n + 1 /\ k \in 1..n
        BY <1>3, <1>4, <2>1, <3>1, <3>3
      <3>4. CASE k = n + 1 /\ j \in 1..n
        BY <1>3, <1>4, <2>1, <3>1, <3>4
      <3> QED BY <3>2, <3>3, <3>4
    <2> QED BY <1>4, <2>1 DEF NumbersBookedOnce
  <1>8. NothingOverpaid'
    <2>1. ASSUME NEW k \in DOMAIN dues' PROVE Owed(k)' >= 0
      <3>1. CASE k = n + 1
        <4>1. Added(<<>>) = 0
          BY SumOfNone DEF Added
        <4> QED BY <1>2, <1>3, <1>4, <3>1, <4>1 DEF Owed, Added
      <3>2. CASE k \in 1..n
        <4>1. Owed(k)' = Owed(k)
          BY <1>4, <3>2 DEF Owed, Added
        <4> QED BY <1>4, <3>2, <4>1 DEF LedgersInv, NothingOverpaid
      <3> QED BY <1>4, <3>1, <3>2
    <2> QED BY <1>1, <2>1, OutstandingStays DEF LedgersInv, NothingOverpaid
  <1> QED BY <1>5, <1>6, <1>7, <1>8 DEF LedgersInv

\* A payment within what is owed.
LEMMA PayingKeeps ==
    ASSUME LedgersInv, NEW k \in DOMAIN dues, NEW amount \in Amounts, RecordPayment(k, amount)
    PROVE  LedgersInv'
  <1> DEFINE was == dues[k]
             b == [was EXCEPT !.payments = Append(@, amount)]
  <1>1. /\ dues' = [dues EXCEPT ![k] = b] /\ UNCHANGED <<invoices, receipts, placed, project>>
        /\ amount <= Owed(k)
    BY DEF RecordPayment
  <1>2. dues \in Seq(Debt) /\ Amounts \subseteq Nat /\ was \in Debt /\ was.payments \in Seq(Amounts)
    BY LedgerAmounts DEF LedgersInv, LedgersTyped
  <1>3. /\ b \in Debt /\ b.payments = Append(was.payments, amount) /\ b.total = was.total
        /\ b.supplier = was.supplier /\ b.number = was.number /\ b.payments \in Seq(Amounts)
    <2>1. amount \in Amounts /\ amount \in Nat /\ was.payments \in Seq(Nat)
      BY <1>2 DEF Debt
    <2>2. Append(was.payments, amount) \in Seq(Nat) /\ Append(was.payments, amount) \in Seq(Amounts)
      BY <1>2, <2>1
    <2> HIDE DEF was
    <2> QED BY <1>2, <2>2 DEF Debt
  <1> HIDE DEF b
  <1>4. /\ dues' \in Seq(Debt) /\ DOMAIN dues' = DOMAIN dues
        /\ dues'[k] = b /\ \A j \in DOMAIN dues : j # k => dues'[j] = dues[j]
    BY <1>1, <1>2, <1>3
  <1>5. LedgersTyped'
    BY <1>1, <1>3, <1>4 DEF LedgersInv, LedgersTyped
  <1>6. AllocatedToWhatIs' /\ OneRowEach'
    BY <1>1 DEF LedgersInv, AllocatedToWhatIs, Within, Cents, OneRowEach
  <1>7. NumbersBookedOnce'
    <2>1. \A j \in DOMAIN dues : dues'[j].supplier = dues[j].supplier /\ dues'[j].number = dues[j].number
      BY <1>3, <1>4
    <2> QED BY <1>4, <2>1 DEF LedgersInv, NumbersBookedOnce
  <1>8. Owed(k)' >= 0
    <2>1. was.payments \in Seq(Int) /\ amount \in Int /\ was.total \in Int
      <3>1. was.payments \in Seq(Nat) /\ Amounts \subseteq Int
        BY <1>2 DEF Debt
      <3> QED BY <1>2, <3>1 DEF Debt
    <2> DEFINE p == was.payments
    <2>2. Added(Append(p, amount)) = Added(p) + amount /\ Added(p) \in Int
      <3> HIDE DEF p, was
      <3>1. p \in Seq(Int)
        BY <2>1 DEF p
      <3>2. SumOn(p, DOMAIN p) \in Int
        BY <3>1, SumOfSeq
      <3> QED BY <2>1, <3>1, <3>2, SumOfAppended DEF Added
    <2>3. Owed(k)' = was.total - Added(Append(p, amount))
      BY <1>3, <1>4 DEF Owed, Added
    <2>4. Owed(k) = was.total - Added(p)
      BY DEF Owed
    <2> HIDE DEF p, was
    <2> QED BY <1>1, <2>1, <2>2, <2>3, <2>4
  <1>9. NothingOverpaid'
    <2>1. \A j \in DOMAIN dues : j # k => Owed(j)' = Owed(j)
      BY <1>4 DEF Owed, Added
    <2> QED BY <1>1, <1>4, <1>8, <2>1, OutstandingStays DEF LedgersInv, NothingOverpaid
  <1> QED BY <1>5, <1>6, <1>7, <1>9 DEF LedgersInv
-----------------------------------------------------------------------------
(* Procurement and projects. *)

\* Where the documents stay, nothing of receivables and payables changes.
LEMMA DocumentsStay ==
    ASSUME LedgersInv, UNCHANGED <<invoices, receipts, dues>>,
           placed' \in Seq(Order), project' \in Works, OneRowEach'
    PROVE  LedgersInv'
  <1>1. LedgersTyped'
    BY DEF LedgersInv, LedgersTyped
  <1>2. AllocatedToWhatIs' /\ NumbersBookedOnce'
    BY DEF LedgersInv, AllocatedToWhatIs, Within, Cents, NumbersBookedOnce
  <1>3. NothingOverpaid'
    BY OutstandingStays, OwedStays DEF LedgersInv, NothingOverpaid
  <1> QED BY <1>1, <1>2, <1>3 DEF LedgersInv

\* An order is raised, sent, received or cancelled.
LEMMA OrderingKeeps ==
    ASSUME LedgersInv,
           \/ \E c \in Partidas, a \in Amounts : Raise(c, a)
           \/ \E k \in DOMAIN placed, to \in {"sent", "received", "cancelled"} : Transition(k, to)
    PROVE  LedgersInv'
  <1>1. placed \in Seq(Order) /\ project \in Works /\ Amounts \subseteq Nat /\ OneRowEach
    BY LedgerAmounts DEF LedgersInv, LedgersTyped
  <1>2. ASSUME NEW c \in Partidas, NEW a \in Amounts, Raise(c, a) PROVE LedgersInv'
    <2>1. [chapter |-> c, total |-> a, status |-> "draft"] \in Order
      BY <1>1 DEF Order
    <2>2. placed' \in Seq(Order) /\ UNCHANGED <<invoices, receipts, dues, project>>
      BY <1>1, <1>2, <2>1 DEF Raise
    <2> QED BY <1>1, <2>2, DocumentsStay DEF OneRowEach
  <1>3. ASSUME NEW k \in DOMAIN placed, NEW to \in {"sent", "received", "cancelled"}, Transition(k, to)
        PROVE  LedgersInv'
    <2> DEFINE o == placed[k]
               n == [o EXCEPT !.status = to]
    <2>1. o \in Order
      BY <1>1
    <2>2. n \in Order
      BY <2>1 DEF Order
    <2>3. placed' = [placed EXCEPT ![k] = n] /\ UNCHANGED <<invoices, receipts, dues, project>>
      BY <1>3 DEF Transition
    <2> HIDE DEF n
    <2>4. placed' \in Seq(Order)
      BY <1>1, <2>2, <2>3
    <2> QED BY <1>1, <2>3, <2>4, DocumentsStay DEF OneRowEach
  <1> QED BY <1>2, <1>3

\* The rows of the quote a project is opened with.
LEMMA RowsAre ==
    ASSUME NEW q \in Rows
    PROVE  q \in Seq(BudgetRow)
  <1>0. Amounts \subseteq Nat
    BY LedgerAmounts
  <1>1. CASE \E c \in Partidas, a \in Amounts : q = <<[chapter |-> c, cents |-> a]>>
    <2>1. PICK c \in Partidas, a \in Amounts : q = <<[chapter |-> c, cents |-> a]>>
      BY <1>1
    <2>2. [chapter |-> c, cents |-> a] \in BudgetRow
      BY <1>0 DEF BudgetRow
    <2> QED BY <2>1, <2>2
  <1>2. CASE \E c, d \in Partidas, a \in Amounts :
                 q = <<[chapter |-> c, cents |-> a], [chapter |-> d, cents |-> a]>>
    <2>1. PICK c \in Partidas, d \in Partidas, a \in Amounts :
              q = <<[chapter |-> c, cents |-> a], [chapter |-> d, cents |-> a]>>
      BY <1>2
    <2>2. [chapter |-> c, cents |-> a] \in BudgetRow /\ [chapter |-> d, cents |-> a] \in BudgetRow
      BY <1>0 DEF BudgetRow
    <2> QED BY <2>1, <2>2
  <1> QED BY <1>1, <1>2 DEF Rows

\* A project is opened once, each of its chapters with one row.
LEMMA ProjectOpens ==
    ASSUME LedgersInv, Habits = {}, NEW q \in Rows, FromAcceptedQuote(q) PROVE LedgersInv'
  <1>1. /\ project' = [baseline |-> q, costs |-> <<>>, changes |-> <<>>, status |-> "active"]
        /\ UNCHANGED <<invoices, receipts, dues, placed>>
        /\ IsInjective([k \in DOMAIN q |-> q[k].chapter])
    BY DEF FromAcceptedQuote
  <1>2. project' \in Works
    BY <1>1, RowsAre DEF Works
  <1>3. OneRowEach'
    BY <1>1 DEF OneRowEach, IsInjective
  <1>4. placed' \in Seq(Order)
    BY <1>1 DEF LedgersInv, LedgersTyped
  <1> QED BY <1>1, <1>2, <1>3, <1>4, DocumentsStay

\* A cost or a change is added, a change decided, the project closed: the rows it was opened
\* with stay.
LEMMA ProjectGoesOn ==
    ASSUME LedgersInv,
           \/ \E kind \in {"committed", "actual"}, c \in Partidas, a \in Amounts : BookCost(kind, c, a)
           \/ \E c \in Partidas, a \in Amounts : ProposeChange(c, a)
           \/ \E k \in DOMAIN project.changes, to \in {"approved", "rejected"} : DecideChange(k, to)
           \/ Close
    PROVE  LedgersInv'
  <1>1. placed \in Seq(Order) /\ project \in Works /\ Amounts \subseteq Nat /\ OneRowEach
    BY LedgerAmounts DEF LedgersInv, LedgersTyped
  <1>2. /\ project.baseline \in Seq(BudgetRow) /\ project.costs \in Seq(Expense)
        /\ project.changes \in Seq(Change)
    BY <1>1 DEF Works
  <1>3. ASSUME project' \in Works, project'.baseline = project.baseline,
               UNCHANGED <<invoices, receipts, dues, placed>>
        PROVE  LedgersInv'
    <2>1. OneRowEach' /\ placed' \in Seq(Order)
      BY <1>1, <1>3 DEF OneRowEach
    <2> QED BY <1>3, <2>1, DocumentsStay
  <1>4. ASSUME NEW kind \in {"committed", "actual"}, NEW c \in Partidas, NEW a \in Amounts,
               BookCost(kind, c, a)
        PROVE  LedgersInv'
    <2> DEFINE more == Append(project.costs, [kind |-> kind, chapter |-> c, cents |-> a])
    <2>1. [kind |-> kind, chapter |-> c, cents |-> a] \in Expense
      BY <1>1 DEF Expense
    <2>2. more \in Seq(Expense)
      BY <1>2, <2>1
    <2>3. /\ project' = [project EXCEPT !.costs = more]
          /\ UNCHANGED <<invoices, receipts, dues, placed>>
      BY <1>4 DEF BookCost
    <2> HIDE DEF more
    <2> QED BY <1>1, <1>3, <2>2, <2>3 DEF Works
  <1>5. ASSUME NEW c \in Partidas, NEW a \in Amounts, ProposeChange(c, a) PROVE LedgersInv'
    <2> DEFINE more == Append(project.changes, [chapter |-> c, cents |-> a, status |-> "proposed"])
    <2>1. [chapter |-> c, cents |-> a, status |-> "proposed"] \in Change
      BY <1>1 DEF Change
    <2>2. more \in Seq(Change)
      BY <1>2, <2>1
    <2>3. /\ project' = [project EXCEPT !.changes = more]
          /\ UNCHANGED <<invoices, receipts, dues, placed>>
      BY <1>5 DEF ProposeChange
    <2> HIDE DEF more
    <2> QED BY <1>1, <1>3, <2>2, <2>3 DEF Works
  <1>6. ASSUME NEW k \in DOMAIN project.changes, NEW to \in {"approved", "rejected"}, DecideChange(k, to)
        PROVE  LedgersInv'
    <2> DEFINE c == project.changes[k]
               d == [c EXCEPT !.status = to]
               now == [project.changes EXCEPT ![k] = d]
    <2>1. c \in Change
      BY <1>2
    <2>2. d \in Change
      BY <2>1 DEF Change
    <2>3. /\ project' = [project EXCEPT !.changes = now]
          /\ UNCHANGED <<invoices, receipts, dues, placed>>
      BY <1>1, <1>6 DEF DecideChange, Works
    <2> HIDE DEF d
    <2>4. now \in Seq(Change)
      BY <1>2, <2>2
    <2> HIDE DEF now
    <2> QED BY <1>1, <1>3, <2>3, <2>4 DEF Works
  <1>7. CASE Close
    BY <1>1, <1>3, <1>7 DEF Close, Works
  <1> QED BY <1>4, <1>5, <1>6, <1>7
-----------------------------------------------------------------------------
(* What is said chapter by chapter. *)

\* The rows of each chapter come to what all of them come to.
LEMMA ByChapter ==
    ASSUME NEW n \in Nat, NEW ledger, \A k \in 1..n : ledger[k].cents \in Nat,
           NEW S \in SUBSET (1..n), NEW B, IsFiniteSet(B), \A k \in S : ledger[k].chapter \in B,
           NEW h, \A b \in B : h[b] = Cents(ledger, {k \in S : ledger[k].chapter = b})
    PROVE  SumOn(h, B) = Cents(ledger, S)
  <1> DEFINE f == [k \in S |-> ledger[k].cents]
             g == [k \in S |-> ledger[k].chapter]
  <1>1. IsFiniteSet(S)
    <2>1. IsFiniteSet(1..n)
      BY FS_Interval
    <2> QED BY <2>1, FS_Subset
  <1>2. Cents(ledger, S) = SumOn(f, S)
    BY DEF Cents
  <1>3. \A k \in S : f[k] = ledger[k].cents /\ g[k] = ledger[k].chapter
    OBVIOUS
  <1>4. \A k \in S : ledger[k].cents \in Nat
    OBVIOUS
  <1>5. \A k \in S : ledger[k].chapter \in B
    OBVIOUS
  <1> HIDE DEF f, g
  <1>6. \A k \in S : f[k] \in Int /\ f[k] = ledger[k].cents /\ g[k] \in B /\ g[k] = ledger[k].chapter
    <2>1. ASSUME NEW k \in S PROVE f[k] \in Int
      <3>1. f[k] = ledger[k].cents /\ ledger[k].cents \in Nat
        BY <1>3, <1>4
      <3> QED BY <3>1
    <2>2. ASSUME NEW k \in S PROVE g[k] \in B
      <3>1. g[k] = ledger[k].chapter /\ ledger[k].chapter \in B
        BY <1>3, <1>5
      <3> QED BY <3>1
    <2> QED BY <1>3, <2>1, <2>2
  <1>7. ASSUME NEW b \in B PROVE h[b] = SumOn(f, {k \in S : g[k] = b})
    <2> DEFINE T == {k \in S : ledger[k].chapter = b}
    <2>1. T = {k \in S : g[k] = b} /\ T \in SUBSET (1..n) /\ h[b] = Cents(ledger, T)
      BY <1>6
    <2>2. \A k \in T : f[k] = ledger[k].cents
      BY <1>6
    <2> HIDE DEF T
    <2>3. Cents(ledger, T) = SumOn(f, T)
      BY <2>1, <2>2, CentsAre
    <2> QED BY <2>1, <2>3
  <1>8. SumOn(h, B) = SumOn(f, S)
    <2>1. \A x \in S : f[x] \in Int
      BY <1>6
    <2>2. \A x \in S : g[x] \in B
      BY <1>6
    <2>3. \A b \in B : h[b] = SumOn(f, {x \in S : g[x] = b})
      BY <1>7, Zenon
    <2>4. Parted(h, B, g, f, S)
      BY <1>1, <2>1, <2>2, <2>3 DEF Parted
    <2> QED BY <2>4, SumByPart
  <1> QED BY <1>2, <1>8

\* What is committed to the chapters is what is committed.
LEMMA CommitmentsAddUp ==
    ASSUME LedgersInv PROVE Added(CommitmentByChapter(Partidas)) = Committed
  <1> DEFINE S == Committing
             B == Partidas \cup {placed[k].chapter : k \in S}
             h == CommitmentByChapter(Partidas)
             f == [k \in S |-> placed[k].total]
             g == [k \in S |-> placed[k].chapter]
  <1>1. PICK n \in Nat : DOMAIN placed = 1..n /\ \A k \in 1..n : placed[k] \in Order
    <2>1. placed \in Seq(Order)
      BY DEF LedgersInv, LedgersTyped
    <2> QED BY <2>1
  <1>2. S \in SUBSET (1..n) /\ \A k \in S : placed[k].chapter \in Partidas /\ placed[k].total \in Nat
    BY <1>1 DEF Committing, Order
  <1>3. IsFiniteSet(S)
    <2> HIDE DEF S
    <2>1. IsFiniteSet(1..n)
      BY FS_Interval
    <2> QED BY <1>2, <2>1, FS_Subset
  <1>4. B = Partidas
    BY <1>2
  <1>5. IsFiniteSet(Partidas)
    BY LedgerAmounts
  <1>6. IsFiniteSet(S) /\ B = Partidas /\ IsFiniteSet(B)
    <2> HIDE DEF B, S
    <2> QED BY <1>3, <1>4, <1>5
  <1>7. DOMAIN h = B /\ \A b \in B : h[b] = TotalOf({k \in S : placed[k].chapter = b})
    BY DEF CommitmentByChapter
  <1>8. \A k \in S : f[k] \in Int /\ f[k] = placed[k].total /\ g[k] \in B /\ g[k] = placed[k].chapter
    BY <1>2, <1>6
  <1>9. Committed = SumOn(f, S)
    BY DEF Committed, TotalOf
  <1> HIDE DEF S, B, h, f, g
  <1>10. ASSUME NEW b \in B PROVE h[b] = SumOn(f, {k \in S : g[k] = b})
    <2> DEFINE T == {k \in S : g[k] = b}
               e == [k \in T |-> placed[k].total]
    <2>1. T = {k \in S : placed[k].chapter = b}
      BY <1>8
    <2>2. h[b] = SumOn(e, T)
      BY <1>7, <2>1 DEF TotalOf
    <2>3. IsFiniteSet(T) /\ \A k \in T : e[k] \in Int /\ e[k] = f[k]
      BY <1>6, <1>8, FS_Subset
    <2> HIDE DEF T, e
    <2>4. SumOn(e, T) = SumOn(f, T)
      BY <2>3, SumAlike
    <2> QED BY <2>2, <2>4 DEF T
  <1>11. SumOn(h, B) = SumOn(f, S)
    <2>1. \A x \in S : f[x] \in Int
      BY <1>8
    <2>2. \A x \in S : g[x] \in B
      BY <1>8
    <2>3. \A b \in B : h[b] = SumOn(f, {x \in S : g[x] = b})
      BY <1>10, Zenon
    <2>4. Parted(h, B, g, f, S)
      BY <1>6, <2>1, <2>2, <2>3 DEF Parted
    <2> QED BY <2>4, SumByPart
  <1> QED BY <1>7, <1>9, <1>11 DEF Added, h

\* The project's ledgers, and the chapters they name.
LEMMA WorksAre ==
    ASSUME LedgersInv
    PROVE  /\ \E n \in Nat : DOMAIN project.baseline = 1..n
                             /\ \A k \in 1..n : project.baseline[k] \in BudgetRow
           /\ \E n \in Nat : DOMAIN project.costs = 1..n /\ \A k \in 1..n : project.costs[k] \in Expense
           /\ \E n \in Nat : DOMAIN project.changes = 1..n /\ \A k \in 1..n : project.changes[k] \in Change
           /\ IsFiniteSet(ChaptersOf(project))
  <1>1. /\ project.baseline \in Seq(BudgetRow) /\ project.costs \in Seq(Expense)
        /\ project.changes \in Seq(Change)
    BY DEF LedgersInv, LedgersTyped, Works
  <1>2. /\ \A k \in DOMAIN project.baseline : project.baseline[k].chapter \in Partidas
        /\ \A k \in DOMAIN project.costs : project.costs[k].chapter \in Partidas
        /\ \A k \in DOMAIN project.changes : project.changes[k].chapter \in Partidas
    <2>1. /\ \A k \in DOMAIN project.baseline : project.baseline[k] \in BudgetRow
          /\ \A k \in DOMAIN project.costs : project.costs[k] \in Expense
          /\ \A k \in DOMAIN project.changes : project.changes[k] \in Change
      BY <1>1
    <2> QED BY <2>1 DEF BudgetRow, Expense, Change
  <1>3. ChaptersOf(project) \subseteq Partidas
    BY <1>2 DEF ChaptersOf, Approved
  <1>4. IsFiniteSet(ChaptersOf(project))
    BY <1>3, LedgerAmounts, FS_Subset
  <1>5. DOMAIN project.baseline = 1..Len(project.baseline) /\ Len(project.baseline) \in Nat
        /\ \A k \in 1..Len(project.baseline) : project.baseline[k] \in BudgetRow
    BY <1>1
  <1>6. DOMAIN project.costs = 1..Len(project.costs) /\ Len(project.costs) \in Nat
        /\ \A k \in 1..Len(project.costs) : project.costs[k] \in Expense
    BY <1>1
  <1>7. DOMAIN project.changes = 1..Len(project.changes) /\ Len(project.changes) \in Nat
        /\ \A k \in 1..Len(project.changes) : project.changes[k] \in Change
    BY <1>1
  <1> QED BY <1>4, <1>5, <1>6, <1>7

\* The one row of the baseline that bears a chapter is all that bears it.
LEMMA BaselineIs ==
    ASSUME LedgersInv, NEW c
    PROVE  BaselineOf(project, c)
               = Cents(project.baseline, {k \in DOMAIN project.baseline : project.baseline[k].chapter = c})
  <1> DEFINE T == {k \in DOMAIN project.baseline : project.baseline[k].chapter = c}
  <1>1. CASE T = {}
    BY <1>1, CentsOfFew DEF BaselineOf
  <1>2. CASE T # {}
    <2>1. PICK k \in T : TRUE
      BY <1>2
    <2>2. T = {k}
      BY <2>1 DEF LedgersInv, OneRowEach
    <2>3. PICK n \in Nat : DOMAIN project.baseline = 1..n
                           /\ \A j \in 1..n : project.baseline[j] \in BudgetRow
      BY WorksAre
    <2>4. k \in Nat /\ project.baseline[k].cents \in Nat
      BY <2>1, <2>3 DEF BudgetRow
    <2>5. (CHOOSE j \in T : \A m \in T : j <= m) = k
      BY <2>2, <2>4
    <2>6. BaselineOf(project, c) = project.baseline[k].cents
      BY <1>2, <2>5 DEF BaselineOf
    <2>7. Cents(project.baseline, T) = project.baseline[k].cents
      BY <2>2, <2>4, CentsOfFew
    <2> QED BY <2>6, <2>7
  <1> QED BY <1>1, <1>2

\* The budget of the chapters is the budget.
LEMMA BudgetsAddUp ==
    ASSUME LedgersInv PROVE Added(BudgetByChapter(project)) = CurrentBudget(project)
  <1> DEFINE B == ChaptersOf(project)
             entries == project.baseline
             deltas == project.changes
             S == Approved(project)
             h == BudgetByChapter(project)
             b == [c \in B |-> BaselineOf(project, c)]
             d == [c \in B |-> Cents(deltas, {k \in S : deltas[k].chapter = c})]
  <1>1. PICK n \in Nat : DOMAIN entries = 1..n /\ \A k \in 1..n : entries[k] \in BudgetRow
    BY WorksAre
  <1>2. PICK m \in Nat : DOMAIN deltas = 1..m /\ \A k \in 1..m : deltas[k] \in Change
    BY WorksAre
  <1>3. IsFiniteSet(B) /\ (\A k \in 1..n : entries[k].chapter \in B) /\ \A k \in S : deltas[k].chapter \in B
    BY <1>1, WorksAre DEF ChaptersOf
  <1>4. S \in SUBSET (1..m) /\ 1..n \in SUBSET (1..n)
    BY <1>2 DEF Approved
  <1>5. (\A k \in 1..n : entries[k].cents \in Nat) /\ \A k \in 1..m : deltas[k].cents \in Nat
    BY <1>1, <1>2 DEF BudgetRow, Change
  <1>6. \A c \in B : b[c] = Cents(entries, {k \in 1..n : entries[k].chapter = c})
    BY <1>1, BaselineIs
  <1>7. \A c \in B : d[c] = Cents(deltas, {k \in S : deltas[k].chapter = c})
    OBVIOUS
  <1>8. DOMAIN h = B /\ \A c \in B : h[c] = b[c] + d[c]
    BY DEF BudgetByChapter
  <1>9. CurrentBudget(project) = Cents(entries, 1..n) + Cents(deltas, S)
    BY <1>1 DEF CurrentBudget
  <1> HIDE DEF B, entries, deltas, S, h, b, d
  <1>10. SumOn(b, B) = Cents(entries, 1..n)
    BY <1>3, <1>4, <1>5, <1>6, ByChapter
  <1>11. SumOn(d, B) = Cents(deltas, S)
    BY <1>3, <1>4, <1>5, <1>7, ByChapter
  <1>12. \A c \in B : b[c] \in Int /\ d[c] \in Int /\ h[c] = b[c] + d[c]
    <2>1. ASSUME NEW c \in B PROVE b[c] \in Int /\ d[c] \in Int
      <3> DEFINE T == {k \in 1..n : entries[k].chapter = c}
                 U == {k \in S : deltas[k].chapter = c}
      <3>1. T \in SUBSET (1..n) /\ U \in SUBSET (1..m)
        BY <1>4
      <3>2. b[c] = Cents(entries, T) /\ d[c] = Cents(deltas, U)
        BY <1>6, <1>7
      <3> HIDE DEF T, U
      <3>3. Cents(entries, T) \in Nat /\ Cents(deltas, U) \in Nat
        BY <1>5, <3>1, CentsAre
      <3> QED BY <3>2, <3>3
    <2> QED BY <1>8, <2>1
  <1>13. SumOn(h, B) = SumOn(b, B) + SumOn(d, B)
    BY <1>3, <1>12, SumOfSums
  <1> QED BY <1>8, <1>9, <1>10, <1>11, <1>13 DEF Added, h

\* The costs of the chapters are the costs.
LEMMA CostsAddUp ==
    ASSUME LedgersInv, NEW kind
    PROVE  Added(CostByChapter(project, kind)) = Cents(project.costs, Booked(project, kind))
  <1> DEFINE B == ChaptersOf(project)
             expenses == project.costs
             S == Booked(project, kind)
             h == CostByChapter(project, kind)
  <1>1. PICK n \in Nat : DOMAIN expenses = 1..n /\ \A k \in 1..n : expenses[k] \in Expense
    BY WorksAre
  <1>2. IsFiniteSet(B) /\ S \in SUBSET (1..n)
    BY <1>1, WorksAre DEF Booked
  <1>3. (\A k \in 1..n : expenses[k].cents \in Nat) /\ \A k \in S : expenses[k].chapter \in B
    BY <1>1 DEF Expense, Booked, ChaptersOf
  <1>4. DOMAIN h = B /\ \A c \in B : h[c] = Cents(expenses, {k \in S : expenses[k].chapter = c})
    BY DEF CostByChapter
  <1> HIDE DEF B, expenses, S, h
  <1>5. SumOn(h, B) = Cents(expenses, S)
    BY <1>2, <1>3, <1>4, ByChapter
  <1> QED BY <1>4, <1>5 DEF Added, h, expenses, S

-----------------------------------------------------------------------------
LedgersSpec == LedgersInit /\ [][LedgersNext]_ledgerVars

\* Nothing was done yet.
LEMMA LedgersStart == ASSUME LedgersInit PROVE LedgersInv
  <1>1. /\ invoices = <<>> /\ receipts = <<>> /\ dues = <<>> /\ placed = <<>>
        /\ project = [baseline |-> <<>>, costs |-> <<>>, changes |-> <<>>, status |-> "none"]
    BY DEF LedgersInit, NoJob
  <1>2. project \in Works /\ DOMAIN project.baseline = {}
    BY <1>1 DEF Works
  <1>3. DOMAIN invoices = {} /\ DOMAIN receipts = {} /\ DOMAIN dues = {}
    BY <1>1
  <1>4. invoices \in Seq(Amounts) /\ receipts \in Seq(Receipt) /\ dues \in Seq(Debt) /\ placed \in Seq(Order)
    BY <1>1
  <1>5. LedgersTyped
    BY <1>2, <1>3, <1>4 DEF LedgersTyped
  <1>6. AllocatedToWhatIs /\ OneRowEach /\ NothingOverpaid /\ NumbersBookedOnce
    BY <1>2, <1>3 DEF AllocatedToWhatIs, OneRowEach, NothingOverpaid, NumbersBookedOnce
  <1> QED BY <1>5, <1>6 DEF LedgersInv

\* No call of a service breaks the invariant.
LEMMA LedgersStep == ASSUME LedgersInv, Habits = {}, [LedgersNext]_ledgerVars PROVE LedgersInv'
  <1>1. CASE UNCHANGED ledgerVars
    <2>1. UNCHANGED <<invoices, receipts, dues, placed, project>>
      BY <1>1 DEF ledgerVars
    <2>2. placed' \in Seq(Order) /\ project' \in Works /\ OneRowEach'
      BY <2>1 DEF LedgersInv, LedgersTyped, OneRowEach
    <2> QED BY <2>1, <2>2, DocumentsStay
  <1>2. CASE LedgersNext
    BY <1>2, RegisteringKeeps, ReceivingKeeps, BillingKeeps, PayingKeeps, OrderingKeeps,
       ProjectOpens, ProjectGoesOn DEF LedgersNext
  <1> QED BY <1>1, <1>2

\* The invariant gives what the ledgers promise.
LEMMA LedgersPromise == ASSUME LedgersInv PROVE LedgersHold
  <1>1. LedgersTypeOK
    <2>1. \A k \in DOMAIN placed : placed[k].status \in {"draft", "sent", "received", "cancelled"}
      <3>1. \A k \in DOMAIN placed : placed[k] \in Order
        BY DEF LedgersInv, LedgersTyped
      <3> QED BY <3>1 DEF Order
    <2>2. project.status \in {"none", "active", "closed"}
      BY DEF LedgersInv, LedgersTyped, Works
    <2> QED BY <2>1, <2>2 DEF LedgersInv, LedgersTyped, AllocatedToWhatIs, LedgersTypeOK
  <1>2. ChaptersAddUp
    BY CommitmentsAddUp, BudgetsAddUp, CostsAddUp DEF ChaptersAddUp
  <1> QED BY <1>1, <1>2 DEF LedgersInv, LedgersHold

\* No invoice is collected and no bill paid beyond its amount, a supplier's number is booked
\* once, and the chapters of a project add up to it, after any calls of the services.
THEOREM LedgersKept == ASSUME Habits = {} PROVE LedgersSpec => []LedgersHold
  <1>1. LedgersInit => LedgersInv
    BY LedgersStart
  <1>2. LedgersInv /\ [LedgersNext]_ledgerVars => LedgersInv'
    BY LedgersStep
  <1>3. LedgersInv => LedgersHold
    BY LedgersPromise
  <1> QED BY <1>1, <1>2, <1>3, PTL DEF LedgersSpec

-----------------------------------------------------------------------------
(* Matching: what is proposed for the lines of the bank. *)

Payment == UNION {[T -> Nat] : T \in SUBSET Papers}

\* What the lines of the statements are.
LEMMA MovementsAre ==
    ASSUME lines \in Seq(Shapes)
    PROVE  /\ Len(lines) \in Nat /\ DOMAIN lines = 1..Len(lines)
           /\ \A m \in DOMAIN lines : /\ m \in Nat /\ m # NoOther /\ lines[m].cents \in Int
                                      /\ lines[m].day \in Int /\ lines[m].day \in UNION Windows
           /\ IsFiniteSet(DOMAIN lines)
  <1>1. Len(lines) \in Nat /\ DOMAIN lines = 1..Len(lines)
    OBVIOUS
  <1>2. ASSUME NEW m \in DOMAIN lines
        PROVE  /\ m \in Nat /\ m # NoOther /\ lines[m].cents \in Int
               /\ lines[m].day \in Int /\ lines[m].day \in UNION Windows
    <2>1. m \in Nat /\ m # NoOther
      BY <1>1 DEF NoOther
    <2>2. lines[m] \in Shapes
      OBVIOUS
    <2> QED BY <2>1, <2>2, StatementAssumption
  <1>3. IsFiniteSet(DOMAIN lines)
    BY <1>1, FS_Interval
  <1> QED BY <1>1, <1>2, <1>3

\* What can be said of the pairs found among the first n lines.
FoundWell(w, n, P) ==
    /\ \A p \in P : /\ p.out \in Candidates(w) /\ p.in \in Candidates(w)
                    /\ p.out <= n /\ FitTogether(p.out, p.in) /\ p.alternatives \in Nat
    /\ \A p, q \in P : p.out = q.out \/ p.in = q.in => p = q
    /\ \A o, i \in Candidates(w) :
           o <= n /\ FitTogether(o, i) => \E p \in P : p.out = o \/ p.in = i
    /\ \A p \in P : p.alternatives = 0 =>
           \A i \in Candidates(w) : FitTogether(p.out, i) /\ i # p.in =>
               \E q \in P : q.in = i /\ q.out # p.out

\* One more out finds the nearest in that is left, or none that fits is left.
LEMMA PairFinds ==
    ASSUME lines \in Seq(Shapes), NEW w, NEW n \in Candidates(w), NEW P, FoundWell(w, n - 1, P)
    PROVE  FoundWell(w, n, Pair(P, n, Candidates(w)))
  <1> DEFINE C == Candidates(w)
             taken == {p.in : p \in P}
             fitting == {i \in C \ taken : FitTogether(n, i)}
             Away(i) == Distance(lines[n].day, lines[i].day)
             nearest == {i \in fitting : \A j \in fitting : Away(i) <= Away(j)}
             in == Min(nearest)
             new == [out |-> n, in |-> in, alternatives |-> Cardinality(fitting) - 1]
  <1>1. C \subseteq DOMAIN lines /\ C \subseteq Nat /\ IsFiniteSet(fitting) /\ n \in Nat
    <2>1. C \subseteq DOMAIN lines
      BY DEF Candidates
    <2>2. fitting \subseteq DOMAIN lines
      BY <2>1
    <2> HIDE DEF fitting, C
    <2>3. IsFiniteSet(fitting)
      BY <2>2, MovementsAre, FS_Subset
    <2>4. C \subseteq Nat
      BY <2>1, MovementsAre
    <2> QED BY <2>1, <2>3, <2>4 DEF C
  <1>2. CASE fitting = {}
    <2>1. Pair(P, n, C) = P
      BY <1>2 DEF Pair
    <2>2. \A i \in C : FitTogether(n, i) => \E p \in P : p.in = i
      BY <1>2
    <2>3. \A o \in C : o <= n => o <= n - 1 \/ o = n
      BY <1>1
    <2>4. \A p \in P : p.out <= n
      BY <1>1 DEF FoundWell
    <2> HIDE DEF fitting, taken
    <2> QED BY <2>1, <2>2, <2>3, <2>4 DEF FoundWell
  <1>3. CASE fitting # {}
    <2>1. Pair(P, n, C) = P \cup {new}
      BY <1>3 DEF Pair
    <2>2. nearest # {}
      <3> DEFINE all == {Away(i) : i \in fitting}
      <3>1. \A i \in fitting : Away(i) \in Nat
        BY <1>1, MovementsAre DEF Distance
      <3>2. all \subseteq Nat /\ all # {}
        BY <1>3, <3>1
      <3>3. PICK x \in all : \A y \in all : x <= y
        <4> HIDE DEF all
        <4> QED BY <3>2, LeastNat
      <3>4. PICK i \in fitting : x = Away(i)
        BY <3>3
      <3>5. \A j \in fitting : Away(i) <= Away(j)
        BY <3>3, <3>4
      <3> HIDE DEF all, fitting, Away
      <3> QED BY <3>4, <3>5
    <2>3. in \in nearest
      <3>1. nearest \subseteq Nat
        BY <1>1
      <3> HIDE DEF nearest
      <3> QED BY <2>2, <3>1, MinIsIn
    <2>4. in \in C /\ in \notin taken /\ FitTogether(n, in) /\ in \in fitting
      BY <2>3
    <2>5. /\ new.out = n /\ new.in = in /\ new.alternatives = Cardinality(fitting) - 1
      OBVIOUS
    <2>6. \A i \in C : FitTogether(n, i) /\ i \notin fitting => \E q \in P : q.in = i
      OBVIOUS
    <2>7. \A p \in P : p.in # in
      BY <2>4
    <2>8. \A p \in P : p.out \in C /\ p.out <= n - 1 /\ p.out <= n /\ p.out # n
      BY <1>1 DEF FoundWell
    <2>9. \A o \in C : o <= n => o <= n - 1 \/ o = n
      BY <1>1
    <2>10. new.alternatives = 0 => \A i \in fitting : i = in
      <3>1. SUFFICES ASSUME new.alternatives = 0 PROVE \A i \in fitting : i = in
        OBVIOUS
      <3> HIDE DEF new, in, fitting
      <3>2. Cardinality(fitting) = 1
        BY <1>1, <2>5, <3>1, FS_CardinalityType
      <3>3. PICK x : fitting = {x}
        BY <1>1, <3>2, FS_Singleton
      <3> QED BY <2>4, <3>3
    <2> HIDE DEF new, in, nearest, fitting, taken
    <2> DEFINE Q == P \cup {new}
    <2>11. \A p \in Q : /\ p.out \in C /\ p.in \in C /\ p.out <= n
                        /\ FitTogether(p.out, p.in) /\ p.alternatives \in Nat
      <3>1. Cardinality(fitting) \in Nat /\ Cardinality(fitting) # 0
        BY <1>1, <1>3, FS_CardinalityType, FS_EmptySet
      <3>2. new.alternatives \in Nat
        BY <2>5, <3>1
      <3> QED BY <1>1, <2>4, <2>5, <2>8, <3>2 DEF FoundWell
    <2>12. \A p, q \in Q : p.out = q.out \/ p.in = q.in => p = q
      BY <2>5, <2>7, <2>8 DEF FoundWell
    <2>13. \A o, i \in C : o <= n /\ FitTogether(o, i) => \E p \in Q : p.out = o \/ p.in = i
      <3>1. ASSUME NEW o \in C, NEW i \in C, o <= n, FitTogether(o, i)
            PROVE  \E p \in Q : p.out = o \/ p.in = i
        <4>1. CASE o = n
          BY <2>5, <4>1
        <4>2. CASE o <= n - 1
          BY <3>1, <4>2 DEF FoundWell
        <4> QED BY <2>9, <3>1, <4>1, <4>2
      <3> QED BY <3>1
    <2>14. \A p \in Q : p.alternatives = 0 =>
              \A i \in C : FitTogether(p.out, i) /\ i # p.in =>
                  \E q \in Q : q.in = i /\ q.out # p.out
      <3>1. ASSUME NEW p \in Q, p.alternatives = 0, NEW i \in C, FitTogether(p.out, i), i # p.in
            PROVE  \E q \in Q : q.in = i /\ q.out # p.out
        <4>1. CASE p \in P
          BY <3>1, <4>1 DEF FoundWell
        <4>2. CASE p = new
          <5>1. i \notin fitting
            BY <2>5, <2>10, <3>1, <4>2
          <5>2. PICK q \in P : q.in = i
            BY <2>5, <2>6, <3>1, <4>2, <5>1
          <5> QED BY <2>5, <2>8, <4>2, <5>2
        <4> QED BY <4>1, <4>2
      <3> QED BY <3>1
    <2> QED BY <2>1, <2>11, <2>12, <2>13, <2>14 DEF FoundWell
  <1> QED BY <1>2, <1>3

\* The scan of the outs, line after line.
ScanOf(w, F) ==
    F = [n \in 0..Len(lines) |->
            IF n = 0 THEN {}
            ELSE IF n \in Candidates(w) /\ lines[n].cents < 0
                 THEN Pair(F[n - 1], n, Candidates(w)) ELSE F[n - 1]]
Scan(w) == CHOOSE F : ScanOf(w, F)
LEMMA TransfersAreScanned == ASSUME NEW w PROVE InternalTransfers(w) = Scan(w)[Len(lines)]
  BY DEF InternalTransfers, Scan, ScanOf

LEMMA ScanExists ==
    ASSUME lines \in Seq(Shapes), NEW w PROVE ScanOf(w, Scan(w))
  <1> DEFINE C == Candidates(w)
             Next1(F, m) == IF m = 0 THEN {}
                            ELSE IF m \in C /\ lines[m].cents < 0 THEN Pair(F[m - 1], m, C)
                            ELSE F[m - 1]
             Upto(n, F) == F = [m \in 0..n |-> Next1(F, m)]
             Known == {n \in Nat : \E F : Upto(n, F)}
  <1>1. 0 \in Known
    <2> DEFINE F == [m \in 0..0 |-> {}]
    <2>1. F = [m \in 0..0 |-> Next1(F, m)]
      OBVIOUS
    <2> HIDE DEF F
    <2> QED BY <2>1
  <1>2. ASSUME NEW n \in Nat, n \in Known PROVE n + 1 \in Known
    <2>1. PICK F : Upto(n, F)
      BY <1>2
    <2> DEFINE G == [m \in 0..n + 1 |-> Next1(F, m)]
    <2>2. \A m \in 0..n : G[m] = F[m]
      <3> TAKE m \in 0..n
      <3>1. m \in 0..n + 1
        OBVIOUS
      <3> HIDE DEF Next1
      <3>2. F[m] = Next1(F, m)
        BY <2>1, Zenon
      <3> QED BY <3>1, <3>2
    <2>3. ASSUME NEW m \in 0..n + 1, m # 0 PROVE G[m - 1] = F[m - 1]
      <3>1. m - 1 \in 0..n
        BY <2>3
      <3> HIDE DEF G
      <3> QED BY <2>2, <3>1
    <2>4. \A m \in 0..n + 1 : Next1(F, m) = Next1(G, m)
      <3> TAKE m \in 0..n + 1
      <3>1. m = 0 \/ F[m - 1] = G[m - 1]
        BY <2>3
      <3> HIDE DEF G, C
      <3> QED BY <3>1
    <2>5. G = [m \in 0..n + 1 |-> Next1(G, m)]
      <3> DEFINE H == [m \in 0..n + 1 |-> Next1(G, m)]
      <3> HIDE DEF Next1
      <3>1. \A m \in 0..n + 1 : G[m] = H[m]
        BY <2>4
      <3> QED BY <3>1
    <2> HIDE DEF G, Next1
    <2> QED BY <2>5
  <1>3. Len(lines) \in Known
    <2> HIDE DEF Known
    <2>1. Nat \subseteq Known
      BY <1>1, <1>2, EveryNat
    <2> QED BY <2>1, MovementsAre
  <1>4. PICK F : Upto(Len(lines), F)
    BY <1>3
  <1>5. ScanOf(w, F)
    BY <1>4, Zenon DEF ScanOf
  <1> QED BY <1>5 DEF Scan

LEMMA ScanAt ==
    ASSUME lines \in Seq(Shapes), NEW w, NEW n \in 0..Len(lines)
    PROVE  Scan(w)[n] = IF n = 0 THEN {}
               ELSE IF n \in Candidates(w) /\ lines[n].cents < 0
                    THEN Pair(Scan(w)[n - 1], n, Candidates(w)) ELSE Scan(w)[n - 1]
  <1> DEFINE F == Scan(w)
  <1>1. ScanOf(w, F)
    BY ScanExists
  <1> HIDE DEF F
  <1>2. F[n] = IF n = 0 THEN {}
               ELSE IF n \in Candidates(w) /\ lines[n].cents < 0
                    THEN Pair(F[n - 1], n, Candidates(w)) ELSE F[n - 1]
    BY <1>1, Zenon DEF ScanOf
  <1> QED BY <1>2 DEF F

\* What can be said of all the pairs proposed.
LEMMA TransfersAre ==
    ASSUME lines \in Seq(Shapes), NEW w
    PROVE  FoundWell(w, Len(lines), InternalTransfers(w))
  <1> DEFINE N == Len(lines)
             Fine == {n \in Nat : n <= N => FoundWell(w, n, Scan(w)[n])}
  <1>1. 0 \in Fine
    <2>1. Scan(w)[0] = {}
      BY MovementsAre, ScanAt
    <2>2. \A o \in Candidates(w) : ~(o <= 0)
      BY MovementsAre DEF Candidates, NoOther
    <2>3. FoundWell(w, 0, {})
      BY <2>2 DEF FoundWell
    <2> QED BY <2>1, <2>3
  <1>2. ASSUME NEW n \in Nat, n \in Fine PROVE n + 1 \in Fine
    <2>1. SUFFICES ASSUME n + 1 <= N PROVE FoundWell(w, n + 1, Scan(w)[n + 1])
      OBVIOUS
    <2>2. N \in Nat /\ n + 1 \in 0..N /\ n + 1 # 0 /\ (n + 1) - 1 = n /\ n <= N
      BY <2>1, MovementsAre
    <2> DEFINE P == Scan(w)[n]
    <2>3. FoundWell(w, n, P)
      BY <1>2, <2>2
    <2>4. Scan(w)[n + 1] = IF n + 1 \in Candidates(w) /\ lines[n + 1].cents < 0
                           THEN Pair(P, n + 1, Candidates(w)) ELSE P
      BY <2>2, ScanAt
    <2> HIDE DEF P, Fine
    <2>5. CASE n + 1 \in Candidates(w) /\ lines[n + 1].cents < 0
      BY <2>2, <2>3, <2>4, <2>5, PairFinds
    <2>6. CASE ~(n + 1 \in Candidates(w) /\ lines[n + 1].cents < 0)
      <3>1. \A o \in Candidates(w) : o \in Nat
        BY MovementsAre DEF Candidates
      <3>2. \A o, i \in Candidates(w) : o <= n + 1 /\ FitTogether(o, i) => o <= n
        BY <2>6, <3>1 DEF FitTogether
      <3>3. \A p \in P : p.out <= n + 1
        BY <2>3, <3>1 DEF FoundWell
      <3>4. FoundWell(w, n + 1, P)
        BY <2>3, <3>2, <3>3 DEF FoundWell
      <3> QED BY <2>4, <2>6, <3>4
    <2> QED BY <2>5, <2>6
  <1>3. Nat \subseteq Fine
    <2> HIDE DEF Fine
    <2> QED BY <1>1, <1>2, EveryNat
  <1>4. N \in Nat /\ N \in Fine
    BY <1>3, MovementsAre
  <1> QED BY <1>4, TransfersAreScanned
-----------------------------------------------------------------------------
(* Matching: what a line pays. *)

MatchTyped ==
    /\ lines \in Seq(Shapes) /\ Len(lines) <= MaxLines
    /\ pairOf \in Seq(Nat) /\ Len(pairOf) = Len(lines)
    /\ settled \in Seq(Payment) /\ Len(settled) = Len(lines)
    /\ DOMAIN clicked \subseteq DOMAIN lines
    /\ clicks \in 0..MaxClicks

\* What is in the rows of a line.
LEMMA PaidRowsAre ==
    ASSUME MatchTyped
    PROVE  /\ DOMAIN pairOf = DOMAIN lines /\ DOMAIN settled = DOMAIN lines
           /\ \A m \in DOMAIN lines :
                 /\ pairOf[m] \in Nat /\ DOMAIN settled[m] \in SUBSET Papers
                 /\ \A d \in DOMAIN settled[m] : settled[m][d] \in Nat
                 /\ \A d : PaidBy(m, d) \in Nat
                 /\ Loose(m) => \A d : PaidBy(m, d) = 0
                 /\ Target(m) \in Nat
  <1>1. DOMAIN pairOf = DOMAIN lines /\ DOMAIN settled = DOMAIN lines
    BY DEF MatchTyped
  <1>2. ASSUME NEW m \in DOMAIN lines
        PROVE  /\ pairOf[m] \in Nat /\ DOMAIN settled[m] \in SUBSET Papers
               /\ \A d \in DOMAIN settled[m] : settled[m][d] \in Nat
    <2>1. settled[m] \in Payment /\ pairOf[m] \in Nat
      BY <1>1 DEF MatchTyped
    <2>2. PICK T \in SUBSET Papers : settled[m] \in [T -> Nat]
      BY <2>1 DEF Payment
    <2> QED BY <2>1, <2>2
  <1>3. \A m \in DOMAIN lines : \A d : PaidBy(m, d) \in Nat /\ (Loose(m) => PaidBy(m, d) = 0)
    BY <1>2 DEF PaidBy, Loose
  <1>4. \A m \in DOMAIN lines : Target(m) \in Nat
    BY MovementsAre DEF MatchTyped, Target, Size
  <1> QED BY <1>1, <1>2, <1>3, <1>4

\* What is open of a paper, and what a line has spent, are amounts.
LEMMA SumsAre ==
    ASSUME MatchTyped
    PROVE  /\ \A d \in Papers : Open(d) \in Int
           /\ \A m \in DOMAIN lines : Spent(m) \in Nat
  <1>1. ASSUME NEW d \in Papers PROVE Open(d) \in Int
    <2> DEFINE f == [m \in DOMAIN lines |-> PaidBy(m, d)]
    <2>1. \A m \in DOMAIN lines : f[m] \in Nat
      BY PaidRowsAre
    <2>2. IsFiniteSet(DOMAIN lines)
      BY MovementsAre DEF MatchTyped
    <2>3. Open(d) = Due[d] - SumOn(f, DOMAIN lines) /\ Due[d] \in Nat
      BY StatementAssumption DEF Open
    <2> HIDE DEF f
    <2>4. SumOn(f, DOMAIN lines) \in Nat
      BY <2>1, <2>2, SumNotNegative
    <2> QED BY <2>3, <2>4
  <1>2. ASSUME NEW m \in DOMAIN lines PROVE Spent(m) \in Nat
    <2> DEFINE f == [d \in Papers |-> PaidBy(m, d)]
    <2>1. \A d \in Papers : f[d] \in Nat
      BY PaidRowsAre
    <2>2. IsFiniteSet(Papers)
      BY StatementAssumption
    <2>3. Spent(m) = SumOn(f, Papers)
      BY DEF Spent
    <2> HIDE DEF f
    <2> QED BY <2>1, <2>2, <2>3, SumNotNegative
  <1> QED BY <1>1, <1>2

\* What is open of several papers.
LEMMA OpenOfIs ==
    ASSUME \A d \in Papers : Open(d) \in Nat, NEW S \in SUBSET Papers
    PROVE  /\ OpenOf(S) \in Nat /\ OpenOf({}) = 0
           /\ \A d \in Papers \ S : OpenOf(S \cup {d}) = OpenOf(S) + Open(d)
           /\ \A T \in SUBSET S : OpenOf(T) <= OpenOf(S)
  <1> DEFINE f == [d \in Papers |-> Open(d)]
  <1>1. \A d \in Papers : f[d] = Open(d) /\ f[d] \in Nat
    OBVIOUS
  <1> HIDE DEF f
  <1>2. \A T \in SUBSET Papers : IsFiniteSet(T)
    BY StatementAssumption, FS_Subset
  <1>3. ASSUME NEW T \in SUBSET Papers PROVE OpenOf(T) = SumOn(f, T) /\ SumOn(f, T) \in Nat
    <2> DEFINE g == [d \in T |-> Open(d)]
    <2>1. \A d \in T : g[d] \in Int /\ g[d] = f[d]
      BY <1>1
    <2>2. OpenOf(T) = SumOn(g, T)
      BY DEF OpenOf
    <2> HIDE DEF g
    <2>3. SumOn(g, T) = SumOn(f, T)
      BY <1>2, <2>1, SumAlike
    <2>4. SumOn(f, T) \in Nat
      BY <1>1, <1>2, SumNotNegative
    <2> QED BY <2>2, <2>3, <2>4
  <1>4. OpenOf({}) = 0
    BY <1>3, SumOfNone
  <1>5. ASSUME NEW d \in Papers \ S PROVE OpenOf(S \cup {d}) = OpenOf(S) + Open(d)
    <2>1. S \cup {d} \in SUBSET Papers /\ \A y \in S \cup {d} : f[y] \in Int
      BY <1>1
    <2>2. SumOn(f, S \cup {d}) = f[d] + SumOn(f, S)
      BY <1>2, <2>1, SumWith
    <2>3. OpenOf(S \cup {d}) = SumOn(f, S \cup {d}) /\ OpenOf(S) = SumOn(f, S) /\ SumOn(f, S) \in Nat
      BY <1>3, <2>1
    <2> QED BY <1>1, <2>2, <2>3
  <1>6. ASSUME NEW T \in SUBSET S PROVE OpenOf(T) <= OpenOf(S)
    <2> DEFINE R == S \ T
    <2>1. T \in SUBSET Papers /\ R \in SUBSET Papers /\ T \cap R = {} /\ T \cup R = S
      OBVIOUS
    <2> HIDE DEF R
    <2>2. \A y \in T \cup R : f[y] \in Int
      BY <1>1, <2>1
    <2>3. SumOn(f, T \cup R) = SumOn(f, T) + SumOn(f, R)
      BY <1>2, <2>1, <2>2, SumOfBoth
    <2>4. SumOn(f, T) \in Nat /\ SumOn(f, R) \in Nat
      BY <1>3, <2>1
    <2>5. SumOn(f, S) = SumOn(f, T) + SumOn(f, R)
      BY <2>1, <2>3
    <2>6. SumOn(f, T) <= SumOn(f, S)
      BY <2>4, <2>5
    <2> QED BY <1>3, <2>1, <2>6
  <1> QED BY <1>3, <1>4, <1>5, <1>6

\* The order the papers are paid in is a strict order of all of them.
LEMMA AheadOrders ==
    ASSUME lines \in Seq(Shapes), NEW m \in DOMAIN lines, \A d \in Papers : Open(d) \in Int
    PROVE  /\ \A d, e \in Papers : d # e => Ahead(m, d, e) \/ Ahead(m, e, d)
           /\ \A d, e \in Papers : Ahead(m, d, e) => ~Ahead(m, e, d)
           /\ \A d, e, g \in Papers : Ahead(m, d, e) /\ Ahead(m, e, g) => Ahead(m, d, g)
  <1> DEFINE Away(d) == Distance(lines[m].day, PaperDay[d])
  <1>1. \A d \in Papers : Open(d) \in Int /\ Away(d) \in Int /\ d \in Int
    BY MovementsAre, StatementAssumption DEF Distance
  <1>2. \A d, e \in Papers : Ahead(m, d, e) <=>
            \/ Open(d) > Open(e)
            \/ Open(d) = Open(e) /\ Away(d) < Away(e)
            \/ Open(d) = Open(e) /\ Away(d) = Away(e) /\ d < e
    BY DEF Ahead
  <1> HIDE DEF Away
  <1>3. \A d, e \in Papers : d # e => Ahead(m, d, e) \/ Ahead(m, e, d)
    BY <1>1, <1>2
  <1>4. \A d, e \in Papers : Ahead(m, d, e) => ~Ahead(m, e, d)
    BY <1>1, <1>2
  <1>5. \A d, e, g \in Papers : Ahead(m, d, e) /\ Ahead(m, e, g) => Ahead(m, d, g)
    BY <1>1, <1>2
  <1> QED BY <1>3, <1>4, <1>5

\* Of several papers one is the first, and one the last.
LEMMA EndsOf ==
    ASSUME lines \in Seq(Shapes), NEW m \in DOMAIN lines, \A d \in Papers : Open(d) \in Int,
           NEW S \in SUBSET Papers, S # {}
    PROVE  /\ \E f \in S : \A e \in S \ {f} : Ahead(m, f, e)
           /\ \E l \in S : \A e \in S \ {l} : Ahead(m, e, l)
  <1> DEFINE First(T) == \E f \in T : \A e \in T \ {f} : Ahead(m, f, e)
             Hind(T) == \E l \in T : \A e \in T \ {l} : Ahead(m, e, l)
             Fine == {T \in SUBSET S : T = {} \/ (First(T) /\ Hind(T))}
  <1>1. {} \in Fine
    OBVIOUS
  <1>2. ASSUME NEW T \in SUBSET S, NEW x \in S \ T, T \in Fine PROVE T \cup {x} \in Fine
    <2>1. CASE T = {}
      <3>1. T \cup {x} = {x}
        BY <2>1
      <3>2. First({x}) /\ Hind({x})
        OBVIOUS
      <3> HIDE DEF First, Hind
      <3> QED BY <3>1, <3>2
    <2>2. CASE T # {}
      <3>1. First(T) /\ Hind(T)
        BY <1>2, <2>2
      <3>2. First(T \cup {x})
        <4>1. PICK f \in T : \A e \in T \ {f} : Ahead(m, f, e)
          BY <3>1
        <4>2. CASE Ahead(m, f, x)
          BY <4>1, <4>2
        <4>3. CASE Ahead(m, x, f)
          <5>1. \A e \in T : Ahead(m, x, e)
            BY <4>1, <4>3, AheadOrders
          <5> QED BY <5>1
        <4> QED BY <4>2, <4>3, AheadOrders
      <3>3. Hind(T \cup {x})
        <4>1. PICK l \in T : \A e \in T \ {l} : Ahead(m, e, l)
          BY <3>1
        <4>2. CASE Ahead(m, x, l)
          BY <4>1, <4>2
        <4>3. CASE Ahead(m, l, x)
          <5>1. \A e \in T : Ahead(m, e, x)
            BY <4>1, <4>3, AheadOrders
          <5> QED BY <5>1
        <4> QED BY <4>2, <4>3, AheadOrders
      <3> HIDE DEF First, Hind
      <3> QED BY <3>2, <3>3
    <2> QED BY <2>1, <2>2
  <1>3. IsFiniteSet(S)
    BY StatementAssumption, FS_Subset
  <1>4. SUBSET S \subseteq Fine
    <2>1. \A T \in SUBSET S : \A x \in S \ T : T \in Fine => T \cup {x} \in Fine
      BY <1>2
    <2> HIDE DEF Fine
    <2> QED BY ONLY <1>1, <1>3, <2>1, EveryPart
  <1>5. S \in Fine
    BY <1>4
  <1> QED BY <1>5

\* The papers of a match are paid whole, but for the last: together what the line moved, or
\* all that was open if that is less.
LEMMA TakesAre ==
    ASSUME lines \in Seq(Shapes), NEW m \in DOMAIN lines, Target(m) \in Nat, Target(m) > 0,
           \A d \in Papers : Open(d) \in Nat,
           NEW S \in SUBSET Papers, S # {}, NEW t, t = Takes(m, S)
    PROVE  /\ DOMAIN t \in SUBSET S /\ DOMAIN t # {} /\ t \in Payment
           /\ \A d \in DOMAIN t : t[d] \in Nat /\ t[d] <= Open(d)
           /\ SumOn(t, DOMAIN t) = IF OpenOf(S) < Target(m) THEN OpenOf(S) ELSE Target(m)
  <1> DEFINE Above(d) == {e \in S : Ahead(m, e, d)}
             Left(d) == Target(m) - OpenOf(Above(d))
             D == {d \in S : Left(d) > 0}
  <1>1. \A d \in Papers : Open(d) \in Int /\ Open(d) >= 0
    OBVIOUS
  <1>2. t = [d \in D |-> IF Open(d) < Left(d) THEN Open(d) ELSE Left(d)]
    BY DEF Takes
  <1>3. /\ \A d, e \in Papers : d # e => Ahead(m, d, e) \/ Ahead(m, e, d)
        /\ \A d, e \in Papers : Ahead(m, d, e) => ~Ahead(m, e, d)
        /\ \A d, e, g \in Papers : Ahead(m, d, e) /\ Ahead(m, e, g) => Ahead(m, d, g)
    BY <1>1, AheadOrders
  <1>4. \A d \in S : Above(d) \in SUBSET S /\ Above(d) \in SUBSET Papers /\ d \notin Above(d)
    BY <1>3
  <1>5. \A d \in S : \A e \in Above(d) : e \in S /\ Above(e) \cup {e} \in SUBSET Above(d)
    BY <1>3
  <1>6. \A d \in S : OpenOf(Above(d)) \in Nat /\ Left(d) \in Int
    <2>1. \A d \in S : OpenOf(Above(d)) \in Nat
      <3> HIDE DEF Above
      <3> QED BY <1>4, OpenOfIs
    <2> HIDE DEF Above
    <2> QED BY <2>1
  <1>7. ASSUME NEW d \in S, NEW e \in Above(d) PROVE Left(e) >= Left(d) + Open(e)
    <2>1. OpenOf(Above(e) \cup {e}) = OpenOf(Above(e)) + Open(e)
      <3>1. Above(e) \in SUBSET Papers /\ e \in Papers \ Above(e)
        BY <1>4, <1>5
      <3> HIDE DEF Above
      <3> QED BY <3>1, OpenOfIs
    <2>2. OpenOf(Above(e) \cup {e}) <= OpenOf(Above(d))
      <3>1. Above(d) \in SUBSET Papers /\ Above(e) \cup {e} \in SUBSET Above(d)
        BY <1>4, <1>5
      <3> HIDE DEF Above
      <3> QED BY <3>1, OpenOfIs
    <2>3. e \in S /\ Open(e) \in Nat
      BY <1>5
    <2> HIDE DEF Above
    <2>4. OpenOf(Above(e)) \in Nat /\ OpenOf(Above(d)) \in Nat
      BY <1>6, <2>3
    <2> QED BY <2>1, <2>2, <2>3, <2>4
  <1>8. D # {}
    <2>1. PICK f \in S : \A e \in S \ {f} : Ahead(m, f, e)
      BY <1>1, EndsOf
    <2>2. Above(f) = {}
      BY <1>3, <2>1
    <2>3. Left(f) = Target(m)
      <3>1. OpenOf({}) = 0
        BY OpenOfIs
      <3> HIDE DEF Above
      <3> QED BY <2>2, <3>1
    <2> HIDE DEF Left
    <2> QED BY <2>3
  <1>9. PICK l \in D : \A e \in D \ {l} : Ahead(m, e, l)
    <2>1. D \in SUBSET Papers
      OBVIOUS
    <2> HIDE DEF D
    <2> QED BY <1>1, <1>8, <2>1, EndsOf
  <1>10. l \in S /\ Left(l) > 0 /\ Left(l) \in Int /\ Open(l) \in Nat
    BY <1>6, <1>9
  <1>11. \A e \in Above(l) : e \in D /\ Open(e) < Left(e)
    <2>1. ASSUME NEW e \in Above(l) PROVE e \in S /\ Open(e) < Left(e) /\ Left(e) > 0
      <3>1. e \in S /\ Open(e) \in Nat
        BY <1>5, <1>10
      <3>2. Left(e) >= Left(l) + Open(e)
        <4> HIDE DEF Left, Above
        <4> QED BY <1>7, <1>10
      <3>3. Left(e) \in Int
        <4> HIDE DEF Left
        <4> QED BY <1>6, <3>1
      <3> HIDE DEF Left
      <3> QED BY <1>10, <3>1, <3>2, <3>3
    <2> HIDE DEF Left, Above
    <2> QED BY <2>1
  <1>12. D = Above(l) \cup {l} /\ l \notin Above(l)
    <2>1. \A e \in D : e \in S
      OBVIOUS
    <2>2. \A e \in D \ {l} : e \in Above(l)
      BY <1>9, <2>1
    <2> HIDE DEF D, Above
    <2> QED BY <1>4, <1>9, <1>10, <1>11, <2>2
  <1>13. \A e \in Above(l) : t[e] = Open(e)
    BY <1>2, <1>11
  <1>14. t[l] = IF Open(l) < Left(l) THEN Open(l) ELSE Left(l)
    BY <1>2, <1>9
  <1>15. DOMAIN t = D /\ D \in SUBSET S
    BY <1>2
  <1>16. \A d \in D : t[d] \in Nat /\ t[d] <= Open(d)
    <2>1. \A e \in Above(l) : e \in S
      OBVIOUS
    <2>2. \A e \in Above(l) : t[e] \in Nat /\ t[e] <= Open(e)
      BY <1>13, <2>1
    <2>3. t[l] \in Nat /\ t[l] <= Open(l)
      <3> HIDE DEF Left
      <3> QED BY <1>10, <1>14
    <2> HIDE DEF D, Above
    <2> QED BY <1>12, <2>2, <2>3
  <1>17. t \in Payment
    <2>1. t \in [D -> Nat]
      <3>1. t = [d \in D |-> t[d]]
        BY <1>2
      <3> HIDE DEF D
      <3> QED BY <1>16, <3>1
    <2>2. D \in SUBSET Papers
      OBVIOUS
    <2> HIDE DEF D
    <2> QED BY <2>1, <2>2 DEF Payment
  <1> DEFINE B == Above(l)
  <1>18. SumOn(t, D) = OpenOf(B) + t[l]
    <2>1. B \in SUBSET Papers
      BY <1>4, <1>10
    <2>2. IsFiniteSet(B)
      <3> HIDE DEF B
      <3> QED BY <2>1, StatementAssumption, FS_Subset
    <2> DEFINE g == [d \in B |-> Open(d)]
    <2>3. OpenOf(B) = SumOn(g, B)
      BY DEF OpenOf
    <2>4. \A d \in B : g[d] \in Int /\ g[d] = t[d]
      BY <1>13, <2>1
    <2>5. \A d \in B \cup {l} : t[d] \in Int
      <3>1. B \cup {l} = D
        BY <1>12
      <3> HIDE DEF B, D
      <3> QED BY <1>16, <3>1
    <2>6. l \notin B /\ D = B \cup {l}
      BY <1>12
    <2> HIDE DEF B, g, D
    <2>7. SumOn(t, B) = OpenOf(B)
      BY <2>2, <2>3, <2>4, SumAlike
    <2>8. SumOn(t, B \cup {l}) = t[l] + SumOn(t, B)
      BY <2>2, <2>5, <2>6, SumWith
    <2>9. t[l] \in Int /\ OpenOf(B) \in Nat
      BY <1>16, <2>1, <2>6, OpenOfIs
    <2> QED BY <2>6, <2>7, <2>8, <2>9
  <1>19. OpenOf(D) = OpenOf(B) + Open(l) /\ OpenOf(B) \in Nat /\ OpenOf(D) \in Nat
    <2>1. B \in SUBSET Papers /\ l \in Papers \ B /\ D = B \cup {l} /\ D \in SUBSET Papers
      BY <1>4, <1>10, <1>12
    <2> HIDE DEF B, D
    <2>2. OpenOf(B \cup {l}) = OpenOf(B) + Open(l) /\ OpenOf(B) \in Nat
      BY <2>1, OpenOfIs
    <2>3. OpenOf(D) \in Nat
      BY <2>1, OpenOfIs
    <2> QED BY <2>1, <2>2, <2>3
  <1>20. OpenOf(D) <= OpenOf(S) /\ OpenOf(S) \in Nat
    <2> HIDE DEF D
    <2> QED BY <1>15, OpenOfIs
  <1>21. CASE ~(Open(l) < Left(l))
    <2>1. Left(l) = Target(m) - OpenOf(B)
      OBVIOUS
    <2> HIDE DEF B, D, Left
    <2>2. SumOn(t, D) = Target(m) /\ ~(OpenOf(S) < Target(m))
      BY <1>10, <1>14, <1>18, <1>19, <1>20, <1>21, <2>1
    <2> QED BY <1>8, <1>15, <1>16, <1>17, <2>2
  <1>22. CASE Open(l) < Left(l)
    <2>1. Left(l) = Target(m) - OpenOf(B)
      OBVIOUS
    <2>2. OpenOf(D) < Target(m)
      <3> HIDE DEF B, D, Left
      <3> QED BY <1>10, <1>19, <1>22, <2>1
    <2>3. D = S
      <3>1. SUFFICES ASSUME S \ D # {} PROVE FALSE
        BY <1>15
      <3>2. PICK f \in S \ D : \A e \in (S \ D) \ {f} : Ahead(m, f, e)
        <4>1. S \ D \in SUBSET Papers
          OBVIOUS
        <4> HIDE DEF D
        <4> QED BY <1>1, <3>1, <4>1, EndsOf
      <3>3. Above(f) \in SUBSET D
        <4>1. ASSUME NEW e \in Above(f) PROVE e \in D
          <5>1. e \in S /\ e # f /\ ~Ahead(m, f, e)
            BY <1>3, <4>1
          <5> HIDE DEF D, Above
          <5> QED BY <3>2, <5>1
        <4> HIDE DEF D
        <4> QED BY <4>1
      <3>4. OpenOf(Above(f)) <= OpenOf(D) /\ OpenOf(Above(f)) \in Nat
        <4>1. D \in SUBSET Papers
          OBVIOUS
        <4> HIDE DEF D, Above
        <4> QED BY <3>3, <4>1, OpenOfIs
      <3>5. ~(Target(m) - OpenOf(Above(f)) > 0)
        BY <3>2
      <3> HIDE DEF D, Above
      <3> QED BY <1>19, <2>2, <3>4, <3>5
    <2>4. SumOn(t, D) = OpenOf(D)
      <3> HIDE DEF B, D, Left
      <3> QED BY <1>14, <1>18, <1>19, <1>22
    <2> HIDE DEF D, Left
    <2> QED BY <1>8, <1>15, <1>16, <1>17, <2>2, <2>3, <2>4
  <1> QED BY <1>21, <1>22
-----------------------------------------------------------------------------
(* Matching: what each press keeps. *)

\* The legs of a transfer name each other, and paid nothing.
Legs ==
    \A m \in DOMAIN lines : pairOf[m] # NoOther =>
        /\ pairOf[m] \in DOMAIN lines /\ pairOf[pairOf[m]] = m
        /\ lines[m].account # lines[pairOf[m]].account
        /\ (lines[m].cents < 0 <=> lines[pairOf[m]].cents > 0)
        /\ DOMAIN settled[m] = {}
WithinMeans ==
    /\ \A m \in DOMAIN lines : Spent(m) <= Target(m)
    /\ \A d \in Papers : Open(d) >= 0
\* What was settled at one press is settled still.
Pressed ==
    \A m \in DOMAIN clicked :
        /\ DOMAIN settled[m] # {} /\ clicked[m].lacked <= CentTolerance
        /\ \A d \in clicked[m].papers : PaidTo[d] \in lines[m].names
        /\ Target(m) - Spent(m) <= CentTolerance
MatchInv == MatchTyped /\ Legs /\ WithinMeans /\ Pressed /\ SureIsNoGuess

\* Where a line was not touched, so is what it paid.
LEMMA SpentStays ==
    ASSUME NEW m, settled'[m] = settled[m]
    PROVE  (\A d : PaidBy(m, d)' = PaidBy(m, d)) /\ Spent(m)' = Spent(m)
  BY DEF PaidBy, Spent
LEMMA SumsStay ==
    ASSUME UNCHANGED <<lines, settled>>
    PROVE  /\ \A m : Spent(m)' = Spent(m) /\ Target(m)' = Target(m)
           /\ \A d : Open(d)' = Open(d)
  BY DEF PaidBy, Spent, Target, Open

\* A line that paid nothing.
LEMMA NothingSpent ==
    ASSUME NEW m, DOMAIN settled[m] = {} PROVE Spent(m) = 0
  <1> DEFINE f == [d \in Papers |-> PaidBy(m, d)]
  <1>1. \A d \in Papers : f[d] = 0
    BY DEF PaidBy
  <1>2. Spent(m) = SumOn(f, Papers) /\ IsFiniteSet(Papers)
    BY StatementAssumption DEF Spent
  <1> HIDE DEF f
  <1> QED BY <1>1, <1>2, SumOfZeros

\* When one line pays more or less, a paper is as much less or more open.
LEMMA OpenMoves ==
    ASSUME MatchTyped, NEW m \in DOMAIN lines, UNCHANGED lines, NEW d \in Papers,
           \A k \in DOMAIN lines : k # m => settled'[k] = settled[k],
           PaidBy(m, d)' \in Nat
    PROVE  Open(d)' = Open(d) + PaidBy(m, d) - PaidBy(m, d)'
  <1> DEFINE L == DOMAIN lines
             f == [k \in L |-> PaidBy(k, d)]
  <1>1. PICK g : g = [k \in L |-> PaidBy(k, d)]'
    OBVIOUS
  <1>2. Open(d) = Due[d] - SumOn(f, L) /\ Open(d)' = Due[d] - SumOn(g, L) /\ Due[d] \in Nat
    BY <1>1, StatementAssumption DEF Open
  <1>3. /\ \A k \in L : f[k] = PaidBy(k, d) /\ f[k] \in Nat
        /\ \A k \in L \ {m} : g[k] = f[k]
        /\ g[m] = PaidBy(m, d)' /\ g[m] \in Nat
    <2>1. \A k \in L : g[k] = PaidBy(k, d)'
      BY <1>1
    <2>2. \A k \in L \ {m} : PaidBy(k, d)' = PaidBy(k, d)
      BY SpentStays
    <2> QED BY <2>1, <2>2, PaidRowsAre
  <1>4. IsFiniteSet(L) /\ IsFiniteSet(L \ {m})
    BY MovementsAre, FS_Subset DEF MatchTyped
  <1> HIDE DEF f, L
  <1>5. m \in L
    BY DEF L
  <1>6. SumOn(f, L) = f[m] + SumOn(f, L \ {m})
    BY <1>3, <1>4, <1>5, SumOut
  <1>7. SumOn(g, L) = g[m] + SumOn(g, L \ {m})
    <2>1. \A k \in L : g[k] \in Int
      BY <1>3
    <2> QED BY <1>4, <1>5, <2>1, SumOut
  <1>8. SumOn(g, L \ {m}) = SumOn(f, L \ {m}) /\ SumOn(f, L \ {m}) \in Int
    <2>1. \A k \in L \ {m} : g[k] \in Int /\ g[k] = f[k] /\ f[k] \in Int
      BY <1>3
    <2> QED BY <1>4, <2>1, SumAlike, SumIsInt
  <1>9. PICK a \in Int, b \in Int, c \in Int :
            a = f[m] /\ b = g[m] /\ c = SumOn(f, L \ {m}) /\ a = PaidBy(m, d) /\ b = PaidBy(m, d)'
    BY <1>3, <1>5, <1>8
  <1>10. Open(d) = Due[d] - (a + c) /\ Open(d)' = Due[d] - (b + c)
    BY <1>2, <1>6, <1>7, <1>8, <1>9
  <1> QED BY <1>2, <1>9, <1>10

\* A line that nothing explains yet.
LEMMA ImportKeeps ==
    ASSUME MatchInv, NEW line \in Shapes, ImportLine(line) PROVE MatchInv'
  <1> DEFINE none == [d \in {} |-> 0]
  <1>0. PICK n \in Nat : n = Len(lines)
    BY MovementsAre DEF MatchInv, MatchTyped
  <1>1. /\ lines' = Append(lines, line) /\ pairOf' = Append(pairOf, NoOther)
        /\ settled' = Append(settled, none) /\ UNCHANGED <<guessed, clicked, clicks>> /\ n < MaxLines
    BY <1>0 DEF ImportLine
  <1>2. none \in Payment /\ DOMAIN none = {}
    <2>1. none \in [{} -> Nat] /\ {} \in SUBSET Papers
      OBVIOUS
    <2> QED BY <2>1 DEF Payment
  <1> HIDE DEF none
  <1>3. /\ lines \in Seq(Shapes) /\ pairOf \in Seq(Nat) /\ settled \in Seq(Payment)
        /\ Len(lines) = n /\ Len(pairOf) = n /\ Len(settled) = n /\ DOMAIN lines = 1..n
    BY <1>0 DEF MatchInv, MatchTyped
  <1>4. /\ lines' \in Seq(Shapes) /\ Len(lines') = n + 1 /\ DOMAIN lines' = 1..n + 1
        /\ lines'[n + 1] = line /\ \A m \in 1..n : lines'[m] = lines[m]
    <2>1. lines \in Seq(Shapes) /\ Len(lines) = n /\ lines' = Append(lines, line)
      BY <1>1, <1>3
    <2> QED BY <2>1, AppendedIs
  <1>5. /\ pairOf' \in Seq(Nat) /\ Len(pairOf') = n + 1 /\ pairOf'[n + 1] = NoOther
        /\ \A m \in 1..n : pairOf'[m] = pairOf[m]
    <2>1. NoOther \in Nat
      BY DEF NoOther
    <2>2. pairOf \in Seq(Nat) /\ Len(pairOf) = n /\ pairOf' = Append(pairOf, NoOther)
      BY <1>1, <1>3
    <2> QED BY <2>1, <2>2, AppendedIs
  <1>6. /\ settled' \in Seq(Payment) /\ Len(settled') = n + 1 /\ settled'[n + 1] = none
        /\ \A m \in 1..n : settled'[m] = settled[m]
    <2>1. settled \in Seq(Payment) /\ Len(settled) = n /\ settled' = Append(settled, none)
      BY <1>1, <1>3
    <2> QED BY <1>2, <2>1, AppendedIs
  <1>7. MatchTyped'
    <2>1. n + 1 <= MaxLines
      BY <1>1, <1>3, StatementAssumption
    <2>2. DOMAIN clicked' \subseteq DOMAIN lines' /\ clicks' \in 0..MaxClicks
      BY <1>1, <1>3, <1>4 DEF MatchInv, MatchTyped
    <2> QED BY <1>4, <1>5, <1>6, <2>1, <2>2 DEF MatchTyped
  <1>8. Legs'
    <2>1. ASSUME NEW m \in 1..n + 1, pairOf'[m] # NoOther
          PROVE  /\ pairOf'[m] \in 1..n + 1 /\ pairOf'[pairOf'[m]] = m
                 /\ lines'[m].account # lines'[pairOf'[m]].account
                 /\ (lines'[m].cents < 0 <=> lines'[pairOf'[m]].cents > 0)
                 /\ DOMAIN settled'[m] = {}
      <3>1. m \in 1..n
        BY <1>3, <1>5, <2>1
      <3>2. pairOf'[m] = pairOf[m] /\ pairOf[m] # NoOther /\ pairOf[m] \in 1..n
        BY <1>3, <1>5, <2>1, <3>1 DEF MatchInv, Legs
      <3>3. m \in DOMAIN lines /\ settled'[m] = settled[m] /\ lines'[m] = lines[m]
        BY <1>3, <1>4, <1>6, <3>1
      <3>4. PICK k : k = pairOf[m]
        OBVIOUS
      <3>5. k \in 1..n /\ pairOf'[k] = pairOf[k] /\ lines'[k] = lines[k]
        BY <1>4, <1>5, <3>2, <3>4
      <3>6. /\ pairOf[k] = m /\ lines[m].account # lines[k].account
            /\ (lines[m].cents < 0 <=> lines[k].cents > 0) /\ DOMAIN settled[m] = {}
        BY <3>2, <3>3, <3>4 DEF MatchInv, Legs
      <3>7. k \in 1..n + 1 /\ pairOf'[m] = k
        BY <1>3, <3>2, <3>4, <3>5
      <3> QED BY <3>3, <3>5, <3>6, <3>7, Zenon
    <2> QED BY <1>4, <2>1 DEF Legs, NoOther
  <1>9. \A m \in 1..n : Spent(m)' = Spent(m) /\ Target(m)' = Target(m)
    BY <1>4, <1>6, SpentStays DEF Target
  <1>10. Spent(n + 1)' = 0 /\ Target(n + 1)' >= 0
    <2>1. Spent(n + 1)' = 0
      <3> DEFINE f == [d \in Papers |-> 0]
      <3>1. \A d : PaidBy(n + 1, d)' = 0
        BY <1>2, <1>6 DEF PaidBy
      <3>2. Spent(n + 1)' = SumOn(f, Papers) /\ IsFiniteSet(Papers) /\ \A d \in Papers : f[d] = 0
        BY <3>1, StatementAssumption DEF Spent
      <3> HIDE DEF f
      <3> QED BY <3>2, SumOfZeros
    <2>2. line.cents \in Int
      BY StatementAssumption
    <2> QED BY <1>4, <2>1, <2>2 DEF Target, Size
  <1>11. \A d \in Papers : Open(d)' = Open(d)
    <2>1. TAKE d \in Papers
    <2> DEFINE f == [k \in DOMAIN lines |-> PaidBy(k, d)]
    <2>2. PICK g : g = [k \in DOMAIN lines' |-> PaidBy(k, d)']
      OBVIOUS
    <2>3. Open(d) = Due[d] - SumOn(f, 1..n) /\ Open(d)' = Due[d] - SumOn(g, 1..n + 1)
      BY <1>3, <1>4, <2>2 DEF Open
    <2>4. /\ \A k \in 1..n : f[k] = PaidBy(k, d) /\ f[k] \in Nat /\ g[k] = PaidBy(k, d)'
          /\ g[n + 1] = PaidBy(n + 1, d)'
      <3>1. \A k \in 1..n : f[k] = PaidBy(k, d) /\ PaidBy(k, d) \in Nat
        BY <1>3, PaidRowsAre DEF MatchInv
      <3>2. g = [k \in 1..n + 1 |-> PaidBy(k, d)']
        BY <1>4, <2>2
      <3>3. n + 1 \in 1..n + 1 /\ \A k \in 1..n : k \in 1..n + 1
        OBVIOUS
      <3> QED BY <3>1, <3>2, <3>3
    <2>5. \A k \in 1..n : PaidBy(k, d)' = PaidBy(k, d)
      BY <1>6, SpentStays
    <2>6. PaidBy(n + 1, d)' = 0
      BY <1>2, <1>6 DEF PaidBy
    <2> HIDE DEF f
    <2>7. IsFiniteSet(1..n) /\ n + 1 \notin 1..n /\ 1..n + 1 = 1..n \cup {n + 1}
      <3>1. IsFiniteSet(1..n)
        BY FS_Interval
      <3>2. n + 1 \notin 1..n /\ 1..n + 1 = 1..n \cup {n + 1}
        OBVIOUS
      <3> QED BY <3>1, <3>2
    <2>8. \A k \in 1..n \cup {n + 1} : g[k] \in Int
      BY <2>4, <2>5, <2>6
    <2>9. SumOn(g, 1..n \cup {n + 1}) = g[n + 1] + SumOn(g, 1..n)
      BY <2>7, <2>8, SumWith
    <2>10. SumOn(g, 1..n) = SumOn(f, 1..n) /\ SumOn(f, 1..n) \in Int
      <3>1. \A k \in 1..n : g[k] \in Int /\ g[k] = f[k] /\ f[k] \in Int
        BY <2>4, <2>5
      <3> QED BY <2>7, <3>1, SumAlike, SumIsInt
    <2>11. SumOn(g, 1..n + 1) = SumOn(f, 1..n)
      <3>1. g[n + 1] = 0
        BY <2>4, <2>6
      <3>2. SumOn(g, 1..n + 1) = g[n + 1] + SumOn(g, 1..n)
        BY <2>7, <2>9
      <3> QED BY <2>10, <3>1, <3>2
    <2> QED BY <2>3, <2>11
  <1>12. WithinMeans'
    <2>1. \A m \in 1..n + 1 : Spent(m)' <= Target(m)'
      <3>1. ASSUME NEW m \in 1..n + 1 PROVE Spent(m)' <= Target(m)'
        <4>1. CASE m \in 1..n
          BY <1>3, <1>9, <4>1 DEF MatchInv, WithinMeans
        <4>2. CASE m = n + 1
          BY <1>10, <4>2
        <4> QED BY <1>3, <4>1, <4>2
      <3> QED BY <3>1
    <2> QED BY <1>4, <1>11, <2>1 DEF MatchInv, WithinMeans
  <1>13. Pressed'
    <2>1. ASSUME NEW m \in DOMAIN clicked
          PROVE  /\ DOMAIN settled'[m] # {} /\ clicked[m].lacked <= CentTolerance
                 /\ \A d \in clicked[m].papers : PaidTo[d] \in lines'[m].names
                 /\ Target(m)' - Spent(m)' <= CentTolerance
      <3>1. m \in 1..n
        BY <1>3 DEF MatchInv, MatchTyped
      <3> QED BY <1>4, <1>6, <1>9, <3>1 DEF MatchInv, Pressed
    <2> QED BY <1>1, <2>1 DEF Pressed
  <1> QED BY <1>1, <1>7, <1>8, <1>12, <1>13 DEF MatchInv, SureIsNoGuess

\* The pairs proposed are of loose lines, one out and one in each, and no line is in two.
LEMMA PairsAre ==
    ASSUME MatchTyped, NEW w
    PROVE  /\ \A p \in InternalTransfers(w) :
                 /\ p.out \in DOMAIN lines /\ Loose(p.out) /\ p.in \in DOMAIN lines /\ Loose(p.in)
                 /\ lines[p.out].cents < 0 /\ lines[p.in].cents > 0
                 /\ ~(lines[p.in].cents < 0) /\ ~(lines[p.out].cents > 0)
                 /\ lines[p.out].account # lines[p.in].account /\ p.out # p.in
           /\ \A p, q \in InternalTransfers(w) :
                 (p.out = q.out \/ p.in = q.in => p = q) /\ p.out # q.in
  <1>1. FoundWell(w, Len(lines), InternalTransfers(w))
    BY TransfersAre DEF MatchTyped
  <1>2. \A m \in DOMAIN lines : lines[m].cents \in Int
    BY MovementsAre DEF MatchTyped
  <1>3. ASSUME NEW p \in InternalTransfers(w)
        PROVE  /\ p.out \in DOMAIN lines /\ Loose(p.out) /\ p.in \in DOMAIN lines /\ Loose(p.in)
               /\ lines[p.out].cents < 0 /\ lines[p.in].cents > 0
               /\ lines[p.out].account # lines[p.in].account
    BY <1>1 DEF FoundWell, Candidates, FitTogether
  <1>4. ASSUME NEW p \in InternalTransfers(w)
        PROVE  /\ ~(lines[p.in].cents < 0) /\ ~(lines[p.out].cents > 0)
    BY <1>2, <1>3
  <1>5. \A p, q \in InternalTransfers(w) : p.out # q.in
    BY <1>3, <1>4
  <1>6. \A p, q \in InternalTransfers(w) : p.out = q.out \/ p.in = q.in => p = q
    BY <1>1 DEF FoundWell
  <1> QED BY <1>3, <1>4, <1>5, <1>6

\* Marking some of the pairs proposed gives their lines each other as legs.
LEMMA MarkKeeps ==
    ASSUME MatchInv, NEW w, NEW P \in SUBSET InternalTransfers(w), Mark(P),
           UNCHANGED <<lines, settled>>
    PROVE  pairOf' \in Seq(Nat) /\ Len(pairOf') = Len(lines) /\ Legs'
  <1> DEFINE L == DOMAIN lines
  <1>1. /\ MatchTyped /\ Legs /\ DOMAIN pairOf = L /\ DOMAIN settled = L
        /\ \A m \in L : pairOf[m] \in Nat /\ m \in Nat /\ m # NoOther
    BY PaidRowsAre, MovementsAre DEF MatchInv, MatchTyped
  <1>2. /\ \A p \in P : /\ p.out \in L /\ Loose(p.out) /\ p.in \in L /\ Loose(p.in)
                        /\ lines[p.out].cents < 0 /\ lines[p.in].cents > 0
                        /\ ~(lines[p.in].cents < 0) /\ ~(lines[p.out].cents > 0)
                        /\ lines[p.out].account # lines[p.in].account /\ p.out # p.in
        /\ \A p, q \in P : (p.out = q.out \/ p.in = q.in => p = q) /\ p.out # q.in
    BY <1>1, PairsAre
  <1>3. DOMAIN pairOf' = L
    BY <1>1 DEF Mark
  <1>4. ASSUME NEW p \in P PROVE pairOf'[p.out] = p.in /\ pairOf'[p.in] = p.out
    <2>1. (CHOOSE q \in P : p.out = q.out) = p /\ (CHOOSE q \in P : p.in = q.in) = p
      BY <1>2
    <2>2. ~\E q \in P : p.in = q.out
      BY <1>2
    <2>3. pairOf'[p.out] = p.in
      BY <1>1, <1>2, <2>1 DEF Mark
    <2>4. pairOf'[p.in] = p.out
      BY <1>1, <1>2, <2>1, <2>2 DEF Mark
    <2> QED BY <2>3, <2>4
  <1>5. ASSUME NEW m \in L, ~\E p \in P : m = p.out \/ m = p.in PROVE pairOf'[m] = pairOf[m]
    BY <1>1, <1>5 DEF Mark
  <1>6. ASSUME NEW m \in L
        PROVE  /\ pairOf'[m] \in Nat
               /\ pairOf'[m] # NoOther =>
                     /\ pairOf'[m] \in L /\ pairOf'[pairOf'[m]] = m
                     /\ lines[m].account # lines[pairOf'[m]].account
                     /\ (lines[m].cents < 0 <=> lines[pairOf'[m]].cents > 0)
                     /\ DOMAIN settled[m] = {}
    <2>1. CASE \E p \in P : m = p.out
      <3>1. PICK p \in P : m = p.out
        BY <2>1
      <3> QED BY <1>1, <1>2, <1>4, <3>1 DEF Loose
    <2>2. CASE \E p \in P : m = p.in
      <3>1. PICK p \in P : m = p.in
        BY <2>2
      <3> QED BY <1>1, <1>2, <1>4, <3>1 DEF Loose
    <2>3. CASE ~\E p \in P : m = p.out \/ m = p.in
      <3>1. pairOf'[m] = pairOf[m]
        BY <1>5, <2>3
      <3>2. ASSUME pairOf[m] # NoOther PROVE pairOf'[pairOf[m]] = m
        <4>1. pairOf[m] \in L /\ pairOf[pairOf[m]] = m /\ pairOf[pairOf[m]] # NoOther
          BY <1>1, <3>2 DEF Legs
        <4>2. ~\E p \in P : pairOf[m] = p.out \/ pairOf[m] = p.in
          BY <1>2, <4>1 DEF Loose
        <4> QED BY <1>5, <4>1, <4>2
      <3> QED BY <1>1, <3>1, <3>2 DEF Legs
    <2> QED BY <2>1, <2>2, <2>3
  <1>7. pairOf' \in Seq(Nat) /\ Len(pairOf') = Len(lines)
    <2>1. pairOf' \in [1..Len(lines) -> Nat] /\ Len(lines) \in Nat
      <3>1. L = 1..Len(lines) /\ Len(lines) \in Nat
        BY MovementsAre DEF MatchInv, MatchTyped
      <3>2. pairOf' = [m \in L |-> pairOf'[m]]
        BY <1>1 DEF Mark
      <3> QED BY <1>6, <3>1, <3>2
    <2> QED BY <2>1
  <1>8. Legs'
    BY <1>6 DEF Legs, NoOther
  <1> QED BY <1>7, <1>8

\* Where nothing was paid, only the pairs matter.
LEMMA PairingKeeps ==
    ASSUME MatchInv, UNCHANGED <<lines, settled, clicked>>, clicks' \in 0..MaxClicks,
           pairOf' \in Seq(Nat), Len(pairOf') = Len(lines), Legs', guessed' = {}
    PROVE  MatchInv'
  <1>1. MatchTyped'
    BY DEF MatchInv, MatchTyped
  <1>2. WithinMeans'
    BY SumsStay DEF MatchInv, WithinMeans
  <1>3. Pressed'
    BY SumsStay DEF MatchInv, Pressed
  <1> QED BY <1>1, <1>2, <1>3 DEF MatchInv, SureIsNoGuess

LEMMA ClickCounts == ASSUME MatchTyped, Click PROVE clicks' \in 0..MaxClicks
  BY StatementAssumption DEF MatchTyped, Click

LEMMA MarkPairKeeps ==
    ASSUME MatchInv, NEW w, NEW p \in InternalTransfers(w), MarkPair(p) PROVE MatchInv'
  <1>1. Click /\ Mark({p}) /\ UNCHANGED <<lines, settled, guessed, clicked>>
    BY DEF MarkPair, Click
  <1>2. pairOf' \in Seq(Nat) /\ Len(pairOf') = Len(lines) /\ Legs'
    BY <1>1, MarkKeeps
  <1> QED BY <1>1, <1>2, PairingKeeps, ClickCounts DEF MatchInv, SureIsNoGuess

\* With one payment out at most for each in, and every line shown, what is sure has no rival.
LEMMA SureHasNoRival ==
    ASSUME MatchTyped, \A i \in DOMAIN lines : Cardinality(OutsFor(i)) <= 1,
           NEW p \in InternalTransfers(UNION Windows), ~Ambiguous(p)
    PROVE  ~HasRival(p)
  <1> DEFINE w == UNION Windows
             P == InternalTransfers(w)
  <1>1. FoundWell(w, Len(lines), P)
    BY TransfersAre DEF MatchTyped
  <1>2. \A m \in DOMAIN lines : Loose(m) => m \in Candidates(w)
    BY MovementsAre DEF MatchTyped, Candidates
  <1>3. ASSUME NEW i \in DOMAIN lines, NEW a \in OutsFor(i), NEW b \in OutsFor(i) PROVE a = b
    <2>1. OutsFor(i) \in SUBSET DOMAIN lines /\ IsFiniteSet(DOMAIN lines)
      BY MovementsAre DEF OutsFor, MatchTyped
    <2>2. IsFiniteSet(OutsFor(i))
      BY <2>1, FS_Subset
    <2>3. Cardinality(OutsFor(i)) \in Nat /\ Cardinality(OutsFor(i)) # 0
      BY <2>2, FS_CardinalityType, FS_EmptySet
    <2>4. Cardinality(OutsFor(i)) = 1
      BY <2>3
    <2>5. PICK x : OutsFor(i) = {x}
      BY <2>2, <2>4, FS_Singleton
    <2> QED BY <2>5
  <1>4. \A q \in P : /\ q.out \in DOMAIN lines /\ Loose(q.out) /\ q.in \in DOMAIN lines
                     /\ FitTogether(q.out, q.in)
    BY <1>1 DEF FoundWell, Candidates
  <1>5. p.alternatives = 0
    <2>1. p.alternatives \in Nat
      BY <1>1 DEF FoundWell
    <2> QED BY <2>1 DEF Ambiguous
  <1>6. ASSUME NEW m \in DOMAIN lines, Loose(m), m # p.in, FitTogether(p.out, m) PROVE FALSE
    <2>1. m \in Candidates(w)
      BY <1>2, <1>6
    <2>2. PICK q \in P : q.in = m /\ q.out # p.out
      BY <1>1, <1>5, <1>6, <2>1 DEF FoundWell
    <2>3. q.out \in OutsFor(m) /\ p.out \in OutsFor(m)
      BY <1>4, <1>6, <2>2 DEF OutsFor
    <2> QED BY <1>3, <2>2, <2>3
  <1>7. ASSUME NEW m \in DOMAIN lines, Loose(m), m # p.out, FitTogether(m, p.in) PROVE FALSE
    <2>1. m \in OutsFor(p.in) /\ p.out \in OutsFor(p.in) /\ p.in \in DOMAIN lines
      BY <1>4, <1>7 DEF OutsFor
    <2> QED BY <1>3, <1>7, <2>1
  <1> QED BY <1>6, <1>7 DEF HasRival

LEMMA MarkSureKeeps ==
    ASSUME MatchInv, Likenesses = {}, NEW w \in PeriodsShown, MarkSure(w) PROVE MatchInv'
  <1> DEFINE sure == {p \in InternalTransfers(w) : ~Ambiguous(p)}
  <1>1. /\ Click /\ Mark(sure) /\ UNCHANGED <<lines, settled, clicked>>
        /\ guessed' = guessed \cup {p \in sure : HasRival(p)}
        /\ \A i \in DOMAIN lines : Cardinality(OutsFor(i)) <= 1
    BY DEF MarkSure, Click
  <1>2. w = UNION Windows
    BY DEF PeriodsShown
  <1>3. \A p \in sure : ~HasRival(p)
    BY <1>1, <1>2, SureHasNoRival DEF MatchInv
  <1>4. sure \in SUBSET InternalTransfers(w)
    OBVIOUS
  <1> HIDE DEF sure
  <1>5. guessed' = {}
    BY <1>1, <1>3 DEF MatchInv, SureIsNoGuess
  <1>6. pairOf' \in Seq(Nat) /\ Len(pairOf') = Len(lines) /\ Legs'
    BY <1>1, <1>4, MarkKeeps
  <1> QED BY <1>1, <1>5, <1>6, PairingKeeps, ClickCounts DEF MatchInv

LEMMA UnmarkKeeps ==
    ASSUME MatchInv, NEW m \in DOMAIN lines, Unmark(m) PROVE MatchInv'
  <1> DEFINE n == pairOf[m]
             L == DOMAIN lines
  <1>1. /\ n # NoOther /\ Click /\ UNCHANGED <<lines, settled, guessed, clicked>>
        /\ pairOf' = [pairOf EXCEPT ![m] = NoOther, ![n] = NoOther]
    BY DEF Unmark, Click
  <1>2. /\ pairOf \in Seq(Nat) /\ Len(pairOf) = Len(lines) /\ DOMAIN pairOf = L /\ Legs
    BY PaidRowsAre DEF MatchInv, MatchTyped
  <1>3. n \in L /\ pairOf[n] = m
    BY <1>1, <1>2 DEF Legs
  <1>4. \A k \in L : pairOf'[k] = IF k = m \/ k = n THEN NoOther ELSE pairOf[k]
    <2> HIDE DEF n
    <2> QED BY <1>1, <1>2
  <1>5. pairOf' \in Seq(Nat) /\ Len(pairOf') = Len(lines)
    <2>1. L = 1..Len(lines) /\ Len(lines) \in Nat
      BY MovementsAre DEF MatchInv, MatchTyped
    <2>2. DOMAIN pairOf' = L /\ pairOf' = [k \in L |-> pairOf'[k]]
      <3> HIDE DEF n, L
      <3> QED BY <1>1, <1>2
    <2>3. \A k \in L : pairOf'[k] \in Nat
      <3>1. \A k \in L : pairOf[k] \in Nat
        BY <1>2, <2>1
      <3> HIDE DEF n, L
      <3> QED BY <1>4, <3>1 DEF NoOther
    <2>4. pairOf' \in [1..Len(lines) -> Nat]
      BY <2>1, <2>2, <2>3
    <2> QED BY <2>1, <2>4
  <1>6. \A k \in L : pairOf[k] # NoOther /\ k # m /\ k # n => pairOf[k] # m /\ pairOf[k] # n
    BY <1>1, <1>2, <1>3 DEF Legs
  <1>7. Legs'
    <2>1. ASSUME NEW k \in L, pairOf'[k] # NoOther
          PROVE  /\ pairOf'[k] \in L /\ pairOf'[pairOf'[k]] = k
                 /\ lines[k].account # lines[pairOf'[k]].account
                 /\ (lines[k].cents < 0 <=> lines[pairOf'[k]].cents > 0)
                 /\ DOMAIN settled[k] = {}
      <3> HIDE DEF n
      <3>1. k # m /\ k # n /\ pairOf'[k] = pairOf[k] /\ pairOf[k] # NoOther
        BY <1>4, <2>1
      <3>2. pairOf[k] \in L /\ pairOf[pairOf[k]] = k
        BY <1>2, <3>1 DEF Legs
      <3>3. pairOf'[pairOf[k]] = k
        BY <1>4, <1>6, <3>1, <3>2
      <3> QED BY <1>2, <3>1, <3>2, <3>3 DEF Legs
    <2> QED BY <1>1, <2>1 DEF Legs, NoOther
  <1> HIDE DEF n
  <1> QED BY <1>1, <1>5, <1>7, PairingKeeps, ClickCounts DEF MatchInv, SureIsNoGuess

\* The parties a paper is paid to, when one party is.
LEMMA OneParty ==
    ASSUME NEW S \in SUBSET Papers, Cardinality({PaidTo[d] : d \in S}) = 1,
           NEW a \in S, NEW b \in S
    PROVE  PaidTo[a] = PaidTo[b]
  <1> DEFINE paid == {PaidTo[d] : d \in S}
             f == [d \in S |-> PaidTo[d]]
  <1>1. IsFiniteSet(S)
    BY StatementAssumption, FS_Subset
  <1>2. f \in Surjection(S, paid)
    BY DEF Surjection
  <1> HIDE DEF f
  <1>3. IsFiniteSet(paid)
    BY <1>1, <1>2, FS_Surjection
  <1>4. PaidTo[a] \in paid /\ PaidTo[b] \in paid
    OBVIOUS
  <1> HIDE DEF paid
  <1>5. Cardinality(paid) = 1
    BY DEF paid
  <1>6. PICK x : paid = {x}
    BY <1>3, <1>5, FS_Singleton
  <1> QED BY <1>4, <1>6

\* What a proposal is made of.
LEMMA SuggestionsAre ==
    ASSUME MatchTyped, NEW m \in DOMAIN lines, NEW S \in Suggestions(m), S # {}
    PROVE  /\ \A d \in S : d \in Papers /\ Open(d) > 0
           /\ Target(m) > 0
           /\ Distance(Target(m), OpenOf(S)) <= CentTolerance \/ Partial(m, S)
  <1>1. \A d \in S : d \in Papers /\ Open(d) > 0 /\ lines[m].cents < 0
    BY DEF Suggestions
  <1>2. Target(m) > 0
    <2>1. lines[m].cents < 0
      BY <1>1
    <2>2. lines[m].cents \in Int
      BY MovementsAre DEF MatchTyped
    <2> QED BY <2>1, <2>2 DEF Target, Size
  <1> QED BY <1>1, <1>2 DEF Suggestions

\* A line that pays papers is explained by them, and pays none more than is left of it.
LEMMA SettleKeeps ==
    ASSUME MatchInv, Likenesses = {}, NEW m \in DOMAIN lines,
           NEW S \in (SUBSET Papers) \ {{}}, Settle(m, S)
    PROVE  MatchInv'
  <1> DEFINE L == DOMAIN lines
  <1>1. /\ Loose(m) /\ S \in Suggestions(m) /\ Click /\ UNCHANGED <<lines, pairOf, guessed>>
        /\ Cardinality({PaidTo[d] : d \in S}) = 1
        /\ settled' = [settled EXCEPT ![m] = Takes(m, S)]
        /\ clicked' = IF OneClick(m, S)
                      THEN WithRow(clicked, m, [papers |-> S, lacked |-> OpenOf(S) - Target(m)])
                      ELSE clicked
    BY DEF Settle, Click
  <1>2. /\ MatchTyped /\ DOMAIN settled = L /\ settled \in Seq(Payment)
        /\ DOMAIN settled[m] = {} /\ pairOf[m] = NoOther /\ S \in SUBSET Papers /\ S # {}
    BY <1>1, PaidRowsAre DEF MatchInv, MatchTyped, Loose
  <1>3. /\ Target(m) \in Nat /\ Target(m) > 0
        /\ Distance(Target(m), OpenOf(S)) <= CentTolerance \/ Partial(m, S)
    BY <1>1, <1>2, SuggestionsAre, PaidRowsAre
  <1>4. \A d \in Papers : Open(d) \in Nat
    <2>1. \A d \in Papers : Open(d) \in Int /\ Open(d) >= 0
      BY <1>2, SumsAre DEF MatchInv, WithinMeans
    <2> QED BY <2>1
  <1>5. PICK t : t = Takes(m, S)
    OBVIOUS
  <1>6. /\ DOMAIN t \in SUBSET S /\ DOMAIN t # {} /\ t \in Payment
        /\ \A d \in DOMAIN t : t[d] \in Nat /\ t[d] <= Open(d)
        /\ SumOn(t, DOMAIN t) = IF OpenOf(S) < Target(m) THEN OpenOf(S) ELSE Target(m)
    BY <1>2, <1>3, <1>4, <1>5, TakesAre DEF MatchTyped
  <1>7. /\ settled' \in Seq(Payment) /\ Len(settled') = Len(settled) /\ settled'[m] = t
        /\ \A k \in L : k # m => settled'[k] = settled[k]
    <2>1. settled' = [settled EXCEPT ![m] = t] /\ m \in DOMAIN settled
      BY <1>1, <1>2, <1>5
    <2> QED BY <1>2, <1>6, <2>1
  <1>8. \A d : PaidBy(m, d)' = IF d \in DOMAIN t THEN t[d] ELSE 0
    BY <1>7 DEF PaidBy
  <1>9. Spent(m)' = SumOn(t, DOMAIN t)
    <2> DEFINE D == DOMAIN t
               R == Papers \ D
    <2>1. PICK f : f = [d \in Papers |-> PaidBy(m, d)']
      OBVIOUS
    <2>2. Spent(m)' = SumOn(f, Papers)
      BY <2>1 DEF Spent
    <2>3. /\ \A d \in D : f[d] = t[d] /\ f[d] \in Int
          /\ \A d \in R : f[d] = 0
      BY <1>2, <1>6, <1>8, <2>1
    <2>4. D \cup R = Papers /\ D \cap R = {} /\ IsFiniteSet(D) /\ IsFiniteSet(R)
      <3>1. D \cup R = Papers /\ D \cap R = {} /\ D \in SUBSET Papers /\ R \in SUBSET Papers
        BY <1>2, <1>6
      <3> QED BY <3>1, StatementAssumption, FS_Subset
    <2> HIDE DEF D, R
    <2>5. \A d \in D \cup R : f[d] \in Int
      BY <2>3
    <2>6. SumOn(f, D \cup R) = SumOn(f, D) + SumOn(f, R)
      BY <2>4, <2>5, SumOfBoth
    <2>7. SumOn(f, R) = 0
      BY <2>3, <2>4, SumOfZeros
    <2>8. SumOn(f, D) = SumOn(t, D) /\ SumOn(f, D) \in Int
      <3>1. \A d \in D : f[d] \in Int /\ f[d] = t[d]
        BY <2>3
      <3>2. SumOn(f, D) \in Int
        BY <2>4, <3>1, SumIsInt
      <3>3. SumOn(f, D) = SumOn(t, D)
        BY <2>4, <3>1, SumAlike
      <3> QED BY <3>2, <3>3
    <2>9. SumOn(f, Papers) = SumOn(t, D)
      <3>1. D \cup R = Papers
        BY <2>4
      <3>2. SumOn(f, Papers) = SumOn(f, D) + SumOn(f, R)
        BY <2>6, <3>1
      <3> QED BY <2>7, <2>8, <3>2
    <2> QED BY <2>2, <2>9 DEF D
  <1>10. OpenOf(S) \in Nat
    BY <1>2, <1>4, OpenOfIs
  <1>11. \A k : Target(k)' = Target(k)
    BY <1>1 DEF Target
  <1>12. \A k \in L : k # m => Spent(k)' = Spent(k)
    BY <1>7, SpentStays
  <1>13. Spent(m)' <= Target(m)
    BY <1>3, <1>6, <1>9, <1>10
  <1>14. ASSUME NEW d \in Papers PROVE Open(d)' >= 0
    <2>1. PaidBy(m, d) = 0 /\ PaidBy(m, d)' \in Nat /\ PaidBy(m, d)' <= Open(d)
      <3>1. PaidBy(m, d) = 0
        BY <1>1, <1>2, PaidRowsAre
      <3>2. Open(d) \in Nat
        BY <1>4
      <3> QED BY <1>6, <1>8, <3>1, <3>2
    <2>2. Open(d)' = Open(d) + PaidBy(m, d) - PaidBy(m, d)'
      BY <1>1, <1>2, <1>7, <2>1, OpenMoves
    <2>3. PICK a \in Nat, b \in Nat : a = Open(d) /\ b = PaidBy(m, d)'
      BY <1>4, <2>1
    <2>4. Open(d)' = a + 0 - b /\ b <= a
      BY <2>1, <2>2, <2>3
    <2> QED BY <2>4
  <1>15. WithinMeans'
    <2>1. \A k \in L : Spent(k)' <= Target(k)'
      BY <1>11, <1>12, <1>13 DEF MatchInv, WithinMeans
    <2> QED BY <1>1, <1>14, <2>1 DEF WithinMeans
  <1>16. Legs'
    <2>1. \A k \in L : pairOf[k] # NoOther => settled'[k] = settled[k]
      BY <1>2, <1>7
    <2> QED BY <1>1, <2>1 DEF MatchInv, Legs, NoOther
  <1>17. \A k \in DOMAIN clicked : k \in L /\ k # m
    BY <1>2 DEF MatchInv, MatchTyped, Pressed
  <1>18. ASSUME OneClick(m, S)
         PROVE  /\ OpenOf(S) - Target(m) <= CentTolerance
                /\ Target(m) - Spent(m)' <= CentTolerance
                /\ \A d \in S : PaidTo[d] \in lines[m].names
    <2>1. Distance(Target(m), OpenOf(S)) <= CentTolerance /\ NamesPayee(m, S)
      BY <1>3, <1>18 DEF OneClick
    <2>2. \A d \in S : PaidTo[d] \in lines[m].names
      BY <1>1, <1>2, <2>1, OneParty DEF NamesPayee
    <2>3. PICK a \in Nat, b \in Nat : a = Target(m) /\ b = OpenOf(S)
      BY <1>3, <1>10
    <2>4. Spent(m)' = IF b < a THEN b ELSE a
      BY <1>6, <1>9, <2>3
    <2>5. CentTolerance \in Nat
      BY ToleranceAssumption
    <2>6. b - a <= CentTolerance /\ a - b <= CentTolerance
      BY <2>1, <2>3, <2>5 DEF Distance
    <2> QED BY <2>2, <2>3, <2>4, <2>5, <2>6
  <1>19. DOMAIN clicked' \subseteq L
    BY <1>1, <1>17 DEF WithRow
  <1>20. ASSUME NEW k \in DOMAIN clicked'
         PROVE  /\ DOMAIN settled'[k] # {} /\ clicked'[k].lacked <= CentTolerance
                /\ \A d \in clicked'[k].papers : PaidTo[d] \in lines[k].names
                /\ Target(k)' - Spent(k)' <= CentTolerance
    <2>1. CASE k = m
      <3>1. OneClick(m, S)
        BY <1>1, <1>17, <1>20, <2>1
      <3>2. clicked'[m] = [papers |-> S, lacked |-> OpenOf(S) - Target(m)]
        BY <1>1, <3>1 DEF WithRow
      <3> QED BY <1>6, <1>7, <1>11, <1>18, <2>1, <3>1, <3>2
    <2>2. CASE k # m
      <3>1. k \in DOMAIN clicked /\ clicked'[k] = clicked[k]
        BY <1>1, <1>20, <2>2 DEF WithRow
      <3>2. settled'[k] = settled[k] /\ Spent(k)' = Spent(k)
        BY <1>7, <1>12, <1>17, <3>1
      <3> QED BY <1>11, <3>1, <3>2 DEF MatchInv, Pressed
    <2> QED BY <2>1, <2>2
  <1>21. Pressed'
    BY <1>1, <1>20 DEF Pressed
  <1>22. MatchTyped'
    BY <1>1, <1>2, <1>7, <1>19, ClickCounts DEF MatchTyped
  <1> QED BY <1>1, <1>15, <1>16, <1>21, <1>22 DEF MatchInv, SureIsNoGuess

\* A line that is freed explains nothing, and its papers are as open as before it.
LEMMA UnmatchKeeps ==
    ASSUME MatchInv, NEW m \in DOMAIN lines, Unmatch(m) PROVE MatchInv'
  <1> DEFINE L == DOMAIN lines
             none == [d \in {} |-> 0]
  <1>1. /\ Click /\ UNCHANGED <<lines, pairOf, guessed>>
        /\ settled' = [settled EXCEPT ![m] = none]
        /\ clicked' = [k \in DOMAIN clicked \ {m} |-> clicked[k]]
        /\ DOMAIN settled[m] # {}
    BY DEF Unmatch, Click
  <1>2. none \in Payment /\ DOMAIN none = {}
    <2>1. none \in [{} -> Nat] /\ {} \in SUBSET Papers
      OBVIOUS
    <2> QED BY <2>1 DEF Payment
  <1> HIDE DEF none
  <1>3. MatchTyped /\ DOMAIN settled = L /\ settled \in Seq(Payment)
    BY PaidRowsAre DEF MatchInv, MatchTyped
  <1>4. /\ settled' \in Seq(Payment) /\ Len(settled') = Len(settled) /\ settled'[m] = none
        /\ \A k \in L : k # m => settled'[k] = settled[k]
    BY <1>1, <1>2, <1>3
  <1>5. \A d : PaidBy(m, d)' = 0
    BY <1>2, <1>4 DEF PaidBy
  <1>6. Spent(m)' = 0
    <2>1. PICK f : f = [d \in Papers |-> PaidBy(m, d)']
      OBVIOUS
    <2>2. Spent(m)' = SumOn(f, Papers)
      BY <2>1 DEF Spent
    <2>3. IsFiniteSet(Papers) /\ \A d \in Papers : f[d] = 0
      BY <1>5, <2>1, StatementAssumption
    <2> QED BY <2>2, <2>3, SumOfZeros
  <1>7. \A k : Target(k)' = Target(k)
    BY <1>1 DEF Target
  <1>8. \A k \in L : k # m => Spent(k)' = Spent(k)
    BY <1>4, SpentStays
  <1>9. ASSUME NEW d \in Papers PROVE Open(d)' >= 0
    <2>1. Open(d)' = Open(d) + PaidBy(m, d) - PaidBy(m, d)'
      BY <1>1, <1>3, <1>4, <1>5, OpenMoves
    <2>2. PICK a \in Nat, b \in Nat : a = Open(d) /\ b = PaidBy(m, d)
      <3>1. Open(d) \in Int /\ Open(d) >= 0
        BY <1>3, SumsAre DEF MatchInv, WithinMeans
      <3> QED BY <1>3, <3>1, PaidRowsAre
    <2>3. Open(d)' = a + b - 0
      BY <1>5, <2>1, <2>2
    <2> QED BY <2>3
  <1>10. WithinMeans'
    <2>1. ASSUME NEW k \in L PROVE Spent(k)' <= Target(k)'
      <3>1. CASE k = m
        BY <1>3, <1>6, <1>7, <3>1, PaidRowsAre
      <3>2. CASE k # m
        BY <1>7, <1>8, <3>2 DEF MatchInv, WithinMeans
      <3> QED BY <3>1, <3>2
    <2> QED BY <1>1, <1>9, <2>1 DEF WithinMeans
  <1>11. Legs'
    <2>1. \A k \in L : pairOf[k] # NoOther => settled'[k] = settled[k]
      BY <1>1, <1>4 DEF MatchInv, Legs
    <2> QED BY <1>1, <2>1 DEF MatchInv, Legs, NoOther
  <1>12. Pressed'
    <2>1. ASSUME NEW k \in DOMAIN clicked'
          PROVE  /\ DOMAIN settled'[k] # {} /\ clicked'[k].lacked <= CentTolerance
                 /\ \A d \in clicked'[k].papers : PaidTo[d] \in lines[k].names
                 /\ Target(k)' - Spent(k)' <= CentTolerance
      <3>1. k \in DOMAIN clicked /\ k # m /\ k \in L /\ clicked'[k] = clicked[k]
        BY <1>1, <1>3, <2>1 DEF MatchTyped
      <3>2. settled'[k] = settled[k] /\ Spent(k)' = Spent(k)
        BY <1>4, <1>8, <3>1
      <3> QED BY <1>7, <3>1, <3>2 DEF MatchInv, Pressed
    <2> QED BY <1>1, <2>1 DEF Pressed
  <1>13. MatchTyped'
    BY <1>1, <1>3, <1>4, ClickCounts DEF MatchTyped
  <1> QED BY <1>1, <1>10, <1>11, <1>12, <1>13 DEF MatchInv, SureIsNoGuess

\* No line was imported.
LEMMA MatchingStart == ASSUME MatchingInit PROVE MatchInv
  <1>1. lines = <<>> /\ pairOf = <<>> /\ settled = <<>> /\ guessed = {} /\ clicked = <<>> /\ clicks = 0
    BY DEF MatchingInit
  <1>2. DOMAIN lines = {} /\ DOMAIN clicked = {}
    BY <1>1
  <1>3. MatchTyped
    BY <1>1, <1>2, StatementAssumption DEF MatchTyped
  <1>4. \A d \in Papers : Open(d) >= 0
    <2>1. TAKE d \in Papers
    <2>2. PICK f : f = [m \in DOMAIN lines |-> PaidBy(m, d)]
      OBVIOUS
    <2>3. Open(d) = Due[d] - SumOn(f, {})
      BY <1>2, <2>2 DEF Open
    <2> QED BY <2>3, SumOfNone, StatementAssumption
  <1>5. Legs /\ WithinMeans /\ Pressed
    BY <1>2, <1>4 DEF Legs, WithinMeans, Pressed
  <1> QED BY <1>1, <1>3, <1>5 DEF MatchInv, SureIsNoGuess

LEMMA MatchingStep ==
    ASSUME MatchInv, Likenesses = {}, [MatchingNext]_matchingVars PROVE MatchInv'
  <1>1. CASE \E line \in Shapes : ImportLine(line)
    BY <1>1, ImportKeeps
  <1>2. CASE \E w \in PeriodsShown : \E p \in InternalTransfers(w) : MarkPair(p)
    BY <1>2, MarkPairKeeps
  <1>3. CASE \E w \in PeriodsShown : MarkSure(w)
    BY <1>3, MarkSureKeeps
  <1>4. CASE \E m \in DOMAIN lines : Unmark(m) \/ Unmatch(m)
    BY <1>4, UnmarkKeeps, UnmatchKeeps
  <1>5. CASE \E m \in DOMAIN lines, S \in (SUBSET Papers) \ {{}} : Settle(m, S)
    BY <1>5, SettleKeeps
  <1>6. CASE UNCHANGED matchingVars
    <2>1. UNCHANGED <<lines, settled, clicked>> /\ UNCHANGED <<pairOf, guessed, clicks>>
      BY <1>6 DEF matchingVars
    <2>2. Legs'
      BY <2>1 DEF MatchInv, Legs, NoOther
    <2> QED BY <2>1, <2>2, PairingKeeps DEF MatchInv, MatchTyped, SureIsNoGuess
  <1> QED BY <1>1, <1>2, <1>3, <1>4, <1>5, <1>6 DEF MatchingNext

\* What the screen offers and has done is what the promise says.
LEMMA MatchingPromise == ASSUME MatchInv PROVE MatchingHolds
  <1>1. MatchTyped /\ Legs
    BY DEF MatchInv
  <1>2. MatchingTypeOK
    <2>1. ASSUME NEW m \in DOMAIN lines
          PROVE  pairOf[m] \in 0..Len(lines) /\ DOMAIN settled[m] \subseteq Papers
      <3>1. pairOf[m] \in Nat /\ DOMAIN settled[m] \in SUBSET Papers
        BY <1>1, PaidRowsAre
      <3>2. DOMAIN lines = 1..Len(lines) /\ Len(lines) \in Nat
        BY <1>1, MovementsAre DEF MatchTyped
      <3>3. pairOf[m] \in 0..Len(lines)
        <4>1. pairOf[m] = NoOther \/ pairOf[m] \in DOMAIN lines
          BY <1>1 DEF Legs
        <4> QED BY <3>2, <4>1 DEF NoOther
      <3> QED BY <3>1, <3>3
    <2> QED BY <1>1, <2>1, PaidRowsAre DEF MatchTyped, MatchingTypeOK
  <1>3. ProposalsDisjoint
    BY <1>1, PairsAre DEF ProposalsDisjoint
  <1>4. EveryFitIsOffered
    <2>1. ASSUME NEW w, NEW o \in Candidates(w), NEW i \in Candidates(w), FitTogether(o, i)
          PROVE  \E p \in InternalTransfers(w) : p.out = o \/ p.in = i
      <3>1. FoundWell(w, Len(lines), InternalTransfers(w))
        BY <1>1, TransfersAre DEF MatchTyped
      <3>2. o <= Len(lines)
        BY <1>1, MovementsAre DEF MatchTyped, Candidates
      <3> QED BY <2>1, <3>1, <3>2 DEF FoundWell
    <2> QED BY <2>1 DEF EveryFitIsOffered
  <1>5. OneClickNamesThem /\ OneClickSettles /\ SureIsNoGuess
    BY DEF MatchInv, Pressed, OneClickNamesThem, OneClickSettles
  <1>6. LegsMatch
    BY <1>1 DEF Legs, LegsMatch
  <1>7. ExplainedOnce
    <2>1. \A m \in DOMAIN lines : Loose(m) \/ pairOf[m] = NoOther \/ Spent(m) = 0
      BY <1>1, NothingSpent DEF Legs
    <2> QED BY <2>1 DEF MatchInv, WithinMeans, ExplainedOnce
  <1> QED BY <1>2, <1>3, <1>4, <1>5, <1>6, <1>7 DEF MatchingHolds

MatchingSpec == MatchingInit /\ [][MatchingNext]_matchingVars

\* What the screen proposes for the lines of the bank, and what its presses do, keep the
\* promise of the matching as long as the screen shows every line, no two payments out fit
\* one in and no line is matched to the papers of several parties at once (no Likenesses).
THEOREM MatchingKept == ASSUME Likenesses = {} PROVE MatchingSpec => []MatchingHolds
  <1>1. MatchingInit => MatchInv
    BY MatchingStart
  <1>2. MatchInv /\ [MatchingNext]_matchingVars => MatchInv'
    BY MatchingStep
  <1>3. MatchInv => MatchingHolds
    BY MatchingPromise
  <1> QED BY <1>1, <1>2, <1>3, PTL DEF MatchingSpec

\* The packages of the factory that keep no state of their own keep their promises: the
\* ledgers where a receipt names an invoice once, a quote names a chapter once and no change
\* is decided after the close (no Habits), the matching where it is shown every line, no
\* two payments out fit one in and a line is matched to one party's papers (no Likenesses).
THEOREM CapabilitiesKept ==
    ASSUME Habits = {}, Likenesses = {}
    PROVE  LedgersSpec /\ MatchingSpec => []CapabilitiesHold
  <1>1. LedgersSpec => []LedgersHold
    BY LedgersKept
  <1>2. MatchingSpec => []MatchingHolds
    BY MatchingKept
  <1> QED BY <1>1, <1>2, PTL DEF CapabilitiesHold
=============================================================================
