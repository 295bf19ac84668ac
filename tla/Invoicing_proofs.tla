-------------------------- MODULE Invoicing_proofs --------------------------
(***************************************************************************)
(* Proofs about Invoicing, for every set of workers, quotes and lines, with *)
(* or without crashes:                                                     *)
(*   - TypeCorrect: the type invariant;                                    *)
(*   - UniqueNumbers: no number of a series is given twice;                *)
(*   - BillsWhatWasAccepted: an invoice bills an accepted scope;           *)
(*   - JournalTellsAlways: at rest the journal, the counters, the log and  *)
(*     the seals tell of each other, but for what died.                    *)
(* and, where no server action crashes and one works at a time:            *)
(*   - JournalIsTheChain: the journal is one chain of seals.               *)
(***************************************************************************)
EXTENDS Invoicing, TLAPS, FiniteSetTheorems

-----------------------------------------------------------------------------
(* What a worker at some stage carries. *)

LEMMA LoadedType ==
    ASSUME TypeOK, NEW w \in Workers, job[w].stage = "loaded"
    PROVE  job[w] \in [stage : {"loaded"}, op : {"addLine", "accept", "revise", "issue"},
                       quote : Quotes, copy : Quote]
  <1>1. job[w] \in Job
    BY DEF TypeOK
  <1>. QED
    BY <1>1 DEF Job, Idle

LEMMA NumberedType ==
    ASSUME TypeOK, NEW w \in Workers, job[w].stage \in {"numbered", "sealed"}
    PROVE  job[w] \in [stage : {"numbered", "sealed"}, invoice : Invoice]
  <1>1. job[w] \in Job
    BY DEF TypeOK
  <1>. QED
    BY <1>1 DEF Job, Idle

LEMMA LinkingType ==
    ASSUME TypeOK, NEW w \in Workers, job[w].stage = "linking"
    PROVE  job[w] \in [stage : {"linking"}, invoice : Invoice, head : ChainHead]
  <1>1. job[w] \in Job
    BY DEF TypeOK
  <1>. QED
    BY <1>1 DEF Job, Idle

LEMMA TellingType ==
    ASSUME TypeOK, NEW w \in Workers, job[w].stage = "telling"
    PROVE  job[w] \in [stage : {"telling"}, event : Event]
  <1>1. job[w] \in Job
    BY DEF TypeOK
  <1>. QED
    BY <1>1 DEF Job, Idle

\* The invoice of whoever holds a number.
LEMMA HeldInvoice ==
    ASSUME TypeOK, NEW w \in Workers, Holding(w)
    PROVE  job[w].invoice \in Invoice
  BY NumberedType, LinkingType DEF Holding

LEMMA InvoiceFields ==
    ASSUME NEW invoice \in Invoice
    PROVE  /\ invoice.series \in Series
           /\ invoice.number \in Nat
           /\ invoice.quote \in Quotes
           /\ invoice.lines \in SUBSET Lines
  BY DEF Invoice

-----------------------------------------------------------------------------
LEMMA InitType == Init => TypeOK
  <1> SUFFICES ASSUME Init PROVE TypeOK
    OBVIOUS
  <1>1. Absent \in Quote
    BY DEF Absent, Quote
  <1>2. head \in ChainHead
    BY DEF Init, ChainHead, Hash
  <1>3. job \in [Workers -> Job]
    BY DEF Init, Job
  <1>4. begun \in 0..MaxEvents
    BY BoundAssumption DEF Init
  <1>5. lost \in [numbers : SUBSET (Hash \ {Null}), events : SUBSET Nat]
    BY DEF Init
  <1>. QED
    BY <1>1, <1>2, <1>3, <1>4, <1>5 DEF Init, TypeOK

\* Whatever a worker goes on to, the others keep theirs.
LEMMA BecomeType ==
    ASSUME TypeOK, NEW w \in Workers, NEW next \in Job, Become(w, next)
    PROVE  job' \in [Workers -> Job]
  BY DEF TypeOK, Become

LEMMA TellingJob ==
    ASSUME NEW type \in {"quote.created", "quote.accepted", "quote.revised", "invoice.issued"},
           NEW q \in Quotes, NEW i \in Nat
    PROVE  Telling(type, q, i) \in Job
  BY DEF Telling, Job, Event

LEMMA IdleJob == Idle \in Job
  BY DEF Job

LEMMA BeginType ==
    ASSUME TypeOK, Begin
    PROVE  begun' \in 0..MaxEvents
  BY BoundAssumption DEF TypeOK, Begin

LEMMA NumberType ==
    ASSUME TypeOK, NEW w \in Workers, NEW series \in Series, NEW quote \in Quotes,
           NEW lines \in SUBSET Lines, NEW rectifies \in Nat,
           Number(w, series, quote, lines, rectifies)
    PROVE  TypeOK'
  <1> DEFINE invoice == [series |-> series, number |-> counter[series] + 1,
                         quote |-> quote, lines |-> lines,
                         rectifies |-> rectifies, seq |-> 0, prev |-> Null]
             next    == [stage |-> "numbered", invoice |-> invoice]
  <1>1. invoice \in Invoice
    BY DEF TypeOK, Invoice, Hash
  <1>2. next \in Job
    BY <1>1 DEF Job
  <1>3. Become(w, next)
    BY DEF Number
  <1>4. job' \in [Workers -> Job]
    <2>. HIDE DEF next
    <2>. QED BY <1>2, <1>3, BecomeType
  <1>5. counter' \in [Series -> Nat]
    BY DEF Number, TypeOK
  <1>. QED
    BY <1>4, <1>5, BeginType DEF Number, TypeOK

LEMMA QuotingType ==
    ASSUME TypeOK, NEW w \in Workers, NEW q \in Quotes,
           \/ Create(w, q)
           \/ SaveRevision(w, q)
           \/ \E op \in {"addLine", "accept", "revise", "issue"} : Load(w, op, q)
           \/ \E line \in Lines : SaveLine(w, line)
           \/ \E chosen \in SUBSET Optional : SaveAccepted(w, chosen)
    PROVE  TypeOK'
  <1>1. CASE Create(w, q)
    <2>1. [status |-> "draft", lines |-> {}] \in Quote
      BY DEF Quote
    <2>2. job' \in [Workers -> Job]
      BY <1>1, BecomeType, TellingJob DEF Create
    <2>. QED
      BY <1>1, <2>1, <2>2, BeginType DEF Create, TypeOK
  <1>2. CASE SaveRevision(w, q)
    <2>1. job[w].copy \in Quote
      BY <1>2, LoadedType DEF SaveRevision, HasLoaded
    <2>2. [status |-> "draft", lines |-> job[w].copy.lines] \in Quote
      BY <2>1 DEF Quote
    <2>3. job' \in [Workers -> Job]
      BY <1>2, BecomeType, TellingJob DEF SaveRevision
    <2>. QED
      BY <1>2, <2>2, <2>3, BeginType DEF SaveRevision, TypeOK
  <1>3. ASSUME NEW op \in {"addLine", "accept", "revise", "issue"}, Load(w, op, q)
        PROVE  TypeOK'
    <2>1. [stage |-> "loaded", op |-> op, quote |-> q, copy |-> quotes[q]] \in Job
      BY DEF TypeOK, Job
    <2>2. job' \in [Workers -> Job]
      BY <1>3, <2>1, BecomeType DEF Load
    <2>. QED
      BY <1>3, <2>2 DEF Load, TypeOK
  <1>4. ASSUME NEW line \in Lines, SaveLine(w, line) PROVE TypeOK'
    <2>1. job[w].quote \in Quotes /\ job[w].copy \in Quote
      BY <1>4, LoadedType DEF SaveLine, HasLoaded
    <2>2. [job[w].copy EXCEPT !.lines = @ \cup {line}] \in Quote
      BY <2>1 DEF Quote
    <2>3. job' \in [Workers -> Job]
      BY <1>4, BecomeType, IdleJob DEF SaveLine
    <2>. QED
      BY <1>4, <2>1, <2>2, <2>3 DEF SaveLine, TypeOK
  <1>5. ASSUME NEW chosen \in SUBSET Optional, SaveAccepted(w, chosen) PROVE TypeOK'
    <2> DEFINE lines == (job[w].copy.lines \ Optional) \cup chosen
    <2>1. job[w].quote \in Quotes /\ job[w].copy \in Quote
      BY <1>5, LoadedType DEF SaveAccepted, HasLoaded
    <2>2. lines \in SUBSET Lines
      BY <2>1, OptionalAssumption DEF Quote
    <2>3. [status |-> "accepted", lines |-> lines] \in Quote
      BY <2>2 DEF Quote
    <2>4. job' \in [Workers -> Job]
      BY <1>5, <2>1, BecomeType, TellingJob DEF SaveAccepted
    <2>5. accepted' \subseteq [quote : Quotes, lines : SUBSET Lines]
      BY <1>5, <2>1, <2>2 DEF SaveAccepted, TypeOK
    <2>. QED
      BY <1>5, <2>1, <2>3, <2>4, <2>5, BeginType DEF SaveAccepted, TypeOK
  <1>. QED
    BY <1>1, <1>2, <1>3, <1>4, <1>5

LEMMA BillingType ==
    ASSUME TypeOK, NEW w \in Workers,
           \/ IssueFromQuote(w)
           \/ \E i \in DOMAIN journal : Rectify(w, i)
           \/ ReadHead(w) \/ Seal(w) \/ AppendInvoice(w) \/ Tell(w) \/ Crash(w)
    PROVE  TypeOK'
  <1>1. CASE IssueFromQuote(w)
    <2>1. job[w].quote \in Quotes /\ job[w].copy.lines \in SUBSET Lines
      BY <1>1, LoadedType DEF IssueFromQuote, HasLoaded, Quote
    <2>. QED
      BY <1>1, <2>1, NumberType DEF IssueFromQuote, Series
  <1>2. ASSUME NEW i \in DOMAIN journal, Rectify(w, i) PROVE TypeOK'
    <2>1. journal[i] \in Invoice /\ i \in Nat
      BY DEF TypeOK
    <2>. QED
      BY <1>2, <2>1, NumberType, InvoiceFields DEF Rectify, Series
  <1>3. CASE ReadHead(w)
    <2>1. job[w].invoice \in Invoice
      BY <1>3, NumberedType DEF ReadHead
    <2>2. [stage |-> "linking", invoice |-> job[w].invoice, head |-> head] \in Job
      BY <2>1 DEF TypeOK, Job
    <2>3. job' \in [Workers -> Job]
      BY <1>3, <2>2, BecomeType DEF ReadHead
    <2>. QED
      BY <1>3, <2>3 DEF ReadHead, TypeOK
  <1>4. CASE Seal(w)
    <2> DEFINE seq    == job[w].head.seq + 1
               hash   == [series |-> job[w].invoice.series, number |-> job[w].invoice.number]
               sealed == [job[w].invoice EXCEPT !.seq = seq, !.prev = job[w].head.hash]
    <2>1. job[w].invoice \in Invoice /\ job[w].head \in ChainHead
      BY <1>4, LinkingType DEF Seal
    <2>2. seq \in Nat /\ job[w].head.hash \in Hash
      BY <2>1 DEF ChainHead
    <2>3. hash \in Hash
      BY <2>1, InvoiceFields DEF Hash
    <2>4. sealed \in Invoice
      BY <2>1, <2>2 DEF Invoice
    <2>5. [stage |-> "sealed", invoice |-> sealed] \in Job
      BY <2>4 DEF Job
    <2>6. job' \in [Workers -> Job]
      BY <1>4, <2>5, BecomeType DEF Seal
    <2>7. head' \in ChainHead
      BY <1>4, <2>2, <2>3 DEF Seal, ChainHead, HashOf
    <2>. QED
      BY <1>4, <2>6, <2>7 DEF Seal, TypeOK
  <1>5. CASE AppendInvoice(w)
    <2>1. job[w].invoice \in Invoice
      BY <1>5, NumberedType DEF AppendInvoice
    <2>2. journal' \in Seq(Invoice)
      BY <1>5, <2>1 DEF AppendInvoice, TypeOK
    <2>3. Len(journal) + 1 \in Nat
      BY DEF TypeOK
    <2>4. job' \in [Workers -> Job]
      BY <1>5, <2>1, <2>3, BecomeType, TellingJob, InvoiceFields DEF AppendInvoice
    <2>. QED
      BY <1>5, <2>2, <2>4 DEF AppendInvoice, TypeOK
  <1>6. CASE Tell(w)
    <2>1. job[w].event \in Event
      BY <1>6, TellingType DEF Tell
    <2>2. job' \in [Workers -> Job]
      BY <1>6, BecomeType, IdleJob DEF Tell
    <2>. QED
      BY <1>6, <2>1, <2>2 DEF Tell, TypeOK
  <1>7. CASE Crash(w)
    <2>1. job' \in [Workers -> Job] /\ UNCHANGED <<quotes, counter, head, journal, events, accepted, begun>>
      BY <1>7, BecomeType, IdleJob DEF Crash
    <2>2. ASSUME Holding(w) PROVE HashOf(job[w].invoice) \in Hash \ {Null}
      <3>1. job[w].invoice \in Invoice
        BY <2>2, HeldInvoice
      <3>2. job[w].invoice.series \in Series /\ job[w].invoice.number \in Nat
        BY <3>1, InvoiceFields
      <3>. QED
        BY <3>2 DEF HashOf, Hash, Null, Series
    <2>3. ASSUME TellsInvoice(w) PROVE job[w].event.invoice \in Nat
      BY <2>3, TellingType DEF TellsInvoice, Event
    <2>4. PICK N \in SUBSET (Hash \ {Null}) :
              N = IF Holding(w) THEN {HashOf(job[w].invoice)} ELSE {}
      BY <2>2
    <2>5. PICK E \in SUBSET Nat : E = IF TellsInvoice(w) THEN {job[w].event.invoice} ELSE {}
      BY <2>3
    <2>6. lost' = [numbers |-> lost.numbers \cup N, events |-> lost.events \cup E]
      BY <1>7, <2>4, <2>5 DEF Crash
    <2>7. lost' \in [numbers : SUBSET (Hash \ {Null}), events : SUBSET Nat]
      BY <2>6 DEF TypeOK
    <2>. QED
      BY <2>1, <2>7 DEF TypeOK
  <1>. QED
    BY <1>1, <1>2, <1>3, <1>4, <1>5, <1>6, <1>7

LEMMA StepType == ASSUME TypeOK, NEW w \in Workers, Step(w) PROVE TypeOK'
  <1>1. CASE Quotes = {}
    BY <1>1, BillingType, LoadedType DEF Step, SaveLine, SaveAccepted, HasLoaded
  <1>2. ASSUME NEW q \in Quotes PROVE TypeOK'
    BY QuotingType, BillingType DEF Step
  <1>. QED
    BY <1>1, <1>2

LEMMA NextType == TypeOK /\ [Next]_vars => TypeOK'
  <1> SUFFICES ASSUME TypeOK, [Next]_vars PROVE TypeOK'
    OBVIOUS
  <1>1. ASSUME NEW w \in Workers, Step(w) PROVE TypeOK'
    BY <1>1, StepType
  <1>2. CASE UNCHANGED vars
    BY <1>2 DEF vars, TypeOK
  <1>. QED
    BY <1>1, <1>2 DEF Next

\* Every reachable state of the quotes, the counters, the chain, the journal,
\* the event log and the workers is well typed.
THEOREM TypeCorrect == Spec => []TypeOK
  BY InitType, NextType, PTL DEF Spec

-----------------------------------------------------------------------------
(* The inductive invariant.  Numbers: everything that carries one, in the  *)
(* journal or in a worker's hands, carries one that was counted, and no    *)
(* two carry the same.  Scopes: whatever is, or will be, billed has been   *)
(* accepted; a worker that works on a draft can only write a draft.        *)

SameNumber(a, b) == a.series = b.series /\ a.number = b.number

Counted ==
    /\ \A i \in DOMAIN journal : journal[i].number <= counter[journal[i].series]
    /\ \A w \in Workers : Holding(w) =>
           job[w].invoice.number <= counter[job[w].invoice.series]

Distinct ==
    /\ NumbersAreUnique
    /\ \A w \in Workers, i \in DOMAIN journal :
           Holding(w) => ~SameNumber(job[w].invoice, journal[i])
    /\ \A v, w \in Workers :
           (Holding(v) /\ Holding(w) /\ SameNumber(job[v].invoice, job[w].invoice)) => v = w

WasAccepted(q, lines) == [quote |-> q, lines |-> lines] \in accepted

ScopesAccepted ==
    /\ \A q \in Quotes : quotes[q].status = "accepted" => WasAccepted(q, quotes[q].lines)
    /\ \A w \in Workers : job[w].stage = "loaded" =>
           /\ job[w].op \in {"addLine", "accept"} => job[w].copy.status = "draft"
           /\ job[w].op = "issue" => WasAccepted(job[w].quote, job[w].copy.lines)
    /\ \A w \in Workers : Holding(w) =>
           WasAccepted(job[w].invoice.quote, job[w].invoice.lines)
    /\ BilledWasAccepted

IInv == TypeOK /\ Counted /\ Distinct /\ ScopesAccepted

-----------------------------------------------------------------------------
LEMMA InitIInv == Init => IInv
  BY InitType
  DEF Init, IInv, Counted, Distinct, ScopesAccepted, Holding, Idle, Absent,
      NumbersAreUnique, BilledWasAccepted

\* A worker that gives up what it has, or puts a number it does not hold aside,
\* disturbs nobody.
LEMMA OthersKeep ==
    ASSUME TypeOK, NEW w \in Workers, NEW next, Become(w, next)
    PROVE  /\ job'[w] = next
           /\ \A v \in Workers : v # w => job'[v] = job[v]
  BY DEF TypeOK, Become

\* A step that leaves the numbers alone: the worker lets go of its invoice, or
\* goes on with one of the same number.
LEMMA NumbersKept ==
    ASSUME IInv, NEW w \in Workers, NEW next, Become(w, next),
           UNCHANGED <<counter, journal>>,
           \/ next.stage \notin {"numbered", "linking", "sealed"}
           \/ Holding(w) /\ SameNumber(next.invoice, job[w].invoice)
    PROVE  Counted' /\ Distinct'
  <1>1. /\ job'[w] = next
        /\ \A v \in Workers : v # w => job'[v] = job[v]
    BY OthersKeep DEF IInv
  <1>2. \A v \in Workers : Holding(v)' =>
            Holding(v) /\ SameNumber(job'[v].invoice, job[v].invoice)
    BY <1>1 DEF Holding, SameNumber
  <1>3. Counted'
    BY <1>2 DEF IInv, Counted, SameNumber
  <1>4. Distinct'
    BY <1>2 DEF IInv, Distinct, NumbersAreUnique, SameNumber
  <1>. QED
    BY <1>3, <1>4

\* The next number is above all that were given.
LEMMA NumberFresh ==
    ASSUME IInv, NEW w \in Workers, NEW series \in Series, NEW quote \in Quotes,
           NEW lines \in SUBSET Lines, NEW rectifies \in Nat, ~Holding(w),
           Number(w, series, quote, lines, rectifies)
    PROVE  Counted' /\ Distinct'
  <1> DEFINE next == [stage |-> "numbered",
                      invoice |-> [series |-> series, number |-> counter[series] + 1,
                                   quote |-> quote, lines |-> lines,
                                   rectifies |-> rectifies, seq |-> 0, prev |-> Null]]
  <1>1. Become(w, next) /\ next.stage = "numbered"
        /\ next.invoice.series = series /\ next.invoice.number = counter[series] + 1
    BY DEF Number
  <1> HIDE DEF next
  <1>2. /\ job'[w] = next
        /\ \A v \in Workers : v # w => job'[v] = job[v]
    BY <1>1, OthersKeep DEF IInv
  <1>3. /\ counter \in [Series -> Nat]
        /\ counter' = [counter EXCEPT ![series] = @ + 1]
        /\ UNCHANGED journal
    BY DEF Number, IInv, TypeOK
  <1>4. \A i \in DOMAIN journal : journal[i].series \in Series /\ journal[i].number \in Nat
    <2>1. \A i \in DOMAIN journal : journal[i] \in Invoice
      BY DEF IInv, TypeOK
    <2>. QED
      BY <2>1, InvoiceFields
  <1>5. \A v \in Workers : Holding(v) =>
            job[v].invoice.series \in Series /\ job[v].invoice.number \in Nat
    BY HeldInvoice, InvoiceFields DEF IInv
  <1>6. Counted'
    BY <1>1, <1>2, <1>3, <1>4, <1>5 DEF Counted, IInv, Holding
  <1>7. \A i \in DOMAIN journal : ~SameNumber(next.invoice, journal[i])
    BY <1>1, <1>3, <1>4 DEF SameNumber, IInv, Counted
  <1>8. \A v \in Workers : Holding(v) => ~SameNumber(next.invoice, job[v].invoice)
    BY <1>1, <1>3, <1>5 DEF SameNumber, IInv, Counted
  <1>9. \A v \in Workers : v # w => (Holding(v)' <=> Holding(v))
    BY <1>2 DEF Holding
  <1>10. Distinct'
    BY <1>2, <1>3, <1>7, <1>8, <1>9 DEF Distinct, IInv, SameNumber, NumbersAreUnique
  <1>. QED
    BY <1>6, <1>10

\* An invoice that is appended takes its number with it.
LEMMA AppendNumbers ==
    ASSUME IInv, NEW w \in Workers, AppendInvoice(w)
    PROVE  Counted' /\ Distinct'
  <1>1. Holding(w) /\ job[w].invoice \in Invoice /\ journal \in Seq(Invoice)
    BY NumberedType DEF AppendInvoice, Holding, IInv, TypeOK
  <1>2. /\ ~Holding(w)'
        /\ \A v \in Workers : v # w => job'[v] = job[v]
    BY OthersKeep DEF AppendInvoice, Telling, Holding, IInv
  <1>3. /\ UNCHANGED counter
        /\ DOMAIN journal' = DOMAIN journal \cup {Len(journal) + 1}
        /\ journal'[Len(journal) + 1] = job[w].invoice
        /\ \A i \in DOMAIN journal : journal'[i] = journal[i]
    BY <1>1 DEF AppendInvoice
  <1>4. \A v \in Workers : Holding(v)' => v # w /\ Holding(v) /\ job'[v] = job[v]
    BY <1>2 DEF Holding
  <1>5. Counted'
    BY <1>1, <1>3, <1>4 DEF IInv, Counted
  <1>6. NumbersAreUnique'
    BY <1>1, <1>3 DEF IInv, Distinct, NumbersAreUnique, SameNumber
  <1>7. Distinct'
    BY <1>1, <1>3, <1>4, <1>6 DEF IInv, Distinct, SameNumber
  <1>. QED
    BY <1>5, <1>7

\* Every step keeps the numbers counted and distinct.
LEMMA StepNumbers == ASSUME IInv, NEW w \in Workers, Step(w) PROVE Counted' /\ Distinct'
  <1>1. CASE IssueFromQuote(w)
    <2>1. job[w].quote \in Quotes /\ job[w].copy.lines \in SUBSET Lines /\ ~Holding(w)
      BY <1>1, LoadedType DEF IssueFromQuote, HasLoaded, Quote, Holding, IInv
    <2>. QED
      BY <1>1, <2>1, NumberFresh DEF IssueFromQuote, Series
  <1>2. ASSUME NEW i \in DOMAIN journal, Rectify(w, i) PROVE Counted' /\ Distinct'
    <2>1. journal[i] \in Invoice /\ i \in Nat /\ ~Holding(w)
      BY <1>2 DEF IInv, TypeOK, Rectify, Idle, Holding
    <2>. QED
      BY <1>2, <2>1, NumberFresh, InvoiceFields DEF Rectify, Series
  <1>3. CASE ReadHead(w)
    BY <1>3, NumbersKept DEF ReadHead, Holding, SameNumber
  <1>4. CASE Seal(w)
    <2> DEFINE sealed == [job[w].invoice EXCEPT !.seq = job[w].head.seq + 1,
                                                !.prev = job[w].head.hash]
    <2>1. job[w].invoice \in Invoice /\ Holding(w)
      BY <1>4, LinkingType DEF Seal, IInv, Holding
    <2>2. SameNumber(sealed, job[w].invoice)
      BY <2>1 DEF SameNumber, Invoice
    <2>. QED
      BY <1>4, <2>1, <2>2, NumbersKept DEF Seal
  <1>5. CASE AppendInvoice(w)
    BY <1>5, AppendNumbers
  <1>6. CASE \/ \E q \in Quotes : Create(w, q) \/ SaveRevision(w, q)
             \/ \E q \in Quotes, op \in {"addLine", "accept", "revise", "issue"} : Load(w, op, q)
             \/ \E line \in Lines : SaveLine(w, line)
             \/ \E chosen \in SUBSET Optional : SaveAccepted(w, chosen)
             \/ Tell(w) \/ Crash(w)
    BY <1>6, NumbersKept
    DEF Create, SaveRevision, Load, SaveLine, SaveAccepted, Tell, Crash, Telling, Idle
  <1>. QED
    BY <1>1, <1>2, <1>3, <1>4, <1>5, <1>6 DEF Step

-----------------------------------------------------------------------------
\* A step that leaves the quotes and the journal alone, after which the worker
\* has nothing, or something of an accepted scope.
LEMMA ScopesKept ==
    ASSUME IInv, NEW w \in Workers, NEW next, Become(w, next),
           UNCHANGED <<quotes, journal, accepted>>,
           next.stage = "loaded" =>
               /\ next.op \in {"addLine", "accept"} => next.copy.status = "draft"
               /\ next.op = "issue" => WasAccepted(next.quote, next.copy.lines),
           next.stage \in {"numbered", "linking", "sealed"} =>
               WasAccepted(next.invoice.quote, next.invoice.lines)
    PROVE  ScopesAccepted'
  <1>1. /\ job'[w] = next
        /\ \A v \in Workers : v # w => job'[v] = job[v]
    BY OthersKeep DEF IInv
  <1>. QED
    BY <1>1 DEF IInv, ScopesAccepted, BilledWasAccepted, Holding, WasAccepted

\* A quote is written and the worker is done with it.
LEMMA QuoteWritten ==
    ASSUME IInv, NEW w \in Workers, NEW q \in Quotes, NEW quote, NEW next,
           Become(w, next), next.stage \in {"idle", "telling"},
           quotes' = [quotes EXCEPT ![q] = quote],
           UNCHANGED journal,
           accepted \subseteq accepted',
           quote.status = "accepted" => WasAccepted(q, quote.lines)'
    PROVE  ScopesAccepted'
  <1>1. /\ job'[w] = next
        /\ \A v \in Workers : v # w => job'[v] = job[v]
    BY OthersKeep DEF IInv
  <1>2. \A p \in Quotes : \A lines : WasAccepted(p, lines) => WasAccepted(p, lines)'
    BY DEF WasAccepted
  <1>3. ASSUME NEW p \in Quotes, quotes'[p].status = "accepted"
        PROVE  WasAccepted(p, quotes[p].lines)'
    <2>1. CASE p = q
      <3>1. quotes'[p] = quote
        BY <2>1 DEF IInv, TypeOK
      <3>. QED
        BY <1>3, <2>1, <3>1 DEF WasAccepted
    <2>2. CASE p # q
      <3>1. quotes'[p] = quotes[p]
        BY <2>2 DEF IInv, TypeOK
      <3>2. WasAccepted(p, quotes[p].lines)
        BY <1>3, <3>1 DEF IInv, ScopesAccepted
      <3>. QED
        BY <1>2, <3>1, <3>2 DEF WasAccepted
    <2>. QED
      BY <2>1, <2>2
  <1>4. \A v \in Workers : (job'[v].stage = "loaded" \/ Holding(v)') => v # w /\ job'[v] = job[v]
    BY <1>1 DEF Holding
  <1>5. BilledWasAccepted'
    BY DEF IInv, ScopesAccepted, BilledWasAccepted
  <1>. QED
    BY <1>3, <1>4, <1>5 DEF IInv, ScopesAccepted, Holding, WasAccepted

LEMMA StepScopes == ASSUME IInv, NEW w \in Workers, Step(w) PROVE ScopesAccepted'
  <1>1. ASSUME NEW q \in Quotes, Create(w, q) PROVE ScopesAccepted'
    BY <1>1, QuoteWritten DEF Create, Telling
  <1>2. ASSUME NEW q \in Quotes, SaveRevision(w, q) PROVE ScopesAccepted'
    BY <1>2, QuoteWritten DEF SaveRevision, Telling
  <1>3. ASSUME NEW q \in Quotes, NEW op \in {"addLine", "accept", "revise", "issue"}, Load(w, op, q)
        PROVE  ScopesAccepted'
    <2> DEFINE next == [stage |-> "loaded", op |-> op, quote |-> q, copy |-> quotes[q]]
    <2>1. op \in {"addLine", "accept"} => quotes[q].status = "draft"
      BY <1>3 DEF Load, MayStart
    <2>2. op = "issue" => WasAccepted(q, quotes[q].lines)
      BY <1>3 DEF Load, MayStart, IInv, ScopesAccepted
    <2>. QED
      BY <1>3, <2>1, <2>2, ScopesKept DEF Load
  <1>4. ASSUME NEW line \in Lines, SaveLine(w, line) PROVE ScopesAccepted'
    <2>1. job[w].quote \in Quotes /\ job[w].copy \in Quote
      BY <1>4, LoadedType DEF SaveLine, HasLoaded, IInv
    <2>2. job[w].copy.status = "draft"
      BY <1>4 DEF SaveLine, HasLoaded, IInv, ScopesAccepted
    <2>3. [job[w].copy EXCEPT !.lines = @ \cup {line}].status = "draft"
      BY <2>1, <2>2 DEF Quote
    <2>. QED
      BY <1>4, <2>1, <2>3, QuoteWritten DEF SaveLine, Idle
  <1>5. ASSUME NEW chosen \in SUBSET Optional, SaveAccepted(w, chosen) PROVE ScopesAccepted'
    <2>1. job[w].quote \in Quotes
      BY <1>5, LoadedType DEF SaveAccepted, HasLoaded, IInv
    <2>. QED
      BY <1>5, <2>1, QuoteWritten DEF SaveAccepted, Telling, WasAccepted
  <1>6. CASE IssueFromQuote(w)
    <2>1. WasAccepted(job[w].quote, job[w].copy.lines)
      BY <1>6 DEF IssueFromQuote, HasLoaded, IInv, ScopesAccepted
    <2>. QED
      BY <1>6, <2>1, ScopesKept DEF IssueFromQuote, Number
  <1>7. ASSUME NEW i \in DOMAIN journal, Rectify(w, i) PROVE ScopesAccepted'
    <2>1. WasAccepted(journal[i].quote, journal[i].lines)
      BY DEF IInv, ScopesAccepted, BilledWasAccepted, WasAccepted
    <2>. QED
      BY <1>7, <2>1, ScopesKept DEF Rectify, Number
  <1>8. CASE ReadHead(w)
    <2>1. WasAccepted(job[w].invoice.quote, job[w].invoice.lines)
      BY <1>8 DEF ReadHead, Holding, IInv, ScopesAccepted
    <2>. QED
      BY <1>8, <2>1, ScopesKept DEF ReadHead
  <1>9. CASE Seal(w)
    <2> DEFINE sealed == [job[w].invoice EXCEPT !.seq = job[w].head.seq + 1,
                                                !.prev = job[w].head.hash]
    <2>1. job[w].invoice \in Invoice
      BY <1>9, LinkingType DEF Seal, IInv
    <2>2. sealed.quote = job[w].invoice.quote /\ sealed.lines = job[w].invoice.lines
      BY <2>1 DEF Invoice
    <2>3. WasAccepted(sealed.quote, sealed.lines)
      BY <1>9, <2>2 DEF Seal, Holding, IInv, ScopesAccepted
    <2>. QED
      BY <1>9, <2>3, ScopesKept DEF Seal
  <1>10. CASE AppendInvoice(w)
    <2>1. WasAccepted(job[w].invoice.quote, job[w].invoice.lines) /\ journal \in Seq(Invoice)
          /\ job[w].invoice \in Invoice
      BY <1>10, NumberedType DEF AppendInvoice, Holding, IInv, ScopesAccepted, TypeOK
    <2>2. BilledWasAccepted'
      BY <1>10, <2>1 DEF AppendInvoice, BilledWasAccepted, IInv, ScopesAccepted, WasAccepted
    <2>3. \A v \in Workers : (job'[v].stage = "loaded" \/ Holding(v)') => job'[v] = job[v]
      BY <1>10, OthersKeep DEF AppendInvoice, Telling, Holding, IInv
    <2>. QED
      BY <1>10, <2>2, <2>3 DEF AppendInvoice, IInv, ScopesAccepted, Holding, WasAccepted
  <1>11. CASE Tell(w)
    BY <1>11, ScopesKept DEF Tell, Idle
  <1>12. CASE Crash(w)
    BY <1>12, ScopesKept DEF Crash, Idle
  <1>. QED
    BY <1>1, <1>2, <1>3, <1>4, <1>5, <1>6, <1>7, <1>8, <1>9, <1>10, <1>11, <1>12 DEF Step

-----------------------------------------------------------------------------
LEMMA NextIInv == IInv /\ [Next]_vars => IInv'
  <1> SUFFICES ASSUME IInv, [Next]_vars PROVE IInv'
    OBVIOUS
  <1>1. ASSUME NEW w \in Workers, Step(w) PROVE IInv'
    BY <1>1, StepType, StepNumbers, StepScopes DEF IInv
  <1>2. CASE UNCHANGED vars
    BY <1>2 DEF vars, IInv, TypeOK, Counted, Distinct, ScopesAccepted, Holding,
                WasAccepted, NumbersAreUnique, BilledWasAccepted
  <1>. QED
    BY <1>1, <1>2 DEF Next

\* The invariant that carries both safety properties.
THEOREM NumbersAndScopes == Spec => []IInv
  BY InitIInv, NextIInv, PTL DEF Spec

\* However many invoices are issued at once and whatever crashes in between,
\* no two of a series have the same number (SeriesNumbering over
\* PrismaCounterStore.next).
THEOREM UniqueNumbers == Spec => []NumbersAreUnique
  <1>1. IInv => NumbersAreUnique
    BY DEF IInv, Distinct
  <1>. QED
    BY <1>1, NumbersAndScopes, PTL

\* What an invoice, or its rectification, bills was accepted as it is billed,
\* although quotes are written back whole (QuotingService, issueFromQuote).
THEOREM BillsWhatWasAccepted == Spec => []BilledWasAccepted
  <1>1. IInv => BilledWasAccepted
    BY DEF IInv, ScopesAccepted
  <1>. QED
    BY <1>1, NumbersAndScopes, PTL

-----------------------------------------------------------------------------
(* What the journal, the counters, the log and the seals tell of each      *)
(* other, for any number of workers, whatever dies.                        *)

Carries(invoice, series, number) == invoice.series = series /\ invoice.number = number

IsLost(series, number) == [series |-> series, number |-> number] \in lost.numbers

\* Every number that was counted is in the journal, in a worker's hands, or lost.
NoHoles ==
    \A s \in Series : \A n \in 1..counter[s] :
        \/ \E i \in DOMAIN journal : Carries(journal[i], s, n)
        \/ \E w \in Workers : Holding(w) /\ Carries(job[w].invoice, s, n)
        \/ IsLost(s, n)

\* A number that was lost was counted, and nobody has it.
GoneNumbers ==
    \A h \in lost.numbers :
        /\ h.number <= counter[h.series]
        /\ \A i \in DOMAIN journal : HashOf(journal[i]) # h
        /\ \A w \in Workers : Holding(w) => HashOf(job[w].invoice) # h

FromOne ==
    /\ \A i \in DOMAIN journal : journal[i].number >= 1
    /\ \A w \in Workers : Holding(w) => job[w].invoice.number >= 1

Tells(w, i) ==
    /\ job[w].stage = "telling"
    /\ job[w].event.type = "invoice.issued" /\ job[w].event.invoice = i

ToldBy(k, i) == events[k].type = "invoice.issued" /\ events[k].invoice = i

\* An invoice is told in the log, once, or about to be, by one worker, or lost its event.
OneTeller ==
    /\ \A i \in DOMAIN journal : \/ \E k \in DOMAIN events : ToldBy(k, i)
                                 \/ \E w \in Workers : Tells(w, i)
                                 \/ i \in lost.events
    /\ \A k \in DOMAIN events : \A i \in Nat : ToldBy(k, i) =>
           /\ i \in DOMAIN journal
           /\ \A l \in DOMAIN events : ToldBy(l, i) => l = k
           /\ \A w \in Workers : ~Tells(w, i)
    /\ \A w \in Workers : \A i \in Nat : Tells(w, i) =>
           /\ i \in DOMAIN journal
           /\ \A v \in Workers : Tells(v, i) => v = w

\* An event that was lost is of an invoice that is there, and nobody tells it.
GoneEvents ==
    \A i \in lost.events :
        /\ i \in DOMAIN journal
        /\ \A k \in DOMAIN events : ~ToldBy(k, i)
        /\ \A w \in Workers : ~Tells(w, i)

Tidy == NoHoles /\ FromOne /\ GoneNumbers /\ OneTeller /\ GoneEvents
GInv == IInv /\ Tidy

LEMMA LostType ==
    ASSUME TypeOK
    PROVE  /\ lost.events \subseteq Nat
           /\ \A h \in lost.numbers : /\ h.series \in Series /\ h.number \in Nat
                                     /\ h = [series |-> h.series, number |-> h.number]
  <1>1. lost.events \subseteq Nat /\ lost.numbers \subseteq Hash \ {Null}
    BY DEF TypeOK
  <1>2. ASSUME NEW h \in Hash \ {Null}
        PROVE  h.series \in Series /\ h.number \in Nat /\ h = [series |-> h.series, number |-> h.number]
    BY DEF Hash
  <1>. QED
    BY <1>1, <1>2

LEMMA SameHash ==
    ASSUME NEW a, NEW b
    PROVE  HashOf(a) = HashOf(b) <=> SameNumber(a, b)
  <1>1. HashOf(a).series = a.series /\ HashOf(a).number = a.number
        /\ HashOf(b).series = b.series /\ HashOf(b).number = b.number
    BY DEF HashOf
  <1>2. SameNumber(a, b) => HashOf(a) = HashOf(b)
    BY DEF HashOf, SameNumber
  <1>. QED
    BY <1>1, <1>2 DEF SameNumber

-----------------------------------------------------------------------------
LEMMA InitGInv == Init => GInv
  <1> SUFFICES ASSUME Init PROVE GInv
    OBVIOUS
  <1>1. /\ counter = [s \in Series |-> 0] /\ journal = << >> /\ events = << >>
        /\ \A w \in Workers : job[w].stage = "idle"
    BY DEF Init, Idle
  <1>2. NoHoles /\ FromOne
    BY <1>1 DEF NoHoles, FromOne, Holding
  <1>3. OneTeller
    BY <1>1 DEF OneTeller, Tells
  <1>4. GoneNumbers /\ GoneEvents
    BY DEF Init, GoneNumbers, GoneEvents
  <1>. QED
    BY <1>2, <1>3, <1>4, InitIInv DEF GInv, Tidy

\* A step that numbers, appends and tells nothing: a worker that holds a number
\* goes on holding it.
LEMMA QuietStep ==
    ASSUME GInv, NEW w \in Workers, NEW next, Become(w, next),
           UNCHANGED <<counter, journal, events, lost>>,
           job[w].stage # "telling",
           ~(next.stage = "telling" /\ next.event.type = "invoice.issued"),
           IF Holding(w)
           THEN /\ next.stage \in {"numbered", "linking", "sealed"}
                /\ SameNumber(next.invoice, job[w].invoice)
           ELSE next.stage \notin {"numbered", "linking", "sealed"}
    PROVE  Tidy'
  <1>1. /\ job'[w] = next
        /\ \A v \in Workers : v # w => job'[v] = job[v]
    BY OthersKeep DEF GInv, IInv
  <1>2. \A v \in Workers : /\ Holding(v)' <=> Holding(v)
                           /\ Holding(v) => SameNumber(job'[v].invoice, job[v].invoice)
    BY <1>1 DEF Holding, SameNumber
  <1>3. \A v \in Workers, i \in Nat : Tells(v, i)' <=> Tells(v, i)
    BY <1>1 DEF Tells
  <1>4. NoHoles'
    BY <1>2 DEF GInv, Tidy, NoHoles, Carries, SameNumber, IsLost
  <1>5. FromOne'
    BY <1>2 DEF GInv, Tidy, FromOne, SameNumber
  <1>6. \A i \in DOMAIN journal : i \in Nat
    BY DEF GInv, IInv, TypeOK
  <1>7. OneTeller'
    BY <1>3, <1>6 DEF GInv, Tidy, OneTeller, ToldBy
  <1>8. GoneNumbers'
    <2>1. \A v \in Workers : Holding(v) => HashOf(job'[v].invoice) = HashOf(job[v].invoice)
      BY <1>2, SameHash
    <2>. QED
      BY <1>2, <2>1 DEF GInv, Tidy, GoneNumbers, HashOf
  <1>9. GoneEvents'
    <2>1. \A i \in lost.events : i \in Nat
      BY LostType DEF GInv, IInv
    <2>. QED
      BY <1>3, <2>1 DEF GInv, Tidy, GoneEvents, ToldBy
  <1>. QED
    BY <1>4, <1>5, <1>7, <1>8, <1>9 DEF Tidy

LEMMA NumberStep ==
    ASSUME GInv, NEW w \in Workers, NEW series \in Series, NEW quote, NEW lines,
           NEW rectifies, ~Holding(w), job[w].stage # "telling",
           Number(w, series, quote, lines, rectifies)
    PROVE  Tidy'
  <1> DEFINE next == [stage |-> "numbered",
                      invoice |-> [series |-> series, number |-> counter[series] + 1,
                                   quote |-> quote, lines |-> lines,
                                   rectifies |-> rectifies, seq |-> 0, prev |-> Null]]
  <1>1. /\ Become(w, next) /\ next.stage = "numbered"
        /\ Carries(next.invoice, series, counter[series] + 1)
    BY DEF Number, Carries
  <1>. HIDE DEF next
  <1>2. /\ job'[w] = next
        /\ \A v \in Workers : v # w => job'[v] = job[v]
    BY <1>1, OthersKeep DEF GInv, IInv
  <1>3. /\ counter \in [Series -> Nat]
        /\ counter' = [counter EXCEPT ![series] = @ + 1]
        /\ UNCHANGED <<journal, events, lost>>
    BY DEF Number, GInv, IInv, TypeOK
  <1>4. \A v \in Workers : v # w => (Holding(v)' <=> Holding(v)) /\ job'[v] = job[v]
    BY <1>2 DEF Holding
  <1>5. Holding(w)'
    BY <1>1, <1>2 DEF Holding
  <1>6. NoHoles'
    <2> SUFFICES ASSUME NEW s \in Series, NEW n \in 1..counter'[s]
                 PROVE  \/ \E i \in DOMAIN journal : Carries(journal[i], s, n)
                        \/ \E v \in Workers : Holding(v)' /\ Carries(job'[v].invoice, s, n)
                        \/ IsLost(s, n)
      BY <1>3 DEF NoHoles, Carries, IsLost
    <2>1. CASE s = series /\ n = counter[series] + 1
      BY <1>1, <1>2, <1>5, <2>1
    <2>2. CASE ~(s = series /\ n = counter[series] + 1)
      <3>1. n \in 1..counter[s]
        BY <1>3, <2>2
      <3>2. CASE \E i \in DOMAIN journal : Carries(journal[i], s, n)
        BY <3>2
      <3>3. CASE \E v \in Workers : Holding(v) /\ Carries(job[v].invoice, s, n)
        BY <1>4, <3>3
      <3>. QED
        BY <3>1, <3>2, <3>3 DEF GInv, Tidy, NoHoles
    <2>. QED
      BY <2>1, <2>2
  <1>7. FromOne'
    <2>1. job'[w].invoice.number >= 1
      BY <1>1, <1>2, <1>3 DEF Carries
    <2>. QED
      BY <1>3, <1>4, <2>1 DEF GInv, Tidy, FromOne
  <1>8. \A v \in Workers, i \in Nat : Tells(v, i)' <=> Tells(v, i)
    BY <1>1, <1>2 DEF Tells
  <1>9. \A i \in DOMAIN journal : i \in Nat
    BY DEF GInv, IInv, TypeOK
  <1>10. OneTeller'
    BY <1>3, <1>8, <1>9 DEF GInv, Tidy, OneTeller, ToldBy
  <1>11. GoneNumbers'
    <2> SUFFICES ASSUME NEW h \in lost.numbers
                 PROVE  /\ h.number <= counter'[h.series]
                        /\ \A i \in DOMAIN journal : HashOf(journal[i]) # h
                        /\ \A v \in Workers : Holding(v)' => HashOf(job'[v].invoice) # h
      BY <1>3 DEF GoneNumbers, HashOf
    <2>1. /\ h.series \in Series /\ h.number \in Nat /\ h.number <= counter[h.series]
          /\ \A i \in DOMAIN journal : HashOf(journal[i]) # h
          /\ \A v \in Workers : Holding(v) => HashOf(job[v].invoice) # h
      BY LostType DEF GInv, IInv, Tidy, GoneNumbers
    <2>2. h.number <= counter'[h.series]
      BY <1>3, <2>1
    <2>3. HashOf(next.invoice).series = series /\ HashOf(next.invoice).number = counter[series] + 1
      BY <1>1 DEF Carries, HashOf
    <2>4. HashOf(next.invoice) # h
      BY <1>3, <2>1, <2>3
    <2>. QED
      BY <1>2, <1>4, <2>1, <2>2, <2>4
  <1>12. GoneEvents'
    <2>1. \A i \in lost.events : i \in Nat
      BY LostType DEF GInv, IInv
    <2>. QED
      BY <1>3, <1>8, <2>1 DEF GInv, Tidy, GoneEvents, ToldBy
  <1>. QED
    BY <1>6, <1>7, <1>10, <1>11, <1>12 DEF Tidy

LEMMA AppendStep ==
    ASSUME GInv, NEW w \in Workers, AppendInvoice(w)
    PROVE  Tidy'
  <1> DEFINE here == Len(journal) + 1
             next == Telling("invoice.issued", job[w].invoice.quote, here)
  <1>1. Holding(w) /\ journal \in Seq(Invoice) /\ job[w].stage # "telling"
    BY DEF AppendInvoice, Holding, GInv, IInv, TypeOK
  <1>2. /\ job'[w] = next
        /\ \A v \in Workers : v # w => job'[v] = job[v]
    BY OthersKeep DEF AppendInvoice, GInv, IInv
  <1>3. /\ UNCHANGED <<counter, events, lost>> /\ here \in Nat
        /\ DOMAIN journal' = DOMAIN journal \cup {here} /\ here \notin DOMAIN journal
        /\ journal'[here] = job[w].invoice
        /\ \A i \in DOMAIN journal : journal'[i] = journal[i] /\ i \in Nat
    BY <1>1 DEF AppendInvoice
  <1>4. \A v \in Workers : /\ Holding(v)' => v # w /\ Holding(v) /\ job'[v] = job[v]
                           /\ v # w /\ Holding(v) => Holding(v)' /\ job'[v] = job[v]
    BY <1>2 DEF Holding, Telling
  <1>. HIDE DEF here
  <1>5. NoHoles'
    <2> SUFFICES ASSUME NEW s \in Series, NEW n \in 1..counter[s]
                 PROVE  \/ \E i \in DOMAIN journal' : Carries(journal'[i], s, n)
                        \/ \E v \in Workers : Holding(v)' /\ Carries(job'[v].invoice, s, n)
                        \/ IsLost(s, n)
      BY <1>3 DEF NoHoles, Carries, IsLost
    <2>1. CASE \E i \in DOMAIN journal : Carries(journal[i], s, n)
      BY <1>3, <2>1
    <2>2. ASSUME NEW v \in Workers, Holding(v), Carries(job[v].invoice, s, n)
          PROVE  \/ \E i \in DOMAIN journal' : Carries(journal'[i], s, n)
                 \/ \E u \in Workers : Holding(u)' /\ Carries(job'[u].invoice, s, n)
      <3>1. CASE v = w
        BY <1>3, <2>2, <3>1
      <3>2. CASE v # w
        BY <1>4, <2>2, <3>2
      <3>. QED
        BY <3>1, <3>2
    <2>. QED
      BY <2>1, <2>2 DEF GInv, Tidy, NoHoles
  <1>6. FromOne'
    BY <1>1, <1>3, <1>4 DEF GInv, Tidy, FromOne
  <1>7. \A v \in Workers, i \in Nat :
            Tells(v, i)' <=> (v = w /\ i = here) \/ (v # w /\ Tells(v, i))
    BY <1>2, <1>3 DEF Tells, Telling
  <1>8. \A i \in Nat : ~Tells(w, i)
    BY <1>1 DEF Tells
  <1>9. \A k \in DOMAIN events, i \in Nat : ToldBy(k, i)' <=> ToldBy(k, i)
    BY <1>3 DEF ToldBy
  <1>10. /\ \A k \in DOMAIN events : ~ToldBy(k, here)
         /\ \A v \in Workers : ~Tells(v, here)
    BY <1>3 DEF GInv, Tidy, OneTeller
  <1>11. OneTeller'
    <2>1. ASSUME NEW i \in DOMAIN journal'
          PROVE  \/ \E k \in DOMAIN events : ToldBy(k, i)'
                 \/ \E v \in Workers : Tells(v, i)'
                 \/ i \in lost.events
      <3>1. CASE i = here
        BY <1>3, <1>7, <3>1
      <3>2. CASE i # here
        <4>1. i \in DOMAIN journal /\ i \in Nat
          BY <1>3, <3>2
        <4>2. \/ \E k \in DOMAIN events : ToldBy(k, i)
              \/ \E v \in Workers : Tells(v, i)
              \/ i \in lost.events
          BY <4>1 DEF GInv, Tidy, OneTeller
        <4>. QED
          BY <1>7, <1>8, <1>9, <4>1, <4>2
      <3>. QED
        BY <3>1, <3>2
    <2>2. ASSUME NEW k \in DOMAIN events, NEW i \in Nat, ToldBy(k, i)'
          PROVE  /\ i \in DOMAIN journal'
                 /\ \A l \in DOMAIN events : ToldBy(l, i)' => l = k
                 /\ \A v \in Workers : ~Tells(v, i)'
      <3>1. ToldBy(k, i) /\ i # here
        BY <1>9, <1>10, <2>2
      <3>2. /\ i \in DOMAIN journal
            /\ \A l \in DOMAIN events : ToldBy(l, i) => l = k
            /\ \A v \in Workers : ~Tells(v, i)
        BY <3>1 DEF GInv, Tidy, OneTeller
      <3>. QED
        BY <1>3, <1>7, <1>9, <3>1, <3>2
    <2>3. ASSUME NEW v \in Workers, NEW i \in Nat, Tells(v, i)'
          PROVE  /\ i \in DOMAIN journal'
                 /\ \A u \in Workers : Tells(u, i)' => u = v
      <3>1. CASE v = w /\ i = here
        BY <1>3, <1>7, <1>10, <3>1
      <3>2. CASE ~(v = w /\ i = here)
        <4>1. v # w /\ Tells(v, i) /\ i # here
          BY <1>7, <1>10, <2>3, <3>2
        <4>2. i \in DOMAIN journal /\ \A u \in Workers : Tells(u, i) => u = v
          BY <4>1 DEF GInv, Tidy, OneTeller
        <4>. QED
          BY <1>3, <1>7, <4>1, <4>2
      <3>. QED
        BY <3>1, <3>2
    <2>. QED
      BY <1>3, <2>1, <2>2, <2>3 DEF OneTeller
  <1>12. GoneNumbers'
    <2>1. \A h \in lost.numbers : HashOf(job[w].invoice) # h
      BY <1>1 DEF GInv, Tidy, GoneNumbers
    <2>. QED
      BY <1>3, <1>4, <2>1 DEF GInv, Tidy, GoneNumbers, HashOf
  <1>13. GoneEvents'
    <2> SUFFICES ASSUME NEW i \in lost.events
                 PROVE  /\ i \in DOMAIN journal'
                        /\ \A k \in DOMAIN events : ~ToldBy(k, i)'
                        /\ \A v \in Workers : ~Tells(v, i)'
      BY <1>3 DEF GoneEvents
    <2>1. /\ i \in Nat /\ i \in DOMAIN journal
          /\ \A k \in DOMAIN events : ~ToldBy(k, i)
          /\ \A v \in Workers : ~Tells(v, i)
      BY LostType DEF GInv, IInv, Tidy, GoneEvents
    <2>. QED
      BY <1>3, <1>7, <1>9, <2>1
  <1>. QED
    BY <1>5, <1>6, <1>11, <1>12, <1>13 DEF Tidy

LEMMA TellStep ==
    ASSUME GInv, NEW w \in Workers, Tell(w)
    PROVE  Tidy'
  <1> DEFINE last == Len(events) + 1
  <1>1. /\ job'[w] = Idle /\ \A v \in Workers : v # w => job'[v] = job[v]
        /\ UNCHANGED <<counter, journal, lost>> /\ job[w].stage = "telling"
    BY OthersKeep DEF Tell, GInv, IInv
  <1>2. events \in Seq(Event)
    BY DEF GInv, IInv, TypeOK
  <1>3. /\ DOMAIN events' = DOMAIN events \cup {last} /\ last \notin DOMAIN events
        /\ events'[last] = job[w].event
        /\ \A k \in DOMAIN events : events'[k] = events[k]
    BY <1>2 DEF Tell
  <1>. HIDE DEF last
  <1>4. \A v \in Workers : /\ Holding(v)' <=> Holding(v)
                           /\ Holding(v) => job'[v] = job[v]
    BY <1>1 DEF Holding, Idle
  <1>5. NoHoles' /\ FromOne'
    BY <1>1, <1>4 DEF GInv, Tidy, NoHoles, FromOne, Carries, IsLost
  <1>6. \A v \in Workers, i \in Nat : Tells(v, i)' <=> v # w /\ Tells(v, i)
    BY <1>1 DEF Tells, Idle
  <1>7. \A k \in DOMAIN events', i \in Nat :
            ToldBy(k, i)' <=> IF k = last THEN Tells(w, i) ELSE ToldBy(k, i)
    BY <1>1, <1>3 DEF ToldBy, Tells
  <1>8. \A i \in DOMAIN journal : i \in Nat
    BY DEF GInv, IInv, TypeOK
  <1>9. OneTeller'
    <2>1. ASSUME NEW i \in DOMAIN journal
          PROVE  \/ \E k \in DOMAIN events' : ToldBy(k, i)'
                 \/ \E v \in Workers : Tells(v, i)'
                 \/ i \in lost.events
      <3>1. CASE Tells(w, i)
        BY <1>3, <1>7, <1>8, <3>1
      <3>2. CASE ~Tells(w, i)
        <4>1. \/ \E k \in DOMAIN events : ToldBy(k, i)
              \/ \E v \in Workers : v # w /\ Tells(v, i)
              \/ i \in lost.events
          BY <3>2 DEF GInv, Tidy, OneTeller
        <4>. QED
          BY <1>3, <1>6, <1>7, <1>8, <4>1
      <3>. QED
        BY <3>1, <3>2
    <2>2. ASSUME NEW k \in DOMAIN events', NEW i \in Nat, ToldBy(k, i)'
          PROVE  /\ i \in DOMAIN journal
                 /\ \A l \in DOMAIN events' : ToldBy(l, i)' => l = k
                 /\ \A v \in Workers : ~Tells(v, i)'
      <3>1. CASE k = last
        <4>1. Tells(w, i)
          BY <1>7, <2>2, <3>1
        <4>2. /\ i \in DOMAIN journal
              /\ \A v \in Workers : Tells(v, i) => v = w
              /\ \A l \in DOMAIN events : ~ToldBy(l, i)
          BY <4>1 DEF GInv, Tidy, OneTeller
        <4>. QED
          BY <1>3, <1>6, <1>7, <3>1, <4>2
      <3>2. CASE k # last
        <4>1. k \in DOMAIN events /\ ToldBy(k, i)
          BY <1>3, <1>7, <2>2, <3>2
        <4>2. /\ i \in DOMAIN journal
              /\ \A v \in Workers : ~Tells(v, i)
              /\ \A l \in DOMAIN events : ToldBy(l, i) => l = k
          BY <4>1 DEF GInv, Tidy, OneTeller
        <4>. QED
          BY <1>3, <1>6, <1>7, <4>2
      <3>. QED
        BY <3>1, <3>2
    <2>3. ASSUME NEW v \in Workers, NEW i \in Nat, Tells(v, i)'
          PROVE  /\ i \in DOMAIN journal
                 /\ \A u \in Workers : Tells(u, i)' => u = v
      BY <1>6, <2>3 DEF GInv, Tidy, OneTeller
    <2>. QED
      BY <1>1, <2>1, <2>2, <2>3 DEF OneTeller
  <1>10. GoneNumbers'
    BY <1>1, <1>4 DEF GInv, Tidy, GoneNumbers, HashOf
  <1>11. GoneEvents'
    <2> SUFFICES ASSUME NEW i \in lost.events
                 PROVE  /\ i \in DOMAIN journal
                        /\ \A k \in DOMAIN events' : ~ToldBy(k, i)'
                        /\ \A v \in Workers : ~Tells(v, i)'
      BY <1>1 DEF GoneEvents
    <2>1. /\ i \in Nat /\ i \in DOMAIN journal
          /\ \A k \in DOMAIN events : ~ToldBy(k, i)
          /\ \A v \in Workers : ~Tells(v, i)
      BY LostType DEF GInv, IInv, Tidy, GoneEvents
    <2>. QED
      BY <1>3, <1>6, <1>7, <2>1
  <1>. QED
    BY <1>5, <1>9, <1>10, <1>11 DEF Tidy

LEMMA CrashStep ==
    ASSUME GInv, NEW w \in Workers, Crash(w)
    PROVE  Tidy'
  <1>1. /\ job'[w] = Idle /\ \A v \in Workers : v # w => job'[v] = job[v]
        /\ UNCHANGED <<counter, journal, events>>
    BY OthersKeep DEF Crash, GInv, IInv
  <1>2. /\ lost'.numbers = lost.numbers \cup
               IF Holding(w) THEN {HashOf(job[w].invoice)} ELSE {}
        /\ lost'.events = lost.events \cup
               IF TellsInvoice(w) THEN {job[w].event.invoice} ELSE {}
    BY DEF Crash
  <1>3. \A v \in Workers : /\ Holding(v)' <=> v # w /\ Holding(v)
                           /\ v # w => job'[v] = job[v]
    BY <1>1 DEF Holding, Idle
  <1>4. \A v \in Workers, i \in Nat : Tells(v, i)' <=> v # w /\ Tells(v, i)
    BY <1>1 DEF Tells, Idle
  <1>5. \A i \in Nat : Tells(w, i) <=> TellsInvoice(w) /\ job[w].event.invoice = i
    BY DEF Tells, TellsInvoice
  <1>6. \A i \in lost'.events : i \in lost.events \/ Tells(w, i)
    BY <1>2 DEF Tells, TellsInvoice
  <1>7. NoHoles'
    <2> SUFFICES ASSUME NEW s \in Series, NEW n \in 1..counter[s]
                 PROVE  \/ \E i \in DOMAIN journal : Carries(journal[i], s, n)
                        \/ \E v \in Workers : Holding(v)' /\ Carries(job'[v].invoice, s, n)
                        \/ [series |-> s, number |-> n] \in lost'.numbers
      BY <1>1 DEF NoHoles, Carries, IsLost
    <2>1. CASE \E i \in DOMAIN journal : Carries(journal[i], s, n)
      BY <2>1
    <2>2. ASSUME NEW v \in Workers, Holding(v), Carries(job[v].invoice, s, n)
          PROVE  \/ \E u \in Workers : Holding(u)' /\ Carries(job'[u].invoice, s, n)
                 \/ [series |-> s, number |-> n] \in lost'.numbers
      <3>1. CASE v = w
        BY <1>2, <2>2, <3>1 DEF HashOf, Carries
      <3>2. CASE v # w
        BY <1>3, <2>2, <3>2
      <3>. QED
        BY <3>1, <3>2
    <2>3. CASE IsLost(s, n)
      BY <1>2, <2>3 DEF IsLost
    <2>. QED
      BY <2>1, <2>2, <2>3 DEF GInv, Tidy, NoHoles
  <1>8. FromOne'
    BY <1>1, <1>3 DEF GInv, Tidy, FromOne
  <1>9. GoneNumbers'
    <2> SUFFICES ASSUME NEW h \in lost'.numbers
                 PROVE  /\ h.number <= counter[h.series]
                        /\ \A i \in DOMAIN journal : HashOf(journal[i]) # h
                        /\ \A v \in Workers : Holding(v)' => HashOf(job'[v].invoice) # h
      BY <1>1 DEF GoneNumbers, HashOf
    <2>1. CASE h \in lost.numbers
      BY <1>3, <2>1 DEF GInv, Tidy, GoneNumbers
    <2>2. CASE h \notin lost.numbers
      <3>1. Holding(w) /\ h = HashOf(job[w].invoice)
        BY <1>2, <2>2
      <3>2. h.number = job[w].invoice.number /\ h.series = job[w].invoice.series
        BY <3>1 DEF HashOf
      <3>3. h.number <= counter[h.series]
        BY <3>1, <3>2 DEF GInv, IInv, Counted
      <3>4. \A i \in DOMAIN journal : ~SameNumber(job[w].invoice, journal[i])
        BY <3>1 DEF GInv, IInv, Distinct
      <3>5. \A v \in Workers : v # w /\ Holding(v) => ~SameNumber(job[v].invoice, job[w].invoice)
        BY <3>1 DEF GInv, IInv, Distinct
      <3>6. \A i \in DOMAIN journal : HashOf(journal[i]) # h
        BY <3>1, <3>4, SameHash
      <3>7. \A v \in Workers : v # w /\ Holding(v) => HashOf(job[v].invoice) # h
        BY <3>1, <3>5, SameHash
      <3>. QED
        BY <1>3, <3>3, <3>6, <3>7
    <2>. QED
      BY <2>1, <2>2
  <1>10. OneTeller'
    <2>1. \A i \in DOMAIN journal : i \in Nat
      BY DEF GInv, IInv, TypeOK
    <2>2. ASSUME NEW i \in DOMAIN journal
          PROVE  \/ \E k \in DOMAIN events : ToldBy(k, i)'
                 \/ \E v \in Workers : Tells(v, i)'
                 \/ i \in lost'.events
      <3>1. \/ \E k \in DOMAIN events : ToldBy(k, i)
            \/ \E v \in Workers : v # w /\ Tells(v, i)
            \/ Tells(w, i)
            \/ i \in lost.events
        BY DEF GInv, Tidy, OneTeller
      <3>2. Tells(w, i) => i \in lost'.events
        BY <1>2, <1>5, <2>1
      <3>. QED
        BY <1>1, <1>2, <1>4, <2>1, <3>1, <3>2 DEF ToldBy
    <2>. QED
      BY <1>1, <1>4, <2>2 DEF GInv, Tidy, OneTeller, ToldBy
  <1>11. GoneEvents'
    <2> SUFFICES ASSUME NEW i \in lost'.events
                 PROVE  /\ i \in DOMAIN journal
                        /\ \A k \in DOMAIN events : ~ToldBy(k, i)
                        /\ \A v \in Workers : ~Tells(v, i)'
      BY <1>1 DEF GoneEvents, ToldBy
    <2>1. CASE i \in lost.events
      <3>1. i \in Nat
        BY <2>1, LostType DEF GInv, IInv
      <3>. QED
        BY <1>4, <2>1, <3>1 DEF GInv, Tidy, GoneEvents
    <2>2. CASE i \notin lost.events
      <3>1. Tells(w, i)
        BY <1>6, <2>2
      <3>2. i \in Nat
        BY <3>1, TellingType DEF Tells, Event, GInv, IInv
      <3>3. /\ i \in DOMAIN journal
            /\ \A v \in Workers : Tells(v, i) => v = w
            /\ \A k \in DOMAIN events : ~ToldBy(k, i)
        BY <3>1, <3>2 DEF GInv, Tidy, OneTeller
      <3>. QED
        BY <1>4, <3>2, <3>3
    <2>. QED
      BY <2>1, <2>2
  <1>. QED
    BY <1>7, <1>8, <1>9, <1>10, <1>11 DEF Tidy


LEMMA NextGInv == GInv /\ [Next]_vars => GInv'
  <1> SUFFICES ASSUME GInv, [Next]_vars PROVE GInv'
    OBVIOUS
  <1>1. IInv'
    BY NextIInv DEF GInv
  <1>2. ASSUME NEW w \in Workers, Step(w) PROVE Tidy'
    <2>1. ASSUME NEW next, Become(w, next), job[w].stage \in {"idle", "loaded"},
                 next.stage \in {"idle", "loaded", "telling"},
                 next.stage = "telling" => next.event.type # "invoice.issued",
                 UNCHANGED <<counter, journal, events, lost>>
          PROVE  Tidy'
      BY <2>1, QuietStep DEF Holding
    <2>2. ASSUME NEW q \in Quotes, Create(w, q)
          PROVE  Tidy'
      BY <2>1, <2>2 DEF Create, Telling, Idle
    <2>3. ASSUME NEW q \in Quotes, SaveRevision(w, q)
          PROVE  Tidy'
      BY <2>1, <2>3 DEF SaveRevision, HasLoaded, Telling
    <2>4. ASSUME NEW q \in Quotes, NEW op \in {"addLine", "accept", "revise", "issue"},
                 Load(w, op, q)
          PROVE  Tidy'
      BY <2>1, <2>4 DEF Load, Idle
    <2>5. ASSUME NEW line \in Lines, SaveLine(w, line)
          PROVE  Tidy'
      BY <2>1, <2>5 DEF SaveLine, HasLoaded, Idle
    <2>6. ASSUME NEW chosen \in SUBSET Optional, SaveAccepted(w, chosen)
          PROVE  Tidy'
      BY <2>1, <2>6 DEF SaveAccepted, HasLoaded, Telling
    <2>7. CASE IssueFromQuote(w) \/ \E i \in DOMAIN journal : Rectify(w, i)
      <3>1. ~Holding(w) /\ job[w].stage # "telling"
        BY <2>7 DEF IssueFromQuote, Rectify, HasLoaded, Holding, Idle
      <3>. QED
        BY <2>7, <3>1, NumberStep DEF IssueFromQuote, Rectify, Series
    <2>8. CASE ReadHead(w)
      BY <2>8, QuietStep DEF ReadHead, Holding, SameNumber
    <2>9. CASE Seal(w)
      <3> DEFINE sealed == [job[w].invoice EXCEPT !.seq = job[w].head.seq + 1,
                                                  !.prev = job[w].head.hash]
      <3>1. job[w].invoice \in Invoice
        BY <2>9, LinkingType DEF Seal, GInv, IInv
      <3>2. SameNumber(sealed, job[w].invoice)
        BY <3>1 DEF SameNumber, Invoice
      <3>. QED
        BY <2>9, <3>2, QuietStep DEF Seal, Holding
    <2>10. CASE AppendInvoice(w)
      BY <2>10, AppendStep
    <2>11. CASE Tell(w)
      BY <2>11, TellStep
    <2>12. CASE Crash(w)
      BY <2>12, CrashStep
    <2>. QED
      BY <1>2, <2>2, <2>3, <2>4, <2>5, <2>6, <2>7, <2>8, <2>9, <2>10, <2>11, <2>12 DEF Step
  <1>3. CASE UNCHANGED vars
    BY <1>1, <1>3 DEF vars, GInv, Tidy, NoHoles, FromOne, OneTeller, GoneNumbers, GoneEvents,
                       Holding, HashOf, Carries, IsLost, Tells, ToldBy
  <1>. QED
    BY <1>1, <1>2, <1>3 DEF Next, GInv

-----------------------------------------------------------------------------
(* Seals: what a seal follows was made.  It is in the journal, in the hands *)
(* of a worker that has not appended it yet, or went with one that died.    *)

Stamped(hash, seq) ==
    \/ hash = Null /\ seq = 0
    \/ hash \in lost.numbers
    \/ \E i \in DOMAIN journal : HashOf(journal[i]) = hash /\ journal[i].seq = seq
    \/ \E w \in Workers : /\ job[w].stage = "sealed"
                          /\ HashOf(job[w].invoice) = hash /\ job[w].invoice.seq = seq

Follows(invoice) == Stamped(invoice.prev, invoice.seq - 1)

Seals ==
    /\ Stamped(head.hash, head.seq)
    /\ \A w \in Workers : job[w].stage = "linking" => Stamped(job[w].head.hash, job[w].head.seq)
    /\ \A w \in Workers : job[w].stage = "sealed" => Follows(job[w].invoice)
    /\ \A i \in DOMAIN journal : Follows(journal[i])

\* A seal that was made stays made, unless its worker drops it and it is not lost.
LEMMA StampedKept ==
    ASSUME TypeOK, NEW w \in Workers, NEW next, Become(w, next),
           lost.numbers \subseteq lost'.numbers,
           \/ UNCHANGED journal
           \/ journal' = Append(journal, job[w].invoice) /\ job[w].invoice \in Invoice,
           job[w].stage = "sealed" =>
               \/ HashOf(job[w].invoice) \in lost'.numbers
               \/ journal' = Append(journal, job[w].invoice) /\ job[w].invoice \in Invoice,
           NEW hash, NEW seq, Stamped(hash, seq)
    PROVE  Stamped(hash, seq)'
  <1>1. \A v \in Workers : v # w => job'[v] = job[v]
    BY OthersKeep
  <1>2. journal \in Seq(Invoice)
    BY DEF TypeOK
  <1>3. /\ DOMAIN journal \subseteq DOMAIN journal'
        /\ \A i \in DOMAIN journal : journal'[i] = journal[i]
    BY <1>2
  <1>4. ASSUME journal' = Append(journal, job[w].invoice), job[w].invoice \in Invoice
        PROVE  Len(journal) + 1 \in DOMAIN journal' /\ journal'[Len(journal) + 1] = job[w].invoice
    BY <1>2, <1>4
  <1>5. CASE hash = Null /\ seq = 0
    BY <1>5 DEF Stamped
  <1>6. CASE hash \in lost.numbers
    BY <1>6 DEF Stamped
  <1>7. ASSUME NEW i \in DOMAIN journal, HashOf(journal[i]) = hash, journal[i].seq = seq
        PROVE  Stamped(hash, seq)'
    <2>1. i \in DOMAIN journal' /\ HashOf(journal'[i]) = hash /\ journal'[i].seq = seq
      BY <1>3, <1>7
    <2>. QED
      BY <2>1 DEF Stamped, HashOf
  <1>8. ASSUME NEW v \in Workers, job[v].stage = "sealed",
               HashOf(job[v].invoice) = hash, job[v].invoice.seq = seq
        PROVE  Stamped(hash, seq)'
    <2>1. CASE v # w
      <3>1. job'[v] = job[v]
        BY <1>1, <2>1
      <3>. QED
        BY <1>8, <3>1 DEF Stamped, HashOf
    <2>2. CASE v = w /\ hash \in lost'.numbers
      BY <2>2 DEF Stamped
    <2>3. CASE v = w /\ hash \notin lost'.numbers
      <3>1. journal' = Append(journal, job[w].invoice) /\ job[w].invoice \in Invoice
        BY <1>8, <2>3
      <3>2. PICK i \in DOMAIN journal' : journal'[i] = job[w].invoice
        BY <1>4, <3>1
      <3>. QED
        BY <1>8, <2>3, <3>2 DEF Stamped, HashOf
    <2>. QED
      BY <2>1, <2>2, <2>3
  <1>. QED
    BY <1>5, <1>6, <1>7, <1>8 DEF Stamped

\* A step that appends nothing: the worker goes on with a seal that follows.
LEMMA SealsKept ==
    ASSUME TypeOK, Seals, NEW w \in Workers, NEW next, Become(w, next),
           \A hash, seq : Stamped(hash, seq) => Stamped(hash, seq)',
           UNCHANGED journal,
           Stamped(head.hash, head.seq)',
           next.stage = "linking" => Stamped(next.head.hash, next.head.seq)',
           next.stage = "sealed" => Stamped(next.invoice.prev, next.invoice.seq - 1)'
    PROVE  Seals'
  <1>1. /\ job'[w] = next
        /\ \A v \in Workers : v # w => job'[v] = job[v]
    BY OthersKeep
  <1>2. ASSUME NEW v \in Workers, job'[v].stage = "linking"
        PROVE  Stamped(job[v].head.hash, job[v].head.seq)'
    <2>1. CASE v = w
      BY <1>1, <1>2, <2>1 DEF Stamped
    <2>2. CASE v # w
      <3>1. job'[v] = job[v]
        BY <1>1, <2>2
      <3>2. Stamped(job[v].head.hash, job[v].head.seq)
        BY <1>2, <3>1 DEF Seals
      <3>3. PICK hash, seq : hash = job[v].head.hash /\ seq = job[v].head.seq
        OBVIOUS
      <3>4. Stamped(hash, seq)'
        BY <3>2, <3>3
      <3>. QED
        BY <3>1, <3>3, <3>4 DEF Stamped
    <2>. QED
      BY <2>1, <2>2
  <1>3. ASSUME NEW v \in Workers, job'[v].stage = "sealed"
        PROVE  Follows(job[v].invoice)'
    <2>1. CASE v = w
      BY <1>1, <1>3, <2>1 DEF Stamped, Follows
    <2>2. CASE v # w
      <3>1. job'[v] = job[v]
        BY <1>1, <2>2
      <3>2. Stamped(job[v].invoice.prev, job[v].invoice.seq - 1)
        BY <1>3, <3>1 DEF Seals, Follows
      <3>3. PICK hash, seq : hash = job[v].invoice.prev /\ seq = job[v].invoice.seq - 1
        OBVIOUS
      <3>4. Stamped(hash, seq)'
        BY <3>2, <3>3
      <3>. QED
        BY <3>1, <3>3, <3>4 DEF Stamped, Follows
    <2>. QED
      BY <2>1, <2>2
  <1>4. ASSUME NEW i \in DOMAIN journal
        PROVE  Follows(journal[i])'
    <2>1. Stamped(journal[i].prev, journal[i].seq - 1)
      BY DEF Seals, Follows
    <2>2. PICK hash, seq : hash = journal[i].prev /\ seq = journal[i].seq - 1
      OBVIOUS
    <2>3. Stamped(hash, seq)'
      BY <2>1, <2>2
    <2>. QED
      BY <2>2, <2>3 DEF Stamped, Follows
  <1>. QED
    BY <1>2, <1>3, <1>4 DEF Seals

\* The journal takes over the seal of the worker that appends it.
LEMMA AppendSeals ==
    ASSUME TypeOK, Seals, NEW w \in Workers, AppendInvoice(w)
    PROVE  Seals'
  <1> DEFINE next == Telling("invoice.issued", job[w].invoice.quote, Len(journal) + 1)
  <1>1. /\ job[w].stage = "sealed" /\ Become(w, next) /\ next.stage = "telling"
        /\ journal' = Append(journal, job[w].invoice) /\ UNCHANGED <<head, lost>>
    BY DEF AppendInvoice, Telling
  <1>. HIDE DEF next
  <1>2. job[w].invoice \in Invoice /\ journal \in Seq(Invoice)
    BY <1>1, NumberedType DEF TypeOK
  <1>3. /\ job'[w] = next
        /\ \A v \in Workers : v # w => job'[v] = job[v]
    BY <1>1, OthersKeep
  <1>4. ASSUME NEW hash, NEW seq, Stamped(hash, seq) PROVE Stamped(hash, seq)'
    BY <1>1, <1>2, <1>4, StampedKept
  <1>5. /\ \A i \in DOMAIN journal' : \/ i \in DOMAIN journal /\ journal'[i] = journal[i]
                                      \/ journal'[i] = job[w].invoice
    BY <1>1, <1>2
  <1>6. Stamped(head.hash, head.seq)'
    <2>1. PICK hash, seq : hash = head.hash /\ seq = head.seq
      OBVIOUS
    <2>2. Stamped(hash, seq)'
      BY <1>4, <2>1 DEF Seals
    <2>. QED
      BY <1>1, <2>1, <2>2 DEF Stamped
  <1>7. ASSUME NEW v \in Workers, job'[v].stage = "linking"
        PROVE  Stamped(job[v].head.hash, job[v].head.seq)'
    <2>1. job'[v] = job[v]
      BY <1>1, <1>3, <1>7
    <2>2. PICK hash, seq : hash = job[v].head.hash /\ seq = job[v].head.seq
      OBVIOUS
    <2>3. Stamped(hash, seq)'
      BY <1>4, <1>7, <2>1, <2>2 DEF Seals
    <2>. QED
      BY <2>1, <2>2, <2>3 DEF Stamped
  <1>8. ASSUME NEW v \in Workers, job'[v].stage = "sealed"
        PROVE  Follows(job[v].invoice)'
    <2>1. job'[v] = job[v]
      BY <1>1, <1>3, <1>8
    <2>2. PICK hash, seq : hash = job[v].invoice.prev /\ seq = job[v].invoice.seq - 1
      OBVIOUS
    <2>3. Stamped(hash, seq)'
      BY <1>4, <1>8, <2>1, <2>2 DEF Seals, Follows
    <2>. QED
      BY <2>1, <2>2, <2>3 DEF Stamped, Follows
  <1>9. ASSUME NEW i \in DOMAIN journal' PROVE Follows(journal[i])'
    <2>1. PICK invoice : invoice = journal'[i]
      OBVIOUS
    <2>2. Follows(invoice)
      BY <1>1, <1>5, <2>1 DEF Seals
    <2>3. PICK hash, seq : hash = invoice.prev /\ seq = invoice.seq - 1
      OBVIOUS
    <2>4. Stamped(hash, seq)'
      BY <1>4, <2>2, <2>3 DEF Follows
    <2>. QED
      BY <2>1, <2>3, <2>4 DEF Stamped, Follows
  <1>. QED
    BY <1>6, <1>7, <1>8, <1>9 DEF Seals

LEMMA StepSeals == ASSUME TypeOK, Seals, NEW w \in Workers, Step(w) PROVE Seals'
  <1>1. ASSUME NEW next, Become(w, next), job[w].stage # "sealed",
               next.stage \notin {"linking", "sealed"},
               UNCHANGED <<head, journal, lost>>
        PROVE  Seals'
    <2>1. \A hash, seq : Stamped(hash, seq) => Stamped(hash, seq)'
      BY <1>1, StampedKept
    <2>2. PICK hash, seq : hash = head.hash /\ seq = head.seq
      OBVIOUS
    <2>3. Stamped(hash, seq)'
      BY <2>1, <2>2 DEF Seals
    <2>4. Stamped(head.hash, head.seq)'
      BY <1>1, <2>2, <2>3 DEF Stamped
    <2>. QED
      BY <1>1, <2>1, <2>4, SealsKept
  <1>2. ASSUME NEW q \in Quotes, Create(w, q) PROVE Seals'
    BY <1>1, <1>2 DEF Create, Telling, Idle
  <1>3. ASSUME NEW q \in Quotes, SaveRevision(w, q) PROVE Seals'
    BY <1>1, <1>3 DEF SaveRevision, HasLoaded, Telling
  <1>4. ASSUME NEW q \in Quotes, NEW op \in {"addLine", "accept", "revise", "issue"},
               Load(w, op, q)
        PROVE  Seals'
    BY <1>1, <1>4 DEF Load, Idle
  <1>5. ASSUME NEW line \in Lines, SaveLine(w, line) PROVE Seals'
    BY <1>1, <1>5 DEF SaveLine, HasLoaded, Idle
  <1>6. ASSUME NEW chosen \in SUBSET Optional, SaveAccepted(w, chosen) PROVE Seals'
    BY <1>1, <1>6 DEF SaveAccepted, HasLoaded, Telling
  <1>7. CASE IssueFromQuote(w)
    BY <1>1, <1>7 DEF IssueFromQuote, HasLoaded, Number
  <1>8. ASSUME NEW i \in DOMAIN journal, Rectify(w, i) PROVE Seals'
    BY <1>1, <1>8 DEF Rectify, Number, Idle
  <1>9. CASE ReadHead(w)
    <2> DEFINE next == [stage |-> "linking", invoice |-> job[w].invoice, head |-> head]
    <2>1. /\ Become(w, next) /\ job[w].stage = "numbered" /\ next.stage = "linking"
          /\ next.head = head /\ UNCHANGED <<head, journal, lost>>
      BY <1>9 DEF ReadHead
    <2>. HIDE DEF next
    <2>2. \A hash, seq : Stamped(hash, seq) => Stamped(hash, seq)'
      BY <2>1, StampedKept
    <2>3. PICK hash, seq : hash = head.hash /\ seq = head.seq
      OBVIOUS
    <2>4. Stamped(hash, seq)'
      BY <2>2, <2>3 DEF Seals
    <2>5. Stamped(head.hash, head.seq)'
      BY <2>1, <2>3, <2>4 DEF Stamped
    <2>6. PICK n : n = next
      OBVIOUS
    <2>7. Become(w, n) /\ n.stage = "linking" /\ n.head = head
      BY <2>1, <2>6
    <2>8. Stamped(n.head.hash, n.head.seq)'
      BY <2>3, <2>4, <2>7 DEF Stamped
    <2>. QED
      BY <2>1, <2>2, <2>5, <2>7, <2>8, SealsKept
  <1>10. CASE Seal(w)
    <2> DEFINE sealed == [job[w].invoice EXCEPT !.seq = job[w].head.seq + 1,
                                                !.prev = job[w].head.hash]
    <2>1. /\ Become(w, [stage |-> "sealed", invoice |-> sealed])
          /\ job[w].stage = "linking" /\ UNCHANGED <<journal, lost>>
          /\ head' = [seq |-> job[w].head.seq + 1, hash |-> HashOf(job[w].invoice)]
      BY <1>10 DEF Seal
    <2>2. job[w].invoice \in Invoice /\ job[w].head.seq \in Nat
      BY <2>1, LinkingType DEF ChainHead
    <2>3. /\ sealed.seq = job[w].head.seq + 1 /\ sealed.prev = job[w].head.hash
          /\ HashOf(sealed) = HashOf(job[w].invoice)
      BY <2>2 DEF Invoice, HashOf
    <2>4. sealed.seq - 1 = job[w].head.seq
      <3>1. PICK k \in Nat : k = job[w].head.seq
        BY <2>2
      <3>2. sealed.seq = k + 1
        BY <2>3, <3>1
      <3>. QED
        BY <3>1, <3>2
    <2>5. PICK n : n = [stage |-> "sealed", invoice |-> sealed]
      OBVIOUS
    <2>6. Become(w, n) /\ n.stage = "sealed" /\ n.invoice = sealed
      BY <2>1, <2>5
    <2>. HIDE DEF sealed
    <2>7. \A hash, seq : Stamped(hash, seq) => Stamped(hash, seq)'
      BY <2>1, StampedKept
    <2>8. PICK hash, seq : hash = job[w].head.hash /\ seq = job[w].head.seq
      OBVIOUS
    <2>9. Stamped(hash, seq)'
      BY <2>1, <2>7, <2>8 DEF Seals
    <2>10. n.invoice.prev = hash /\ n.invoice.seq - 1 = seq
      BY <2>3, <2>4, <2>6, <2>8
    <2>11. Stamped(n.invoice.prev, n.invoice.seq - 1)'
      BY <2>9, <2>10 DEF Stamped
    <2>12. job'[w] = n
      BY <2>6, OthersKeep
    <2>13. Stamped(head.hash, head.seq)'
      <3>1. job'[w].stage = "sealed" /\ job'[w].invoice = sealed
        BY <2>6, <2>12
      <3>2. head'.hash = HashOf(sealed) /\ head'.seq = sealed.seq
        BY <2>1, <2>3
      <3>. QED
        BY <3>1, <3>2 DEF Stamped, HashOf
    <2>. QED
      BY <2>1, <2>6, <2>7, <2>11, <2>13, SealsKept
  <1>11. CASE AppendInvoice(w)
    BY <1>11, AppendSeals
  <1>12. CASE Tell(w)
    BY <1>1, <1>12 DEF Tell, Idle
  <1>13. CASE Crash(w)
    <2>1. /\ Become(w, Idle) /\ Idle.stage = "idle" /\ UNCHANGED <<head, journal>>
          /\ lost.numbers \subseteq lost'.numbers
          /\ job[w].stage = "sealed" => HashOf(job[w].invoice) \in lost'.numbers
      BY <1>13 DEF Crash, Holding, Idle
    <2>2. \A hash, seq : Stamped(hash, seq) => Stamped(hash, seq)'
      BY <2>1, StampedKept
    <2>3. PICK hash, seq : hash = head.hash /\ seq = head.seq
      OBVIOUS
    <2>4. Stamped(hash, seq)'
      BY <2>2, <2>3 DEF Seals
    <2>5. Stamped(head.hash, head.seq)'
      BY <2>1, <2>3, <2>4 DEF Stamped
    <2>. QED
      BY <2>1, <2>2, <2>5, SealsKept
  <1>. QED
    BY <1>2, <1>3, <1>4, <1>5, <1>6, <1>7, <1>8, <1>9, <1>10, <1>11, <1>12, <1>13 DEF Step

LEMMA RestTells ==
    ASSUME GInv, Seals
    PROVE  JournalTells
  <1>1. ASSUME AtRest PROVE \A w \in Workers : /\ ~Holding(w) /\ job[w].stage = "idle"
                                               /\ \A i \in Nat : ~Tells(w, i)
    BY <1>1 DEF AtRest, Holding, Tells, Idle
  <1>2. HolesAreOfTheLost
    <2> SUFFICES ASSUME AtRest, NEW s \in Series, NEW n \in 1..counter[s]
                 PROVE  (\E i \in DOMAIN journal : journal[i].series = s /\ journal[i].number = n)
                            <=> [series |-> s, number |-> n] \notin lost.numbers
      BY DEF HolesAreOfTheLost
    <2>1. \/ \E i \in DOMAIN journal : Carries(journal[i], s, n)
          \/ IsLost(s, n)
      BY <1>1 DEF GInv, Tidy, NoHoles
    <2>2. ASSUME NEW i \in DOMAIN journal, journal[i].series = s, journal[i].number = n
          PROVE  [series |-> s, number |-> n] \notin lost.numbers
      BY <2>2 DEF GInv, Tidy, GoneNumbers, HashOf
    <2>. QED
      BY <2>1, <2>2 DEF Carries, IsLost
  <1>3. EveryInvoiceIsTold
    <2> SUFFICES ASSUME AtRest, NEW i \in DOMAIN journal
                 PROVE  Cardinality({k \in DOMAIN events : ToldBy(k, i)})
                            = IF i \in lost.events THEN 0 ELSE 1
      BY DEF EveryInvoiceIsTold, ToldBy
    <2>1. CASE i \in lost.events
      <3>1. {k \in DOMAIN events : ToldBy(k, i)} = {}
        BY <2>1 DEF GInv, Tidy, GoneEvents
      <3>. QED
        BY <2>1, <3>1, FS_EmptySet
    <2>2. CASE i \notin lost.events
      <3>1. i \in Nat
        BY DEF GInv, IInv, TypeOK
      <3>2. PICK k \in DOMAIN events : ToldBy(k, i)
        BY <1>1, <2>2, <3>1 DEF GInv, Tidy, OneTeller
      <3>3. \A l \in DOMAIN events : ToldBy(l, i) => l = k
        BY <3>1, <3>2 DEF GInv, Tidy, OneTeller
      <3>4. {l \in DOMAIN events : ToldBy(l, i)} = {k}
        BY <3>2, <3>3
      <3>. QED
        BY <2>2, <3>4, FS_Singleton
    <2>. QED
      BY <2>1, <2>2
  <1>4. SealsFollow
    <2> SUFFICES ASSUME AtRest, NEW i \in DOMAIN journal
                 PROVE  IF journal[i].prev = Null THEN journal[i].seq = 1
                        ELSE \/ journal[i].prev \in lost.numbers
                             \/ \E j \in DOMAIN journal :
                                    /\ HashOf(journal[j]) = journal[i].prev
                                    /\ journal[j].seq = journal[i].seq - 1
      BY DEF SealsFollow
    <2>1. \/ journal[i].prev = Null /\ journal[i].seq - 1 = 0
          \/ journal[i].prev \in lost.numbers
          \/ \E j \in DOMAIN journal : /\ HashOf(journal[j]) = journal[i].prev
                                       /\ journal[j].seq = journal[i].seq - 1
      BY <1>1 DEF Seals, Follows, Stamped
    <2>2. Null \notin lost.numbers
      BY DEF GInv, IInv, TypeOK
    <2>3. \A j \in DOMAIN journal : HashOf(journal[j]) # Null
      <3>1. ASSUME NEW j \in DOMAIN journal PROVE journal[j].series \in Series
        BY InvoiceFields DEF GInv, IInv, TypeOK
      <3>2. ASSUME NEW j \in DOMAIN journal PROVE HashOf(journal[j]).series # Null.series
        BY <3>1 DEF HashOf, Null, Series
      <3>. QED
        BY <3>2
    <2>4. journal[i].seq \in Nat
      <3>1. journal[i] \in Invoice
        BY DEF GInv, IInv, TypeOK
      <3>. QED
        BY <3>1 DEF Invoice
    <2>5. journal[i].seq - 1 = 0 => journal[i].seq = 1
      <3>1. PICK k \in Nat : k = journal[i].seq
        BY <2>4
      <3>. QED
        BY <3>1
    <2>. QED
      BY <2>1, <2>2, <2>3, <2>5
  <1>. QED
    BY <1>2, <1>3, <1>4 DEF JournalTells

\* However many workers issue at once and whatever dies: at rest the journal holds every
\* number that was counted but those that were lost, each invoice is told once unless its
\* event was lost, and each seal follows one that was made (BillingService.issueInvoice,
\* EsInvoiceChainAdapter.seal).
THEOREM JournalTellsAlways == Spec => []JournalTells
  <1>1. Init => Seals
    BY DEF Init, Seals, Stamped, Idle
  <1>2. GInv /\ Seals /\ [Next]_vars => Seals'
    <2> SUFFICES ASSUME GInv, Seals, [Next]_vars PROVE Seals'
      OBVIOUS
    <2>1. CASE \E w \in Workers : Step(w)
      BY <2>1, StepSeals DEF GInv, IInv
    <2>2. CASE UNCHANGED vars
      BY <2>2 DEF vars, Seals, Follows, Stamped, HashOf
    <2>. QED
      BY <2>1, <2>2 DEF Next
  <1>. QED
    BY <1>1, <1>2, InitGInv, NextGInv, RestTells, PTL DEF Spec

-----------------------------------------------------------------------------
(* The chain, where one worker issues at a time. *)

OneAtATime == ~Crashes /\ \A v, w \in Workers : v = w

LastHash == IF Len(journal) = 0 THEN Null ELSE HashOf(journal[Len(journal)])

\* The journal is the chain, in order.
Linked ==
    \A i \in DOMAIN journal :
        /\ journal[i].seq = i
        /\ journal[i].prev = IF i = 1 THEN Null ELSE HashOf(journal[i - 1])

\* The head is the last invoice of the journal, or the one about to be appended.
HeadIsLast ==
    /\ (\A w \in Workers : job[w].stage # "sealed") =>
           head = [seq |-> Len(journal), hash |-> LastHash]
    /\ \A w \in Workers : job[w].stage = "linking" => job[w].head = head
    /\ \A w \in Workers : job[w].stage = "sealed" =>
           /\ job[w].invoice.seq = Len(journal) + 1 /\ job[w].invoice.prev = LastHash
           /\ head = [seq |-> Len(journal) + 1, hash |-> HashOf(job[w].invoice)]

CInv == IInv /\ Linked /\ HeadIsLast

\* A step that has nothing to do with the chain.
LEMMA UnchainedStep ==
    ASSUME OneAtATime, CInv, IInv', NEW w \in Workers, NEW next, Become(w, next),
           job[w].stage # "sealed", next.stage \notin {"linking", "sealed"},
           UNCHANGED <<head, journal>>
    PROVE  CInv'
  <1>1. job'[w] = next
    BY OthersKeep DEF CInv, IInv
  <1>2. \A v \in Workers : job[v].stage # "sealed" /\ job'[v].stage \notin {"linking", "sealed"}
    BY <1>1 DEF OneAtATime
  <1>3. HeadIsLast'
    BY <1>2 DEF CInv, HeadIsLast, LastHash
  <1>4. Linked'
    BY DEF CInv, Linked
  <1>. QED
    BY <1>3, <1>4 DEF CInv

LEMMA ChainStep ==
    ASSUME OneAtATime, CInv, IInv', NEW w \in Workers,
           ReadHead(w) \/ Seal(w) \/ AppendInvoice(w)
    PROVE  CInv'
  <1>1. \A v \in Workers : v = w
    BY DEF OneAtATime
  <1>2. job \in [Workers -> Job] /\ journal \in Seq(Invoice) /\ Len(journal) \in Nat
    BY DEF CInv, IInv, TypeOK
  <1>3. CASE ReadHead(w)
    <2>1. /\ job'[w] = [stage |-> "linking", invoice |-> job[w].invoice, head |-> head]
          /\ job[w].stage = "numbered" /\ UNCHANGED <<head, journal>>
      BY <1>2, <1>3 DEF ReadHead, Become
    <2>2. job'[w].stage = "linking" /\ job'[w].head = head
      BY <2>1
    <2>3. HeadIsLast'
      BY <1>1, <2>1, <2>2 DEF CInv, HeadIsLast, LastHash
    <2>. QED
      BY <2>1, <2>3 DEF CInv, Linked
  <1>4. CASE Seal(w)
    <2> DEFINE sealed == [job[w].invoice EXCEPT !.seq = job[w].head.seq + 1,
                                                !.prev = job[w].head.hash]
    <2>1. /\ job'[w] = [stage |-> "sealed", invoice |-> sealed]
          /\ job[w].stage = "linking" /\ UNCHANGED journal
          /\ head' = [seq |-> job[w].head.seq + 1, hash |-> HashOf(job[w].invoice)]
      BY <1>2, <1>4 DEF Seal, Become, HashOf
    <2>2. job[w].invoice \in Invoice
      BY <2>1, LinkingType DEF CInv, IInv
    <2>3. job[w].head = [seq |-> Len(journal), hash |-> LastHash]
      BY <1>1, <2>1 DEF CInv, HeadIsLast
    <2>4. job[w].head.seq = Len(journal) /\ job[w].head.hash = LastHash
      BY <2>3
    <2>5. /\ sealed.seq = Len(journal) + 1 /\ sealed.prev = LastHash
          /\ HashOf(sealed) = HashOf(job[w].invoice)
      BY <2>2, <2>4 DEF Invoice, HashOf
    <2>. HIDE DEF sealed
    <2>6. job'[w].stage = "sealed" /\ job'[w].invoice = sealed
      BY <2>1
    <2>7. HeadIsLast'
      BY <1>1, <2>1, <2>4, <2>5, <2>6 DEF HeadIsLast, LastHash
    <2>. QED
      BY <2>1, <2>7 DEF CInv, Linked
  <1>5. CASE AppendInvoice(w)
    <2> DEFINE here == Len(journal) + 1
               invoice == job[w].invoice
    <2>1. /\ job[w].stage = "sealed" /\ journal' = Append(journal, invoice)
          /\ job'[w].stage = "telling" /\ UNCHANGED head
      BY <1>2, <1>5 DEF AppendInvoice, Become, Telling
    <2>2. invoice \in Invoice
      BY <2>1, NumberedType DEF CInv, IInv
    <2>3. /\ invoice.seq = here /\ invoice.prev = LastHash
          /\ head = [seq |-> here, hash |-> HashOf(invoice)]
      BY <2>1 DEF CInv, HeadIsLast
    <2>. HIDE DEF invoice
    <2>4. /\ Len(journal') = here /\ journal'[here] = invoice
          /\ DOMAIN journal' = 1..here
          /\ \A i \in 1..Len(journal) : i \in DOMAIN journal /\ journal'[i] = journal[i]
      BY <1>2, <2>1, <2>2
    <2>5. LastHash = IF here = 1 THEN Null ELSE HashOf(journal[here - 1])
      BY <1>2 DEF LastHash
    <2>6. Linked'
      <3> SUFFICES ASSUME NEW i \in 1..here
                   PROVE  /\ journal'[i].seq = i
                          /\ journal'[i].prev =
                                 IF i = 1 THEN Null ELSE HashOf(journal'[i - 1])
        BY <2>4 DEF Linked, HashOf
      <3>1. i # 1 => journal'[i - 1] = journal[i - 1]
        BY <1>2, <2>4
      <3>2. CASE i = here
        BY <2>3, <2>4, <2>5, <3>1, <3>2
      <3>3. CASE i # here
        <4>1. i \in DOMAIN journal /\ journal'[i] = journal[i]
          BY <1>2, <2>4, <3>3
        <4>. QED
          BY <3>1, <4>1 DEF CInv, Linked
      <3>. QED
        BY <3>2, <3>3
    <2>7. HeadIsLast'
      <3>1. LastHash' = HashOf(invoice)
        BY <1>2, <2>4 DEF LastHash, HashOf
      <3>. QED
        BY <1>1, <2>1, <2>3, <2>4, <3>1 DEF HeadIsLast
    <2>. QED
      BY <2>6, <2>7 DEF CInv
  <1>. QED
    BY <1>3, <1>4, <1>5

LEMMA NextCInv == ASSUME OneAtATime PROVE CInv /\ [Next]_vars => CInv'
  <1> SUFFICES ASSUME CInv, [Next]_vars PROVE CInv'
    OBVIOUS
  <1>1. IInv'
    BY NextIInv DEF CInv
  <1>2. ASSUME NEW w \in Workers, Step(w) PROVE CInv'
    <2>1. ASSUME NEW next, Become(w, next), job[w].stage # "sealed",
                 next.stage \notin {"linking", "sealed"}, UNCHANGED <<head, journal>>
          PROVE  CInv'
      BY <1>1, <2>1, UnchainedStep
    <2>2. ASSUME NEW q \in Quotes, Create(w, q) PROVE CInv'
      BY <2>1, <2>2 DEF Create, Telling, Idle
    <2>3. ASSUME NEW q \in Quotes, SaveRevision(w, q) PROVE CInv'
      BY <2>1, <2>3 DEF SaveRevision, HasLoaded, Telling
    <2>4. ASSUME NEW q \in Quotes, NEW op \in {"addLine", "accept", "revise", "issue"},
                 Load(w, op, q)
          PROVE  CInv'
      BY <2>1, <2>4 DEF Load, Idle
    <2>5. ASSUME NEW line \in Lines, SaveLine(w, line) PROVE CInv'
      BY <2>1, <2>5 DEF SaveLine, HasLoaded, Idle
    <2>6. ASSUME NEW chosen \in SUBSET Optional, SaveAccepted(w, chosen) PROVE CInv'
      BY <2>1, <2>6 DEF SaveAccepted, HasLoaded, Telling
    <2>7. CASE IssueFromQuote(w)
      BY <2>1, <2>7 DEF IssueFromQuote, HasLoaded, Number
    <2>8. ASSUME NEW i \in DOMAIN journal, Rectify(w, i) PROVE CInv'
      BY <2>1, <2>8 DEF Rectify, Number, Idle
    <2>9. CASE ReadHead(w) \/ Seal(w) \/ AppendInvoice(w)
      BY <1>1, <2>9, ChainStep
    <2>10. CASE Tell(w)
      BY <2>1, <2>10 DEF Tell, Idle
    <2>11. ~Crash(w)
      BY DEF Crash, OneAtATime
    <2>. QED
      BY <1>2, <2>2, <2>3, <2>4, <2>5, <2>6, <2>7, <2>8, <2>9, <2>10, <2>11 DEF Step
  <1>3. CASE UNCHANGED vars
    BY <1>1, <1>3 DEF vars, CInv, Linked, HeadIsLast, LastHash
  <1>. QED
    BY <1>1, <1>2, <1>3 DEF Next

\* Where one invoice is issued at a time and nothing dies the journal, in its own order,
\* is one chain of seals, from the null hash to the head (EsInvoiceChainAdapter.seal).
\* The run inv_fork shows what two workers make of it.
THEOREM JournalIsTheChain == ASSUME OneAtATime PROVE Spec => []ChainIsLinked
  <1>1. Init => CInv
    <2> SUFFICES ASSUME Init PROVE CInv
      OBVIOUS
    <2>1. /\ journal = << >> /\ head = [seq |-> 0, hash |-> Null]
          /\ \A w \in Workers : job[w].stage = "idle"
      BY DEF Init, Idle
    <2>. QED
      BY <2>1, InitIInv DEF CInv, Linked, HeadIsLast, LastHash
  <1>2. CInv => ChainIsLinked
    <2> SUFFICES ASSUME CInv, NEW n \in 1..Len(journal)
                 PROVE  \E i \in DOMAIN journal :
                            /\ journal[i].seq = n
                            /\ IF n = 1
                               THEN journal[i].prev = Null
                               ELSE \E j \in DOMAIN journal :
                                        /\ journal[j].seq = n - 1
                                        /\ journal[i].prev = HashOf(journal[j])
      BY DEF ChainIsLinked, HashOf
    <2>1. DOMAIN journal = 1..Len(journal) /\ Len(journal) \in Nat
      BY DEF CInv, IInv, TypeOK
    <2>2. n # 1 => n - 1 \in DOMAIN journal
      BY <2>1
    <2>. QED
      BY <2>1, <2>2 DEF CInv, Linked
  <1>. QED
    BY <1>1, <1>2, NextCInv, PTL DEF Spec
=============================================================================
