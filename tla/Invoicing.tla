----------------------------- MODULE Invoicing -----------------------------
(***************************************************************************)
(* Quotes and invoices of the web shell: QuotingService, BillingService,   *)
(* SeriesNumbering and the es-ES invoice chain, over the Prisma stores, as *)
(* the server actions of app/[tenant]/presupuestos call them.              *)
(*                                                                         *)
(* Every store call is a transaction of its own and nothing spans two of   *)
(* them: a worker takes a number, reads the head of the chain, writes it,  *)
(* appends the invoice and logs the event in five separate steps, and      *)
(* other workers, or a crash, may come between any two.                    *)
(*                                                                         *)
(* Amounts and tax are left out: they are computed from the lines before   *)
(* the first step that writes, and never again.  The hash of an invoice is *)
(* its number in its series, which the hashed record contains.             *)
(***************************************************************************)
EXTENDS Naturals, Sequences, FiniteSets

CONSTANTS
    Workers,    \* server actions in progress at once
    Quotes,     \* the ids RandomIdGen hands out
    Lines,      \* what a quote can contain
    Optional,   \* the lines entered as options
    Crashes,    \* a Boolean: whether the process may die
    MaxEvents   \* bound: quotes created, accepted or revised and invoices numbered

ASSUME OptionalAssumption == Optional \subseteq Lines
ASSUME CrashAssumption == Crashes \in BOOLEAN
ASSUME BoundAssumption == MaxEvents \in Nat

VARIABLES
    quotes,     \* the aggregate table, kind "quote"
    counter,    \* the numbering series
    head,       \* es.invoice-chain.head
    journal,    \* the artifact table, kind "invoice", in the order of appending
    events,     \* the event log
    job,        \* what each worker is doing
    accepted,   \* history: the scopes that were accepted, [quote, lines]
    lost,       \* history: the numbers and the events of the actions that died
    begun       \* writes that lead to an event, so far

vars == <<quotes, counter, head, journal, events, job, accepted, lost, begun>>

Series == {"FAC", "REC"}
Absent == [status |-> "absent", lines |-> {}]
Quote == [status : {"absent", "draft", "accepted"}, lines : SUBSET Lines]

\* Hash 0 of no series is the null a chain starts from.
Null == [series |-> "", number |-> 0]
Hash == [series : Series, number : Nat] \cup {Null}
ChainHead == [seq : Nat, hash : Hash]

\* quote and lines are what is billed; rectifies is the place of the corrected
\* invoice in the journal, 0 for an ordinary one.
Invoice == [series : Series, number : Nat, quote : Quotes, lines : SUBSET Lines,
            rectifies : Nat, seq : Nat, prev : Hash]
Event == [type : {"quote.created", "quote.accepted", "quote.revised", "invoice.issued"},
          quote : Quotes, invoice : Nat]

Idle == [stage |-> "idle"]
Job == {Idle}
       \cup [stage : {"loaded"}, op : {"addLine", "accept", "revise", "issue"},
             quote : Quotes, copy : Quote]
       \cup [stage : {"numbered", "sealed"}, invoice : Invoice]
       \cup [stage : {"linking"}, invoice : Invoice, head : ChainHead]
       \cup [stage : {"telling"}, event : Event]

TypeOK ==
    /\ quotes \in [Quotes -> Quote]
    /\ counter \in [Series -> Nat]
    /\ head \in ChainHead
    /\ journal \in Seq(Invoice)
    /\ events \in Seq(Event)
    /\ job \in [Workers -> Job]
    /\ accepted \subseteq [quote : Quotes, lines : SUBSET Lines]
    /\ lost \in [numbers : SUBSET (Hash \ {Null}), events : SUBSET Nat]
    /\ begun \in 0..MaxEvents

-----------------------------------------------------------------------------
Init ==
    /\ quotes = [q \in Quotes |-> Absent]
    /\ counter = [s \in Series |-> 0]
    /\ head = [seq |-> 0, hash |-> Null]
    /\ journal = << >>
    /\ events = << >>
    /\ job = [w \in Workers |-> Idle]
    /\ accepted = {}
    /\ lost = [numbers |-> {}, events |-> {}]
    /\ begun = 0

Become(w, next) == job' = [job EXCEPT ![w] = next]

Telling(type, q, i) ==
    [stage |-> "telling", event |-> [type |-> type, quote |-> q, invoice |-> i]]

Holding(w) == job[w].stage \in {"numbered", "linking", "sealed"}
TellsInvoice(w) == job[w].stage = "telling" /\ job[w].event.type = "invoice.issued"
HashOf(invoice) == [series |-> invoice.series, number |-> invoice.number]

\* Bound, not code: the number of writes that lead to an event.
Begin == begun < MaxEvents /\ begun' = begun + 1

-----------------------------------------------------------------------------
(* Quoting. *)

Create(w, q) ==
    /\ Begin
    /\ job[w] = Idle
    /\ quotes[q] = Absent
    /\ quotes' = [quotes EXCEPT ![q] = [status |-> "draft", lines |-> {}]]
    /\ Become(w, Telling("quote.created", q, 0))
    /\ UNCHANGED <<counter, head, journal, events, accepted, lost>>

\* mustGetDraft, mustGet, and the status test of issueFromQuote.
MayStart(op, quote) ==
    CASE op \in {"addLine", "accept"} -> quote.status = "draft"
      [] op = "revise" -> quote.status # "absent"
      [] op = "issue" -> quote.status = "accepted"

\* Each operation on a quote reads it first, and goes on with that copy.
Load(w, op, q) ==
    /\ job[w] = Idle
    /\ MayStart(op, quotes[q])
    /\ Become(w, [stage |-> "loaded", op |-> op, quote |-> q, copy |-> quotes[q]])
    /\ UNCHANGED <<quotes, counter, head, journal, events, accepted, lost, begun>>

HasLoaded(w, op) == job[w].stage = "loaded" /\ job[w].op = op

\* PrismaRepository.save: an upsert of the whole quote, whatever is there now.
SaveLine(w, line) ==
    /\ HasLoaded(w, "addLine")
    /\ line \notin job[w].copy.lines
    /\ quotes' = [quotes EXCEPT ![job[w].quote] =
                    [job[w].copy EXCEPT !.lines = @ \cup {line}]]
    /\ Become(w, Idle)
    /\ UNCHANGED <<counter, head, journal, events, accepted, lost, begun>>

\* Fault: options that were not chosen stay in the quote.
SaveAcceptedWhole(w, chosen) ==
    LET q     == job[w].quote
        lines == (job[w].copy.lines \ Optional) \cup chosen
    IN  /\ HasLoaded(w, "accept")
        /\ Begin
        /\ chosen \subseteq job[w].copy.lines \cap Optional
        /\ lines # {}
        /\ quotes' = [quotes EXCEPT ![q] = [status |-> "accepted", lines |-> job[w].copy.lines]]
        /\ accepted' = accepted \cup {[quote |-> q, lines |-> lines]}
        /\ Become(w, Telling("quote.accepted", q, 0))
        /\ UNCHANGED <<counter, head, journal, events, lost>>

\* accept: the options that were not chosen drop out of the scope.
SaveAccepted(w, chosen) ==
    LET q     == job[w].quote
        lines == (job[w].copy.lines \ Optional) \cup chosen
    IN  /\ HasLoaded(w, "accept")
        /\ Begin
        /\ chosen \subseteq job[w].copy.lines \cap Optional
        /\ lines # {}
        /\ quotes' = [quotes EXCEPT ![q] = [status |-> "accepted", lines |-> lines]]
        /\ accepted' = accepted \cup {[quote |-> q, lines |-> lines]}
        /\ Become(w, Telling("quote.accepted", q, 0))
        /\ UNCHANGED <<counter, head, journal, events, lost>>

\* revise: a draft copy under a new id; the source stays as it is.
SaveRevision(w, q) ==
    /\ HasLoaded(w, "revise")
    /\ Begin
    /\ quotes[q] = Absent
    /\ quotes' = [quotes EXCEPT ![q] = [status |-> "draft", lines |-> job[w].copy.lines]]
    /\ Become(w, Telling("quote.revised", q, 0))
    /\ UNCHANGED <<counter, head, journal, events, accepted, lost>>

-----------------------------------------------------------------------------
(* Billing. *)

\* Fault: the next number is counted from the journal.
NumberFromJournal(w, series, quote, lines, rectifies) ==
    /\ Begin
    /\ counter' = [counter EXCEPT ![series] = @ + 1]
    /\ Become(w, [stage |-> "numbered",
                  invoice |-> [series |-> series,
                               number |-> Cardinality({i \in DOMAIN journal :
                                                        journal[i].series = series}) + 1,
                               quote |-> quote, lines |-> lines,
                               rectifies |-> rectifies, seq |-> 0, prev |-> Null]])
    /\ UNCHANGED <<quotes, head, journal, events, accepted, lost>>

\* SeriesNumbering.next: PrismaCounterStore increments in one transaction.
Number(w, series, quote, lines, rectifies) ==
    /\ Begin
    /\ counter' = [counter EXCEPT ![series] = @ + 1]
    /\ Become(w, [stage |-> "numbered",
                  invoice |-> [series |-> series, number |-> counter[series] + 1,
                               quote |-> quote, lines |-> lines,
                               rectifies |-> rectifies, seq |-> 0, prev |-> Null]])
    /\ UNCHANGED <<quotes, head, journal, events, accepted, lost>>

IssueFromQuote(w) ==
    /\ HasLoaded(w, "issue")
    /\ Number(w, "FAC", job[w].quote, job[w].copy.lines, 0)

\* rectify: what it reads is an issued invoice, which does not change.
Rectify(w, i) ==
    /\ job[w] = Idle
    /\ i \in DOMAIN journal
    /\ Number(w, "REC", journal[i].quote, journal[i].lines, i)

\* EsInvoiceChainAdapter.seal, first half.
ReadHead(w) ==
    /\ job[w].stage = "numbered"
    /\ Become(w, [stage |-> "linking", invoice |-> job[w].invoice, head |-> head])
    /\ UNCHANGED <<quotes, counter, head, journal, events, accepted, lost, begun>>

\* Second half: the seal follows the head that was read, and replaces whatever
\* head is there now.
Seal(w) ==
    LET invoice == job[w].invoice
        seq     == job[w].head.seq + 1
    IN  /\ job[w].stage = "linking"
        /\ head' = [seq |-> seq, hash |-> HashOf(invoice)]
        /\ Become(w, [stage |-> "sealed",
                      invoice |-> [invoice EXCEPT !.seq = seq, !.prev = job[w].head.hash]])
        /\ UNCHANGED <<quotes, counter, journal, events, accepted, lost, begun>>

\* Fault: the invoice is stored and its event forgotten.
AppendUntold(w) ==
    /\ job[w].stage = "sealed"
    /\ journal' = Append(journal, job[w].invoice)
    /\ Become(w, Idle)
    /\ UNCHANGED <<quotes, counter, head, events, accepted, lost, begun>>

AppendInvoice(w) ==
    /\ job[w].stage = "sealed"
    /\ journal' = Append(journal, job[w].invoice)
    /\ Become(w, Telling("invoice.issued", job[w].invoice.quote, Len(journal) + 1))
    /\ UNCHANGED <<quotes, counter, head, events, accepted, lost, begun>>

\* PrismaEventLog.append: its number and its row in one transaction.
Tell(w) ==
    /\ job[w].stage = "telling"
    /\ events' = Append(events, job[w].event)
    /\ Become(w, Idle)
    /\ UNCHANGED <<quotes, counter, head, journal, accepted, lost, begun>>

\* The process dies, or a transaction fails and the action throws: the number
\* it had taken, or the event it was about to tell, is gone with it.
Crash(w) ==
    LET j == job[w]
    IN  /\ Crashes
        /\ j # Idle
        /\ lost' = [numbers |-> lost.numbers \cup
                         IF Holding(w) THEN {HashOf(j.invoice)} ELSE {},
                     events |-> lost.events \cup
                         IF TellsInvoice(w) THEN {j.event.invoice} ELSE {}]
        /\ Become(w, Idle)
        /\ UNCHANGED <<quotes, counter, head, journal, events, accepted, begun>>

-----------------------------------------------------------------------------
Step(w) ==
    \/ \E q \in Quotes : Create(w, q) \/ SaveRevision(w, q)
    \/ \E q \in Quotes, op \in {"addLine", "accept", "revise", "issue"} : Load(w, op, q)
    \/ \E line \in Lines : SaveLine(w, line)
    \/ \E chosen \in SUBSET Optional : SaveAccepted(w, chosen)
    \/ IssueFromQuote(w)
    \/ \E i \in DOMAIN journal : Rectify(w, i)
    \/ ReadHead(w)
    \/ Seal(w)
    \/ AppendInvoice(w)
    \/ Tell(w)
    \/ Crash(w)

Next == \E w \in Workers : Step(w)

Spec == Init /\ [][Next]_vars

-----------------------------------------------------------------------------
(* Properties. *)

AtRest == \A w \in Workers : job[w] = Idle

\* No number of a series is given to two invoices, however many are issued at
\* once and whatever crashes (PrismaCounterStore.next).
NumbersAreUnique ==
    \A i, j \in DOMAIN journal :
        (journal[i].series = journal[j].series /\ journal[i].number = journal[j].number) => i = j

\* What an invoice bills is a scope that somebody accepted, exactly, even when
\* the quote is edited, accepted or revised while the invoice is being issued.
BilledWasAccepted ==
    \A i \in DOMAIN journal :
        [quote |-> journal[i].quote, lines |-> journal[i].lines] \in accepted

\* When nobody is at work each number of a series that was counted is in the
\* journal, or went with an action that died, and then it is never given again.
HolesAreOfTheLost ==
    AtRest => \A s \in Series : \A n \in 1..counter[s] :
        (\E i \in DOMAIN journal : journal[i].series = s /\ journal[i].number = n)
            <=> [series |-> s, number |-> n] \notin lost.numbers

\* Every invoice has its event in the log once, unless the action died between
\* the append and the event: then it has none.
EveryInvoiceIsTold ==
    AtRest => \A i \in DOMAIN journal :
        Cardinality({k \in DOMAIN events : events[k].type = "invoice.issued"
                                           /\ events[k].invoice = i})
            = IF i \in lost.events THEN 0 ELSE 1

\* Two seals may follow the same one, but each follows one that was made: the
\* first none, the others an invoice of the place before theirs, which is in
\* the journal or went with an action that died after sealing it.
SealsFollow ==
    AtRest => \A i \in DOMAIN journal :
        LET seal == journal[i]
        IN  IF seal.prev = Null THEN seal.seq = 1
            ELSE \/ seal.prev \in lost.numbers
                 \/ \E j \in DOMAIN journal : /\ HashOf(journal[j]) = seal.prev
                                            /\ journal[j].seq = seal.seq - 1

\* What the journal, the counters, the log and the seals tell of each other when nobody
\* is at work, however many invoices were issued at once and whatever died in between
\* (issue writes number, seal, invoice and event in transactions of their own).
JournalTells ==
    /\ HolesAreOfTheLost
    /\ EveryInvoiceIsTold
    /\ SealsFollow

\* Each seal follows the one before it, from the first invoice to the head
\* (chain.ts and the test "links each seal to the previous hash").
ChainIsLinked ==
    AtRest => \A n \in 1..Len(journal) :
        \E i \in DOMAIN journal :
            /\ journal[i].seq = n
            /\ IF n = 1
               THEN journal[i].prev = Null
               ELSE \E j \in DOMAIN journal :
                        journal[j].seq = n - 1 /\ journal[i].prev = HashOf(journal[j])

\* An accepted quote never changes again: "the client scope = base scope + chosen
\* add-ons, so it must never drift" (quoting/service.ts, accept and revise).
AcceptedNeverDrifts ==
    [][\A q \in Quotes : quotes[q].status = "accepted" => quotes'[q] = quotes[q]]_vars
=============================================================================
