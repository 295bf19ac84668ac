------------------------------- MODULE Outbox -------------------------------
(***************************************************************************)
(* The messages the rules prepare: what has happened to the invoices is    *)
(* turned into messages, these wait in a queue for a person, and a draft of *)
(* each is filed in the company's mailbox by calls the page makes while it *)
(* goes on working (packages/capabilities/messaging/src/rules.ts, the comms *)
(* part of site/erp-engine.js and of site/erp-bridge.js, fileDraftForComm   *)
(* and sweepMailboxDrafts of site/erp.html, the draft route of apps/web).  *)
(*                                                                         *)
(* Left out: templates and languages, the messages a person sends without a *)
(* rule, and the rules' delays: a rule is the event it waits for.          *)
(***************************************************************************)
EXTENDS Integers, FiniteSetsExt, SequencesExt

CONSTANTS Invoiced,             \* the numbers of the invoices
          Rules,                \* the active rules, a subset of {"issued", "overdue"}
          Mishaps,              \* see MishapsAssumption
          MaxLives, MaxFaults, MaxTouches       \* bounds

(* "at once": a draft is filed while another call is filing it.  "reloaded": *)
(* the page is reloaded while drafts are being filed.  "undone": an invoice *)
(* is withdrawn while its message waits.  "declined": a message is cancelled *)
(* while the drafts are being swept. *)
ASSUME MishapsAssumption == Mishaps \subseteq {"at once", "reloaded", "undone", "declined"}
ASSUME LivesAssumption == MaxLives \in Nat

VARIABLES invoiced,  \* by number: how often it was issued, and what became of it
          reachable, \* the invoices whose customer has an address
          queue,     \* state.commsQueue, by key
          filing,    \* the calls of fileDraftForComm under way: [key, swept, reply]
          sweep,     \* sweepingDrafts, and the rows it still has to file
          mailbox,   \* the drafts in the mailbox, by key
          late,      \* the keys whose draft was filed after they were cancelled
          lost,      \* the keys of which an answer of the mailbox was lost
          faults,    \* the answers lost and refused, bounded by MaxFaults
          touches    \* the presses made so far, bounded by MaxTouches

outboxVars ==
    <<invoiced, reachable, queue, filing, sweep, mailbox, late, lost, faults, touches>>

Keys == Rules \X Invoiced
Statuses == {"draft", "blocked", "approved", "cancelled", "sent"}
Message == [status : Statuses, filed : {"no", "mailbox", "error"}, life : 1..MaxLives]

(* commsEvents: an invoice that exists was issued, and one that is overdue   *)
(* and unpaid is an event of its own. *)
Happened(rule, s) ==
    IF rule = "issued" THEN invoiced[s].is # "none" ELSE invoiced[s].is = "overdue"
Planned == {k \in Keys : Happened(k[1], k[2])}
(* newMessages, by messageKey *)
Unseen(k) == k \notin DOMAIN queue
Pending == {k \in Planned : Unseen(k)}
-----------------------------------------------------------------------------
OutboxTypeOK ==
    /\ \A s \in Invoiced : invoiced[s].life \in 0..MaxLives
    /\ \A k \in DOMAIN queue : k \in Keys /\ queue[k] \in Message
    /\ \A i \in DOMAIN filing : filing[i].key \in DOMAIN queue
    /\ sweep.rows \subseteq DOMAIN queue /\ (~sweep.on => sweep.rows = {})
    /\ \A k \in DOMAIN queue : queue[k].filed = "mailbox" => mailbox[k] > 0
    /\ lost \subseteq Keys /\ late \subseteq Keys

OutboxInit ==
    /\ invoiced = [s \in Invoiced |-> [life |-> 0, is |-> "none"]]
    /\ reachable \in SUBSET Invoiced
    /\ queue = [k \in {} |-> {}] /\ filing = <<>> /\ sweep = [on |-> FALSE, rows |-> {}]
    /\ mailbox = [k \in Keys |-> 0] /\ late = {} /\ lost = {} /\ faults = 0 /\ touches = 0

Touch == touches < MaxTouches /\ touches' = touches + 1
OnInvoices == Touch /\ UNCHANGED <<reachable, queue, filing, sweep, mailbox, late, lost, faults>>

IssueOf(s) ==
    /\ invoiced[s].is = "none" /\ invoiced[s].life < MaxLives
    /\ invoiced' = [invoiced EXCEPT ![s] = [life |-> @.life + 1, is |-> "issued"]]
    /\ OnInvoices
FallsDue(s) ==
    invoiced[s].is = "issued" /\ invoiced' = [invoiced EXCEPT ![s].is = "overdue"] /\ OnInvoices
Collected(s) ==
    /\ invoiced[s].is \in {"issued", "overdue"}
    /\ invoiced' = [invoiced EXCEPT ![s].is = "paid"] /\ OnInvoices
(* invoiceUndoBlock: a message whose subject is this number was sent. *)
WentOut(s) == \E k \in DOMAIN queue : k[2] = s /\ queue[k].status = "sent"
Withdraw(s) ==
    /\ invoiced[s].is \in {"issued", "overdue"} /\ ~WentOut(s)
    /\ "undone" \notin Mishaps =>
           \A k \in DOMAIN queue : k[2] = s => queue[k].status \in {"cancelled", "sent"}
    /\ invoiced' = [invoiced EXCEPT ![s].is = "none"] /\ OnInvoices
LearnAddress(s) ==
    /\ s \notin reachable /\ reachable' = reachable \cup {s} /\ Touch
    /\ UNCHANGED <<invoiced, queue, filing, sweep, mailbox, late, lost, faults>>
-----------------------------------------------------------------------------
InFlight(k) == \E i \in DOMAIN filing : filing[i].key = k
Alone(k) == "at once" \in Mishaps \/ (~InFlight(k) /\ k \notin sweep.rows)
(* fileDraftForComm asks whether the row is filed before its first await. *)
FiledBy(f, rows, k, swept) ==
    IF rows[k].filed = "mailbox" THEN f
    ELSE Append(f, [key |-> k, swept |-> swept, reply |-> "none"])
(* The rows that sweepMailboxDrafts takes. *)
Swept(rows) ==
    {k \in DOMAIN rows :
        rows[k].status \in {"draft", "approved", "sent"} /\ rows[k].filed # "mailbox"}
SweepOf(rows) == IF sweep.on THEN sweep ELSE [on |-> Swept(rows) # {}, rows |-> Swept(rows)]

(* The button that queues what is pending: blocked when there is no address. *)
QueuePending ==
    LET rows == [k \in Pending \cup DOMAIN queue |->
                    IF k \notin Pending THEN queue[k]
                    ELSE [status |-> IF k[2] \in reachable THEN "draft" ELSE "blocked",
                          filed |-> "no", life |-> invoiced[k[2]].life]]
    IN /\ Pending # {} /\ (filing = <<>> \/ sweep.on \/ "at once" \in Mishaps) /\ Touch
       /\ queue' = rows /\ sweep' = SweepOf(rows)
       /\ UNCHANGED <<invoiced, reachable, filing, mailbox, late, lost, faults>>
TurnTo(k, status) == queue' = [queue EXCEPT ![k].status = status]
Approve(k) ==
    /\ queue[k].status = "draft" /\ TurnTo(k, "approved") /\ Touch
    /\ UNCHANGED <<invoiced, reachable, filing, sweep, mailbox, late, lost, faults>>
Cancel(k) ==
    /\ queue[k].status \notin {"sent", "cancelled"} /\ TurnTo(k, "cancelled") /\ Touch
    /\ "declined" \notin Mishaps => ~InFlight(k) /\ k \notin sweep.rows
    /\ UNCHANGED <<invoiced, reachable, filing, sweep, mailbox, late, lost, faults>>
MayBeSent(k) == queue[k].status = "approved"
RecordSent(k) ==
    /\ MayBeSent(k) /\ Alone(k) /\ TurnTo(k, "sent") /\ Touch
    /\ filing' = FiledBy(filing, queue, k, FALSE)
    /\ UNCHANGED <<invoiced, reachable, sweep, mailbox, late, lost, faults>>
(* The button beside a draft that did not reach the mailbox. *)
Refile(k) ==
    /\ queue[k].filed = "error" /\ Alone(k) /\ Touch
    /\ queue[k].status \notin {"cancelled", "blocked"}
    /\ filing' = FiledBy(filing, queue, k, FALSE)
    /\ UNCHANGED <<invoiced, reachable, queue, sweep, mailbox, late, lost, faults>>

SweepNext(k) ==
    /\ k \in sweep.rows /\ \A i \in DOMAIN filing : ~filing[i].swept
    /\ sweep' = [sweep EXCEPT !.rows = @ \ {k}] /\ filing' = FiledBy(filing, queue, k, TRUE)
    /\ UNCHANGED <<invoiced, reachable, queue, mailbox, late, lost, faults, touches>>
\* Fault: a sweep that could not file everything is never over.
SweepEndFiled ==
    /\ sweep.on /\ sweep.rows = {} /\ \A i \in DOMAIN filing : ~filing[i].swept
    /\ \A k \in DOMAIN queue : queue[k].filed # "error"
    /\ sweep' = [sweep EXCEPT !.on = FALSE]
    /\ UNCHANGED <<invoiced, reachable, queue, filing, mailbox, late, lost, faults, touches>>
SweepEnd ==
    /\ sweep.on /\ sweep.rows = {} /\ \A i \in DOMAIN filing : ~filing[i].swept
    /\ sweep' = [sweep EXCEPT !.on = FALSE]
    /\ UNCHANGED <<invoiced, reachable, queue, filing, mailbox, late, lost, faults, touches>>

Reply(i, with) == filing' = [filing EXCEPT ![i].reply = with]
(* POST draft: appendDraft, and the answer. *)
Deliver(i) ==
    LET k == filing[i].key
    IN /\ filing[i].reply = "none" /\ Reply(i, "mailbox")
       /\ mailbox' = [mailbox EXCEPT ![k] = @ + 1]
       /\ late' = IF queue[k].status = "cancelled" THEN late \cup {k} ELSE late
       /\ UNCHANGED <<invoiced, reachable, queue, sweep, lost, faults, touches>>
Fails(i) == faults < MaxFaults /\ faults' = faults + 1 /\ Reply(i, "error")
Refuse(i) ==
    /\ filing[i].reply = "none" /\ Fails(i)
    /\ UNCHANGED <<invoiced, reachable, queue, sweep, mailbox, late, lost, touches>>
(* The draft is in the mailbox and the page hears of an error. *)
Lose(i) ==
    /\ filing[i].reply = "mailbox" /\ Fails(i) /\ lost' = lost \cup {filing[i].key}
    /\ UNCHANGED <<invoiced, reachable, queue, sweep, mailbox, late, touches>>
\* Fault: the outcome is not written beside the row.
FiledAsNot(k, reply) == queue
(* recordCommunicationFiled *)
FiledAs(k, reply) == [queue EXCEPT ![k].filed = reply]
Answer(i) ==
    /\ filing[i].reply # "none"
    /\ queue' = FiledAs(filing[i].key, filing[i].reply) /\ filing' = RemoveAt(filing, i)
    /\ UNCHANGED <<invoiced, reachable, sweep, mailbox, late, lost, faults, touches>>
(* The page starts again, and sweeps as it does. *)
StartAgain ==
    /\ (filing = <<>> /\ ~sweep.on) \/ "reloaded" \in Mishaps
    /\ filing' = <<>> /\ sweep' = [on |-> Swept(queue) # {}, rows |-> Swept(queue)] /\ Touch
    /\ UNCHANGED <<invoiced, reachable, queue, mailbox, late, lost, faults>>

OutboxNext ==
    \/ \E s \in Invoiced : IssueOf(s) \/ FallsDue(s) \/ Collected(s) \/ Withdraw(s)
                           \/ LearnAddress(s)
    \/ QueuePending \/ SweepEnd \/ StartAgain
    \/ \E k \in DOMAIN queue : Approve(k) \/ Cancel(k) \/ RecordSent(k) \/ Refile(k)
                               \/ SweepNext(k)
    \/ \E i \in DOMAIN filing : Deliver(i) \/ Refuse(i) \/ Lose(i) \/ Answer(i)

(* What goes on by itself: the sweep, the calls and their answers. *)
OutboxProgress ==
    \/ SweepEnd \/ (\E k \in DOMAIN queue : SweepNext(k))
    \/ \E i \in DOMAIN filing : Deliver(i) \/ Refuse(i) \/ Answer(i)
-----------------------------------------------------------------------------
(* A message has one draft in the mailbox at most, however often it is filed, *)
(* unless the answer about one was lost. *)
FiledOnce == \A k \in Keys \ lost : mailbox[k] <= 1

(* What a person declined before its draft was filed is not filed after. *)
DeclinedStaysOut == late = {}

(* A message that was sent is about an invoice that still stands: the one it *)
(* was queued for, and not another that took its number. *)
SentStillStands ==
    \A k \in DOMAIN queue : queue[k].status = "sent" =>
        invoiced[k[2]].is # "none" /\ invoiced[k[2]].life = queue[k].life

(* A sweep of the drafts ends, whatever the mailbox answers: the next one    *)
(* can begin. *)
SweepEnds == sweep.on ~> ~sweep.on

(* Nobody is chased for an invoice that was paid in the meantime. *)
NotChasedWhenPaid ==
    [][\A k \in DOMAIN queue' : k[1] = "overdue" /\ queue'[k].status = "sent" =>
           \/ k \in DOMAIN queue /\ queue[k].status = "sent"
           \/ invoiced[k[2]].is # "paid"]_outboxVars

(* A customer whose address is known is not left unwritten to. *)
ReachableIsNotBlocked ==
    \A k \in DOMAIN queue : queue[k].status = "blocked" => k[2] \notin reachable

\* What the messages that wait promise with answers lost and pages reloaded: a message is
\* filed once, a declined one stays out, and a sent one stands for what was sent.
OutboxHolds ==
    /\ OutboxTypeOK
    /\ FiledOnce
    /\ DeclinedStaysOut
    /\ SentStillStands
=============================================================================
