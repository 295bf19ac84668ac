------------------------------ MODULE Contracts ------------------------------
(***************************************************************************)
(* The contracts of one accepted job in the browser's engine and the extras*)
(* that join it: variation budgets and change orders, the annexes that put  *)
(* them in front of a contract, what signing an annex puts into the job and *)
(* what taking it back takes out (site/erp-engine.js, the CON section; the  *)
(* drawers of site/erp.html say which calls a person can make).             *)
(*                                                                         *)
(* Amounts are left out: what an annex is worth is that of its extra.  So is *)
(* the revision of an accepted budget, which no screen calls.               *)
(***************************************************************************)
EXTENDS Tables, FiniteSets, SequencesExt

CONSTANTS Variations, Changes,   \* the extras: budgets of their own, change orders
          Terms,                 \* the days an extra may add
          Habits,                \* what the people at the screen keep to, see below
          MaxContracts, MaxEnd, MaxSteps   \* bounds

VARIABLES deal,    \* what one call of the engine changes, see ContractsTypeOK
          steps    \* the calls made so far, bounded by MaxSteps

dealVars == <<deal, steps>>

(* Nothing in the code asks for these.  "newest": only the annex put in force *)
(* last is taken back.  "grow": days in force are not lowered.  "hold": a contract is not *)
(* let go while an annex of it waits, and only annexes of the one the job    *)
(* holds are worked on. *)
ASSUME HabitsAssumption == Habits \subseteq {"newest", "grow", "hold"}

(* Extras have ids of their own, and the bound on the date leaves room for them. *)
ASSUME ExtrasAssumption ==
    /\ IsFiniteSet(Variations) /\ IsFiniteSet(Changes) /\ Variations \cap Changes = {}
    /\ MaxEnd \in Nat /\ Terms \subseteq 0..MaxEnd

NoContract == 0
Joins == Variations \cup Changes
Handed == DOMAIN deal.contracts                      \* the contracts drawn up

InContract(c) == deal.contracts[c]
NumberedAt(con, n) == CHOOSE i \in DOMAIN con.annexes :       \* find: the first
    con.annexes[i].number = n /\ \A j \in 1..i - 1 : con.annexes[j].number # n
NumberedIn(con, n) == con.annexes[NumberedAt(con, n)]
HasAnnex(con, e) == \E i \in DOMAIN con.annexes : con.annexes[i].source = e

(* _annexForBudget and _annexApplied: without an annex on the contract the   *)
(* job holds, an accepted extra is part of the job. *)
Waiting(s, v) ==
    s.holds # NoContract /\
    LET annexes == s.contracts[s.holds].annexes
    IN \E i \in DOMAIN annexes : annexes[i].source = v /\ ~annexes[i].applied
InScope(s, v) == s.extras[v].status = "accepted" /\ ~Waiting(s, v)    \* projectVariations

(* extendProjectDeadline: a job without a date gets none from this. *)
Moves(s, days) == days > 0 /\ s.dated
Extended(s, days) == IF Moves(s, days) THEN [s EXCEPT !.end = @ + days] ELSE s

(* The days of a variation, remembered as counted only when they moved a date *)
Counted(s, v) ==
    LET days == s.extras[v].days
    IN IF Moves(s, days) THEN [Extended(s, days) EXCEPT !.extras[v].applied = days] ELSE s

(* writeContractAnnex: never twice for the same extra. *)
Written(s, e) ==
    IF s.holds = NoContract \/ HasAnnex(s.contracts[s.holds], e) THEN s
    ELSE [s EXCEPT !.contracts[s.holds].annexes =
            Append(@, [number |-> Len(@) + 1, source |-> e, applied |-> FALSE, signed |-> FALSE])]

(* _applyContractAnnex: a milestone of its own, the days of a variation. *)
\* Fault: an annex that is in force is put in force once more.
ApplyAgain(s, c, i) ==
    LET a == s.contracts[c].annexes[i]
        t == [s EXCEPT !.contracts[c].annexes[i].applied = TRUE,
                       !.contracts[c].stages = Append(@, [annex |-> a.number, invoice |-> 0])]
    IN IF a.source \in Variations THEN Counted(t, a.source) ELSE t
Apply(s, c, i) ==
    LET a == s.contracts[c].annexes[i]
        t == [s EXCEPT !.contracts[c].annexes[i].applied = TRUE,
                       !.contracts[c].stages = Append(@, [annex |-> a.number, invoice |-> 0])]
    IN IF a.applied THEN s ELSE IF a.source \in Variations THEN Counted(t, a.source) ELSE t

Refuses(s, c, i) ==
    LET a == s.contracts[c].annexes[i]
    IN /\ a.applied
       /\ \/ \E k \in DOMAIN s.contracts[c].stages :
                s.contracts[c].stages[k].annex = a.number /\ s.contracts[c].stages[k].invoice # 0
          \/ a.source \in Variations /\ s.extras[a.source].worked
Unapply(s, c, i) ==
    LET a == s.contracts[c].annexes[i]
        t == [s EXCEPT !.contracts[c].annexes[i].applied = FALSE,
                       !.contracts[c].stages = Only(@, {m \in Range(@) : m.annex # a.number})]
        back == IF Moves(t, t.extras[a.source].applied)
                THEN [t EXCEPT !.end = @ - t.extras[a.source].applied] ELSE t
    IN IF ~a.applied THEN s
       ELSE IF a.source \in Variations THEN [back EXCEPT !.extras[a.source].applied = 0] ELSE t

(* removeContractAnnex: what it put in first, then every row of that number. *)
Removed(s, c, n) ==
    LET t == Unapply(s, c, NumberedAt(s.contracts[c], n))
    IN [t EXCEPT !.contracts[c].annexes = Only(@, {a \in Range(@) : a.number # n})]

(* removeAllContractAnnexes: newest first, and the first refusal ends it. *)
Emptied(s, c) ==
    LET annexes == s.contracts[c].annexes
        after[k \in 0..Len(annexes)] ==
            IF k = 0 THEN [deal |-> s, stopped |-> FALSE]
            ELSE LET t == after[k - 1].deal
                     n == annexes[Len(annexes) - k + 1].number
                 IN IF after[k - 1].stopped \/ Refuses(t, c, NumberedAt(t.contracts[c], n))
                    THEN [deal |-> t, stopped |-> TRUE]
                    ELSE [deal |-> Removed(t, c, n), stopped |-> FALSE]
    IN after[Len(annexes)].deal

(* setVariationScheduleDays: once it is in force the difference is applied. *)
ScheduleDays(s, v, days) ==
    LET t == [s EXCEPT !.extras[v].days = days]
    IN IF ~InScope(s, v) \/ days = s.extras[v].applied THEN t
       ELSE [Extended(t, days - s.extras[v].applied) EXCEPT !.extras[v].applied = days]
-----------------------------------------------------------------------------
Annex == [number : 1..Cardinality(Joins) + 1, source : Joins, applied : BOOLEAN, signed : BOOLEAN]
Extra == [status : {"none", "open", "sent", "accepted"}, days : Terms \cup {0},
          applied : 0..MaxEnd, worked : BOOLEAN]

ContractsTypeOK ==
    /\ deal.holds = NoContract \/ ~InContract(deal.holds).cancelled
    /\ deal.end \in 0..MaxEnd /\ deal.dated \in BOOLEAN
    /\ deal.extras \in [Joins -> Extra]
    /\ \A c \in Handed :
        /\ InContract(c).signed \in BOOLEAN /\ InContract(c).cancelled \in BOOLEAN
        /\ ~(InContract(c).signed /\ InContract(c).cancelled)
        /\ \A i \in DOMAIN InContract(c).annexes : InContract(c).annexes[i] \in Annex

ContractsInit ==
    /\ deal = [contracts |-> <<>>, holds |-> NoContract, end |-> 0, dated |-> FALSE,
               invoices |-> <<>>,
               extras |-> [e \in Joins |-> [status |-> "none", days |-> 0, applied |-> 0,
                                            worked |-> FALSE]]]
    /\ steps = 0

Step == /\ steps < MaxSteps /\ steps' = steps + 1
        /\ deal'.end \in 0..MaxEnd

(* createContract with _finishContract: a job without a contract takes it. *)
CreateContract ==
    /\ Len(deal.contracts) < MaxContracts
    /\ deal' = [deal EXCEPT
            !.contracts = Append(@, [signed |-> FALSE, cancelled |-> FALSE, annexes |-> <<>>,
                                     stages |-> <<>>]),
            !.holds = IF @ = NoContract THEN Len(deal.contracts) + 1 ELSE @]
    /\ Step

MayLetGo == "hold" \in Habits => \A v \in Variations : ~Waiting(deal, v)
MayLower(v, days) == "grow" \in Habits => days >= deal.extras[v].applied
MayWorkOn(c) == "hold" \in Habits => deal.holds = c
InOrder(con) == "newest" \in Habits => \A k, l \in DOMAIN con.stages :
                                         k < l => con.stages[k].annex < con.stages[l].annex
MayTakeBack(con, n) ==
    "newest" \in Habits => /\ n = Last(con.annexes).number
                           /\ NumberedIn(con, n).applied => n = Last(con.stages).annex

Claimed(c) ==
    IF deal.holds # NoContract /\
       \/ InContract(deal.holds).signed
       \/ \E k \in DOMAIN InContract(deal.holds).stages :
            InContract(deal.holds).stages[k].invoice # 0
    THEN deal.holds ELSE c
SignTheContract(c) ==
    /\ ~InContract(c).cancelled /\ (deal.holds # Claimed(c) => MayLetGo)
    /\ deal' = [deal EXCEPT !.contracts[c].signed = TRUE, !.holds = Claimed(c)]
    /\ Step

LinkContractToProject(c) ==
    /\ ~InContract(c).cancelled /\ deal.holds # c /\ MayLetGo
    /\ deal' = [deal EXCEPT !.holds = c]
    /\ Step

Released(c) == IF deal.holds = c THEN NoContract ELSE deal.holds
CancelContract(c) ==
    /\ ~InContract(c).signed /\ (deal.holds = c => MayLetGo)
    /\ deal' = [deal EXCEPT !.contracts[c].cancelled = TRUE, !.holds = Released(c)]
    /\ Step

UpdateProject(end) ==
    /\ deal' = [deal EXCEPT !.end = end, !.dated = TRUE]
    /\ Step

(* createVariationBudget and createAdicionalBudget; addChange, priceChange.  *)
(* The budget of a variation is issued, or a change sent, in SendExtra. *)
DraftExtra(e, days) ==
    /\ deal.extras[e].status = "none"
    /\ deal' = [deal EXCEPT !.extras[e].status = "open", !.extras[e].days = days]
    /\ Step
SendExtra(e) ==
    /\ deal.extras[e].status = "open"
    /\ deal' = [deal EXCEPT !.extras[e].status = "sent"]
    /\ Step

(* acceptVersion of a variation: its annex waits, or there is no contract    *)
(* and it joins the job at once. *)
AcceptVersion(v) ==
    /\ v \in Variations /\ deal.extras[v].status = "sent"
    /\ LET s == [deal EXCEPT !.extras[v].status = "accepted"]
       IN deal' = IF s.holds = NoContract THEN Counted(s, v) ELSE Written(s, v)
    /\ Step

(* approveChange: its annex is put in force at once, its days count. *)
ApproveChange(e) ==
    /\ e \in Changes /\ deal.extras[e].status \in {"open", "sent"}
    /\ LET s == Written([deal EXCEPT !.extras[e].status = "accepted"], e)
           t == IF s.holds = NoContract THEN s
                ELSE Apply(s, s.holds, Len(s.contracts[s.holds].annexes))
       IN deal' = Extended(t, deal.extras[e].days)
    /\ Step

SetVariationScheduleDays(v, days) ==
    /\ deal.extras[v].status # "none" /\ deal.holds # NoContract /\ MayLower(v, days)
    /\ deal' = ScheduleDays(deal, v, days)
    /\ Step

(* The drawer of an annex: its days first, then signContractAnnex. *)
SignContractAnnex(c, n, days) ==
    LET i == NumberedAt(InContract(c), n)
        e == InContract(c).annexes[i].source
        s == IF e \in Variations THEN ScheduleDays(deal, e, days) ELSE deal
    IN /\ MayWorkOn(c) /\ (e \in Variations => MayLower(e, days))
       /\ deal' = Apply([s EXCEPT !.contracts[c].annexes[i].signed = TRUE], c, i)
       /\ Step

ClearContractAnnexSignature(c, n) ==
    LET i == NumberedAt(InContract(c), n)
    IN /\ MayWorkOn(c) /\ MayTakeBack(InContract(c), n)
       /\ InContract(c).annexes[i].signed /\ ~Refuses(deal, c, i)
       /\ deal' = [Unapply(deal, c, i) EXCEPT !.contracts[c].annexes[i].signed = FALSE]
       /\ Step

RemoveContractAnnex(c, n) ==
    /\ ~Refuses(deal, c, NumberedAt(InContract(c), n))
    /\ MayWorkOn(c) /\ MayTakeBack(InContract(c), n)
    /\ deal' = Removed(deal, c, n)
    /\ Step

RemoveAllContractAnnexes(c) ==
    /\ MayWorkOn(c) /\ InContract(c).annexes # <<>> /\ InOrder(InContract(c))
    /\ deal' = Emptied(deal, c)
    /\ Step

(* issueInvoice for a milestone: the invoice notes its place in the list. *)
IssueForStage(c, k) ==
    /\ c = deal.holds /\ InContract(c).signed /\ InContract(c).stages[k].invoice = 0
    /\ deal' = [deal EXCEPT !.invoices = Append(@, [contract |-> c, at |-> k]),
                            !.contracts[c].stages[k].invoice = Len(deal.invoices) + 1]
    /\ Step

(* undoLastInvoice: the milestone at that place is free again, if it is its own. *)
UndoForStage ==
    LET id == Len(deal.invoices)
        inv == deal.invoices[id]
        own == inv.at \in DOMAIN InContract(inv.contract).stages
               /\ InContract(inv.contract).stages[inv.at].invoice = id
        t == [deal EXCEPT !.invoices = Front(@)]
    IN /\ deal.invoices # <<>>
       /\ deal' = IF own THEN [t EXCEPT !.contracts[inv.contract].stages[inv.at].invoice = 0] ELSE t
       /\ Step

(* markLineProgress finds the lines of what is in scope. *)
MarkLineProgress(v, on) ==
    /\ InScope(deal, v) /\ deal.extras[v].worked # on
    /\ deal' = [deal EXCEPT !.extras[v].worked = on]
    /\ Step

ContractsNext ==
    \/ CreateContract
    \/ \E c \in Handed : SignTheContract(c) \/ LinkContractToProject(c) \/ CancelContract(c)
    \/ \E n \in 0..MaxEnd : UpdateProject(n)
    \/ \E e \in Joins, d \in Terms : DraftExtra(e, d)
    \/ \E e \in Joins : SendExtra(e) \/ AcceptVersion(e) \/ ApproveChange(e)
    \/ \E v \in Variations, d \in Terms : SetVariationScheduleDays(v, d)
    \/ \E c \in Handed : \E a \in Range(InContract(c).annexes), d \in Terms :
           SignContractAnnex(c, a.number, d)
    \/ \E c \in Handed : \E a \in Range(InContract(c).annexes) :
           ClearContractAnnexSignature(c, a.number) \/ RemoveContractAnnex(c, a.number)
    \/ \E c \in Handed : RemoveAllContractAnnexes(c)
    \/ \E c \in Handed : \E k \in DOMAIN InContract(c).stages : IssueForStage(c, k)
    \/ UndoForStage
    \/ \E v \in Variations, on \in BOOLEAN : MarkLineProgress(v, on)

ContractsSpec == ContractsInit /\ [][ContractsNext]_dealVars
-----------------------------------------------------------------------------
(* signContractAnnex: "signing twice, or changing a signature from verbal to *)
(* a document, must not append a second milestone", and taking an annex back *)
(* takes its milestone: each contract has one for each annex in force. *)
StagesMatchAnnexes ==
    \A c \in Handed :
        LET numbers == {a.number : a \in {a \in Range(InContract(c).annexes) : a.applied}}
            stages == InContract(c).stages
        IN /\ numbers = {stages[k].annex : k \in DOMAIN stages}
           /\ Cardinality(numbers) = Len(stages)

(* _unapplyContractAnnex: "the invoice points at an installment and deleting *)
(* it would leave sealed paper describing a document that is no longer       *)
(* there".  An invoice and its milestone name each other, whatever is taken  *)
(* back around them and whichever is undone. *)
StagesKnowTheirInvoices ==
    /\ \A id \in DOMAIN deal.invoices :
        LET inv == deal.invoices[id]
        IN /\ inv.at \in DOMAIN InContract(inv.contract).stages
           /\ InContract(inv.contract).stages[inv.at].invoice = id
    /\ \A c \in Handed : \A k \in DOMAIN InContract(c).stages :
        InContract(c).stages[k].invoice \in DOMAIN deal.invoices \cup {0}

(* Work marked on an extra is work on what the job has agreed to. *)
WorkedIsInScope == \A v \in Variations : deal.extras[v].worked => InScope(deal, v)

(* The date of a job moves by what the extras that join or leave it add, and *)
(* by nothing twice: apart from a date set by hand, it stays ahead of the    *)
(* days remembered as counted by the same distance, but for the days of a    *)
(* change in the step that approves it. *)
DaysOf(s, S) == SumOn([e \in S |-> s.extras[e].days], S)
AppliedDays(s) == SumOn([v \in Variations |-> s.extras[v].applied], Variations)
Approved(s) == {e \in Changes : s.extras[e].status = "accepted"}
DaysCountedOnce ==
    [][deal.dated /\ (\A n \in 0..MaxEnd : ~UpdateProject(n))
       => deal'.end - AppliedDays(deal')
          = deal.end - AppliedDays(deal) + DaysOf(deal, Approved(deal') \ Approved(deal))]_dealVars

(* A job held by a signed contract changes hands only when a person links    *)
(* another one: neither a signature nor a cancellation takes it. *)
SignedKeepsItsJob ==
    [][deal.holds # NoContract /\ InContract(deal.holds).signed
       => \/ deal'.holds = deal.holds
          \/ \E c \in Handed : LinkContractToProject(c)]_dealVars

\* What a contract promises after any sequence of changes agreed, applied, taken back,
\* worked and invoiced: its stages follow its annexes, know the invoices made of them,
\* and nobody worked on what is out of its scope.
ContractsHold ==
    /\ ContractsTypeOK
    /\ StagesMatchAnnexes
    /\ StagesKnowTheirInvoices
    /\ WorkedIsInScope
=============================================================================
