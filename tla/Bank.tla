-------------------------------- MODULE Bank --------------------------------
(***************************************************************************)
(* The bank lines of the browser's engine and what explains them: importing*)
(* statements, matching a line to bills or invoices, declaring it a         *)
(* transfer, a card settlement, cash taken out or brought back, a general   *)
(* expense or a line without papers, undoing that, emptying an account and  *)
(* locking a quarter (site/erp-engine.js, the BNK section; site/erp.html,   *)
(* the reconciliation screen, which says what lines its panel opens on).    *)
(*                                                                         *)
(* Left out: the balance a statement declares, merchant rules, the wording *)
(* of an explanation, the status a bill displays and the blockers of a      *)
(* quarter that are not bank lines.                                         *)
(***************************************************************************)
EXTENDS Tables, FiniteSetsExt, SequencesExt

CONSTANTS Accounts, Cards,              \* bank accounts, and those that are cards
          Lines,                        \* the kinds of line a statement has
          AccountOf, QuarterOf, Amount, Times,   \* how often the bank wrote each
          Statements,                   \* the files: how often each has each line
          Papers, FromSuppliers, Total,  \* invoices and, among them, supplier bills
          PaperQuarter, FiledQuarters,  \* periods whose package has gone out
          MaxMoves, MaxDeeds            \* bounds

\* A file holds a line as often as the bank wrote it, or less.
ASSUME StatementsAssumption ==
    /\ IsFiniteSet(Lines) /\ Times \in [Lines -> Nat]
    /\ \A s \in Statements :
        DOMAIN s \subseteq Lines /\ \A l \in DOMAIN s : s[l] \in Nat /\ s[l] <= Times[l]
ASSUME PapersAssumption == Total \in [Papers -> Nat] /\ MaxMoves \in Nat

VARIABLES moves,      \* state.movements, by id
          payments,   \* state.payments and state.collections, by the call that made them
          writeOffs,  \* what was forgiven of each paper
          booked,     \* the papers in the register
          locked,     \* the quarters closed and not reopened
          imported,   \* the ids handed out
          deeds       \* the calls made so far, bounded by MaxDeeds

bankVars == <<moves, payments, writeOffs, booked, locked, imported, deeds>>

Nobody == 0
Quarters == {QuarterOf[l] : l \in Lines}
Classes == {"none", "transfer", "cost", "receipt", "overhead", "other"}
Sum(f) == SumOn(f, DOMAIN f)

Of(m) == moves[m].line
Size(m) == IF Amount[Of(m)] < 0 THEN -Amount[Of(m)] ELSE Amount[Of(m)]
Closed(m) == QuarterOf[Of(m)] \in locked
Naming(m) == {k \in DOMAIN payments : payments[k].move = m}

(* billOutstandingCents and invoiceOutstandingCents *)
PaidBy(k, p) == IF p \in DOMAIN payments[k].pays THEN payments[k].pays[p] ELSE 0
Paid(p) == SumOn([k \in DOMAIN payments |-> PaidBy(k, p)], DOMAIN payments)
Owed(p) == Total[p] - Paid(p) - writeOffs[p]

(* cashWithdrawalState: what is left of a withdrawal once the papers matched *)
(* to it and the deposits that bring cash back are taken off. *)
Left(w) ==
    Size(w) - Sum(moves[w].papers)
    - MapThenSumSet(Size, {d \in DOMAIN moves : moves[d].returns = w})

(* unreconciledMovements and openCashWithdrawals: the lines the panel opens  *)
(* on. In a closed period it shows the line and no button. *)
Queue == {m \in DOMAIN moves : /\ moves[m].status = "unallocated"
                               /\ ~moves[m].unbacked /\ ~moves[m].excluded}
Panel == {m \in DOMAIN moves : moves[m].cash /\ Left(m) > 0}
Workable == {m \in Queue \cup Panel : ~Closed(m)}

Explained(m) ==                                       \* movementExplanation
    \/ moves[m].papers # <<>> \/ moves[m].settles \/ moves[m].pair # Nobody
    \/ moves[m].class # "none" \/ moves[m].allocated \/ moves[m].unbacked

Keeps(m) ==                                           \* _discardableMovement
    \/ moves[m].status # "unallocated" \/ moves[m].papers # <<>>
    \/ moves[m].allocated \/ moves[m].unbacked \/ Closed(m)

(* classifyMovement *)
Classified(r, class) ==
    [r EXCEPT !.class = class, !.status = "allocated",
              !.excluded = @ \/ class = "transfer"]

(* What the three ways of undoing put back. *)
Cleared(r) ==
    [r EXCEPT !.unbacked = FALSE, !.settles = FALSE, !.allocated = FALSE,
              !.class = "none", !.excluded = FALSE, !.status = "unallocated"]
Unpaired(r) ==
    [r EXCEPT !.pair = Nobody, !.class = "none", !.excluded = FALSE,
              !.status = "unallocated"]
Unmatched(r) ==
    [r EXCEPT !.papers = <<>>, !.allocated = FALSE, !.class = "none",
              !.status = "unallocated"]

(* The payments left once those of some movements are voided. *)
Void(gone) ==
    [k \in {k \in DOMAIN payments : payments[k].move \notin gone} |-> payments[k]]
-----------------------------------------------------------------------------
\* What a line may pay of some papers: all that one of them comes to, or a part.
Splits == UNION {[S -> {Total[p] : p \in Papers} \cup {10}] : S \in (SUBSET Papers) \ {{}}}
Movement == [line : Lines, batch : 1..MaxMoves, class : Classes,
             status : {"unallocated", "allocated", "matched"}, papers : Splits \cup {<<>>},
             excluded : BOOLEAN, unbacked : BOOLEAN, allocated : BOOLEAN, settles : BOOLEAN,
             cash : BOOLEAN, pair : 0..MaxMoves, returns : 0..MaxMoves]

BankTypeOK ==
    /\ imported \in 0..MaxMoves /\ DOMAIN moves \subseteq 1..imported
    /\ \A m \in DOMAIN moves : moves[m] \in Movement /\ DOMAIN moves[m].papers \subseteq booked
    /\ DOMAIN payments \subseteq 1..deeds
    /\ \A k \in DOMAIN payments : payments[k] \in [move : DOMAIN moves, pays : Splits]
    /\ locked \subseteq Quarters
    /\ writeOffs \in [Papers -> Nat] /\ \A p \in Papers \ booked : writeOffs[p] = 0

BankInit ==
    /\ moves = <<>> /\ payments = <<>>
    /\ writeOffs = [p \in Papers |-> 0]
    /\ booked = Papers \ FromSuppliers
    /\ locked = {} /\ imported = 0 /\ deeds = 0

Deed == deeds < MaxDeeds /\ deeds' = deeds + 1
OnMoves == Deed /\ UNCHANGED <<payments, writeOffs, booked, locked, imported>>

(* previewImport and importMovements: a file read before holds lines already *)
(* here, and those of its lines that are more than what is here are new. *)
Held(l) == Cardinality({m \in DOMAIN moves : Of(m) = l})
Unexplained(l) ==
    [line |-> l, batch |-> imported + 1, class |-> "none", status |-> "unallocated",
     papers |-> <<>>, excluded |-> FALSE, unbacked |-> FALSE, allocated |-> FALSE,
     settles |-> FALSE, cash |-> FALSE, pair |-> Nobody, returns |-> Nobody]
Fresh(s) == UNION {{l} \X (Held(l) + 1..s[l]) : l \in DOMAIN s}
ImportMovements(s) ==
    /\ \A l \in DOMAIN s : s[l] > 0 => QuarterOf[l] \notin locked
    /\ LET new == SetToSeq(Fresh(s))
       IN /\ new # <<>> /\ imported + Len(new) <= MaxMoves
          /\ imported' = imported + Len(new)
          /\ moves' = [k \in DOMAIN moves \cup (imported + 1..imported') |->
                 IF k \in DOMAIN moves THEN moves[k] ELSE Unexplained(new[k - imported][1])]
    /\ Deed
    /\ UNCHANGED <<payments, writeOffs, booked, locked>>

Discard(S) ==
    LET gone == {m \in S : ~Keeps(m)}
    IN gone # {} /\ moves' = [m \in DOMAIN moves \ gone |-> moves[m]] /\ OnMoves

UndoImport(b) == Discard({m \in DOMAIN moves : moves[m].batch = b})
DiscardMovements(a) == Discard({m \in DOMAIN moves : AccountOf[Of(m)] = a})

(* resetAccountMovements: what was matched is unmatched first. *)
ResetAccountMovements(a) ==
    LET here == {m \in DOMAIN moves : AccountOf[Of(m)] = a}
    IN /\ here # {} /\ \A m \in here : ~Closed(m)
       /\ payments' = Void({m \in here : moves[m].papers # <<>>})
       /\ moves' = [m \in DOMAIN moves \ here |-> moves[m]]
       /\ Deed
       /\ UNCHANGED <<writeOffs, booked, locked, imported>>

(* matchMovementSplit with payBills or recordCollection, which refuse to pay *)
(* a paper more than it owes, to the cent. *)
MatchMovementSplit(m, pays) ==
    /\ m \in Workable
    /\ DOMAIN pays \subseteq booked
    /\ DOMAIN pays \subseteq (IF Amount[Of(m)] < 0 THEN FromSuppliers ELSE Papers \ FromSuppliers)
    /\ Sum(pays) <= Size(m) + 1
    /\ \A p \in DOMAIN pays : pays[p] <= Owed(p) + 1
    /\ payments' = WithRow(payments, deeds + 1, [move |-> m, pays |-> pays])
    /\ moves' = [moves EXCEPT ![m].papers = pays, ![m].status = "matched",
            ![m].class = IF moves[m].cash THEN "transfer"
                         ELSE IF Amount[Of(m)] < 0 THEN "cost" ELSE "receipt"]
    /\ Deed
    /\ UNCHANGED <<writeOffs, booked, locked, imported>>

SplitMovement(m) ==
    /\ m \in Workable
    /\ moves' = [moves EXCEPT ![m].allocated = TRUE, ![m].class = "overhead",
                              ![m].status = "allocated"]
    /\ OnMoves

ClassifyMovement(m, class) ==
    /\ m \in Workable
    /\ moves' = [moves EXCEPT ![m] = Classified(@, class)]
    /\ OnMoves

MarkMovementUnbacked(m) ==
    /\ m \in Workable /\ moves[m].papers = <<>>
    /\ moves' = [moves EXCEPT ![m].unbacked = TRUE]
    /\ OnMoves

MarkCardSettlement(m) ==
    /\ m \in Workable /\ AccountOf[Of(m)] \notin Cards /\ Cards # {} /\ Amount[Of(m)] < 0
    /\ moves' = [moves EXCEPT ![m].class = "transfer", ![m].settles = TRUE,
            ![m].status = IF @ = "unallocated" THEN "allocated" ELSE @]
    /\ OnMoves

MarkCashWithdrawal(m) ==
    /\ m \in Workable /\ AccountOf[Of(m)] \notin Cards /\ Amount[Of(m)] < 0 /\ ~moves[m].cash
    /\ moves' = [moves EXCEPT ![m] = [Classified(@, "transfer") EXCEPT !.cash = TRUE]]
    /\ OnMoves

MarkCashReturn(d, w) ==
    /\ d \in Workable /\ AccountOf[Of(d)] \notin Cards /\ Amount[Of(d)] > 0
    /\ moves[w].cash /\ moves[d].returns \in {Nobody, w}
    /\ Size(d) <= Left(w) + 1
    /\ moves' = [moves EXCEPT ![d] = [Classified(@, "transfer") EXCEPT !.returns = w]]
    /\ OnMoves

(* Proposed for two lines of the queue; both legs name each other. *)
MarkInternalTransfer(a, b) ==
    /\ {a, b} \subseteq {m \in Queue : ~Closed(m) /\ moves[m].papers = <<>>}
    /\ AccountOf[Of(a)] # AccountOf[Of(b)] /\ Amount[Of(a)] < 0 /\ Amount[Of(b)] > 0
    /\ moves[a].pair \in {Nobody, b} /\ moves[b].pair \in {Nobody, a}
    /\ moves' = [moves EXCEPT ![a] = [Classified(@, "transfer") EXCEPT !.pair = b],
                              ![b] = [Classified(@, "transfer") EXCEPT !.pair = a]]
    /\ OnMoves

(* unexplainMovement with unmatchMovement and unmarkInternalTransfer *)
Legs(m) == {m} \cup ({moves[m].pair} \cap DOMAIN moves)
Unmatch(m) ==
    /\ payments' = Void({m})
    /\ moves' = [moves EXCEPT ![m] = Unmatched(@)]
\* Fault: the other leg keeps naming this one.
UnmarkTransferOneLeg(m) ==
    /\ \A n \in Legs(m) : ~Closed(n)
    /\ moves' = [moves EXCEPT ![m] = Unpaired(@)]
    /\ UNCHANGED payments
UnmarkTransfer(m) ==
    /\ \A n \in Legs(m) : ~Closed(n)
    /\ moves' = [n \in DOMAIN moves |-> IF n \in Legs(m) THEN Unpaired(moves[n]) ELSE moves[n]]
    /\ UNCHANGED payments

UnexplainMovement(m) ==
    /\ ~Closed(m) /\ Explained(m)
    /\ IF moves[m].papers # <<>> THEN Unmatch(m)
       ELSE IF moves[m].pair # Nobody /\ ~moves[m].settles THEN UnmarkTransfer(m)
       ELSE moves' = [moves EXCEPT ![m] = Cleared(@)] /\ UNCHANGED payments
    /\ Deed
    /\ UNCHANGED <<writeOffs, booked, locked, imported>>

(* settleShortfall, offered for what a match left owed: all of it. *)
SettleShortfall(p) ==
    /\ p \in booked /\ Owed(p) > 0
    /\ writeOffs' = [writeOffs EXCEPT ![p] = @ + Owed(p)]
    /\ Deed
    /\ UNCHANGED <<moves, payments, booked, locked, imported>>

BillArrives(p) ==
    /\ p \in FromSuppliers \ booked
    /\ booked' = booked \cup {p}
    /\ Deed
    /\ UNCHANGED <<moves, payments, writeOffs, locked, imported>>

BillDeletable(p) ==                                        \* billDeleteBlock
    /\ p \in FromSuppliers \cap booked /\ PaperQuarter[p] \notin FiledQuarters
    /\ \A k \in DOMAIN payments : p \notin DOMAIN payments[k].pays
    /\ \A m \in DOMAIN moves : p \notin DOMAIN moves[m].papers
BillGoes(p) ==
    /\ BillDeletable(p)
    /\ booked' = booked \ {p} /\ writeOffs' = [writeOffs EXCEPT ![p] = 0]
    /\ Deed
    /\ UNCHANGED <<moves, payments, locked, imported>>

(* closeQuarter with the blockers that are bank lines, and reopenBankPeriod *)
CloseQuarter(q) ==
    /\ q \notin locked
    /\ \A m \in {m \in DOMAIN moves : QuarterOf[Of(m)] = q} :
        /\ moves[m].status # "unallocated" \/ moves[m].unbacked
        /\ moves[m].cash => Left(m) <= 0
    /\ locked' = locked \cup {q}
    /\ Deed
    /\ UNCHANGED <<moves, payments, writeOffs, booked, imported>>

ReopenBankPeriod(q) ==
    /\ q \in locked
    /\ locked' = locked \ {q}
    /\ Deed
    /\ UNCHANGED <<moves, payments, writeOffs, booked, imported>>

BankNext ==
    \/ \E s \in Statements : ImportMovements(s)
    \/ \E b \in 1..MaxMoves : UndoImport(b)
    \/ \E a \in Accounts : DiscardMovements(a) \/ ResetAccountMovements(a)
    \/ \E m \in DOMAIN moves, pays \in Splits : MatchMovementSplit(m, pays)
    \/ \E m \in DOMAIN moves : SplitMovement(m)
    \/ \E m \in DOMAIN moves, c \in {"other", "transfer"} : ClassifyMovement(m, c)
    \/ \E m \in DOMAIN moves : MarkMovementUnbacked(m) \/ MarkCardSettlement(m)
    \/ \E m \in DOMAIN moves : MarkCashWithdrawal(m)
    \/ \E d, w \in DOMAIN moves : MarkCashReturn(d, w) \/ MarkInternalTransfer(d, w)
    \/ \E m \in DOMAIN moves : UnexplainMovement(m)
    \/ \E p \in Papers : SettleShortfall(p) \/ BillArrives(p) \/ BillGoes(p)
    \/ \E q \in Quarters : CloseQuarter(q) \/ ReopenBankPeriod(q)

BankSpec == BankInit /\ [][BankNext]_bankVars
-----------------------------------------------------------------------------
(* unmatchMovement: "leaving that behind would show the bill as paid on one  *)
(* screen and the movement as unreconciled on another".  A line shows papers *)
(* exactly while a payment made by it stands, and that one covers them. *)
PaidIffMatched ==
    /\ \A m \in DOMAIN moves : moves[m].papers # <<>> <=> Naming(m) # {}
    /\ \A m \in DOMAIN moves :
        moves[m].papers # <<>> => \E k \in Naming(m) : payments[k].pays = moves[m].papers

(* No paper is paid or forgiven for more than it comes to, whatever lines    *)
(* pay it and whatever is undone in between. *)
PapersNotOverpaid == \A p \in Papers : Paid(p) + writeOffs[p] <= Total[p] + 1

(* However its files overlap, and whatever was deleted and read again, the   *)
(* bank wrote as many lines of a kind as the register holds or more. *)
EachLineOnce == \A l \in Lines : Held(l) <= Times[l]

(* The two legs of a transfer name each other while both are there. *)
TransferLegsMutual ==
    \A m, n \in DOMAIN moves : moves[m].pair = n => moves[n].pair = m /\ m # n

(* A closed quarter holds nothing that nobody explained. *)
ClosedMeansExplained ==
    \A m \in DOMAIN moves :
        Closed(m) => moves[m].status # "unallocated" \/ moves[m].unbacked

(* While a quarter is closed its lines stay as they are, with the payments   *)
(* they made, also when the other leg or another account is worked on. *)
ClosedLinesStand ==
    [][\A m \in DOMAIN moves : Closed(m) =>
        /\ m \in DOMAIN moves' /\ moves'[m] = moves[m]
        /\ \A k \in Naming(m) : \E j \in DOMAIN payments' : payments'[j] = payments[k]]_bankVars

(* matchMovementSplit: "what it settled, all of it - not the last one        *)
(* considered". *)
ShowsAllItSettled ==
    \A m \in DOMAIN moves :
        MapThenSumSet(LAMBDA k : Sum(payments[k].pays), Naming(m)) = Sum(moves[m].papers)

\* What reconciliation promises after any sequence of imports, matches, transfers,
\* write-offs and undone matches: the money on a document is the money of its lines, no
\* document and no line is used beyond its amount, and a closed quarter is explained.
BankReconciles ==
    /\ BankTypeOK
    /\ PaidIffMatched
    /\ PapersNotOverpaid
    /\ EachLineOnce
    /\ TransferLegsMutual
    /\ ClosedMeansExplained
=============================================================================
