------------------------------ MODULE Matching ------------------------------
(***************************************************************************)
(* What is proposed for the bank lines nothing explains yet: pairs that    *)
(* are one transfer between two accounts of the company, and papers a line *)
(* may have paid, some of them at one press (capabilities/reconciliation,  *)
(* src/match.ts; the bridge, and the screen that presses).                 *)
(*                                                                         *)
(* The text of a line is the papers whose number it quotes and the parties *)
(* it names.  Confidence is kept in hundredths; the order of the proposals *)
(* and how many of them are shown are left out.  What the register does    *)
(* with a line that is matched is Bank's.                                  *)
(***************************************************************************)
EXTENDS Tables, FiniteSetsExt

CONSTANTS Shapes,      \* the lines a statement may have: [account, cents, day, names, quotes]
          Papers,      \* bills to pay, numbered in the order they were registered
          Due, PaidTo, PaperDay,    \* of each paper
          DayTolerance, CentTolerance, AutoAccept, MaxCombination,
          Windows,     \* the periods the screen may show: sets of days
          Likenesses,  \* what may look alike, see LikenessesAssumption
          MaxLines, MaxClicks

(* "two out": all that is sure is marked while two payments out fit one in.  *)
(* "across the end": the screen shows less than everything.  "mixed": a line *)
(* that the papers of several parties add up to is matched to them.          *)
ASSUME LikenessesAssumption == Likenesses \subseteq {"two out", "across the end", "mixed"}
ASSUME ToleranceAssumption ==
    DayTolerance \in Nat /\ CentTolerance \in Nat /\ AutoAccept \in 0..100
ASSUME StatementAssumption ==
    /\ \A s \in Shapes : s.cents \in Int /\ s.day \in Int /\ s.day \in UNION Windows
    /\ Papers \subseteq Nat /\ IsFiniteSet(Papers)
    /\ Due \in [Papers -> Nat] /\ PaperDay \in [Papers -> Int]
    /\ MaxLines \in Nat /\ MaxClicks \in Nat

VARIABLES lines,     \* state.movements, in the order they were imported
          pairOf,    \* transferPair of each: another line or Nobody
          settled,   \* what each line paid: papers -> cents
          guessed,   \* history: pairs marked in bulk that had a rival
          clicked,   \* history: the papers each line was given at one press, and what they lacked
          clicks     \* the presses made so far, bounded by MaxClicks

matchingVars == <<lines, pairOf, settled, guessed, clicked, clicks>>

NoOther == 0
Distance(m, n) == IF m < n THEN n - m ELSE m - n
Size(n) == IF n < 0 THEN -n ELSE n
Loose(m) == pairOf[m] = NoOther /\ DOMAIN settled[m] = {}

\* The bridge proposes nothing for a line that is explained, or out of the period.
Candidates(window) == {m \in DOMAIN lines : Loose(m) /\ lines[m].day \in window}

\* An out and an in of two accounts, near enough in cents and days.
FitTogether(o, i) ==
    /\ lines[o].cents < 0 /\ lines[i].cents > 0
    /\ lines[o].account # lines[i].account
    /\ Distance(Size(lines[o].cents), lines[i].cents) <= CentTolerance
    /\ Distance(lines[o].day, lines[i].day) <= DayTolerance

\* Fault: only the ins as near as the nearest count as rivals.
PairOfNearest(found, o, among) ==
    LET fitting == {i \in among \ {p.in : p \in found} : FitTogether(o, i)}
        Days(i) == Distance(lines[o].day, lines[i].day)
        nearest == {i \in fitting : \A j \in fitting : Days(i) <= Days(j)}
    IN IF fitting = {} THEN found
       ELSE found \cup {[out |-> o, in |-> Min(nearest),
                         alternatives |-> Cardinality(nearest) - 1]}

\* findInternalTransfers: the outs in turn, each with the nearest in that is left.
Pair(found, o, among) ==
    LET taken == {p.in : p \in found}
        fitting == {i \in among \ taken : FitTogether(o, i)}
        Days(i) == Distance(lines[o].day, lines[i].day)
        nearest == {i \in fitting : \A j \in fitting : Days(i) <= Days(j)}
    IN IF fitting = {} THEN found
       ELSE found \cup {[out |-> o, in |-> Min(nearest),
                         alternatives |-> Cardinality(fitting) - 1]}

InternalTransfers(window) ==
    LET among == Candidates(window)
        found[n \in 0..Len(lines)] ==
            IF n = 0 THEN {}
            ELSE IF n \in among /\ lines[n].cents < 0 THEN Pair(found[n - 1], n, among)
            ELSE found[n - 1]
    IN found[Len(lines)]

Ambiguous(p) == p.alternatives > 0
-----------------------------------------------------------------------------
\* What is left to pay of a paper, and what a line has paid.
PaidBy(m, d) == IF d \in DOMAIN settled[m] THEN settled[m][d] ELSE 0
Open(d) == Due[d] - SumOn([m \in DOMAIN lines |-> PaidBy(m, d)], DOMAIN lines)
Spent(m) == SumOn([d \in Papers |-> PaidBy(m, d)], Papers)
OpenOf(S) == SumOn([d \in S |-> Open(d)], S)

Target(m) == Size(lines[m].cents)
Quoted(m, S) == S \cap lines[m].quotes # {}
NamesPayee(m, S) == \E d \in S : PaidTo[d] \in lines[m].names

\* A part payment: one paper, less than what is left of it, and its number quoted.
Partial(m, S) ==
    /\ Distance(Target(m), OpenOf(S)) > CentTolerance
    /\ Cardinality(S) = 1 /\ Target(m) < OpenOf(S) /\ Quoted(m, S)

AmountPoints(m, S) ==
    LET gap == Distance(Target(m), OpenOf(S))
    IN IF gap = 0 THEN 45 ELSE IF gap <= CentTolerance THEN 30 ELSE 0

DatePoints(m, S) ==
    LET days == Min({Distance(lines[m].day, PaperDay[d]) : d \in S})
    IN IF days = 0 THEN 20
       ELSE IF days <= DayTolerance
            THEN (12 * (DayTolerance + 1 - days)) \div (DayTolerance + 1)
            ELSE 0

\* score
Confidence(m, S) ==
    AmountPoints(m, S) + DatePoints(m, S)
        + (IF Quoted(m, S) THEN 30 ELSE 0) + (IF NamesPayee(m, S) THEN 15 ELSE 0)

OneClick(m, S) == ~Partial(m, S) /\ Confidence(m, S) >= AutoAccept /\ NamesPayee(m, S)

\* suggestMatches: one paper, or several that could not explain the line alone.
Suggestions(m) ==
    LET open == {d \in Papers : Open(d) > 0 /\ lines[m].cents < 0}
        combinable == {d \in open : Open(d) < Target(m)}
        several == {S \in SUBSET combinable : Cardinality(S) \in 2..MaxCombination}
    IN {S \in {{d} : d \in open} \cup several :
            Distance(Target(m), OpenOf(S)) <= CentTolerance \/ Partial(m, S)}

\* The closest first, which among papers that a line exceeds is the largest; then by day.
Ahead(m, e, d) ==
    LET Away(p) == Distance(lines[m].day, PaperDay[p])
    IN \/ Open(e) > Open(d)
       \/ Open(e) = Open(d) /\ Away(e) < Away(d)
       \/ Open(e) = Open(d) /\ Away(e) = Away(d) /\ e < d

\* settle: each paper in its turn, as far as the line reaches past those ahead of it.
Takes(m, S) ==
    LET Left(d) == Target(m) - OpenOf({e \in S : Ahead(m, e, d)})
    IN [d \in {d \in S : Left(d) > 0} |-> IF Open(d) < Left(d) THEN Open(d) ELSE Left(d)]

MatchingTypeOK ==
    /\ lines \in Seq(Shapes) /\ Len(lines) <= MaxLines
    /\ DOMAIN pairOf = DOMAIN lines /\ DOMAIN settled = DOMAIN lines
    /\ DOMAIN clicked \subseteq DOMAIN lines
    /\ \A m \in DOMAIN lines : /\ pairOf[m] \in 0..Len(lines)
                               /\ DOMAIN settled[m] \subseteq Papers
    /\ clicks \in 0..MaxClicks

MatchingInit ==
    /\ lines = <<>> /\ pairOf = <<>> /\ settled = <<>>
    /\ guessed = {} /\ clicked = <<>> /\ clicks = 0

\* importMovements
ImportLine(line) ==
    /\ Len(lines) < MaxLines
    /\ lines' = Append(lines, line)
    /\ pairOf' = Append(pairOf, NoOther)
    /\ settled' = Append(settled, [d \in {} |-> 0])
    /\ UNCHANGED <<guessed, clicked, clicks>>

Click == clicks < MaxClicks /\ clicks' = clicks + 1 /\ UNCHANGED lines
PeriodsShown == IF "across the end" \in Likenesses THEN Windows ELSE {UNION Windows}

\* markInternalTransfer, on each of some proposals.
Mark(pairs) ==
    pairOf' = [m \in DOMAIN pairOf |->
                  IF \E p \in pairs : m = p.out THEN (CHOOSE p \in pairs : m = p.out).in
                  ELSE IF \E p \in pairs : m = p.in THEN (CHOOSE p \in pairs : m = p.in).out
                  ELSE pairOf[m]]

MarkPair(p) ==
    /\ Click /\ Mark({p})
    /\ UNCHANGED <<settled, guessed, clicked>>

\* Another loose line of the register would do as well for one of the two.
HasRival(p) ==
    \E m \in DOMAIN lines : /\ Loose(m)
                            /\ \/ m # p.in /\ FitTogether(p.out, m)
                               \/ m # p.out /\ FitTogether(m, p.in)

OutsFor(i) == {o \in DOMAIN lines : Loose(o) /\ FitTogether(o, i)}

\* The button that marks all that is sure (rcTransfersAll).
MarkSure(window) ==
    LET sure == {p \in InternalTransfers(window) : ~Ambiguous(p)}
    IN /\ "two out" \in Likenesses \/ \A i \in DOMAIN lines : Cardinality(OutsFor(i)) <= 1
       /\ sure # {} /\ Click /\ Mark(sure)
       /\ guessed' = guessed \cup {p \in sure : HasRival(p)}
       /\ UNCHANGED <<settled, clicked>>

\* unmarkInternalTransfer, from either leg.
Unmark(m) ==
    /\ pairOf[m] # NoOther /\ Click
    /\ pairOf' = [pairOf EXCEPT ![m] = NoOther, ![pairOf[m]] = NoOther]
    /\ UNCHANGED <<settled, guessed, clicked>>

\* settle on a proposal, which is one click when the line names who is paid.
Settle(m, S) ==
    /\ Loose(m) /\ S \in Suggestions(m) /\ Click
    /\ "mixed" \in Likenesses \/ Cardinality({PaidTo[d] : d \in S}) = 1
    /\ settled' = [settled EXCEPT ![m] = Takes(m, S)]
    /\ clicked' = IF OneClick(m, S)
                  THEN WithRow(clicked, m, [papers |-> S, lacked |-> OpenOf(S) - Target(m)])
                  ELSE clicked
    /\ UNCHANGED <<pairOf, guessed>>

\* unmatchMovement
Unmatch(m) ==
    /\ DOMAIN settled[m] # {} /\ Click
    /\ settled' = [settled EXCEPT ![m] = [d \in {} |-> 0]]
    /\ clicked' = [n \in DOMAIN clicked \ {m} |-> clicked[n]]
    /\ UNCHANGED <<pairOf, guessed>>

MatchingNext ==
    \/ \E line \in Shapes : ImportLine(line)
    \/ \E window \in PeriodsShown : \E p \in InternalTransfers(window) : MarkPair(p)
    \/ \E window \in PeriodsShown : MarkSure(window)
    \/ \E m \in DOMAIN lines : Unmark(m) \/ Unmatch(m)
    \/ \E m \in DOMAIN lines, S \in (SUBSET Papers) \ {{}} : Settle(m, S)

\* No line is proposed twice.
ProposalsDisjoint ==
    \A window \in PeriodsShown : \A p, q \in InternalTransfers(window) :
        p # q => {p.out, p.in} \cap {q.out, q.in} = {}

\* Whatever is marked and undone, two loose lines that fit are not both passed over.
EveryFitIsOffered ==
    \A window \in PeriodsShown : \A o, i \in Candidates(window) :
        FitTogether(o, i) => \E p \in InternalTransfers(window) : p.out = o \/ p.in = i

\* What is marked in bulk was not a guess: "zero is the ordinary case and the only one
\* safe to accept in bulk" (reconciliation/src/model.ts).
SureIsNoGuess == guessed = {}

\* One click names whoever it pays: "never auto-accept a proposal whose counterparty
\* does not agree, however exact the amount" (match.ts).
OneClickNamesThem ==
    \A m \in DOMAIN clicked : \A d \in clicked[m].papers : PaidTo[d] \in lines[m].names

\* What one click settles is settled, but for the cents of a charge.
OneClickSettles ==
    \A m \in DOMAIN clicked : /\ clicked[m].lacked <= CentTolerance
                              /\ Target(m) - Spent(m) <= CentTolerance

\* The two legs of a transfer name each other, and are one in and one out of two accounts.
LegsMatch ==
    \A m \in DOMAIN lines : pairOf[m] # NoOther =>
        /\ pairOf[pairOf[m]] = m
        /\ lines[m].account # lines[pairOf[m]].account
        /\ lines[m].cents < 0 <=> lines[pairOf[m]].cents > 0

\* A line is explained once, pays no more than it moved, and no paper is overpaid.
ExplainedOnce ==
    /\ \A m \in DOMAIN lines : /\ Loose(m) \/ pairOf[m] = NoOther \/ Spent(m) = 0
                               /\ Spent(m) <= Target(m)
    /\ \A d \in Papers : Open(d) >= 0

MatchingHolds ==
    /\ MatchingTypeOK
    /\ ProposalsDisjoint
    /\ EveryFitIsOffered
    /\ SureIsNoGuess
    /\ OneClickNamesThem
    /\ OneClickSettles
    /\ LegsMatch
    /\ ExplainedOnce
=============================================================================
