------------------------------- MODULE Margins -------------------------------
(***************************************************************************)
(* What a job costs and earns, chapter by chapter and line by line, while  *)
(* the scope it is measured against moves: adicionales are drafted from the *)
(* accepted version, join the contract as annexes, come into force when    *)
(* these are signed, and leave again (site/erp-engine.js, the FIN section,  *)
(* with the parts of QUO, CON and PRJ that move the scope; the economics   *)
(* panel of site/erp.html).                                                *)
(*                                                                         *)
(* A line is the quantity it is sold in, at one price and one cost; numbers *)
(* typed by hand, sections, taxes and extras of a quote of their own are   *)
(* left out, and so are days and milestones, which Contracts models.       *)
(***************************************************************************)
EXTENDS Tables, SequencesExt

CONSTANTS Qtys, Costs,          \* what a line is sold in; what a cost may come to
          Liberties,            \* see MarginLiberties
          MaxScopes, MaxItems, MaxCosts, MaxMoves       \* bounds

(* "cut": an adicional removes and moves what was accepted before, and not   *)
(* only what it adds itself.  "any order": annexes are signed and taken back *)
(* in any order.  "again": an adicional is accepted after an annex was       *)
(* removed.  "costed": an annex is taken back with costs on what it brought. *)
ASSUME MarginLiberties ==
    Liberties \subseteq {"cut", "any order", "again", "costed"}

ASSUME MarginAmounts ==
    /\ Qtys \subseteq Int /\ Costs \subseteq Int
    /\ MaxItems \in Nat \ {0, 1} /\ MaxMoves \in Nat       \* a job has one chapter, one line

VARIABLES scopes,    \* the versions of the budget: chapters, each its lines' quantities
          agreed,    \* b.acceptedVersionId
          inForce,   \* prj.acceptedVersionId
          underContract,   \* whether adicionales go through annexes
          annexes,   \* the annexes of the contract: [version, cents, applied]
          removed,   \* whether an annex was ever taken back
          costs,     \* the rows of projectCostRows: [line, chapter, cents]
          items,     \* the ids handed out to chapters and lines
          moves      \* the calls made so far, bounded by MaxMoves

marginVars ==
    <<scopes, agreed, inForce, underContract, annexes, removed, costs, items, moves>>

Sale == 2        \* a unit of any line is sold at 2 and costs 1
Quick == inForce = 0            \* createQuickProject: no budget, one chapter
ChaptersIn(v) == scopes[v].chapters
LinesIn(v) == UNION {DOMAIN ChaptersIn(v)[n].lines : n \in DOMAIN ChaptersIn(v)}
UnitsOf(chapter) == SumOn(chapter.lines, DOMAIN chapter.lines)
UnitsIn(v, S) == SumOn([n \in S |-> UnitsOf(ChaptersIn(v)[n])], S)
(* budgetTotals, the sale *)
SaleOf(v) == Sale * UnitsIn(v, DOMAIN ChaptersIn(v))

(* The baseline of the project is a copy of the first version it was opened *)
(* with; a quick job has one chapter made up for it. *)
Baseline == IF Quick THEN {1} ELSE DOMAIN ChaptersIn(1)
-----------------------------------------------------------------------------
(* projectChapters *)
InScope == IF Quick THEN {} ELSE DOMAIN ChaptersIn(inForce)
\* Fault: only the chapters the job was opened with.
InTableBaseline == Baseline
(* chapterEconomics: the baseline, then the chapters that joined it. *)
InTable == Baseline \cup InScope
CostOf(S) == SumOn([i \in S |-> costs[i].cents], S)
(* chapterCosts, lineEconomics and chapterEconomics all go by the number.    *)
OnChapter(n) == {i \in DOMAIN costs : costs[i].chapter = n}
ActualCost == CostOf(DOMAIN costs)
(* unassignedChapterCosts *)
Unassigned == {i \in DOMAIN costs : costs[i].chapter = 0}
(* lineEconomics: one row for each line of the chapter of that number, and  *)
(* one for the costs that name no line. *)
LineRows(n) == IF n \in InScope THEN DOMAIN ChaptersIn(inForce)[n].lines ELSE {}
LineCost(n, l) == CostOf({i \in OnChapter(n) : costs[i].line = l})
(* projectEconomics: what was sold, and the chapters that joined. *)
Revenue == SaleOf(1) + Sale * UnitsIn(inForce, InScope \ Baseline)
-----------------------------------------------------------------------------
NoLines == [l \in {} |-> 0]
MarginsTypeOK ==
    /\ agreed \in 0..Len(scopes) /\ inForce \in 0..Len(scopes) /\ moves \in 0..MaxMoves
    /\ \A v \in DOMAIN scopes :
           /\ scopes[v].of \in 0..v - 1 /\ scopes[v].superseded \in BOOLEAN
           /\ scopes[v].built \subseteq LinesIn(v) /\ LinesIn(v) \subseteq 1..MaxItems
           /\ \A n, m \in DOMAIN ChaptersIn(v) : n # m =>
                  DOMAIN ChaptersIn(v)[n].lines \cap DOMAIN ChaptersIn(v)[m].lines = {}
    /\ \A k \in DOMAIN annexes : annexes[k].version \in 2..Len(scopes)

MarginsInit ==
    /\ \E quick \in BOOLEAN :
           /\ scopes = IF quick THEN <<>> ELSE
                  <<[chapters |-> <<[id |-> 1, lines |-> [l \in {2} |-> 1]]>>, of |-> 0, built |-> {},
                     answered |-> TRUE, superseded |-> FALSE]>>
           /\ agreed = Len(scopes) /\ inForce = Len(scopes)
           /\ underContract \in (IF quick THEN {FALSE} ELSE BOOLEAN)
    /\ annexes = <<>> /\ removed = FALSE /\ costs = <<>> /\ items = 2 /\ moves = 0

Move == moves < MaxMoves /\ moves' = moves + 1 /\ UNCHANGED underContract

(* createAdditionalVersion: a copy of the version the customer accepted. *)
OpenAdicional ==
    /\ agreed # 0 /\ Len(scopes) < MaxScopes
    /\ scopes' = Append(scopes, [scopes[agreed] EXCEPT !.of = agreed, !.answered = FALSE,
                                                       !.superseded = FALSE])
    /\ Move /\ UNCHANGED <<agreed, inForce, annexes, removed, costs, items>>

(* _editableVersion: the current version is the one added last. *)
Rewrite(chapters) ==
    LET v == Len(scopes)
    IN /\ v > 1 /\ ~scopes[v].answered /\ ~scopes[v].superseded
       /\ scopes' = [scopes EXCEPT ![v].chapters = chapters,
                         ![v].built = @ \cap UNION {DOMAIN c.lines : c \in Range(chapters)}]
       /\ Move /\ UNCHANGED <<agreed, inForce, annexes, removed, costs>>
Draft == IF scopes = <<>> THEN <<>> ELSE Last(scopes).chapters
FreshItem == items < MaxItems /\ items' = items + 1
AddChapter == FreshItem /\ Rewrite(Append(Draft, [id |-> items', lines |-> NoLines]))
AddLine(n, q) == FreshItem /\ Rewrite([Draft EXCEPT ![n].lines = WithRow(@, items', q)])
Requantify(n, l, q) ==
    /\ Draft[n].lines[l] # q /\ Rewrite([Draft EXCEPT ![n].lines[l] = q]) /\ UNCHANGED items
(* The chapters and lines the draft was copied with. *)
Before == IF scopes = <<>> THEN 0 ELSE Last(scopes).of
ItsOwnChapter(n) == "cut" \in Liberties \/ (Before # 0 /\ n > Len(ChaptersIn(Before)))
ItsOwnLine(l) == "cut" \in Liberties \/ (Before # 0 /\ l \notin LinesIn(Before))
DeleteLine(n, l) ==
    /\ ItsOwnLine(l) /\ UNCHANGED items
    /\ Rewrite([Draft EXCEPT ![n].lines = [k \in DOMAIN @ \ {l} |-> @[k]]])
RemoveChapter(n) == ItsOwnChapter(n) /\ Rewrite(RemoveAt(Draft, n)) /\ UNCHANGED items
MoveChapter(n, at) ==
    /\ n # at /\ ItsOwnChapter(n) /\ ItsOwnChapter(at) /\ UNCHANGED items
    /\ Rewrite(InsertAt(RemoveAt(Draft, n), at, Draft[n]))

(* Coming into force: _applyContractAnnex, and acceptVersion when the job has *)
(* no contract. *)
PutInForce(v) ==
    /\ scopes' = [scopes EXCEPT ![scopes[v].of].superseded = TRUE] /\ inForce' = v

(* acceptVersion sets aside the other adicionales nobody has answered. *)
SetAside(v) ==
    {w \in DOMAIN scopes \ {1, v} : ~scopes[w].answered /\ ~scopes[w].superseded}

(* acceptVersion of an adicional, with writeContractAnnex. *)
Accept(v) ==
    /\ scopes[v].of # 0 /\ ~scopes[v].answered /\ ~scopes[v].superseded /\ agreed' = v
    /\ removed => "again" \in Liberties
    /\ LET closed == [w \in DOMAIN scopes |->
                         [scopes[w] EXCEPT !.superseded = @ \/ w \in SetAside(v),
                                           !.answered = @ \/ w = v]]
       IN IF underContract
          THEN /\ annexes' = Append(annexes, [version |-> v, applied |-> FALSE,
                                              cents |-> SaleOf(v) - SaleOf(scopes[v].of)])
               /\ scopes' = closed /\ UNCHANGED inForce
          ELSE /\ scopes' = [closed EXCEPT ![scopes[v].of].superseded = TRUE]
               /\ inForce' = v /\ UNCHANGED annexes
    /\ Move /\ UNCHANGED <<removed, costs, items>>

(* signContractAnnex *)
Sign(k) ==
    /\ ~annexes[k].applied
    /\ "any order" \notin Liberties => \A j \in 1..k - 1 : annexes[j].applied
    /\ annexes' = [annexes EXCEPT ![k].applied = TRUE]
    /\ PutInForce(annexes[k].version)
    /\ Move /\ UNCHANGED <<agreed, removed, costs, items>>

(* _unapplyContractAnnex refuses when something is built on what it brought. *)
Brought(v) == LinesIn(v) \ LinesIn(scopes[v].of)
TakenBack(v) == scopes[v].of
Unapply(k) ==
    LET v == annexes[k].version
    IN /\ scopes[v].built \cap Brought(v) = {}
       /\ "costed" \notin Liberties => \A i \in DOMAIN costs : costs[i].line \notin Brought(v)
       /\ scopes' = [scopes EXCEPT ![scopes[v].of].superseded = FALSE]
       /\ inForce' = TakenBack(v)
(* clearContractAnnexSignature *)
Unsign(k) ==
    /\ annexes[k].applied /\ Unapply(k)
    /\ "any order" \notin Liberties => \A j \in k + 1..Len(annexes) : ~annexes[j].applied
    /\ annexes' = [annexes EXCEPT ![k].applied = FALSE]
    /\ Move /\ UNCHANGED <<agreed, removed, costs, items>>
(* removeContractAnnex *)
RemoveAnnex(k) ==
    /\ "any order" \in Liberties \/ k = Len(annexes)
    /\ (IF annexes[k].applied THEN Unapply(k) ELSE UNCHANGED <<scopes, inForce>>)
    /\ annexes' = RemoveAt(annexes, k) /\ removed' = TRUE
    /\ Move /\ UNCHANGED <<agreed, costs, items>>

(* markLineProgress *)
MarkLine(l) ==
    /\ scopes' = [scopes EXCEPT ![inForce].built =
                      IF l \in @ THEN @ \ {l} ELSE @ \cup {l}]
    /\ Move /\ UNCHANGED <<agreed, inForce, annexes, removed, costs, items>>

(* _lineAlloc: the chapter is read off the line, in the scope in force. *)
ChapterOf(l) == CHOOSE n \in InScope : l \in DOMAIN ChaptersIn(inForce)[n].lines
Book(l, n, cents) ==
    /\ Len(costs) < MaxCosts
    /\ costs' = Append(costs, [line |-> l, chapter |-> n, cents |-> cents])
    /\ Move /\ UNCHANGED <<scopes, agreed, inForce, annexes, removed, items>>
(* A bill or an entry of hours, and a credit note, which counts against. *)
BookOn(l, c) == Book(l, ChapterOf(l), c) \/ Book(l, ChapterOf(l), -c)
(* On a quick job a cost names no line, and waits for a chapter. *)
BookLoose(c) == Quick /\ Book(0, 0, c)
SplitInto(i, parts) == ReplaceAt(costs, i, Head(parts)) \o Tail(parts)
(* assignChapterSplit: the only chapter a quick job has, to within a cent. *)
AssignSplit(i, c) ==
    LET part(cents) == [line |-> 0, chapter |-> 1, cents |-> cents]
    IN /\ i \in Unassigned /\ c \in 1..costs[i].cents + 1
       /\ \E d \in 0..costs[i].cents + 1 - c :
              /\ c + d \in costs[i].cents - 1..costs[i].cents + 1
              /\ costs' = SplitInto(i, IF d = 0 THEN <<part(c)>> ELSE <<part(c), part(d)>>)
       /\ Move /\ UNCHANGED <<scopes, agreed, inForce, annexes, removed, items>>

MarginsNext ==
    \/ OpenAdicional \/ AddChapter
    \/ \E n \in DOMAIN Draft, q \in Qtys :
           AddLine(n, q) \/ (\E l \in DOMAIN Draft[n].lines : Requantify(n, l, q))
    \/ \E n \in DOMAIN Draft : (\E l \in DOMAIN Draft[n].lines : DeleteLine(n, l))
                               \/ RemoveChapter(n) \/ (\E at \in DOMAIN Draft : MoveChapter(n, at))
    \/ \E v \in DOMAIN scopes : Accept(v)
    \/ \E k \in DOMAIN annexes : Sign(k) \/ Unsign(k) \/ RemoveAnnex(k)
    \/ \E l \in 1..MaxItems : ~Quick /\ l \in LinesIn(inForce) /\
           (MarkLine(l) \/ (\E c \in Costs : BookOn(l, c)))
    \/ \E c \in Costs : BookLoose(c)
    \/ \E i \in DOMAIN costs, c \in Costs : AssignSplit(i, c)
-----------------------------------------------------------------------------
(* The rows of the table and what waits for a chapter come to the cost of   *)
(* the job, to the cent: the claim the panel prints under the table. *)
TableFoots ==
    SumOn([n \in InTable |-> CostOf(OnChapter(n))], InTable) + CostOf(Unassigned) = ActualCost

(* A chapter opened into its lines comes to what the table says of it. *)
LinesFoot ==
    \A n \in InTable :
        SumOn([l \in LineRows(n) |-> LineCost(n, l)], LineRows(n)) + LineCost(n, 0)
        = CostOf(OnChapter(n))

(* What the customer signed is what is built: the sale of the scope in force *)
(* is what the job was sold for plus the annexes in force. *)
SignedFor(S) == SumOn([k \in S |-> annexes[k].cents], S)
SignedIsBuilt ==
    underContract => SaleOf(inForce) =
        SaleOf(1) + SignedFor({k \in DOMAIN annexes : annexes[k].applied})

(* A scope never comes into force without what is built: the progress of a   *)
(* line changes only when it is marked. *)
BuiltIsKept ==
    [][inForce' # inForce =>
           \A l \in LinesIn(inForce) \cap LinesIn(inForce)' :
               l \in scopes[inForce].built => l \in scopes'[inForce'].built]_marginVars

(* The revenue the panel prints is what the scope in force is sold for. *)
RevenueIsTheScope == Quick \/ Revenue = SaleOf(inForce)

\* What the margins of a job promise after any sequence of scope changes, costs and
\* corrections: the table and its lines add up to the cost, and the scope built is the
\* scope signed.
MarginsHold ==
    /\ MarginsTypeOK
    /\ TableFoots
    /\ LinesFoot
    /\ SignedIsBuilt
=============================================================================
