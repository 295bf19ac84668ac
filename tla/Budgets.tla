------------------------------ MODULE Budgets ------------------------------
(***************************************************************************)
(* Quotes in the browser's engine: their versions, chapters and lines, the *)
(* numbers these carry, the customer's answer, and the two ways a job that  *)
(* is under way is added to: an adicional version of the accepted scope and  *)
(* an extra, a quote of its own that joins the job (site/erp-engine.js, the  *)
(* QUO section; the screens of site/erp.html decide what may be answered).   *)
(*                                                                         *)
(* Left out: what a line is made of, sections, discounts, pictures, and the *)
(* days and annexes that Contracts models.                                  *)
(***************************************************************************)
EXTENDS Integers, FiniteSetsExt, SequencesExt

CONSTANTS ExtraQuotes,               \* the quotes that add to the job
          Cents,                \* what a line may cost
          TypedNumbers,         \* the numbers a person may type on a line
          Liberties,            \* see LibertiesAssumption
          MaxVersions, MaxRows, MaxEdits        \* bounds

(* "rearranged": chapters and lines are moved in an adicional too.  "both":  *)
(* one job is added to in both ways.  "asked again": a refused quote is sent *)
(* again.  "late answer": a version another one superseded is answered.        *)
ASSUME LibertiesAssumption ==
    Liberties \subseteq {"rearranged", "both", "asked again", "late answer"}

VARIABLES quotes,    \* state.budgets, the first one and the extras
          job,       \* the project: the version it is worked to, 0 before it is opened
          joined,    \* the extras whose annex is in force
          contracted,  \* whether the job has a contract that annexes go to
          rows,      \* the ids handed out to chapters and lines
          edits      \* the calls made so far, bounded by MaxEdits

budgetVars == <<quotes, job, joined, contracted, rows, edits>>

Main == "main"
Quotes == {Main} \cup ExtraQuotes
Versions(b) == quotes[b].versions
Current(b) == Versions(b)[quotes[b].current]
Accepted(b) == quotes[b].accepted # 0
Additional(v) == v.of # 0

\* Fault: what remains keeps the numbers it had.
RenumberedNot(chapters) == chapters
(* _renumber: by position, but for the numbers a person typed. *)
Renumbered(chapters) ==
    [i \in DOMAIN chapters |->
        [chapters[i] EXCEPT !.num = i, !.lines =
            [j \in DOMAIN @ |-> IF @[j].typed THEN @[j] ELSE [@[j] EXCEPT !.num = <<i, j>>]]]]

LinesOf(v) == UNION {Range(v.chapters[i].lines) : i \in DOMAIN v.chapters}
NumbersIn(v) == {v.chapters[i].num : i \in DOMAIN v.chapters}
BudgetTotal(v) == FoldSet(LAMBDA l, sum : sum + l.cents, 0, LinesOf(v))

(* renderAdditionalDoc prints, chapter by chapter, what each line adds to    *)
(* the line of the same id before, and takes away the lines that were in the *)
(* chapter of that number and are not in it. *)
Was(l, from) == {k \in LinesOf(from) : k.id = l.id}
Gone(c, from) ==
    UNION {{l \in Range(d.lines) : \A k \in Range(c.lines) : k.id # l.id} :
           d \in {x \in Range(from.chapters) : x.num = c.num}}
CentsOf(S) == FoldSet(LAMBDA l, sum : sum + l.cents, 0, S)
PrintedUnits(c, from) ==
    CentsOf(Range(c.lines)) - CentsOf(UNION {Was(l, from) : l \in Range(c.lines)})
    - CentsOf(Gone(c, from))
AdditionalDoc(v, from) ==
    FoldSet(LAMBDA i, sum : sum + PrintedUnits(v.chapters[i], from), 0, DOMAIN v.chapters)

(* budgetStage *)
Waits(v) == v.issued /\ v.answer = "none" /\ ~v.superseded
BudgetStage(b) ==
    IF \E k \in DOMAIN Versions(b) \ {quotes[b].accepted} :
           Additional(Versions(b)[k]) /\ Waits(Versions(b)[k]) THEN "issued"
    ELSE IF Accepted(b) THEN "accepted"
    ELSE IF \E k \in DOMAIN Versions(b) : Versions(b)[k].answer = "no" THEN "rejected"
    ELSE IF \E k \in DOMAIN Versions(b) : Versions(b)[k].issued THEN "issued" ELSE "draft"
-----------------------------------------------------------------------------
Line == [id : 1..MaxRows, num : Nat \X Nat, typed : BOOLEAN, cents : Cents]
Chapter == [id : 1..MaxRows, num : 1..MaxRows * (1 + Cardinality(ExtraQuotes)), lines : Seq(Line)]
Version == [chapters : Seq(Chapter), frozen : BOOLEAN, issued : BOOLEAN, superseded : BOOLEAN,
            answer : {"none", "yes", "no"}, of : 0..MaxVersions]
EachRowOnce(v) ==
    /\ \A i, k \in DOMAIN v.chapters : v.chapters[i].id = v.chapters[k].id => i = k
    /\ \A l, m \in LinesOf(v) : l.id = m.id => l = m
    /\ \A i \in DOMAIN v.chapters : IsInjective(v.chapters[i].lines)

BudgetsTypeOK ==
    \A b \in Quotes :
        /\ quotes[b].current \in 0..Len(Versions(b)) /\ quotes[b].accepted \in 0..Len(Versions(b))
        /\ \A k \in DOMAIN Versions(b) : Versions(b)[k] \in Version /\ EachRowOnce(Versions(b)[k])

NewDraft(chapters, of) ==
    [chapters |-> chapters, frozen |-> FALSE, issued |-> FALSE, superseded |-> FALSE,
     answer |-> "none", of |-> of]

BudgetsInit ==
    /\ quotes = [b \in Quotes |-> [versions |-> IF b = Main THEN <<NewDraft(<<>>, 0)>> ELSE <<>>,
                                   current |-> IF b = Main THEN 1 ELSE 0, accepted |-> 0]]
    /\ job = 0 /\ joined = {} /\ contracted \in BOOLEAN /\ rows = 0 /\ edits = 0

Editing == edits < MaxEdits /\ edits' = edits + 1
OnScope == Editing /\ UNCHANGED <<contracted, rows>>

(* _editableVersion *)
Editable(b) ==
    /\ quotes[b].current # 0 /\ quotes[b].accepted # quotes[b].current
    /\ ~Current(b).frozen /\ ~Current(b).issued
Rewrite(b, chapters) ==
    /\ Editable(b) /\ Editing
    /\ quotes' = [quotes EXCEPT ![b].versions[quotes[b].current].chapters = chapters]
    /\ UNCHANGED <<job, joined, contracted>>
Rearrangeable(b) == Additional(Current(b)) => "rearranged" \in Liberties

NewRow(id) == rows < MaxRows /\ rows' = rows + 1 /\ id = rows'
Without(chapters, i, j) == [chapters EXCEPT ![i].lines = RemoveAt(@, j)]
AddChapter(b) ==
    \E id \in 1..MaxRows :
        /\ NewRow(id)
        /\ Rewrite(b, Append(Current(b).chapters,
                             [id |-> id, num |-> Len(Current(b).chapters) + 1, lines |-> <<>>]))
AddLine(b, i, cents) ==
    \E id \in 1..MaxRows :
        LET c == Current(b).chapters[i]
        IN /\ NewRow(id)
           /\ Rewrite(b, [Current(b).chapters EXCEPT ![i].lines =
                  Append(@, [id |-> id, num |-> <<c.num, Len(c.lines) + 1>>, typed |-> FALSE,
                             cents |-> cents])])
EditLine(b, i, j, cents) ==
    /\ Current(b).chapters[i].lines[j].cents # cents
    /\ Rewrite(b, [Current(b).chapters EXCEPT ![i].lines[j].cents = cents])
    /\ UNCHANGED rows
DeleteLine(b, i, j) ==
    /\ Rewrite(b, Renumbered(Without(Current(b).chapters, i, j)))
    /\ UNCHANGED rows
MoveLine(b, i, j, to, at) ==
    LET without == Without(Current(b).chapters, i, j)
        line == Current(b).chapters[i].lines[j]
    IN /\ at \in 1..Len(without[to].lines) + 1
       /\ Rearrangeable(b)
       /\ Rewrite(b, Renumbered([without EXCEPT ![to].lines = InsertAt(@, at, line)]))
       /\ UNCHANGED rows
RemoveChapter(b, i) ==
    /\ Rearrangeable(b)
    /\ Rewrite(b, Renumbered(RemoveAt(Current(b).chapters, i)))
    /\ UNCHANGED rows
MoveChapter(b, i, to) ==
    /\ i # to /\ Rearrangeable(b)
    /\ Rewrite(b, Renumbered(InsertAt(RemoveAt(Current(b).chapters, i), to,
                                      Current(b).chapters[i])))
    /\ UNCHANGED rows
(* setLineNumber: a number that is free is the line's own from then on, and   *)
(* an empty one gives the line back to its position. *)
SetLineNumber(b, i, j, num) ==
    /\ \A l \in LinesOf(Current(b)) \ {Current(b).chapters[i].lines[j]} : l.num # num
    /\ Rewrite(b, [Current(b).chapters EXCEPT ![i].lines[j].num = num,
                                              ![i].lines[j].typed = TRUE])
    /\ UNCHANGED rows
ClearLineNumber(b, i, j) ==
    /\ Current(b).chapters[i].lines[j].typed
    /\ Rewrite(b, Renumbered([Current(b).chapters EXCEPT ![i].lines[j].typed = FALSE]))
    /\ UNCHANGED rows
-----------------------------------------------------------------------------
AppendVersion(b, v, versions) ==
    /\ Len(versions) < MaxVersions
    /\ quotes' = [quotes EXCEPT ![b].versions = Append(versions, v),
                                ![b].current = Len(versions) + 1]
    /\ UNCHANGED <<job, joined>> /\ OnScope

(* The builder offers a new version of one that is locked. *)
NewVersion(b) ==
    LET k == quotes[b].current
    IN /\ k # 0 /\ ~Accepted(b) /\ (Current(b).frozen \/ Current(b).issued)
       /\ Current(b).answer = "no" => "asked again" \in Liberties
       /\ AppendVersion(b, NewDraft(Current(b).chapters, 0),
              [Versions(b) EXCEPT ![k].superseded = TRUE, ![k].frozen = @ \/ Current(b).issued])
CreateAdditionalVersion ==
    /\ job # 0 /\ Accepted(Main)
    /\ "both" \in Liberties \/ \A e \in ExtraQuotes : Versions(e) = <<>>
    /\ AppendVersion(Main, NewDraft(Versions(Main)[quotes[Main].accepted].chapters,
                                 quotes[Main].accepted), Versions(Main))
CreateVariationBudget(e) ==
    /\ job # 0 /\ Versions(e) = <<>>
    /\ "both" \in Liberties \/ \A k \in DOMAIN Versions(Main) : ~Additional(Versions(Main)[k])
    /\ AppendVersion(e, NewDraft(<<>>, 0), <<>>)

IssueVersion(b) ==
    /\ Editable(b)
    /\ quotes' = [quotes EXCEPT ![b].versions[quotes[b].current].issued = TRUE,
                                ![b].versions[quotes[b].current].frozen = TRUE]
    /\ UNCHANGED <<job, joined>> /\ OnScope

(* versionAnswerable *)
Answerable(b, k) ==
    LET v == Versions(b)[k]
    IN /\ v.issued /\ v.answer = "none"
       /\ IF Additional(v) THEN quotes[b].accepted # k ELSE ~Accepted(b)
       /\ v.superseded => "late answer" \in Liberties

(* _projectVersions: what the job is worked to, and the extras in force. *)
ScopeVersions ==
    (IF job = 0 THEN {} ELSE {Versions(Main)[job]})
    \cup {Versions(e)[quotes[e].accepted] : e \in joined}
CarriedOn(chapters) ==
    LET last == Max({0} \cup UNION {NumbersIn(v) : v \in ScopeVersions})
    IN [i \in DOMAIN chapters |->
            [chapters[i] EXCEPT !.num = last + i, !.lines =
                [j \in DOMAIN @ |-> IF @[j].typed THEN @[j]
                                    ELSE [@[j] EXCEPT !.num = <<last + i, j>>]]]]

Superseding(versions, k) ==
    [i \in DOMAIN versions |->
        LET v == versions[i]
        IN IF i # k /\ Additional(v) /\ v.answer = "none" /\ ~v.superseded
           THEN [v EXCEPT !.superseded = TRUE, !.frozen = TRUE] ELSE v]
Retired(versions, k) ==
    [versions EXCEPT ![k].superseded = TRUE, ![k].frozen = TRUE]

Answered(b, k, answer) ==
    [Versions(b) EXCEPT ![k].answer = answer, ![k].frozen = TRUE,
        ![k].chapters = IF b \in ExtraQuotes /\ answer = "yes" THEN CarriedOn(@) ELSE @]
AnswerYes(b, k) ==
    LET v == Versions(b)[k]
        answered == Answered(b, k, "yes")
        others == IF Additional(v) THEN Superseding(answered, k) ELSE answered
    IN /\ Answerable(b, k)
       /\ quotes' = [quotes EXCEPT ![b].accepted = k, ![b].versions =
              IF Additional(v) /\ ~contracted THEN Retired(others, v.of) ELSE others]
       /\ job' = IF b = Main /\ (~Additional(v) \/ ~contracted) THEN k ELSE job
       /\ joined' = IF b \in ExtraQuotes /\ ~contracted THEN joined \cup {b} ELSE joined
       /\ OnScope
RejectVersion(b, k) ==
    /\ Answerable(b, k) /\ ~Accepted(b)
    /\ quotes' = [quotes EXCEPT ![b].versions = Answered(b, k, "no")]
    /\ UNCHANGED <<job, joined>> /\ OnScope

(* signContractAnnex: what was agreed on the contract comes into force. *)
SignExtra(e) ==
    /\ contracted /\ Accepted(e) /\ e \notin joined
    /\ joined' = joined \cup {e} /\ UNCHANGED <<quotes, job>> /\ OnScope
SignAdditional ==
    /\ contracted /\ job # 0 /\ quotes[Main].accepted # job
    /\ job' = quotes[Main].accepted
    /\ quotes' = [quotes EXCEPT ![Main].versions = Retired(@, job)]
    /\ UNCHANGED joined /\ OnScope

EditNext(b) ==
    /\ quotes[b].current # 0
    /\ \/ AddChapter(b)
       \/ \E i \in DOMAIN Current(b).chapters :
            \/ RemoveChapter(b, i)
            \/ \E cents \in Cents : AddLine(b, i, cents)
            \/ \E to \in DOMAIN Current(b).chapters : MoveChapter(b, i, to)
            \/ \E j \in DOMAIN Current(b).chapters[i].lines :
                 \/ DeleteLine(b, i, j) \/ ClearLineNumber(b, i, j)
                 \/ \E cents \in Cents : EditLine(b, i, j, cents)
                 \/ \E num \in TypedNumbers : SetLineNumber(b, i, j, num)
                 \/ \E to \in DOMAIN Current(b).chapters, at \in 1..MaxRows :
                        MoveLine(b, i, j, to, at)
BudgetsNext ==
    \/ \E b \in Quotes : EditNext(b) \/ NewVersion(b) \/ IssueVersion(b)
    \/ \E b \in Quotes : \E k \in DOMAIN Versions(b) : AnswerYes(b, k) \/ RejectVersion(b, k)
    \/ CreateAdditionalVersion \/ SignAdditional
    \/ \E e \in ExtraQuotes : CreateVariationBudget(e) \/ SignExtra(e)

BudgetsSpec == BudgetsInit /\ [][BudgetsNext]_budgetVars
-----------------------------------------------------------------------------
(* _requireFreeNumber: "Two rows may not answer to one number: it is the     *)
(* reader's only index."  In no version do two lines, or two chapters. *)
NumbersAreUnique ==
    \A b \in Quotes : \A k \in DOMAIN Versions(b) : LET v == Versions(b)[k] IN
        /\ \A l, m \in LinesOf(v) : l.num = m.num => l = m
        /\ \A i, n \in DOMAIN v.chapters : v.chapters[i].num = v.chapters[n].num => i = n

(* acceptVersion: "every cost allocation, every progress mark and every      *)
(* report addresses a chapter by (projectId, num)": two quotes of one job    *)
(* have no chapter number in common. *)
ScopeNumbersAreUnique ==
    \A v, w \in ScopeVersions : v # w => NumbersIn(v) \cap NumbersIn(w) = {}

(* renderAdditionalDoc: "the same figure that goes on the annex, so the      *)
(* document and the contract cannot disagree". *)
PaperMatchesAnnex ==
    \A k \in DOMAIN Versions(Main) : LET v == Versions(Main)[k] IN
        Additional(v) => AdditionalDoc(v, Versions(Main)[v.of])
                         = BudgetTotal(v) - BudgetTotal(Versions(Main)[v.of])

(* budgetStage: "What the row must say is what is waiting on somebody". *)
StageSaysWhatWaits ==
    \A b \in Quotes : (\E k \in DOMAIN Versions(b) : Waits(Versions(b)[k]) /\ Answerable(b, k))
                      => BudgetStage(b) = "issued"

(* A version that was sent reads as it was sent, and an answer is the answer; *)
(* only the numbers of an extra follow the job it joins. *)
IssuedPaperStands ==
    [][\A b \in Quotes : \A k \in DOMAIN Versions(b) :
        LET v == Versions(b)[k]
            now == quotes'[b].versions[k]
            joins == b \in ExtraQuotes /\ v.answer = "none" /\ now.answer = "yes"
        IN v.issued => /\ now.issued
                       /\ LinesOf(v) = LinesOf(now) \/ joins
                       /\ v.answer = "none" \/ now.answer = v.answer]_budgetVars

(* acceptVersion: accepting a superseded one "would apply a revision of a    *)
(* scope that no longer exists": an adicional that is accepted revises what  *)
(* was accepted until then. *)
AdicionalRevisesWhatStands ==
    [][LET was == quotes[Main].accepted
           is == quotes'[Main].accepted
       IN was # 0 /\ is # was => quotes'[Main].versions[is].of = was]_budgetVars

\* What the budgets of a job promise after any sequence of drafts, versions, extras and
\* answers: numbers name one document, what was printed is what was annexed, and the
\* stage of a job says what waits for an answer.
BudgetsHold ==
    /\ BudgetsTypeOK
    /\ NumbersAreUnique
    /\ ScopeNumbersAreUnique
    /\ PaperMatchesAnnex
    /\ StageSaysWhatWaits
=============================================================================
