----------------------------- MODULE BookImport -----------------------------
(***************************************************************************)
(* A workbook read into the price book or into a budget, and a budget's     *)
(* earlier version read as if it were one (site/erp-book-import.js; the two  *)
(* drawers of site/erp.html that apply it).  The plan is what the operator   *)
(* is shown before it is applied; the drawer covers the page in between, so *)
(* both are one step here.                                                  *)
(*                                                                         *)
(* Left out: reading the file, names in Catalan, and the fields of a row     *)
(* that go the way of its two figures (unit, type, brand, model, quality).  *)
(***************************************************************************)
EXTENDS Integers, FiniteSetsExt, SequencesExt, TLC

CONSTANTS Blank,       \* a cell with nothing in it
          SheetRows,   \* what a row of a sheet may say
          FirstBook,   \* the price book before the first upload
          Careless,    \* see CarelessAssumption
          MaxSheet, MaxUploads, MaxTouches     \* bounds

(* "named twice": two rows give one subpartida two figures.  "left blank": a  *)
(* budget's sheet leaves out a figure the book has.  "untitled": a version is *)
(* recovered where a partida without título follows one that has one.  "old   *)
(* figures": what is recovered was re-priced since.                            *)
ASSUME CarelessAssumption ==
    Careless \subseteq {"named twice", "left blank", "untitled", "old figures"}

VARIABLES priceBook, \* titles, partidas and catalogue with itemPartidaLinks
          versions,  \* the chapters of each version of a budget, the last one open
          uploads, touches

importVars == <<priceBook, versions, uploads, touches>>

Columns == {"price", "cost"}
NoFigures == [f \in Columns |-> 0]
Open == Last(versions)
Sheets == BoundedSeq(SheetRows, MaxSheet) \ {<<>>}

(* stripBlank: only the cells that carried something. *)
Carrying(was, cells) == [f \in Columns |-> IF cells[f] = Blank THEN was[f] ELSE cells[f]]
Known(b) == DOMAIN b.items
Cells(names) == names \ {Blank}
-----------------------------------------------------------------------------
(* planBook.  The partida of a row carries down to the subpartidas below it.  *)
EmptyPlan == [titles |-> {}, partidas |-> {}, items |-> <<>>, above |-> Blank]
FiledUnder(plan, r) == IF r.partida # Blank THEN r.partida ELSE plan.above
Homeless(plan, r) == r.item # Blank /\ FiledUnder(plan, r) = Blank

(* A subpartida named twice in one file is one; the later figures win.        *)
PlanNew(planned, r, under) ==
    LET seen == {k \in DOMAIN planned : planned[k].item = r.item}
    IN IF seen = {}
       THEN Append(planned, [item |-> r.item, cells |-> r.cells, under |-> {under}])
       ELSE [planned EXCEPT ![Min(seen)].cells = Carrying(@, r.cells),
                            ![Min(seen)].under = @ \cup {under}]
(* One that is in the book: the cells that differ, and a partida it lacks.    *)
PlanKnown(planned, r, under, was) ==
    LET differs == \E f \in Columns : r.cells[f] \notin {Blank, was.cells[f]}
        adds == {under} \ was.filed
    IN IF ~differs /\ adds = {} THEN planned
       ELSE Append(planned,
                [item |-> r.item, under |-> adds,
                 cells |-> IF differs THEN r.cells ELSE [f \in Columns |-> Blank]])
PlanRow(b, plan, r) ==
    LET under == FiledUnder(plan, r)
    IN IF Homeless(plan, r) THEN plan
       ELSE [titles |-> plan.titles \cup (Cells({r.title}) \ b.titles),
             partidas |-> plan.partidas \cup (Cells({r.partida}) \ b.partidas),
             items |-> IF r.item = Blank THEN plan.items
                       ELSE IF r.item \in Known(b)
                            THEN PlanKnown(plan.items, r, under, b.items[r.item])
                       ELSE PlanNew(plan.items, r, under),
             above |-> under]
PlanBook(b, rows) == FoldLeft(LAMBDA plan, r : PlanRow(b, plan, r), EmptyPlan, rows)

(* nextItemCode: past the highest there is, whatever the gaps. *)
NextItemCode(b) == Max({0} \cup {b.items[i].code : i \in Known(b)}) + 1

(* applyBook: titles and partidas, then each subpartida, filed under what it  *)
(* had and what the sheet names. *)
ApplyItem(b, i) ==
    IF i.item \notin Known(b)
    THEN [b EXCEPT !.items = @ @@ (i.item :> [code |-> NextItemCode(b), filed |-> i.under,
                                             cells |-> Carrying(NoFigures, i.cells)])]
    ELSE [b EXCEPT !.items[i.item].cells = Carrying(@, i.cells),
                   !.items[i.item].filed = @ \cup i.under]
ApplyBook(b, plan) ==
    FoldLeft(ApplyItem, [b EXCEPT !.titles = @ \cup plan.titles,
                                  !.partidas = @ \cup plan.partidas], plan.items)
ReadInto(b, rows) == ApplyBook(b, PlanBook(b, rows))
-----------------------------------------------------------------------------
(* planBudget: título and partida both carry down, an empty figure is a zero, *)
(* and the rows are grouped by título and partida.                              *)
Filled(cell, done, column) ==
    IF cell # Blank THEN cell ELSE IF done = <<>> THEN Blank ELSE Last(done)[column]
Carried(rows) ==
    FoldLeft(LAMBDA done, r :
        Append(done, [title |-> Filled(r.title, done, "title"),
                      partida |-> Filled(r.partida, done, "partida"),
                      item |-> r.item, cells |-> Carrying(NoFigures, r.cells)]), <<>>, rows)
LinesOfSheet(rows) ==
    SelectSeq(Carried(rows), LAMBDA r : r.item # Blank /\ r.partida # Blank)
Key(c) == <<c.title, c.partida>>
Keyed(chapters, c) == {k \in DOMAIN chapters : Key(chapters[k]) = Key(c)}
Named(lines, i) == {k \in DOMAIN lines : lines[k].item = i}
Grouped(chapters, r) ==
    LET at == Keyed(chapters, r)
        line == [item |-> r.item, cells |-> r.cells]
    IN IF at = {} THEN Append(chapters, [title |-> r.title, partida |-> r.partida,
                                         lines |-> <<line>>])
       ELSE [chapters EXCEPT ![Max(at)].lines = Append(@, line)]
PlanBudget(rows) == FoldLeft(Grouped, <<>>, LinesOfSheet(rows))

(* The rows a budget's sheet is for the price book. *)
BareRow == [title |-> Blank, partida |-> Blank, item |-> Blank,
            cells |-> [f \in Columns |-> Blank]]
BookRows(chapters) ==
    FlattenSeq([k \in DOMAIN chapters |->
        LET c == chapters[k]
        IN (IF c.title = Blank THEN <<>> ELSE <<[BareRow EXCEPT !.title = c.title]>>)
           \o <<[BareRow EXCEPT !.partida = c.partida]>>
           \o [j \in DOMAIN c.lines |-> [BareRow EXCEPT !.partida = c.partida,
                  !.item = c.lines[j].item, !.cells = c.lines[j].cells]]])

(* applyBudget: what is there under the same título and partida is rewritten. *)
PutLine(lines, l) ==
    IF Named(lines, l.item) = {} THEN Append(lines, l)
    ELSE [lines EXCEPT ![Max(Named(lines, l.item))] = l]
PutChapter(chapters, c) ==
    IF Keyed(chapters, c) = {}
    THEN Append(chapters, [c EXCEPT !.lines = FoldLeft(PutLine, <<>>, c.lines)])
    ELSE [chapters EXCEPT ![Max(Keyed(chapters, c))].lines = FoldLeft(PutLine, @, c.lines)]
Drafted(chapters, rows) == FoldLeft(PutChapter, chapters, PlanBudget(rows))
Quoted(b, rows) == ReadInto(b, BookRows(PlanBudget(rows)))

(* recoverableVersions, versionRows *)
Here(c, l) == \E k \in Keyed(Open, c) : Named(Open[k].lines, l.item) # {}
Missing(c) == {j \in DOMAIN c.lines : ~Here(c, c.lines[j])}
VersionRows(chapters, pick) ==
    FlattenSeq([k \in DOMAIN chapters |->
        IF k \notin pick THEN <<>>
        ELSE [j \in DOMAIN chapters[k].lines |->
                 [title |-> chapters[k].title, partida |-> chapters[k].partida,
                  item |-> chapters[k].lines[j].item, cells |-> chapters[k].lines[j].cells]]])
-----------------------------------------------------------------------------
(* What a careful office keeps to. *)
SaysOneThing(rows) ==
    \A j, k \in DOMAIN rows, f \in Columns :
        rows[j].item = rows[k].item /\ rows[j].item # Blank
            => Cardinality(Cells({rows[j].cells[f], rows[k].cells[f]})) <= 1
LeavesOut(b, rows) ==
    \E k \in DOMAIN rows, f \in Columns :
        /\ rows[k].cells[f] = Blank /\ rows[k].item \in Known(b)
        /\ b.items[rows[k].item].cells[f] # 0
BookSheet(rows) == SaysOneThing(rows) \/ "named twice" \in Careless
BudgetSheet(rows) ==
    /\ BookSheet(LinesOfSheet(rows))
    /\ LeavesOut(priceBook, rows) => "left blank" \in Careless
TitledAlike(rows) ==
    \A k \in DOMAIN rows \ {1} : rows[k].title = Blank => rows[k - 1].title = Blank
StillPriced(rows) ==
    \A r \in Range(rows) :
        /\ r.item \in Known(priceBook) => r.cells = priceBook.items[r.item].cells
        /\ \A c \in Range(Open) : Key(c) = Key(r)
               => \A k \in Named(c.lines, r.item) : c.lines[k].cells = r.cells
Recoverable(n, pick) ==
    LET rows == VersionRows(versions[n], pick)
    IN /\ pick # {} /\ \A k \in pick : Missing(versions[n][k]) # {}
       /\ BudgetSheet(rows)
       /\ TitledAlike(rows) \/ "untitled" \in Careless
       /\ StillPriced(rows) \/ "old figures" \in Careless
-----------------------------------------------------------------------------
Item == [code : Nat, cells : [Columns -> Nat], filed : SUBSET priceBook.partidas]
ImportTypeOK ==
    /\ priceBook.titles \subseteq Cells({r.title : r \in SheetRows})
    /\ \A i \in Known(priceBook) : priceBook.items[i] \in Item
    /\ \A n \in DOMAIN versions : \A c \in Range(versions[n]) :
           c.partida # Blank /\ \A l \in Range(c.lines) : l.cells \in [Columns -> Nat]

ImportInit == priceBook = FirstBook /\ versions = <<(<<>>)>> /\ uploads = 0 /\ touches = 0

Uploading == uploads < MaxUploads /\ uploads' = uploads + 1 /\ UNCHANGED touches
Touching == touches < MaxTouches /\ touches' = touches + 1 /\ UNCHANGED <<priceBook, uploads>>
Redraft(chapters) == versions' = [versions EXCEPT ![Len(versions)] = chapters]

(* bookImportDrawer, for the price book and for the open version *)
UploadBook(rows) ==
    /\ BookSheet(rows) /\ Uploading
    /\ priceBook' = ReadInto(priceBook, rows) /\ UNCHANGED versions
UploadBudget(rows) ==
    /\ BudgetSheet(rows) /\ Uploading
    /\ priceBook' = Quoted(priceBook, rows) /\ Redraft(Drafted(Open, rows))
(* versionRecoverDrawer *)
RecoverVersion(n, pick) ==
    LET rows == VersionRows(versions[n], pick)
    IN /\ Recoverable(n, pick) /\ Uploading
       /\ priceBook' = Quoted(priceBook, rows) /\ Redraft(Drafted(Open, rows))

(* What is done by hand in between: newVersion, removeChapter, removeLine and *)
(* updateLine. *)
NextVersion == Touching /\ versions' = Append(versions, Open)
DropChapter(k) == Touching /\ Redraft(RemoveAt(Open, k))
DropLine(k, j) == Touching /\ Redraft([Open EXCEPT ![k].lines = RemoveAt(@, j)])
Reprice(k, j, cents) ==
    /\ Touching /\ cents # Open[k].lines[j].cells.price
    /\ Redraft([Open EXCEPT ![k].lines[j].cells.price = cents])

ImportNext ==
    \/ \E rows \in Sheets : UploadBook(rows) \/ UploadBudget(rows)
    \/ \E n \in 1..Len(versions) - 1 : \E pick \in SUBSET DOMAIN versions[n] :
           RecoverVersion(n, pick)
    \/ NextVersion
    \/ \E k \in DOMAIN Open :
           \/ DropChapter(k)
           \/ \E j \in DOMAIN Open[k].lines :
                  DropLine(k, j) \/ \E cents \in {10, 30} : Reprice(k, j, cents)
-----------------------------------------------------------------------------
(* applyBudget: "THE SAME SHEET TWICE MUST CHANGE NOTHING", in the price book *)
(* and in the budget.                                                          *)
SameSheetTwice ==
    \A rows \in Sheets :
        /\ BookSheet(rows) =>
               LET once == ReadInto(priceBook, rows) IN ReadInto(once, rows) = once
        /\ BudgetSheet(rows) =>
               LET b == Quoted(priceBook, rows)   d == Drafted(Open, rows)
               IN Quoted(b, rows) = b /\ Drafted(d, rows) = d

(* planBook, applyBook: "a blank cell erases nothing", an upload un-files     *)
(* nothing, and a figure is the one there was or one the sheet gives.         *)
AddsTo(b, rows) ==
    /\ priceBook.titles \subseteq b.titles /\ priceBook.partidas \subseteq b.partidas
    /\ Known(priceBook) \subseteq Known(b)
    /\ \A i \in Known(b), f \in Columns :
           b.items[i].cells[f] \in
               {IF i \in Known(priceBook) THEN priceBook.items[i].cells[f] ELSE 0}
               \cup Cells({rows[k].cells[f] : k \in {n \in DOMAIN rows : rows[n].item = i}})
    /\ \A i \in Known(priceBook) : priceBook.items[i].filed \subseteq b.items[i].filed
BlankErasesNothing ==
    \A rows \in Sheets : /\ BookSheet(rows) => AddsTo(ReadInto(priceBook, rows), rows)
                         /\ BudgetSheet(rows) => AddsTo(Quoted(priceBook, rows), rows)

(* Each título and partida is one chapter, each subpartida one line of it     *)
(* that the book knows, and no two of the book share a código.                *)
NothingStacked ==
    /\ \A i, j \in Known(priceBook) :
           priceBook.items[i].code = priceBook.items[j].code => i = j
    /\ \A c \in Range(Open) :
           /\ Cardinality(Keyed(Open, c)) = 1
           /\ \A l \in Range(c.lines) : Cardinality(Named(c.lines, l.item)) = 1
                                        /\ l.item \in Known(priceBook)

(* versionRecoverDrawer: what was picked is back under its own título and     *)
(* partida, and the rest of the version and the book stay as they were.       *)
Stays(chapters) ==
    \A c \in Range(Open) : \E k \in Keyed(chapters, c) :
        Range(c.lines) \subseteq Range(chapters[k].lines)
RecoveredIsBack ==
    \A n \in 1..Len(versions) - 1 : \A pick \in SUBSET DOMAIN versions[n] :
        Recoverable(n, pick) =>
            LET rows == VersionRows(versions[n], pick)
                after == Drafted(Open, rows)
            IN /\ \A m \in pick : \E k \in Keyed(after, versions[n][m]) :
                      \A l \in Range(versions[n][m].lines) : Named(after[k].lines, l.item) # {}
               /\ Stays(after)
               /\ \A i \in Known(priceBook) :
                      Quoted(priceBook, rows).items[i].cells = priceBook.items[i].cells

\* What reading workbooks and earlier versions leaves true, whatever the office does by
\* hand in between.
ImportsHold ==
    /\ ImportTypeOK
    /\ SameSheetTwice
    /\ BlankErasesNothing
    /\ NothingStacked
    /\ RecoveredIsBack
=============================================================================
