----------------------------- MODULE Numbering -----------------------------
(***************************************************************************)
(* The numbering of documents in the browser's ERP engine: a series prints *)
(* numbers from a pattern, a counter and, when it restarts each January, a *)
(* counter per year (site/erp-engine.js, nextNumber and its neighbours).   *)
(* A printed number is a record of what a pattern can read back from it;   *)
(* the width it is padded to is left out, because seriesRegex reads any    *)
(* width.  No pattern reads what another one printed.                      *)
(***************************************************************************)
EXTENDS Integers, Sequences, FiniteSets

CONSTANTS Patterns,    \* the shapes a company may choose
          Dated,       \* those that print the year
          Years

ASSUME PatternsAssumption == Dated \subseteq Patterns
ASSUME YearsAssumption == Years \subseteq Nat \ {0}

NoCount == -1          \* byYear[year] == null
NoYear == 0            \* a number that does not carry its year

Printed == [pattern : Patterns, year : Years \cup {NoYear}, n : Int]

SeriesOf(pattern) ==
    [pattern |-> pattern, yearly |-> TRUE, next |-> 1,
     byYear |-> [y \in Years |-> NoCount], issued |-> <<>>]

(* What is printed for the n-th document of year y. *)
Number(s, n, y) ==
    [pattern |-> s.pattern, year |-> IF s.pattern \in Dated THEN y ELSE NoYear, n |-> n]

(* The positions of the numbers already printed that a pattern can read. *)
ReadBy(pattern, issued) == {i \in 1..Len(issued) : issued[i].pattern = pattern}

Mine(s, y) == {i \in ReadBy(s.pattern, s.issued) : s.issued[i].year = y}

(* The number the next document of year y takes. *)
Count(s, y) == IF ~s.yearly THEN s.next
               ELSE IF s.byYear[y] = NoCount THEN Cardinality(Mine(s, y)) + 1
               ELSE s.byYear[y]

NextOf(s, y) == Number(s, Count(s, y), y)

Advance(s, y) ==
    [s EXCEPT !.byYear[y] = IF s.yearly THEN Count(s, y) + 1 ELSE @,
              !.next = (IF s.yearly THEN @ ELSE Count(s, y)) + 1,
              !.issued = Append(@, NextOf(s, y))]

(* The give-back of undoLastInvoice: y is the year the document was dated. *)
GiveBack(s, y) ==
    [s EXCEPT !.byYear[y] = IF s.yearly /\ @ # NoCount THEN @ - 1 ELSE @,
              !.next = IF @ > 1 THEN @ - 1 ELSE 1,
              !.issued = SubSeq(@, 1, Len(@) - 1)]

(* The numbers configureSeries reads back through the new pattern: those of  *)
(* this year only, when the new series restarts each January. *)
Taken(s, draft, y) ==
    {s.issued[i].n : i \in {j \in ReadBy(draft.pattern, s.issued) :
        draft.pattern \in Dated /\ draft.yearly => s.issued[j].year = y}}

\* Fault: off by one.
CollidesAbove(s, draft, y) ==
    \E n \in Taken(s, draft, y) : n > draft.next

Collides(s, draft, y) ==
    \E n \in Taken(s, draft, y) : n >= draft.next

(* configureSeries, once its checks have passed; the counter of the year is *)
(* set only when a number was given. *)
Configured(s, draft, named, y) ==
    [s EXCEPT !.pattern = draft.pattern, !.yearly = draft.yearly, !.next = draft.next,
              !.byYear[y] = IF named THEN draft.next ELSE @]

(* seriesGaps: the numbers after which the run of a year jumps. *)
Gaps(s) ==
    {i \in ReadBy(s.pattern, s.issued) :
        LET year == {j \in ReadBy(s.pattern, s.issued) : s.issued[j].year = s.issued[i].year}
        IN /\ \E j \in year : s.issued[j].n > s.issued[i].n
           /\ ~ \E j \in year : s.issued[j].n = s.issued[i].n + 1}
=============================================================================
