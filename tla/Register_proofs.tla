-------------------------- MODULE Register_proofs --------------------------
(***************************************************************************)
(* Proofs about the parts of the register.                                 *)
(* Series, for any number of years and documents:                          *)
(*   - NumbersStay, where every pattern prints its year and a series keeps *)
(*     its shape.                                                          *)
(* Parties, for every set of tax numbers and any number of parties:        *)
(*   - PartiesTyped and ScopeNeverMoves hold whatever liberties are taken; *)
(*   - TaxIdsKept, CodesKept, OneLevelKept, PayersKept and LinksKept each  *)
(*     name the liberties of the code, if any, that break them;            *)
(*   - PartiesKept puts them together for a file where none is taken.      *)
(* Labour, for any workers, jobs, rates and hours, where none of Slips is  *)
(* made:                                                                   *)
(*   - HoursKept: hours cost what they came to and an approval covers its  *)
(*     week; ApprovedHoursKept: nothing but a reopening touches them.      *)
(* Purchasing, for any documents, orders, bills and subcontracts:          *)
(*   - RegisterAgreesAlways whatever is read; PurchasesKept as long as     *)
(*     every document is read with its base.                               *)
(* Bank, for any accounts, lines, papers and files, unconditionally:       *)
(*   - Reconciled: papers are paid by the lines that show them, none beyond*)
(*     its amount; no line twice, legs mutual, closed quarters explained;  *)
(*     ClosedLinesKept: nothing touches a line of a closed quarter.        *)
(***************************************************************************)
EXTENDS Bank, Purchasing, Series, Parties, Labour, Tables_proofs, FiniteSetTheorems, TLAPS

-----------------------------------------------------------------------------
(* Series. *)

\* What a company that leaves the shape alone may choose: patterns that print the year.
ShapeStays == Patterns = Dated /\ ~Reshape

Kept == DOMAIN series.issued
No(i) == series.issued[i].n
SameYear(i, j) == dates[i] = dates[j]
\* Which documents are numbered by one counter, and what that counter stands at.
Together(i, j) == series.yearly => SameYear(i, j)
Counter(i) == IF series.yearly THEN series.byYear[dates[i]] ELSE series.next

\* Every document was printed with the shape in force and the year it is dated.
Printing ==
    \A i \in Kept : /\ series.issued[i].pattern = series.pattern
                    /\ series.issued[i].year = dates[i]
                    /\ No(i) \in Nat \ {0}
\* A counter that was read is past what it gave.
Counters ==
    /\ \A y \in Years : series.byYear[y] \in (Nat \ {0}) \cup {NoCount}
    /\ \A i \in Kept : Counter(i) # NoCount /\ No(i) < Counter(i)
Rising ==
    /\ \A i, j \in Kept : i < j => dates[i] <= dates[j]
    /\ \A i \in Kept : dates[i] <= year
    /\ \A i, j \in Kept : i < j /\ Together(i, j) => No(i) < No(j)
\* Where nobody moved the counter, the next document or the counter follows each.
Followed ==
    ~jumped =>
        \A i \in Kept : \/ Counter(i) = No(i) + 1
                        \/ \E j \in Kept : i < j /\ Together(i, j) /\ No(j) = No(i) + 1

SInv == SeriesTypeOK /\ Printing /\ Counters /\ Rising /\ Followed
-----------------------------------------------------------------------------
(* What the state is made of. *)

LEMMA KeptType ==
    ASSUME SeriesTypeOK
    PROVE  /\ Len(dates) \in Nat /\ Kept = 1..Len(dates) /\ DOMAIN dates = Kept
           /\ Len(series.issued) = Len(dates)
           /\ series.pattern \in Patterns /\ series.yearly \in BOOLEAN
           /\ series.next \in Nat \ {0} /\ year \in Years /\ year \in Nat \ {0}
           /\ series.byYear \in [Years -> Nat \cup {NoCount}]
           /\ \A i \in Kept : /\ series.issued[i] \in Printed
                             /\ dates[i] \in Years /\ dates[i] \in Nat \ {0}
  <1>1. Years \subseteq Nat \ {0}
    BY YearsAssumption
  <1>2. series.issued \in Seq(Printed) /\ dates \in Seq(Years)
        /\ Len(dates) = Len(series.issued)
    BY DEF SeriesTypeOK
  <1>3. Kept = 1..Len(dates) /\ DOMAIN dates = Kept /\ Len(dates) \in Nat
    BY <1>2 DEF Kept
  <1>4. \A i \in Kept : series.issued[i] \in Printed /\ dates[i] \in Years
    BY <1>2, <1>3 DEF Kept
  <1>. QED
    BY <1>1, <1>2, <1>3, <1>4 DEF SeriesTypeOK

LEMMA Initially == SeriesInit => SInv
  <1> SUFFICES ASSUME SeriesInit PROVE SInv
    OBVIOUS
  <1>1. /\ series.pattern = Default /\ series.yearly = TRUE /\ series.next = 1
        /\ series.byYear = [y \in Years |-> NoCount] /\ series.issued = <<>>
        /\ dates = <<>> /\ jumped = FALSE
    BY DEF SeriesInit, SeriesOf
  <1>2. Kept = {}
    BY <1>1 DEF Kept
  <1>3. year \in Years
    BY FirstYearAssumption DEF SeriesInit
  <1>4. series \in [pattern : Patterns, yearly : BOOLEAN, next : Nat \ {0},
                   byYear : [Years -> Nat \cup {NoCount}], issued : Seq(Printed)]
    <2>1. [y \in Years |-> NoCount] \in [Years -> Nat \cup {NoCount}]
      OBVIOUS
    <2>2. <<>> \in Seq(Printed)
      OBVIOUS
    <2>3. 1 \in Nat \ {0} /\ TRUE \in BOOLEAN
      OBVIOUS
    <2> HIDE DEF NoCount, Printed
    <2> DEFINE none == [y \in Years |-> NoCount]
    <2>4. none \in [Years -> Nat \cup {NoCount}]
      BY <2>1
    <2> HIDE DEF none
    <2>5. series = [pattern |-> Default, yearly |-> TRUE, next |-> 1,
                    byYear |-> none, issued |-> <<>>]
      BY DEF none, SeriesInit, SeriesOf
    <2>. QED
      BY <2>2, <2>3, <2>4, <2>5, DefaultAssumption
  <1>5. SeriesTypeOK
    <2>1. series.issued = <<>> /\ dates = <<>> /\ jumped = FALSE
      BY <1>1
    <2>2. dates \in Seq(Years) /\ Len(dates) = Len(series.issued) /\ jumped \in BOOLEAN
      <3>1. <<>> \in Seq(Years) /\ Len(<<>>) = 0
        OBVIOUS
      <3>2. jumped \in BOOLEAN
        BY <2>1
      <3>. QED
        BY <2>1, <3>1, <3>2
    <2>. QED
      BY <2>2, <1>3, <1>4 DEF SeriesTypeOK
  <1>6. Printing /\ Counters /\ Rising /\ Followed
    BY <1>1, <1>2 DEF Printing, Counters, Rising, Followed
  <1>. QED
    BY <1>5, <1>6 DEF SInv

-----------------------------------------------------------------------------
(* Numbering a document. *)

LEMMA CountIs ==
    ASSUME SInv, Patterns = Dated
    PROVE  /\ Count(series, year) \in Nat \ {0}
           /\ ~series.yearly => Count(series, year) = series.next
           /\ series.yearly /\ series.byYear[year] # NoCount
                  => Count(series, year) = series.byYear[year]
           /\ \A i \in Kept : series.yearly /\ dates[i] = year
                  => Count(series, year) = series.byYear[year]
  <1>1. SeriesTypeOK /\ Printing /\ Counters
    BY DEF SInv
  <1>2. CASE series.yearly /\ series.byYear[year] = NoCount
    <2>1. \A i \in Kept : dates[i] # year
      BY <1>1, <1>2, KeptType DEF Counters, Counter
    <2>2. Mine(series, year) = {}
      <3>1. \A i \in 1..Len(series.issued) : series.issued[i].year # year
        BY <1>1, <2>1, KeptType DEF Printing
      <3>. QED
        BY <3>1 DEF Mine, ReadBy
    <2>3. Count(series, year) = 1
      BY <1>2, <2>2, FS_EmptySet DEF Count
    <2>. QED
      BY <1>2, <2>1, <2>3
  <1>3. CASE ~(series.yearly /\ series.byYear[year] = NoCount)
    BY <1>1, <1>3, KeptType DEF Count, Counters, NoCount
  <1>. QED
    BY <1>2, <1>3

LEMMA Advanced ==
    ASSUME SeriesTypeOK, NEW s, s = Advance(series, year)
    PROVE  /\ s = [pattern |-> series.pattern, yearly |-> series.yearly,
                   next |-> (IF series.yearly THEN series.next ELSE Count(series, year)) + 1,
                   byYear |-> [series.byYear EXCEPT ![year] =
                       IF series.yearly THEN Count(series, year) + 1 ELSE @],
                   issued |-> Append(series.issued, NextOf(series, year))]
  BY DEF Advance, SeriesTypeOK

LEMMA StepNumber ==
    ASSUME SInv, Patterns = Dated, NextNumber
    PROVE  SInv'
  <1> DEFINE c == Count(series, year)
             doc == NextOf(series, year)
  <1>1. SeriesTypeOK /\ Printing /\ Counters /\ Rising /\ Followed
    BY DEF SInv
  <1>0. PICK n \in Nat : n = Len(dates)
    BY <1>1, KeptType
  <1>2. c \in Nat \ {0}
    BY CountIs
  <1>3. doc = [pattern |-> series.pattern, year |-> year, n |-> c] /\ doc \in Printed
    <2>1. series.pattern \in Dated /\ year \in Years /\ series.pattern \in Patterns
      BY <1>1, KeptType
    <2>2. doc = [pattern |-> series.pattern, year |-> year, n |-> c]
      BY <2>1 DEF NextOf, Number
    <2>. QED
      BY <1>2, <2>1, <2>2 DEF Printed
  <1>4. /\ series' = Advance(series, year) /\ dates' = Append(dates, year)
        /\ year' = year /\ jumped' = jumped
    BY DEF NextNumber
  <1> HIDE DEF c, doc
  <1>5. series' = [pattern |-> series.pattern, yearly |-> series.yearly,
                   next |-> (IF series.yearly THEN series.next ELSE c) + 1,
                   byYear |-> [series.byYear EXCEPT ![year] =
                                   IF series.yearly THEN c + 1 ELSE @],
                   issued |-> Append(series.issued, doc)]
    BY <1>1, <1>4, Advanced DEF c, doc
  <1>6. /\ series'.pattern = series.pattern /\ series'.yearly = series.yearly
        /\ series'.next = (IF series.yearly THEN series.next ELSE c) + 1
        /\ series'.byYear = [series.byYear EXCEPT ![year] =
                                   IF series.yearly THEN c + 1 ELSE @]
        /\ series'.issued = Append(series.issued, doc)
    BY <1>5
  <1>7. /\ n \in Nat /\ Kept = 1..n /\ Kept' = 1..n + 1 /\ year \in Years /\ year \in Nat
        /\ dates'[n + 1] = year /\ series'.issued[n + 1] = doc
        /\ \A i \in Kept : dates'[i] = dates[i] /\ series'.issued[i] = series.issued[i]
    <2>1. series.issued \in Seq(Printed) /\ dates \in Seq(Years) /\ Len(series.issued) = n
      BY <1>0, <1>1, KeptType DEF SeriesTypeOK
    <2>2. dates' \in Seq(Years) /\ Len(dates') = n + 1 /\ dates'[n + 1] = year
          /\ \A i \in 1..n : dates'[i] = dates[i]
      BY <1>0, <2>1, <1>4, <1>1, KeptType
    <2>3. series'.issued \in Seq(Printed) /\ Len(series'.issued) = n + 1
          /\ series'.issued[n + 1] = doc
          /\ \A i \in 1..n : series'.issued[i] = series.issued[i]
      BY <1>0, <2>1, <1>6, <1>3
    <2>. QED
      BY <1>0, <2>1, <2>2, <2>3, <1>1, KeptType DEF Kept
  <1>8. SeriesTypeOK'
    <2>1. dates' \in Seq(Years) /\ Len(dates') = n + 1
      BY <1>0, <1>1, <1>4, KeptType DEF SeriesTypeOK
    <2>2. series'.issued \in Seq(Printed) /\ Len(series'.issued) = n + 1
      BY <1>0, <1>1, <1>3, <1>6, KeptType DEF SeriesTypeOK
    <2>3. series'.byYear \in [Years -> Nat \cup {NoCount}]
      BY <1>1, <1>2, <1>6, KeptType
    <2>4. series'.next \in Nat \ {0}
      BY <1>1, <1>2, <1>6, KeptType
    <2>5. series' \in [pattern : Patterns, yearly : BOOLEAN, next : Nat \ {0},
                   byYear : [Years -> Nat \cup {NoCount}], issued : Seq(Printed)]
      BY <2>2, <2>3, <2>4, <1>5, <1>6, <1>1, KeptType
    <2>. QED
      BY <2>1, <2>2, <2>5, <1>1, <1>4, <1>7 DEF SeriesTypeOK
  <1>9. Printing'
    <2> SUFFICES ASSUME NEW i \in 1..n + 1
                 PROVE  /\ series'.issued[i].pattern = series'.pattern
                        /\ series'.issued[i].year = dates'[i]
                        /\ series'.issued[i].n \in Nat \ {0}
      <3>1. Kept' = 1..n + 1
        BY <1>7
      <3>. QED
        BY <3>1 DEF Printing, No
    <2>1. CASE i = n + 1
      <3>1. doc.pattern = series.pattern /\ doc.year = year /\ doc.n = c
        BY <1>3
      <3>. QED
        BY <3>1, <2>1, <1>2, <1>6, <1>7
    <2>2. CASE i # n + 1
      <3>1. i \in Kept
        BY <2>2, <1>7
      <3>. QED
        BY <3>1, <1>1, <1>6, <1>7 DEF Printing, No
    <2>. QED
      BY <2>1, <2>2
  <1>10. /\ \A i \in Kept : Counter(i)' = IF series.yearly => dates[i] = year
                                         THEN c + 1 ELSE Counter(i)
         /\ Counter(n + 1)' = c + 1
         /\ \A i \in Kept : No(i)' = No(i)
         /\ No(n + 1)' = c
    <2>1. No(n + 1)' = c /\ \A i \in Kept : No(i)' = No(i)
      BY <1>3, <1>7 DEF No
    <2>2. Counter(n + 1)' = c + 1
      BY <1>1, <1>6, <1>7, KeptType DEF Counter
    <2>3. ASSUME NEW i \in Kept
          PROVE  Counter(i)' = IF series.yearly => dates[i] = year THEN c + 1 ELSE Counter(i)
      <3>1. dates'[i] = dates[i] /\ dates[i] \in Years
        BY <1>1, <1>7, KeptType
      <3>. QED
        BY <3>1, <1>1, <1>6, KeptType DEF Counter
    <2>. QED
      BY <2>1, <2>2, <2>3
  <1>11. \A i \in Kept : (series.yearly => dates[i] = year)
             => Counter(i) = c /\ No(i) < c /\ No(i) \in Nat
    BY <1>1, CountIs, KeptType DEF Counters, Counter, c, Printing
  <1>12. Counters'
    <2>1. c \in Nat \ {0} /\ c + 1 \in Nat \ {0} /\ c + 1 # NoCount
      BY <1>2 DEF NoCount
    <2>2. ASSUME NEW y \in Years
          PROVE  series'.byYear[y] \in (Nat \ {0}) \cup {NoCount}
      <3>1. series.byYear[y] \in (Nat \ {0}) \cup {NoCount}
        BY <1>1 DEF Counters
      <3>2. series'.byYear[y] \in {series.byYear[y], c + 1}
        BY <1>1, <1>6, <1>7, KeptType
      <3>. QED
        BY <3>1, <3>2, <2>1
    <2>3. ASSUME NEW i \in Kept
          PROVE  Counter(i)' # NoCount /\ No(i)' < Counter(i)'
      <3>1. Counter(i) # NoCount /\ No(i) < Counter(i)
        BY <1>1 DEF Counters
      <3>2. CASE series.yearly => dates[i] = year
        <4>1. Counter(i)' = c + 1 /\ No(i)' = No(i) /\ No(i) < c /\ No(i) \in Nat
          BY <3>2, <1>10, <1>11
        <4>. QED
          BY <4>1, <2>1
      <3>3. CASE ~(series.yearly => dates[i] = year)
        <4>1. Counter(i)' = Counter(i) /\ No(i)' = No(i)
          BY <3>3, <1>10
        <4>. QED
          BY <4>1, <3>1
      <3>. QED
        BY <3>2, <3>3
    <2>4. Counter(n + 1)' # NoCount /\ No(n + 1)' < Counter(n + 1)'
      BY <1>10, <2>1
    <2>5. \A i \in Kept' : i \in Kept \/ i = n + 1
      BY <1>7
    <2>. QED
      BY <2>2, <2>3, <2>4, <2>5 DEF Counters
  <1>13. Rising'
    BY <1>1, <1>4, <1>6, <1>7, <1>10, <1>11, KeptType DEF Rising, Together, SameYear
  <1>14. Followed'
    <2> SUFFICES ASSUME ~jumped, NEW i \in 1..n + 1, Counter(i)' # No(i)' + 1
                 PROVE  \E j \in 1..n + 1 :
                            /\ i < j /\ (series.yearly => dates'[i] = dates'[j])
                            /\ No(j)' = No(i)' + 1
      BY <1>4, <1>6, <1>7 DEF Followed, Together, SameYear
    <2>1. i \in Kept
      BY <1>7, <1>10
    <2>2. CASE series.yearly => dates[i] = year
      BY <2>1, <2>2, <1>1, <1>7, <1>10, <1>11 DEF Followed, Together, SameYear
    <2>3. CASE ~(series.yearly => dates[i] = year)
      BY <2>1, <2>3, <1>1, <1>7, <1>10 DEF Followed, Together, SameYear
    <2>. QED
      BY <2>2, <2>3
  <1>. QED
    BY <1>8, <1>9, <1>12, <1>13, <1>14 DEF SInv

-----------------------------------------------------------------------------
(* Withdrawing the last document. *)

\* The last document stands highest among those its counter numbered, and where
\* nobody moved the counter it stands one below it.
LEMMA LastIsHighest ==
    ASSUME SInv, dates # <<>>, NEW n \in Nat, n = Len(dates)
    PROVE  /\ n \in Kept /\ n >= 1
           /\ Counter(n) \in Nat /\ No(n) < Counter(n) /\ No(n) \in Nat \ {0}
           /\ \A i \in Kept : i # n /\ Together(i, n) => No(i) < No(n)
           /\ ~jumped => Counter(n) = No(n) + 1
  <1>1. SeriesTypeOK /\ Printing /\ Counters /\ Rising /\ Followed
    BY DEF SInv
  <1>2. n \in Kept /\ n >= 1 /\ Kept = 1..n
    <2>1. dates \in Seq(Years)
      BY <1>1 DEF SeriesTypeOK
    <2>2. n # 0
      BY <2>1
    <2>. QED
      BY <2>2, <1>1, KeptType
  <1>3. Counter(n) \in Nat /\ No(n) < Counter(n) /\ No(n) \in Nat \ {0}
    BY <1>1, <1>2, KeptType DEF Counters, Counter, NoCount, Printing
  <1>4. \A i \in Kept : i # n /\ Together(i, n) => No(i) < No(n)
    BY <1>1, <1>2 DEF Rising
  <1>5. ~jumped => Counter(n) = No(n) + 1
    <2>1. \A j \in Kept : ~(n < j)
      BY <1>2
    <2>. QED
      BY <1>1, <1>2, <2>1 DEF Followed
  <1>. QED
    BY <1>2, <1>3, <1>4, <1>5

LEMMA GivenBack ==
    ASSUME SeriesTypeOK, NEW y \in Years, NEW s, s = GiveBack(series, y)
    PROVE  s = [pattern |-> series.pattern, yearly |-> series.yearly,
                next |-> IF series.next > 1 THEN series.next - 1 ELSE 1,
                byYear |-> [series.byYear EXCEPT ![y] =
                    IF series.yearly /\ @ # NoCount THEN @ - 1 ELSE @],
                issued |-> SubSeq(series.issued, 1, Len(series.issued) - 1)]
  BY DEF GiveBack, SeriesTypeOK

LEMMA StepGiveBack ==
    ASSUME SInv, GiveBackLast
    PROVE  SInv'
  <1>1. SeriesTypeOK /\ Printing /\ Counters /\ Rising /\ Followed
    BY DEF SInv
  <1>0. PICK n \in Nat : n = Len(dates)
    BY <1>1, KeptType
  <1>2. PICK y \in Years : y = dates[n]
    <2>1. n \in Kept
      BY <1>0, LastIsHighest DEF GiveBackLast
    <2>. QED
      BY <2>1, <1>1, KeptType
  <1>3. /\ n \in Kept /\ n >= 1
        /\ Counter(n) \in Nat /\ No(n) < Counter(n) /\ No(n) \in Nat \ {0}
        /\ \A i \in Kept : i # n /\ Together(i, n) => No(i) < No(n)
        /\ ~jumped => Counter(n) = No(n) + 1
    BY <1>0, LastIsHighest DEF GiveBackLast
  <1>4. /\ series' = GiveBack(series, y) /\ dates' = SubSeq(dates, 1, n - 1)
        /\ year' = year /\ jumped' = jumped
    BY <1>0, <1>2 DEF GiveBackLast
  <1>5. series' = [pattern |-> series.pattern, yearly |-> series.yearly,
                   next |-> IF series.next > 1 THEN series.next - 1 ELSE 1,
                   byYear |-> [series.byYear EXCEPT ![y] =
                       IF series.yearly /\ @ # NoCount THEN @ - 1 ELSE @],
                   issued |-> SubSeq(series.issued, 1, Len(series.issued) - 1)]
    BY <1>1, <1>4, GivenBack
  <1>6. /\ series'.pattern = series.pattern /\ series'.yearly = series.yearly
        /\ series'.next = IF series.next > 1 THEN series.next - 1 ELSE 1
        /\ series'.byYear = [series.byYear EXCEPT ![y] =
                IF series.yearly /\ @ # NoCount THEN @ - 1 ELSE @]
        /\ series'.issued = SubSeq(series.issued, 1, n - 1)
    BY <1>0, <1>1, <1>5, KeptType
  <1>7. /\ dates' \in Seq(Years) /\ Len(dates') = n - 1
        /\ \A i \in 1..n - 1 : dates'[i] = dates[i]
        /\ series'.issued \in Seq(Printed) /\ Len(series'.issued) = n - 1
        /\ \A i \in 1..n - 1 : series'.issued[i] = series.issued[i]
    <2>1. series.issued \in Seq(Printed) /\ dates \in Seq(Years)
          /\ Len(series.issued) = n /\ Len(dates) = n
      BY <1>0, <1>1 DEF SeriesTypeOK
    <2>2. n - 1 \in 0..n
      BY <1>3
    <2>3. dates' \in Seq(Years) /\ Len(dates') = n - 1
          /\ \A i \in 1..n - 1 : dates'[i] = dates[i]
      BY <2>1, <2>2, <1>3, <1>4
    <2>4. series'.issued \in Seq(Printed) /\ Len(series'.issued) = n - 1
          /\ \A i \in 1..n - 1 : series'.issued[i] = series.issued[i]
      BY <2>1, <2>2, <1>3, <1>6
    <2>. QED
      BY <2>3, <2>4
  <1>8. Kept = 1..n /\ Kept' = 1..n - 1
    BY <1>0, <1>1, <1>7, KeptType DEF Kept
  <1>9. \A i \in 1..n - 1 :
            /\ No(i)' = No(i)
            /\ Counter(i)' = IF Together(i, n) THEN Counter(n) - 1 ELSE Counter(i)
            /\ Together(i, n) => Counter(i) = Counter(n) /\ No(i) < No(n)
    <2> SUFFICES ASSUME NEW i \in 1..n - 1
                 PROVE  /\ No(i)' = No(i)
                        /\ Counter(i)' = IF Together(i, n) THEN Counter(n) - 1 ELSE Counter(i)
                        /\ Together(i, n) => Counter(i) = Counter(n) /\ No(i) < No(n)
      OBVIOUS
    <2>1. No(i)' = No(i)
      BY <1>7 DEF No
    <2>2. Together(i, n) => Counter(i) = Counter(n) /\ No(i) < No(n)
      BY <1>3, <1>8 DEF Counter, Together, SameYear
    <2>3. CASE series.yearly
      <3>1. dates[i] \in Years /\ dates'[i] = dates[i] /\ i \in Kept
        BY <1>1, <1>7, <1>8, KeptType
      <3>2. series.byYear[dates[i]] # NoCount
        BY <3>1, <2>3, <1>1 DEF Counters, Counter
      <3>3. Counter(i)' = series'.byYear[dates[i]]
        BY <3>1, <2>3, <1>6 DEF Counter
      <3>4. Together(i, n) <=> dates[i] = y
        BY <2>3, <1>2 DEF Together, SameYear
      <3>. QED
        BY <3>1, <3>2, <3>3, <3>4, <2>1, <2>2, <2>3, <1>1, <1>2, <1>6, KeptType DEF Counter
    <2>4. CASE ~series.yearly
      BY <2>1, <2>2, <2>4, <1>1, <1>3, <1>6, KeptType DEF Counter, Together
    <2>. QED
      BY <2>3, <2>4, <1>1, KeptType
  <1>10. series'.byYear \in [Years -> Nat \cup {NoCount}]
         /\ \A z \in Years : series'.byYear[z] \in (Nat \ {0}) \cup {NoCount}
    <2>1. series.yearly => series.byYear[y] = Counter(n)
      BY <1>2 DEF Counter
    <2>. QED
      BY <2>1, <1>1, <1>3, <1>6, KeptType DEF Counters, NoCount
  <1>11. SeriesTypeOK'
    <2>1. series'.next \in Nat \ {0}
      BY <1>1, <1>6, KeptType
    <2>2. series' \in [pattern : Patterns, yearly : BOOLEAN, next : Nat \ {0},
                   byYear : [Years -> Nat \cup {NoCount}], issued : Seq(Printed)]
      BY <2>1, <1>5, <1>6, <1>7, <1>10, <1>1, KeptType
    <2>. QED
      BY <2>2, <1>1, <1>4, <1>7 DEF SeriesTypeOK
  <1>12. Printing'
    BY <1>1, <1>6, <1>7, <1>8, <1>9 DEF Printing
  <1>13. Counters'
    BY <1>1, <1>3, <1>8, <1>9, <1>10 DEF Counters, Printing, NoCount
  <1>14. Rising'
    <2>1. \A i \in 1..n - 1 : i \in Kept /\ dates'[i] = dates[i] /\ No(i)' = No(i)
      BY <1>7, <1>8, <1>9
    <2>2. \A i, j \in 1..n - 1 : i < j => dates'[i] <= dates'[j]
      BY <2>1, <1>1 DEF Rising
    <2>3. \A i \in 1..n - 1 : dates'[i] <= year
      BY <2>1, <1>1 DEF Rising
    <2>4. \A i, j \in 1..n - 1 : Together(i, j)' => Together(i, j)
      BY <2>1, <1>6 DEF Together, SameYear
    <2>5. \A i, j \in 1..n - 1 : i < j /\ Together(i, j)' => No(i)' < No(j)'
      BY <2>1, <2>4, <1>1 DEF Rising
    <2>. QED
      BY <2>2, <2>3, <2>5, <1>4, <1>8 DEF Rising
  <1>15. Followed'
    <2> SUFFICES ASSUME ~jumped, NEW i \in 1..n - 1, Counter(i)' # No(i) + 1
                 PROVE  \E j \in 1..n - 1 :
                            i < j /\ Together(i, j) /\ No(j) = No(i) + 1
      BY <1>4, <1>6, <1>7, <1>8, <1>9 DEF Followed, Together, SameYear
    <2>1. i \in Kept
      BY <1>8
    <2>2. Counter(i) # No(i) + 1
      <3>1. CASE Together(i, n)
        <4>1. No(i) \in Nat /\ No(n) \in Nat /\ Counter(i) = No(n) + 1 /\ No(i) < No(n)
          BY <3>1, <2>1, <1>1, <1>3, <1>9 DEF Printing
        <4>. QED
          BY <4>1
      <3>. QED
        BY <3>1, <1>9
    <2>3. PICK j \in Kept : i < j /\ Together(i, j) /\ No(j) = No(i) + 1
      BY <2>1, <2>2, <1>1 DEF Followed
    <2>4. CASE j = n
      BY <2>3, <2>4, <1>3, <1>9
    <2>. QED
      BY <2>3, <2>4, <1>8
  <1>. QED
    BY <1>11, <1>12, <1>13, <1>14, <1>15 DEF SInv

-----------------------------------------------------------------------------
(* Choosing the shape and the starting point, and the turn of the year. *)

LEMMA ConfiguredIs ==
    ASSUME SeriesTypeOK, NEW p \in Patterns, NEW b \in BOOLEAN, NEW next \in Nat \ {0},
           NEW draft, draft = [pattern |-> p, yearly |-> b, next |-> next],
           NEW start \in 0..MaxStart, NEW s, s = Configured(series, draft, start # 0, year)
    PROVE  s = [pattern |-> p, yearly |-> b, next |-> next,
                byYear |-> [series.byYear EXCEPT ![year] = IF start # 0 THEN next ELSE @],
                issued |-> series.issued]
  BY DEF Configured, SeriesTypeOK

\* What the check refuses: a start that some document of the counter has reached.
LEMMA FreeOf ==
    ASSUME SeriesTypeOK, Printing, Patterns = Dated, NEW i \in Kept,
           NEW draft, draft.pattern = series.pattern, draft.yearly = series.yearly,
           draft.next \in Nat, ~Collides(series, draft, year),
           series.yearly => dates[i] = year
    PROVE  No(i) < draft.next
  <1>1. i \in 1..Len(series.issued) /\ series.pattern \in Dated
    BY KeptType
  <1>2. series.issued[i].pattern = series.pattern /\ series.issued[i].year = dates[i]
        /\ No(i) \in Nat
    BY DEF Printing
  <1>3. i \in {j \in ReadBy(draft.pattern, series.issued) :
                draft.pattern \in Dated /\ draft.yearly => series.issued[j].year = year}
    BY <1>1, <1>2 DEF ReadBy
  <1>4. No(i) \in Taken(series, draft, year)
    BY <1>3 DEF Taken, No
  <1>. QED
    BY <1>2, <1>4 DEF Collides

LEMMA StepConfigure ==
    ASSUME SInv, ShapeStays, NEW p \in Patterns, NEW b \in BOOLEAN,
           NEW start \in 0..MaxStart, ConfigureSeries(p, b, start)
    PROVE  SInv'
  <1> DEFINE next == IF start = 0 THEN series.next ELSE start
             draft == [pattern |-> p, yearly |-> b, next |-> next]
  <1>1. SeriesTypeOK /\ Printing /\ Counters /\ Rising /\ Followed
    BY DEF SInv
  <1>2. next \in Nat \ {0}
    BY <1>1, KeptType
  <1>3. /\ ~Collides(series, draft, year)
        /\ dates = <<>> \/ (p = series.pattern /\ b = series.yearly)
        /\ series' = Configured(series, draft, start # 0, year)
        /\ jumped' = (jumped \/ dates # <<>>) /\ dates' = dates /\ year' = year
    BY DEF ConfigureSeries, ShapeStays
  <1>4. draft.pattern = p /\ draft.yearly = b /\ draft.next = next
    OBVIOUS
  <1>5. series' = [pattern |-> p, yearly |-> b, next |-> next,
            byYear |-> [series.byYear EXCEPT ![year] = IF start # 0 THEN next ELSE @],
            issued |-> series.issued]
    <2>1. draft = [pattern |-> p, yearly |-> b, next |-> next]
      OBVIOUS
    <2> HIDE DEF next, draft
    <2>. QED
      BY <2>1, <1>1, <1>2, <1>3, ConfiguredIs
  <1> HIDE DEF next, draft
  <1>6. /\ series'.pattern = p /\ series'.yearly = b /\ series'.next = next
        /\ series'.byYear = [series.byYear EXCEPT ![year] = IF start # 0 THEN next ELSE @]
        /\ series'.issued = series.issued
    BY <1>5
  <1>7. SeriesTypeOK'
    <2>1. series'.byYear \in [Years -> Nat \cup {NoCount}]
      BY <1>1, <1>2, <1>6, KeptType
    <2>2. series' \in [pattern : Patterns, yearly : BOOLEAN, next : Nat \ {0},
                   byYear : [Years -> Nat \cup {NoCount}], issued : Seq(Printed)]
      BY <2>1, <1>1, <1>2, <1>5, <1>6 DEF SeriesTypeOK
    <2>3. jumped' \in BOOLEAN
      BY <1>3
    <2>. QED
      BY <2>2, <2>3, <1>1, <1>3, <1>6 DEF SeriesTypeOK
  <1>8. Kept' = Kept /\ \A i \in Kept : No(i)' = No(i)
    BY <1>6 DEF Kept, No
  <1>9. \A y \in Years : series'.byYear[y] \in (Nat \ {0}) \cup {NoCount}
    BY <1>1, <1>2, <1>6, KeptType DEF Counters
  <1>10. CASE dates = <<>>
    <2>1. Kept' = {}
      BY <1>1, <1>8, <1>10, KeptType
    <2>2. Printing' /\ Rising' /\ Followed'
      BY <2>1 DEF Printing, Rising, Followed
    <2>3. Counters'
      BY <2>1, <1>9 DEF Counters
    <2>. QED
      BY <2>2, <2>3, <1>7 DEF SInv
  <1>11. CASE dates # <<>>
    <2>1. p = series.pattern /\ b = series.yearly /\ jumped'
      BY <1>3, <1>11
    <2>2. Printing'
      BY <2>1, <1>1, <1>3, <1>6, <1>8 DEF Printing
    <2>3. \A i \in Kept : Counter(i)' # NoCount /\ No(i) < Counter(i)'
      <3> SUFFICES ASSUME NEW i \in Kept
                   PROVE  Counter(i)' # NoCount /\ No(i) < Counter(i)'
        OBVIOUS
      <3>1. (series.yearly => dates[i] = year) => No(i) < next
        BY <2>1, <1>1, <1>2, <1>3, <1>4, FreeOf DEF ShapeStays
      <3>2. Counter(i) # NoCount /\ No(i) < Counter(i) /\ dates[i] \in Years
        BY <1>1, KeptType DEF Counters
      <3>3. CASE series.yearly
        <4>1. Counter(i)' = series'.byYear[dates[i]] /\ Counter(i) = series.byYear[dates[i]]
          BY <3>3, <2>1, <1>3, <1>6 DEF Counter
        <4>. QED
          BY <4>1, <3>1, <3>2, <3>3, <1>1, <1>2, <1>6, KeptType DEF NoCount
      <3>4. CASE ~series.yearly
        BY <3>1, <3>4, <2>1, <1>2, <1>6 DEF Counter, NoCount
      <3>. QED
        BY <3>3, <3>4, <1>1, KeptType
    <2>4. Counters'
      BY <2>3, <1>8, <1>9 DEF Counters
    <2>5. Rising'
      BY <2>1, <1>1, <1>3, <1>6, <1>8 DEF Rising, Together, SameYear
    <2>6. Followed'
      BY <2>1 DEF Followed
    <2>. QED
      BY <2>2, <2>4, <2>5, <2>6, <1>7 DEF SInv
  <1>. QED
    BY <1>10, <1>11

LEMMA StepYear ==
    ASSUME SInv, NewYear
    PROVE  SInv'
  <1>1. SeriesTypeOK /\ Printing /\ Counters /\ Rising /\ Followed
    BY DEF SInv
  <1>2. year' = year + 1 /\ year' \in Years /\ series' = series /\ dates' = dates
        /\ jumped' = jumped
    BY DEF NewYear
  <1>3. SeriesTypeOK' /\ Printing' /\ Counters' /\ Followed'
    BY <1>1, <1>2 DEF SeriesTypeOK, Printing, Counters, Followed, Kept, No, Counter,
                      Together, SameYear
  <1>4. Rising'
    <2>1. \A i \in Kept : dates[i] <= year + 1
      BY <1>1, KeptType DEF Rising
    <2>. QED
      BY <2>1, <1>1, <1>2 DEF Rising, Kept, No, Together, SameYear
  <1>. QED
    BY <1>3, <1>4 DEF SInv

LEMMA StepSeries ==
    ASSUME ShapeStays
    PROVE  SInv /\ [SeriesNext]_seriesVars => SInv'
  <1> SUFFICES ASSUME SInv, [SeriesNext]_seriesVars PROVE SInv'
    OBVIOUS
  <1>1. CASE NextNumber
    BY <1>1, StepNumber DEF ShapeStays
  <1>2. CASE GiveBackLast
    BY <1>2, StepGiveBack
  <1>3. ASSUME NEW p \in Patterns, NEW b \in BOOLEAN, NEW n \in 0..MaxStart,
               ConfigureSeries(p, b, n)
        PROVE  SInv'
    BY <1>3, StepConfigure
  <1>4. CASE NewYear
    BY <1>4, StepYear
  <1>5. CASE UNCHANGED seriesVars
    BY <1>5 DEF seriesVars, SInv, SeriesTypeOK, Printing, Counters, Rising, Followed, Kept,
                No, Counter, Together, SameYear
  <1>. QED
    BY <1>1, <1>2, <1>3, <1>4, <1>5 DEF SeriesNext

-----------------------------------------------------------------------------
(* What the invariant says of the numbers themselves. *)

LEMMA NotTwice == SInv => NoNumberTwice
  <1> SUFFICES ASSUME SInv, NEW i \in Kept, NEW j \in Kept, i # j,
                      series.issued[i] = series.issued[j]
               PROVE  FALSE
    BY DEF NoNumberTwice, Kept
  <1>1. SeriesTypeOK /\ Printing /\ Rising
    BY DEF SInv
  <1>2. dates[i] = dates[j] /\ No(i) = No(j) /\ No(i) \in Nat
    BY <1>1 DEF Printing, No
  <1>3. No(i) < No(j) \/ No(j) < No(i)
    <2>1. i < j \/ j < i
      BY <1>1, KeptType
    <2>. QED
      BY <2>1, <1>1, <1>2 DEF Rising, Together, SameYear
  <1>. QED
    BY <1>2, <1>3

LEMMA NoGap == SInv => OnlyJumpsLeaveGaps
  <1> SUFFICES ASSUME SInv, ~jumped,
                      NEW i \in ReadBy(series.pattern, series.issued),
                      NEW k \in ReadBy(series.pattern, series.issued),
                      series.issued[k].year = series.issued[i].year,
                      series.issued[k].n > series.issued[i].n
               PROVE  \E j \in ReadBy(series.pattern, series.issued) :
                          /\ series.issued[j].year = series.issued[i].year
                          /\ series.issued[j].n = series.issued[i].n + 1
    BY DEF OnlyJumpsLeaveGaps, Gaps
  <1>1. SeriesTypeOK /\ Printing /\ Counters /\ Rising /\ Followed
    BY DEF SInv
  <1>2. \A j \in Kept : j \in ReadBy(series.pattern, series.issued)
    BY <1>1, KeptType DEF ReadBy, Printing
  <1>3. i \in Kept /\ k \in Kept /\ Kept = 1..Len(dates) /\ Len(dates) \in Nat
    BY <1>1, KeptType DEF ReadBy
  <1>4. dates[k] = dates[i] /\ No(k) > No(i) /\ No(i) \in Nat /\ No(k) \in Nat
    BY <1>1, <1>3 DEF Printing, No
  <1>5. i < k
    <2>1. CASE k < i
      BY <2>1, <1>1, <1>3, <1>4 DEF Rising, Together, SameYear
    <2>. QED
      BY <2>1, <1>3, <1>4
  <1>6. Counter(i) # No(i) + 1
    <2>1. Counter(i) = Counter(k)
      BY <1>4 DEF Counter
    <2>2. No(k) < Counter(k) /\ Counter(k) \in Nat
      BY <1>1, <1>3, KeptType DEF Counters, Counter, NoCount
    <2>. QED
      BY <2>1, <2>2, <1>4
  <1>7. PICK j \in Kept : i < j /\ Together(i, j) /\ No(j) = No(i) + 1
    BY <1>1, <1>3, <1>6 DEF Followed
  <1>8. dates[j] = dates[i]
    <2>1. CASE j <= k
      <3>1. dates[i] <= dates[j] /\ dates[j] <= dates[k]
        BY <2>1, <1>1, <1>3, <1>7, KeptType DEF Rising
      <3>. QED
        BY <3>1, <1>1, <1>3, <1>4, KeptType
    <2>2. CASE k < j /\ ~series.yearly
      <3>1. No(k) < No(j)
        BY <2>2, <1>1, <1>3 DEF Rising, Together
      <3>. QED
        BY <3>1, <1>4, <1>7
    <2>3. CASE series.yearly
      BY <2>3, <1>7 DEF Together, SameYear
    <2>. QED
      BY <2>1, <2>2, <2>3, <1>3
  <1>. QED
    BY <1>1, <1>2, <1>3, <1>7, <1>8 DEF Printing, No

LEMMA SameAgain == SInv /\ Patterns = Dated => CorrectionKeepsNumber
  <1> SUFFICES ASSUME SInv, Patterns = Dated, dates # <<>>, dates[Len(dates)] = year, ~jumped
               PROVE  NextOf(GiveBack(series, year), year) = series.issued[Len(dates)]
    BY DEF CorrectionKeepsNumber
  <1>1. SeriesTypeOK /\ Printing
    BY DEF SInv
  <1>2. PICK n \in Nat : n = Len(dates)
    BY <1>1, KeptType
  <1>3. n \in Kept /\ No(n) \in Nat \ {0} /\ Counter(n) = No(n) + 1
    BY <1>2, LastIsHighest
  <1>4. PICK s : s = GiveBack(series, year)
    OBVIOUS
  <1>5. s = [pattern |-> series.pattern, yearly |-> series.yearly,
             next |-> IF series.next > 1 THEN series.next - 1 ELSE 1,
             byYear |-> [series.byYear EXCEPT ![year] =
                 IF series.yearly /\ @ # NoCount THEN @ - 1 ELSE @],
             issued |-> SubSeq(series.issued, 1, Len(series.issued) - 1)]
    BY <1>1, <1>4, GivenBack, KeptType
  <1>6. /\ s.pattern = series.pattern /\ s.yearly = series.yearly
        /\ s.next = IF series.next > 1 THEN series.next - 1 ELSE 1
        /\ s.byYear = [series.byYear EXCEPT ![year] =
                           IF series.yearly /\ @ # NoCount THEN @ - 1 ELSE @]
    BY <1>5
  <1>7. Count(s, year) = No(n)
    <2>1. CASE series.yearly
      <3>1. series.byYear[year] = No(n) + 1
        BY <2>1, <1>2, <1>3 DEF Counter
      <3>2. s.byYear[year] = No(n) /\ No(n) # NoCount
        <4>1. year \in Years /\ series.byYear \in [Years -> Nat \cup {NoCount}]
              /\ No(n) \in Nat /\ series.byYear[year] # NoCount
          BY <3>1, <1>1, <1>3, KeptType DEF NoCount
        <4>2. s.byYear[year] = series.byYear[year] - 1
          BY <4>1, <2>1, <1>6
        <4>. QED
          BY <4>1, <4>2, <3>1 DEF NoCount
      <3>. QED
        BY <2>1, <3>2, <1>6 DEF Count
    <2>2. CASE ~series.yearly
      <3>1. series.next = No(n) + 1
        BY <2>2, <1>3 DEF Counter
      <3>. QED
        BY <2>2, <3>1, <1>3, <1>6 DEF Count
    <2>. QED
      BY <2>1, <2>2, <1>1, KeptType
  <1>8. NextOf(s, year) = [pattern |-> series.pattern, year |-> year, n |-> No(n)]
    BY <1>1, <1>6, <1>7, KeptType DEF NextOf, Number
  <1>9. series.issued[n] = [pattern |-> series.pattern, year |-> year, n |-> No(n)]
    <2>1. series.issued[n] \in Printed
      BY <1>1, <1>3, KeptType
    <2>. QED
      BY <2>1, <1>1, <1>2, <1>3 DEF Printing, Printed, No
  <1>. QED
    BY <1>2, <1>4, <1>8, <1>9

\* Where every pattern prints its year and a series keeps its shape once it has
\* documents, over any number of documents, years, withdrawals and moves of the
\* counter: no number names two documents, only a move leaves a gap, and a document
\* withdrawn and issued again in its year has its old number (nextNumber,
\* configureSeries and undoLastInvoice of erp-engine.js).
THEOREM NumbersStay == ASSUME ShapeStays PROVE SeriesSpec => []NumbersRunOn
  <1>1. SInv => NumbersRunOn
    BY NotTwice, NoGap, SameAgain DEF NumbersRunOn, SInv, ShapeStays
  <1>. QED
    BY <1>1, Initially, StepSeries, PTL DEF SeriesSpec
-----------------------------------------------------------------------------
(* Parties. *)

\* The type invariant, and what it needs to be inductive.
TInv == PartiesTypeOK /\ met \in Nat

\* The disjuncts of PartiesNext; both saves of the drawer are one.
Adding ==
    \E t \in TaxIds \cup {0}, c \in BOOLEAN, u \in DOMAIN file \cup {NoParty} : AddParty(t, c, u)
LeftAsItOpened(p, u) ==
    /\ chosen' = chosen
    /\ u = IF ClientsUnder(p) = {} THEN Selected(p) ELSE file[p].under
Picked(p, u) ==
    /\ chosen' = [chosen EXCEPT ![p] = u]
    /\ ClientsUnder(p) = {} /\ u \in Offered(p) \cup {NoParty}
Saving ==
    \E p \in DOMAIN file, t \in TaxIds \cup {0}, c \in BOOLEAN, u \in PartyIds \cup {NoParty} :
        /\ SaveParty(p, t, c, u) /\ RolesFit(p, c, u)
        /\ LeftAsItOpened(p, u) \/ Picked(p, u)
Retiring == \E p \in DOMAIN file : Deactivate(p)
Returning == \E p \in DOMAIN file : Reactivate(p)
Deleting == \E p \in DOMAIN file : DeleteParty(p)
OnTheJob == \E p \in DOMAIN file : OpenJob(p) \/ AddPayer(p) \/ BillTo(p) \/ TakeBill(p)

-----------------------------------------------------------------------------
(* Helpers. *)

LEMMA PartyType ==
    ASSUME TInv, NEW p \in DOMAIN file
    PROVE  /\ file[p] \in Party /\ p \in PartyIds /\ p \in 1..met /\ p # NoParty
           /\ file[p].code \in Nat /\ file[p].under \in PartyIds \cup {NoParty}
           /\ file[p].tax \in TaxIds \cup {0}
           /\ file[p].active \in BOOLEAN /\ file[p].customer \in BOOLEAN
  <1>1. file[p] \in Party /\ p \in 1..met /\ met <= MaxParties /\ met \in Nat
    BY DEF TInv, PartiesTypeOK
  <1>2. PartyIds \subseteq Nat /\ p \in PartyIds /\ p # 0
    BY <1>1, PartiesAssumption DEF PartyIds
  <1>. QED
    BY <1>1, <1>2 DEF Party, NoParty

LEMMA EmptyFile == PartiesInit => DOMAIN file = {} /\ DOMAIN chosen = {}
  BY DEF PartiesInit

LEMMA NextSplits ==
    ASSUME TInv, PartiesNext
    PROVE  Adding \/ Saving \/ Retiring \/ Returning \/ Deleting \/ OnTheJob
  <1>1. ASSUME NEW p \in DOMAIN file, NEW t \in TaxIds \cup {0}, NEW c \in BOOLEAN,
               SaveAsOpened(p, t, c)
        PROVE  Saving
    <2>. DEFINE u == IF ClientsUnder(p) = {} THEN Selected(p) ELSE file[p].under
    <2>1. u \in PartyIds \cup {NoParty}
      BY PartyType DEF Selected
    <2>2. SaveParty(p, t, c, u) /\ RolesFit(p, c, u) /\ LeftAsItOpened(p, u)
      BY <1>1 DEF SaveAsOpened, LeftAsItOpened
    <2>. QED
      BY <2>1, <2>2 DEF Saving
  <1>2. ASSUME NEW p \in DOMAIN file, NEW u \in DOMAIN file \cup {NoParty}, NEW c \in BOOLEAN,
               PutUnder(p, u, c)
        PROVE  Saving
    <2>1. u \in PartyIds \cup {NoParty} /\ file[p].tax \in TaxIds \cup {0}
      BY PartyType
    <2>2. SaveParty(p, file[p].tax, c, u) /\ RolesFit(p, c, u) /\ Picked(p, u)
      BY <1>2 DEF PutUnder, Picked
    <2>. QED
      BY <2>1, <2>2 DEF Saving
  <1>. QED
    BY <1>1, <1>2 DEF PartiesNext, Adding, Retiring, Returning, Deleting, OnTheJob

\* The file after each kind of step.
LEMMA AddedRow ==
    ASSUME TInv, NEW t \in TaxIds \cup {0}, NEW c \in BOOLEAN, NEW u \in DOMAIN file \cup {NoParty},
           AddParty(t, c, u)
    PROVE  /\ met + 1 \notin DOMAIN file /\ met + 1 \in PartyIds
           /\ DOMAIN file' = DOMAIN file \cup {met + 1}
           /\ \A x \in DOMAIN file : file'[x] = file[x]
           /\ file'[met + 1] = [code |-> Cardinality(DOMAIN file) + 1, tax |-> t,
                                active |-> TRUE, customer |-> c, under |-> u]
           /\ file'[met + 1].code = Cardinality(DOMAIN file) + 1 /\ file'[met + 1].tax = t
           /\ file'[met + 1].active = TRUE /\ file'[met + 1].customer = c
           /\ file'[met + 1].under = u
  <1>1. met + 1 \notin DOMAIN file
    BY DEF TInv, PartiesTypeOK
  <1>2. met + 1 \in PartyIds
    <2>1. met < MaxParties /\ met \in Nat
      BY DEF AddParty, TInv
    <2>. QED
      BY <2>1, PartiesAssumption DEF PartyIds
  <1>. QED
    BY <1>1, <1>2 DEF AddParty

LEMMA SavedRow ==
    ASSUME TInv, NEW p \in DOMAIN file, NEW t, NEW c, NEW u, SaveParty(p, t, c, u)
    PROVE  /\ DOMAIN file' = DOMAIN file
           /\ \A x \in DOMAIN file : x # p => file'[x] = file[x]
           /\ file'[p] = [code |-> file[p].code, tax |-> t, active |-> file[p].active,
                          customer |-> c, under |-> u]
           /\ file'[p].code = file[p].code /\ file'[p].active = file[p].active
           /\ file'[p].tax = t /\ file'[p].customer = c /\ file'[p].under = u
  <1>1. file[p] \in Party
    BY PartyType
  <1>. QED
    BY <1>1 DEF SaveParty, Party

LEMMA SavedCustomer ==
    ASSUME TInv, NEW p \in DOMAIN file, NEW t, NEW c \in BOOLEAN, NEW u, SaveParty(p, t, c, u)
    PROVE  file'[p].customer = c
  <1>1. file[p] \in Party
    BY PartyType
  <1>. QED
    BY <1>1 DEF SaveParty, Party

LEMMA SwitchedRow ==
    ASSUME TInv, NEW p \in DOMAIN file, NEW a, file' = [file EXCEPT ![p].active = a]
    PROVE  /\ DOMAIN file' = DOMAIN file
           /\ \A x \in DOMAIN file : x # p => file'[x] = file[x]
           /\ file'[p] = [code |-> file[p].code, tax |-> file[p].tax, active |-> a,
                          customer |-> file[p].customer, under |-> file[p].under]
           /\ file'[p].code = file[p].code /\ file'[p].active = a
           /\ file'[p].tax = file[p].tax /\ file'[p].customer = file[p].customer
           /\ file'[p].under = file[p].under
  <1>1. file[p] \in Party
    BY PartyType
  <1>. QED
    BY <1>1 DEF Party

LEMMA DeletedRow ==
    ASSUME TInv, NEW p \in DOMAIN file, DeleteParty(p)
    PROVE  /\ DOMAIN file' = DOMAIN file \ {p}
           /\ \A x \in DOMAIN file \ {p} : file'[x] = file[x]
  BY DEF DeleteParty

\* Identifiers are numbers up to the last one handed out, so the file is finite.
LEMMA FileIsFinite ==
    ASSUME TInv
    PROVE  /\ IsFiniteSet(DOMAIN file) /\ Cardinality(DOMAIN file) \in Nat
           /\ Cardinality(DOMAIN file) <= met
  <1>1. IsFiniteSet(1..met) /\ Cardinality(1..met) = met
    BY FS_Interval DEF TInv
  <1>. QED
    BY <1>1, FS_Subset, FS_CardinalityType DEF TInv, PartiesTypeOK

-----------------------------------------------------------------------------
(* Types. *)

LEMMA TypeInit == PartiesInit => TInv
  BY PartiesAssumption DEF PartiesInit, TInv, PartiesTypeOK, NoParty

LEMMA TypeStep ==
    ASSUME TInv, [PartiesNext]_partyVars
    PROVE  TInv'
  <1>1. CASE Adding
    <2>1. PICK t \in TaxIds \cup {0}, c \in BOOLEAN, u \in DOMAIN file \cup {NoParty} :
              AddParty(t, c, u)
      BY <1>1 DEF Adding
    <2>0. met < MaxParties /\ met \in Nat /\ met' = met + 1
      BY <2>1 DEF AddParty, TInv
    <2>2. Cardinality(DOMAIN file) + 1 \in PartyIds
      BY <2>0, FileIsFinite, PartiesAssumption DEF PartyIds
    <2>a. u \in PartyIds \cup {0}
      BY PartyType DEF NoParty
    <2>b. [code |-> Cardinality(DOMAIN file) + 1, tax |-> t, active |-> TRUE, customer |-> c,
           under |-> u] \in Party
      BY <2>2, <2>a DEF Party
    <2>3. file'[met + 1] \in Party
      BY <2>1, <2>b, AddedRow
    <2>4. met' <= MaxParties /\ met' \in Nat
      BY <2>0, PartiesAssumption
    <2>c. \A x \in DOMAIN file : file'[x] \in Party /\ x \in 1..met'
      <3>1. \A x \in DOMAIN file : file'[x] = file[x]
        BY <2>1, AddedRow
      <3>2. \A x \in DOMAIN file : file[x] \in Party /\ x \in 1..met
        BY PartyType
      <3>3. 1..met \subseteq 1..met'
        BY <2>0
      <3>. QED
        BY <3>1, <3>2, <3>3
    <2>d. met + 1 \in 1..met'
      BY <2>0
    <2>5. \A x \in DOMAIN file' : file'[x] \in Party /\ x \in 1..met'
      BY <2>1, <2>3, <2>c, <2>d, AddedRow
    <2>6. DOMAIN chosen' = DOMAIN file' /\ UNCHANGED <<jobOf, billing, invoiced>>
      BY <2>1 DEF AddParty, OnFile, TInv, PartiesTypeOK
    <2>. QED
      BY <2>1, <2>4, <2>5, <2>6, AddedRow DEF TInv, PartiesTypeOK
  <1>2. CASE Saving
    <2>1. PICK p \in DOMAIN file, t \in TaxIds \cup {0}, c \in BOOLEAN,
               u \in PartyIds \cup {NoParty} :
              SaveParty(p, t, c, u) /\ (LeftAsItOpened(p, u) \/ Picked(p, u))
      BY <1>2 DEF Saving
    <2>a. [code |-> file[p].code, tax |-> t, active |-> file[p].active, customer |-> c,
           under |-> u] \in Party
      BY PartyType DEF Party, NoParty
    <2>2. file'[p] \in Party
      BY <2>1, <2>a, SavedRow
    <2>3. DOMAIN chosen' = DOMAIN chosen
      BY <2>1 DEF LeftAsItOpened, Picked
    <2>4. UNCHANGED <<met, jobOf, billing, invoiced>>
      BY <2>1 DEF SaveParty, OnFile
    <2>. QED
      BY <2>1, <2>2, <2>3, <2>4, SavedRow DEF TInv, PartiesTypeOK
  <1>3. CASE Retiring \/ Returning
    <2>1. PICK p \in DOMAIN file, a \in BOOLEAN : file' = [file EXCEPT ![p].active = a]
      BY <1>3 DEF Retiring, Returning, Deactivate, Reactivate
    <2>2. file'[p] \in Party
      BY <2>1, SwitchedRow, PartyType DEF Party, NoParty
    <2>3. UNCHANGED <<met, chosen, jobOf, billing, invoiced>>
      BY <1>3 DEF Retiring, Returning, Deactivate, Reactivate, OnFile
    <2>. QED
      BY <2>1, <2>2, <2>3, SwitchedRow DEF TInv, PartiesTypeOK
  <1>4. CASE Deleting
    <2>1. PICK p \in DOMAIN file : DeleteParty(p)
      BY <1>4 DEF Deleting
    <2>2. p \notin invoiced /\ DOMAIN chosen' = DOMAIN file \ {p}
          /\ UNCHANGED <<met, jobOf, billing, invoiced>>
      BY <2>1 DEF DeleteParty, ReferredTo, OnFile
    <2>. QED
      BY <2>1, <2>2, DeletedRow DEF TInv, PartiesTypeOK
  <1>5. CASE OnTheJob
    BY <1>5 DEF OnTheJob, OpenJob, AddPayer, BillTo, TakeBill, OnJob, TInv, PartiesTypeOK
  <1>6. CASE UNCHANGED partyVars
    BY <1>6 DEF partyVars, TInv, PartiesTypeOK
  <1>. QED
    BY <1>1, <1>2, <1>3, <1>4, <1>5, <1>6, NextSplits

LEMMA TypeInvariant == PartiesSpec => []TInv
  BY TypeInit, TypeStep, PTL DEF PartiesSpec

\* Every party, choice, payer and invoice of the file is what the type invariant says,
\* whatever is registered, saved, retired and deleted.
THEOREM PartiesTyped == PartiesSpec => []PartiesTypeOK
  <1>1. TInv => PartiesTypeOK
    BY DEF TInv
  <1>. QED
    BY <1>1, TypeInvariant, PTL

-----------------------------------------------------------------------------
(* Under whom an invoice goes out. *)

LEMMA ScopeStep ==
    ASSUME TInv, [PartiesNext]_partyVars, NEW p \in invoiced, p \in invoiced'
    PROVE  ScopeOwner(p)' = ScopeOwner(p)
  <1>p. p \in DOMAIN file
    BY DEF TInv, PartiesTypeOK
  <1>. SUFFICES p \in DOMAIN file' /\ file'[p].under = file[p].under
    BY <1>p DEF ScopeOwner
  <1>1. CASE Adding
    BY <1>1, <1>p, AddedRow DEF Adding
  <1>2. CASE Saving
    <2>1. PICK q \in DOMAIN file, t \in TaxIds \cup {0}, c \in BOOLEAN,
               u \in PartyIds \cup {NoParty} : SaveParty(q, t, c, u)
      BY <1>2 DEF Saving
    <2>2. q = p => u = file[p].under
      BY <2>1 DEF SaveParty, MaySetParent
    <2>3. /\ DOMAIN file' = DOMAIN file /\ file'[q].under = u
          /\ \A x \in DOMAIN file : x # q => file'[x] = file[x]
      BY ZenonT(40), <2>1, SavedRow
    <2>. QED
      BY <2>2, <2>3, <1>p
  <1>3. CASE Retiring \/ Returning
    <2>1. PICK q \in DOMAIN file, a \in BOOLEAN : file' = [file EXCEPT ![q].active = a]
      BY <1>3 DEF Retiring, Returning, Deactivate, Reactivate
    <2>. QED
      BY <2>1, <1>p, SwitchedRow
  <1>4. CASE Deleting
    <2>1. PICK q \in DOMAIN file : DeleteParty(q)
      BY <1>4 DEF Deleting
    <2>2. q # p
      BY <2>1 DEF DeleteParty, ReferredTo
    <2>. QED
      BY <2>1, <2>2, <1>p, DeletedRow
  <1>5. CASE OnTheJob \/ UNCHANGED partyVars
    BY <1>5, <1>p DEF OnTheJob, OpenJob, AddPayer, BillTo, TakeBill, OnJob, partyVars
  <1>. QED
    BY <1>1, <1>2, <1>3, <1>4, <1>5, NextSplits

\* The scope that an invoice counts against is the one it was issued for as long as it
\* stands, whatever is saved, retired and deleted (setBillingParent's refusal).
THEOREM ScopeNeverMoves == PartiesSpec => ScopeStands
  <1>1. TInv /\ [PartiesNext]_partyVars
        => [\A p \in invoiced \cap invoiced' : ScopeOwner(p)' = ScopeOwner(p)]_partyVars
    BY ScopeStep
  <1>. QED
    BY <1>1, TypeInvariant, PTL DEF PartiesSpec, ScopeStands

-----------------------------------------------------------------------------
(* Who pays the job. *)

LEMMA PayersStep ==
    ASSUME TInv, "pays a job" \notin Manners, PayersExist, [PartiesNext]_partyVars
    PROVE  PayersExist'
  <1>1. CASE Adding
    BY <1>1, AddedRow DEF Adding, AddParty, OnFile, PayersExist
  <1>2. CASE Saving
    BY <1>2, SavedRow DEF Saving, SaveParty, OnFile, PayersExist
  <1>3. CASE Retiring \/ Returning
    BY <1>3 DEF Retiring, Returning, Deactivate, Reactivate, OnFile, PayersExist
  <1>4. CASE Deleting
    BY <1>4, DeletedRow DEF Deleting, DeleteParty, OnFile, PayersExist
  <1>5. CASE OnTheJob \/ UNCHANGED partyVars
    BY <1>5 DEF OnTheJob, OpenJob, AddPayer, BillTo, TakeBill, OnJob, partyVars, PayersExist
  <1>. QED
    BY <1>1, <1>2, <1>3, <1>4, <1>5, NextSplits

\* Who pays the job is in the file, unless a payer who has no document of their own may
\* be deleted (partyEconomicRefs does not look at the billing of a job).
THEOREM PayersKept == "pays a job" \notin Manners => (PartiesSpec => []PayersExist)
  <1>. SUFFICES ASSUME "pays a job" \notin Manners
                PROVE  PartiesSpec => []PayersExist
    OBVIOUS
  <1>1. PartiesInit => PayersExist
    BY DEF PartiesInit, PayersExist
  <1>2. TInv /\ PayersExist /\ [PartiesNext]_partyVars => PayersExist'
    BY PayersStep
  <1>. QED
    BY <1>1, <1>2, TypeInvariant, PTL DEF PartiesSpec

-----------------------------------------------------------------------------
(* Tax numbers. *)

LEMMA TaxStep ==
    ASSUME TInv, "brought back" \notin Manners, TaxIdsAreUnique, [PartiesNext]_partyVars
    PROVE  TaxIdsAreUnique'
  <1>1. CASE Adding
    <2>1. PICK t \in TaxIds \cup {0}, c \in BOOLEAN, u \in DOMAIN file \cup {NoParty} :
              AddParty(t, c, u)
      BY <1>1 DEF Adding
    <2>2. \A x \in DOMAIN file : file[x].active => file[x].tax # t \/ t = 0
      BY <2>1, AddedRow DEF AddParty, TaxFree
    <2>3. /\ DOMAIN file' = DOMAIN file \cup {met + 1} /\ file'[met + 1].tax = t
          /\ \A x \in DOMAIN file : file'[x] = file[x]
      BY <2>1, AddedRow
    <2>. QED
      BY <2>2, <2>3 DEF TaxIdsAreUnique
  <1>2. CASE Saving
    <2>1. PICK p \in DOMAIN file, t \in TaxIds \cup {0}, c \in BOOLEAN,
               u \in PartyIds \cup {NoParty} : SaveParty(p, t, c, u)
      BY <1>2 DEF Saving
    <2>2. \A x \in DOMAIN file : x # p /\ file[x].active => file[x].tax # t \/ t = 0
      BY <2>1 DEF SaveParty, TaxFree
    <2>3. /\ DOMAIN file' = DOMAIN file /\ file'[p].tax = t
          /\ file'[p].active = file[p].active
          /\ \A x \in DOMAIN file : x # p => file'[x] = file[x]
      BY <2>1, SavedRow
    <2>. QED
      BY <2>2, <2>3 DEF TaxIdsAreUnique
  <1>3. CASE Retiring
    <2>1. PICK p \in DOMAIN file : file' = [file EXCEPT ![p].active = FALSE]
      BY <1>3 DEF Retiring, Deactivate
    <2>2. /\ DOMAIN file' = DOMAIN file /\ file'[p].active = FALSE
          /\ \A x \in DOMAIN file : x # p => file'[x] = file[x]
      BY <2>1, SwitchedRow
    <2>. QED
      BY <2>2 DEF TaxIdsAreUnique
  <1>4. CASE Returning
    <2>1. PICK p \in DOMAIN file :
              TaxFree(file[p].tax, p) /\ file' = [file EXCEPT ![p].active = TRUE]
      BY <1>4 DEF Returning, Reactivate
    <2>2. \A x \in DOMAIN file :
              x # p /\ file[x].active => file[x].tax # file[p].tax \/ file[p].tax = 0
      BY <2>1 DEF TaxFree
    <2>3. /\ DOMAIN file' = DOMAIN file /\ file'[p].tax = file[p].tax
          /\ \A x \in DOMAIN file : x # p => file'[x] = file[x]
      BY <2>1, SwitchedRow
    <2>. QED
      BY <2>2, <2>3 DEF TaxIdsAreUnique
  <1>5. CASE Deleting
    BY <1>5, DeletedRow DEF Deleting, TaxIdsAreUnique
  <1>6. CASE OnTheJob \/ UNCHANGED partyVars
    BY <1>6 DEF OnTheJob, OpenJob, AddPayer, BillTo, TakeBill, OnJob, partyVars,
                TaxIdsAreUnique
  <1>. QED
    BY <1>1, <1>2, <1>3, <1>4, <1>5, <1>6, NextSplits

\* MDM-03: no two active parties share a tax number, unless a retired party is brought
\* back without being asked for its number.
THEOREM TaxIdsKept == "brought back" \notin Manners => (PartiesSpec => []TaxIdsAreUnique)
  <1>. SUFFICES ASSUME "brought back" \notin Manners
                PROVE  PartiesSpec => []TaxIdsAreUnique
    OBVIOUS
  <1>1. PartiesInit => TaxIdsAreUnique
    BY EmptyFile DEF TaxIdsAreUnique
  <1>2. TInv /\ TaxIdsAreUnique /\ [PartiesNext]_partyVars => TaxIdsAreUnique'
    BY TaxStep
  <1>. QED
    BY <1>1, <1>2, TypeInvariant, PTL DEF PartiesSpec

-----------------------------------------------------------------------------
(* Who invoices under whom. *)

LEMMA OneLevelStep ==
    ASSUME TInv, "loses its role" \notin Manners, OneLevel, [PartiesNext]_partyVars
    PROVE  OneLevel'
  <1>1. CASE Adding
    <2>1. PICK t \in TaxIds \cup {0}, c \in BOOLEAN, u \in DOMAIN file \cup {NoParty} :
              AddParty(t, c, u)
      BY <1>1 DEF Adding
    <2>2. u # NoParty => c /\ u \in DOMAIN file /\ file[u].customer /\ file[u].under = NoParty
      BY <2>1 DEF AddParty, MayBear
    <2>3. /\ DOMAIN file' = DOMAIN file \cup {met + 1} /\ file'[met + 1].under = u
          /\ file'[met + 1].customer = c
          /\ \A x \in DOMAIN file : file'[x] = file[x]
      BY <2>1, AddedRow
    <2>4. ASSUME NEW x \in DOMAIN file, file[x].under # NoParty
          PROVE  /\ file'[x].customer /\ file'[x].under \in DOMAIN file'
                 /\ file'[file'[x].under].customer /\ file'[file'[x].under].under = NoParty
      <3>1. /\ file[x].customer /\ file[x].under \in DOMAIN file
            /\ file[file[x].under].customer /\ file[file[x].under].under = NoParty
        BY <2>4 DEF OneLevel
      <3>2. file'[x] = file[x] /\ file'[file[x].under] = file[file[x].under]
        BY <2>3, <3>1
      <3>. QED
        BY <2>3, <3>1, <3>2
    <2>5. u # NoParty => c /\ u \in DOMAIN file' /\ file'[u].customer /\ file'[u].under = NoParty
      BY <2>2, <2>3
    <2>6. \A x \in DOMAIN file : file'[x].under = file[x].under
      BY <2>3
    <2>. QED
      BY <2>3, <2>4, <2>5, <2>6 DEF OneLevel
  <1>2. CASE Saving
    <2>1. PICK p \in DOMAIN file, t \in TaxIds \cup {0}, c \in BOOLEAN,
               u \in PartyIds \cup {NoParty} :
              /\ SaveParty(p, t, c, u) /\ RolesFit(p, c, u)
              /\ LeftAsItOpened(p, u) \/ Picked(p, u)
      BY <1>2 DEF Saving
    <2>a. SaveParty(p, t, c, u)
      BY <2>1
    <2>b. file'[p].customer = c
      BY <2>a, SavedCustomer
    <2>c. /\ DOMAIN file' = DOMAIN file /\ file'[p].under = u
          /\ \A x \in DOMAIN file : x # p => file'[x] = file[x]
      BY ZenonT(40), <2>a, SavedRow
    <2>2. /\ DOMAIN file' = DOMAIN file /\ file'[p].under = u /\ file'[p].customer = c
          /\ \A x \in DOMAIN file : x # p => file'[x] = file[x]
      BY <2>b, <2>c
    <2>3. ClientsUnder(p) # {} => file[p].under = NoParty
      <3>1. ASSUME NEW x \in DOMAIN file, file[x].under = p
            PROVE  file[p].under = NoParty
        BY <3>1, PartyType DEF OneLevel
      <3>. QED
        BY <3>1 DEF ClientsUnder
    <2>4. u # NoParty => /\ c /\ u \in DOMAIN file /\ u # p
                         /\ file[u].customer /\ file[u].under = NoParty
      <3>1. u # NoParty => ClientsUnder(p) = {} /\ u \in Offered(p)
        BY <2>1, <2>3 DEF LeftAsItOpened, Picked, Selected
      <3>. QED
        BY <2>1, <3>1 DEF Offered, MayBear, RolesFit
    <2>5. ASSUME NEW x \in DOMAIN file, x # p, file[x].under = p
          PROVE  c /\ u = NoParty
      <3>1. x \in ClientsUnder(p)
        BY <2>5 DEF ClientsUnder
      <3>. QED
        BY <2>1, <2>3, <3>1 DEF RolesFit, LeftAsItOpened, Picked
    <2>6. ASSUME NEW x \in DOMAIN file, x # p, file[x].under # NoParty
          PROVE  /\ file'[x].customer /\ file'[x].under \in DOMAIN file'
                 /\ file'[file'[x].under].customer /\ file'[file'[x].under].under = NoParty
      <3> DEFINE y == file[x].under
      <3>1. file'[x] = file[x]
        BY <2>2, <2>6
      <3>2. /\ file[x].customer /\ y # x /\ y \in DOMAIN file
            /\ file[y].customer /\ file[y].under = NoParty
        BY <2>6 DEF OneLevel
      <3>3. y = p => c /\ u = NoParty
        BY <2>5, <2>6
      <3>4. y # p => file'[y] = file[y]
        BY <2>2, <3>2
      <3> QED BY <2>2, <3>1, <3>2, <3>3, <3>4
    <2>7. u # NoParty => /\ file'[p].customer /\ u \in DOMAIN file'
                         /\ file'[u].customer /\ file'[u].under = NoParty
      BY <2>2, <2>4
    <2>. QED
      BY <2>2, <2>6, <2>7 DEF OneLevel
  <1>3. CASE Retiring \/ Returning
    <2>1. PICK p \in DOMAIN file, a \in BOOLEAN : file' = [file EXCEPT ![p].active = a]
      BY <1>3 DEF Retiring, Returning, Deactivate, Reactivate
    <2>2. /\ DOMAIN file' = DOMAIN file
          /\ \A x \in DOMAIN file : file'[x].under = file[x].under
                                     /\ file'[x].customer = file[x].customer
      BY <2>1, SwitchedRow
    <2>. QED
      BY <2>2 DEF OneLevel
  <1>4. CASE Deleting
    <2>1. PICK p \in DOMAIN file : DeleteParty(p)
      BY <1>4 DEF Deleting
    <2>2. \A x \in DOMAIN file : file[x].under # p
      BY <2>1 DEF DeleteParty, ReferredTo, ClientsUnder
    <2>3. /\ DOMAIN file' = DOMAIN file \ {p}
          /\ \A x \in DOMAIN file \ {p} : file'[x] = file[x]
      BY <2>1, DeletedRow
    <2>. QED
      BY <2>2, <2>3 DEF OneLevel
  <1>5. CASE OnTheJob \/ UNCHANGED partyVars
    BY <1>5 DEF OnTheJob, OpenJob, AddPayer, BillTo, TakeBill, OnJob, partyVars, OneLevel
  <1>. QED
    BY <1>1, <1>2, <1>3, <1>4, <1>5, NextSplits

\* Whoever invoices under another is a customer, and the other is a customer who stands
\* alone, unless a client that others invoice under may lose the role of customer.
THEOREM OneLevelKept == "loses its role" \notin Manners => (PartiesSpec => []OneLevel)
  <1>. SUFFICES ASSUME "loses its role" \notin Manners
                PROVE  PartiesSpec => []OneLevel
    OBVIOUS
  <1>1. PartiesInit => OneLevel
    BY EmptyFile DEF OneLevel
  <1>2. TInv /\ OneLevel /\ [PartiesNext]_partyVars => OneLevel'
    BY OneLevelStep
  <1>. QED
    BY <1>1, <1>2, TypeInvariant, PTL DEF PartiesSpec

\* A manager with clients is active: the save of a client would find them in the list.
ManagersActive ==
    \A p \in DOMAIN file : file[p].under # NoParty => file[file[p].under].active

LEMMA LinksStep ==
    ASSUME TInv, {"loses its role", "retired manager"} \cap Manners = {}, OneLevel, OneLevel',
           ManagersActive, LinksAreChosen, [PartiesNext]_partyVars
    PROVE  ManagersActive' /\ LinksAreChosen'
  <1>1. CASE Adding
    <2>1. PICK t \in TaxIds \cup {0}, c \in BOOLEAN, u \in DOMAIN file \cup {NoParty} :
              AddParty(t, c, u)
      BY <1>1 DEF Adding
    <2>2. u # NoParty => u \in DOMAIN file /\ file[u].active
      BY <2>1 DEF AddParty
    <2>3. /\ DOMAIN file' = DOMAIN file \cup {met + 1} /\ file'[met + 1].under = u
          /\ met + 1 \notin DOMAIN file
          /\ \A x \in DOMAIN file : file'[x] = file[x]
      BY <2>1, AddedRow
    <2>4. chosen'[met + 1] = u /\ \A x \in DOMAIN file : chosen'[x] = chosen[x]
      BY <2>1, <2>3 DEF AddParty
    <2>5. LinksAreChosen'
      BY <2>3, <2>4 DEF LinksAreChosen
    <2>6. ManagersActive'
      BY <2>2, <2>3 DEF ManagersActive, OneLevel
    <2>. QED
      BY <2>5, <2>6
  <1>2. CASE Saving
    <2>1. PICK p \in DOMAIN file, t \in TaxIds \cup {0}, c \in BOOLEAN,
               u \in PartyIds \cup {NoParty} :
              SaveParty(p, t, c, u) /\ (LeftAsItOpened(p, u) \/ Picked(p, u))
      BY <1>2 DEF Saving
    <2>2. /\ DOMAIN file' = DOMAIN file /\ file'[p].under = u
          /\ file'[p].active = file[p].active
          /\ \A x \in DOMAIN file : x # p => file'[x] = file[x]
      BY ZenonT(40), <2>1, SavedRow
    <2>3. file[p].under # NoParty => file[p].under \in Offered(p)
      <3>1. ASSUME file[p].under # NoParty
            PROVE  /\ file[p].under \in DOMAIN file /\ file[p].under # p
                   /\ MayBear(file[p].under)
        BY <3>1 DEF OneLevel, MayBear
      <3>. QED
        BY <3>1 DEF Offered, ManagersActive
    <2>4. LeftAsItOpened(p, u) => u = file[p].under
      BY <2>3 DEF LeftAsItOpened, Selected
    <2>5. u # NoParty => file[u].active /\ u # p
      <3>1. u # NoParty => u \in Offered(p)
        BY <2>1, <2>3, <2>4 DEF Picked
      <3>. QED
        BY <3>1 DEF Offered
    <2>6. ManagersActive'
      BY <2>2, <2>5 DEF ManagersActive, OneLevel
    <2>9. \A x \in DOMAIN file : file[x].under = chosen[x]
      BY DEF LinksAreChosen
    <2>7. CASE LeftAsItOpened(p, u)
      <3>1. chosen' = chosen /\ u = file[p].under
        BY <2>7, <2>4 DEF LeftAsItOpened
      <3>2. \A x \in DOMAIN file' : file'[x].under = chosen'[x]
        BY <3>1, <2>2, <2>9
      <3>. QED
        BY <2>6, <3>2 DEF LinksAreChosen
    <2>8. CASE Picked(p, u)
      <3>1. DOMAIN chosen = DOMAIN file
        BY DEF TInv, PartiesTypeOK
      <3>2. chosen'[p] = u /\ \A x \in DOMAIN file : x # p => chosen'[x] = chosen[x]
        BY <2>8, <3>1 DEF Picked
      <3>3. \A x \in DOMAIN file' : file'[x].under = chosen'[x]
        BY <3>2, <2>2, <2>9
      <3>. QED
        BY <2>6, <3>3 DEF LinksAreChosen
    <2>. QED
      BY <2>1, <2>6, <2>7, <2>8 DEF LinksAreChosen
  <1>3. CASE Retiring \/ Returning
    <2>1. PICK p \in DOMAIN file, a \in BOOLEAN :
              /\ file' = [file EXCEPT ![p].active = a] /\ chosen' = chosen
              /\ a \/ ClientsUnder(p) = {}
      BY <1>3 DEF Retiring, Returning, Deactivate, Reactivate
    <2>2. /\ DOMAIN file' = DOMAIN file /\ file'[p].active = a
          /\ \A x \in DOMAIN file : x # p => file'[x] = file[x]
          /\ file'[p].under = file[p].under
      BY <2>1, SwitchedRow
    <2>3. ASSUME NEW x \in DOMAIN file, file[x].under = p
          PROVE  a
      BY <2>1, <2>3 DEF ClientsUnder
    <2>4. ManagersActive'
      <3>1. ASSUME NEW x \in DOMAIN file, file[x].under # NoParty
            PROVE  file'[file[x].under].active
        <4>1. file[x].under \in DOMAIN file /\ file[file[x].under].active
          BY <3>1 DEF OneLevel, ManagersActive
        <4>. QED
          BY <4>1, <2>2, <2>3
      <3>2. \A x \in DOMAIN file' : x \in DOMAIN file /\ file'[x].under = file[x].under
        BY <2>2
      <3>. QED
        BY <3>1, <3>2 DEF ManagersActive
    <2>. QED
      BY <2>1, <2>2, <2>4 DEF LinksAreChosen
  <1>4. CASE Deleting
    <2>1. PICK p \in DOMAIN file : DeleteParty(p)
      BY <1>4 DEF Deleting
    <2>2. \A x \in DOMAIN file : file[x].under # p
      BY <2>1 DEF DeleteParty, ReferredTo, ClientsUnder
    <2>3. /\ DOMAIN file' = DOMAIN file \ {p}
          /\ \A x \in DOMAIN file \ {p} : file'[x] = file[x] /\ chosen'[x] = chosen[x]
      BY <2>1, DeletedRow DEF DeleteParty
    <2>. QED
      BY <2>2, <2>3 DEF ManagersActive, LinksAreChosen, OneLevel
  <1>5. CASE OnTheJob \/ UNCHANGED partyVars
    BY <1>5 DEF OnTheJob, OpenJob, AddPayer, BillTo, TakeBill, OnJob, partyVars,
                ManagersActive, LinksAreChosen
  <1>. QED
    BY <1>1, <1>2, <1>3, <1>4, <1>5, NextSplits

\* A client invoices under whom somebody put it, whatever else is saved of it, unless its
\* manager may lose the role or be retired: the select of the drawer then opens empty.
THEOREM LinksKept ==
    {"loses its role", "retired manager"} \cap Manners = {}
        => (PartiesSpec => []LinksAreChosen)
  <1>. SUFFICES ASSUME {"loses its role", "retired manager"} \cap Manners = {}
                PROVE  PartiesSpec => []LinksAreChosen
    OBVIOUS
  <1>1. PartiesInit => ManagersActive /\ LinksAreChosen
    BY EmptyFile DEF ManagersActive, LinksAreChosen
  <1>2. TInv /\ OneLevel /\ OneLevel' /\ ManagersActive /\ LinksAreChosen
            /\ [PartiesNext]_partyVars
        => ManagersActive' /\ LinksAreChosen'
    BY LinksStep
  <1>3. PartiesSpec => []OneLevel
    BY OneLevelKept
  <1>. QED
    BY <1>1, <1>2, <1>3, TypeInvariant, PTL DEF PartiesSpec

-----------------------------------------------------------------------------
(* Codes. *)

\* Codes are numbered from the size of the file, so they run up to it.
CodesRun ==
    /\ CodesAreUnique
    /\ \A p \in DOMAIN file : file[p].code <= Cardinality(DOMAIN file)

LEMMA Counting ==
    \A k, n \in Nat :
        /\ n + 1 <= n + 1
        /\ k <= n => k <= n + 1 /\ k # n + 1 /\ (k # n => k <= n - 1)
  OBVIOUS

LEMMA CodesStep ==
    ASSUME TInv, "an older one" \notin Manners, CodesRun, [PartiesNext]_partyVars
    PROVE  CodesRun'
  <1>. DEFINE n == Cardinality(DOMAIN file)
  <1>0. n \in Nat /\ IsFiniteSet(DOMAIN file)
    BY FileIsFinite
  <1>a. ASSUME DOMAIN file' = DOMAIN file,
               \A x \in DOMAIN file : file'[x].code = file[x].code
        PROVE  CodesRun'
    BY <1>a DEF CodesRun, CodesAreUnique
  <1>1. CASE Adding
    <2>1. PICK t \in TaxIds \cup {0}, c \in BOOLEAN, u \in DOMAIN file \cup {NoParty} :
              AddParty(t, c, u)
      BY <1>1 DEF Adding
    <2>2. /\ DOMAIN file' = DOMAIN file \cup {met + 1} /\ met + 1 \notin DOMAIN file
          /\ file'[met + 1].code = n + 1
          /\ \A x \in DOMAIN file : file'[x] = file[x]
      BY <2>1, AddedRow
    <2>3. Cardinality(DOMAIN file') = n + 1
      BY <2>2, <1>0, FS_AddElement
    <2>4. \A x \in DOMAIN file : file'[x].code = file[x].code /\ file[x].code \in Nat
                                 /\ file[x].code <= n
      BY <2>2, PartyType DEF CodesRun
    <2>6. \A x \in DOMAIN file : file'[x].code <= n + 1 /\ file'[x].code # n + 1
      BY <2>4, <1>0, Counting
    <2>5. \A x \in DOMAIN file' : file'[x].code <= n + 1
      <3>0. n + 1 <= n + 1
        BY <1>0, Counting
      <3>1. file'[met + 1].code <= n + 1
        BY <2>2, <3>0, Zenon
      <3>. QED
        BY <3>1, <2>2, <2>6
    <2>7. \A x, y \in DOMAIN file' : file'[x].code = file'[y].code => x = y
      BY <2>2, <2>4, <2>6 DEF CodesRun, CodesAreUnique
    <2>. QED
      BY <2>3, <2>5, <2>7 DEF CodesRun, CodesAreUnique
  <1>2. CASE Saving
    <2>1. PICK p \in DOMAIN file, t \in TaxIds \cup {0}, c \in BOOLEAN,
               u \in PartyIds \cup {NoParty} : SaveParty(p, t, c, u)
      BY <1>2 DEF Saving
    <2>. QED
      BY <2>1, <1>a, SavedRow
  <1>3. CASE Retiring \/ Returning
    <2>1. PICK p \in DOMAIN file, a \in BOOLEAN : file' = [file EXCEPT ![p].active = a]
      BY <1>3 DEF Retiring, Returning, Deactivate, Reactivate
    <2>. QED
      BY <2>1, <1>a, SwitchedRow
  <1>4. CASE Deleting
    <2>1. PICK p \in DOMAIN file : DeleteParty(p)
      BY <1>4 DEF Deleting
    <2>2. file[p].code = n
      BY <2>1 DEF DeleteParty
    <2>3. /\ DOMAIN file' = DOMAIN file \ {p}
          /\ \A x \in DOMAIN file \ {p} : file'[x] = file[x]
      BY <2>1, DeletedRow
    <2>4. Cardinality(DOMAIN file') = n - 1
      BY <2>3, <1>0, FS_RemoveElement
    <2>5. \A x \in DOMAIN file \ {p} : file[x].code # n
      BY <2>2 DEF CodesRun, CodesAreUnique
    <2>6. \A x \in DOMAIN file : file[x].code \in Nat /\ file[x].code <= n
      BY PartyType DEF CodesRun
    <2>7. \A x \in DOMAIN file \ {p} : file[x].code <= n - 1
      BY <2>5, <2>6, <1>0, Counting
    <2>. QED
      BY <2>3, <2>4, <2>7 DEF CodesRun, CodesAreUnique
  <1>5. CASE OnTheJob \/ UNCHANGED partyVars
    BY <1>5, <1>a DEF OnTheJob, OpenJob, AddPayer, BillTo, TakeBill, OnJob, partyVars
  <1>. QED
    BY <1>1, <1>2, <1>3, <1>4, <1>5, NextSplits

\* MDM-09: a code names one party, as long as only the newest can be deleted: the next
\* code is counted from the size of the file.
THEOREM CodesKept == "an older one" \notin Manners => (PartiesSpec => []CodesAreUnique)
  <1>. SUFFICES ASSUME "an older one" \notin Manners
                PROVE  PartiesSpec => []CodesAreUnique
    OBVIOUS
  <1>1. PartiesInit => CodesRun
    BY EmptyFile DEF CodesRun, CodesAreUnique
  <1>2. TInv /\ CodesRun /\ [PartiesNext]_partyVars => CodesRun'
    BY CodesStep
  <1>3. CodesRun => CodesAreUnique
    BY DEF CodesRun
  <1>. QED
    BY <1>1, <1>2, <1>3, TypeInvariant, PTL DEF PartiesSpec

-----------------------------------------------------------------------------
\* The file of parties keeps all it promises where none of the liberties is taken.
THEOREM PartiesKept == Manners = {} => (PartiesSpec => []PartiesHold)
  <1>. SUFFICES ASSUME Manners = {}
                PROVE  PartiesSpec => []PartiesHold
    OBVIOUS
  <1>1. PartiesSpec => /\ []TaxIdsAreUnique /\ []CodesAreUnique /\ []OneLevel
                       /\ []PayersExist /\ []LinksAreChosen
    BY TaxIdsKept, CodesKept, OneLevelKept, PayersKept, LinksKept
  <1>2. PartiesTypeOK /\ TaxIdsAreUnique /\ CodesAreUnique /\ OneLevel /\ PayersExist
            /\ LinksAreChosen => PartiesHold
    BY DEF PartiesHold
  <1>. QED
    BY <1>1, <1>2, PartiesTyped, PTL
-----------------------------------------------------------------------------
(* Labour. *)

Rated == Bands \cup Range(HiredAt)
Costs(e) == e.cost = e.hours * e.rate
InForceThen(e) == \E b \in BandsBy(e.worker, e.day) : rates[e.worker][b].cents = e.rate

HoursInv ==
    /\ rates \in [Workers -> Seq(Rated)]
    /\ LabourTypeOK
    /\ CostedAndNamed
    /\ ApprovalCoversWeek

\* What a row must be to join the hours, or to take the place of one.
Good(e) ==
    /\ e \in HoursEntry /\ ~e.locked
    /\ Names(e) /\ Costs(e) /\ InForceThen(e)
    /\ ~Approval(e.worker, WeekOf[e.day]) /\ e.job \notin closed

\* What every step of the hours but an approval and its withdrawal does to them.
OnlyGoodRows ==
    /\ DOMAIN entries' \subseteq 1..entered' /\ entered' \in 0..MaxEntries
    /\ \A k \in DOMAIN entries' :
           \/ k \in DOMAIN entries /\ entries'[k] = entries[k]
           \/ Good(entries'[k])
    /\ \A k \in DOMAIN entries : entries[k].locked
           => k \in DOMAIN entries' /\ entries'[k] = entries[k]
    /\ UNCHANGED <<rates, closed>>

ApprovedStand ==
    \A i \in DOMAIN entries : entries[i].locked =>
        \/ i \in DOMAIN entries' /\ entries'[i] = entries[i]
        \/ OnlyReopened(entries[i].worker, WeekOf[entries[i].day])
ClosedGainNothing ==
    \A j \in closed :
        /\ HoursOf(entries', j) \subseteq HoursOf(entries, j)
        /\ \A i \in HoursOf(entries', j) : entries'[i].hours = entries[i].hours

LEMMA RatedType ==
    ASSUME NEW b \in Rated
    PROVE  b.from \in Int /\ b.cents \in Nat
  BY RatesAssumption DEF Rated

LEMMA RateIsABand ==
    ASSUME HoursInv, NEW w \in Workers, NEW d \in WorkDays, RateAt(w, d) # Unrated
    PROVE  /\ \E b \in BandsBy(w, d) : rates[w][b].cents = RateAt(w, d)
           /\ RateAt(w, d) \in {b.cents : b \in Rated} /\ RateAt(w, d) \in Nat
  <1> DEFINE froms == {rates[w][i].from : i \in BandsBy(w, d)}
             those == {i \in BandsBy(w, d) : rates[w][i].from = Max(froms)}
  <1>1. rates[w] \in Seq(Rated)
    BY DEF HoursInv
  <1>2. /\ BandsBy(w, d) \subseteq Nat
        /\ \A i \in BandsBy(w, d) : rates[w][i] \in Rated /\ rates[w][i].from <= d
    BY <1>1 DEF BandsBy
  <1>3. BandsBy(w, d) # {}
    BY DEF RateAt
  <1>4. froms \subseteq Int /\ froms # {} /\ (\A y \in froms : y <= d) /\ d \in Int
    BY <1>2, <1>3, RatedType, RatesAssumption
  <1>5. Max(froms) \in froms
    BY <1>4, MaxIsIn
  <1>6. those \subseteq Nat /\ those # {}
    BY <1>2, <1>5
  <1>7. Min(those) \in those
    BY <1>6, MinIsIn
  <1>8. RateAt(w, d) = rates[w][Min(those)].cents
    BY <1>3 DEF RateAt
  <1> QED BY <1>2, <1>7, <1>8, RatedType

\* A row before it is priced.
Wanted == [worker : Workers, job : Jobs, line : BOOLEAN, day : WorkDays, hours : Lengths,
           rate : {b.cents : b \in Rated} \cup {Unrated}, cost : Nat, locked : BOOLEAN]

LEMMA PricedRow ==
    ASSUME HoursInv, NEW e \in Wanted,
           ~e.locked, Names(e), RateAt(e.worker, e.day) # Unrated,
           ~Approval(e.worker, WeekOf[e.day]), e.job \notin closed
    PROVE  Good(Priced(e))
  <1> DEFINE p == Priced(e)
             rate == RateAt(e.worker, e.day)
  <1>1. /\ p.worker = e.worker /\ p.job = e.job /\ p.line = e.line /\ p.day = e.day
        /\ p.hours = e.hours /\ p.rate = rate /\ p.cost = e.hours * rate
        /\ p.locked = e.locked
        /\ p = [worker |-> e.worker, job |-> e.job, line |-> e.line, day |-> e.day,
                hours |-> e.hours, rate |-> rate, cost |-> e.hours * rate,
                locked |-> e.locked]
    <2>2. e = [worker |-> e.worker, job |-> e.job, line |-> e.line, day |-> e.day,
               hours |-> e.hours, rate |-> e.rate, cost |-> e.cost, locked |-> e.locked]
      BY DEF Wanted
    <2>3. p = [e EXCEPT !.rate = rate, !.cost = e.hours * rate]
      BY DEF Priced
    <2>4. p = [worker |-> e.worker, job |-> e.job, line |-> e.line, day |-> e.day,
                hours |-> e.hours, rate |-> rate, cost |-> e.hours * rate,
                locked |-> e.locked]
      BY <2>2, <2>3
    <2> HIDE DEF p
    <2> QED BY <2>4
  <1>2. /\ \E b \in BandsBy(e.worker, e.day) : rates[e.worker][b].cents = rate
        /\ rate \in {b.cents : b \in Rated} /\ rate \in Nat
    BY RateIsABand DEF Wanted
  <1>3. \A m, n \in Nat : m * n \in Nat
    OBVIOUS
  <1>4. e.hours * rate \in Nat
    BY <1>2, <1>3, RatesAssumption DEF Wanted
  <1>5. p \in HoursEntry
    BY <1>1, <1>2, <1>4 DEF HoursEntry, Rated, Wanted
  <1>6. Names(p) /\ Costs(p)
    BY <1>1 DEF Names, Costs
  <1>7. InForceThen(p)
    BY <1>1, <1>2 DEF InForceThen
  <1> QED BY <1>1, <1>5, <1>6, <1>7 DEF Good
-----------------------------------------------------------------------------
LEMMA RowsKept ==
    ASSUME HoursInv, OnlyGoodRows
    PROVE  HoursInv' /\ ApprovedStand /\ ClosedGainNothing
  <1>1. \A i \in DOMAIN entries' : entries'[i] \in HoursEntry
    BY DEF HoursInv, LabourTypeOK, OnlyGoodRows, Good
  <1>2. LabourTypeOK'
    BY <1>1 DEF HoursInv, LabourTypeOK, OnlyGoodRows, HoursEntry
  <1>3. CostedAndNamed'
    <2> SUFFICES ASSUME NEW i \in DOMAIN entries'
                 PROVE  /\ Names(entries'[i]) /\ Costs(entries'[i])
                        /\ \E b \in BandsBy(entries'[i].worker, entries'[i].day) :
                               rates[entries'[i].worker][b].cents = entries'[i].rate
      BY DEF CostedAndNamed, OnlyGoodRows, BandsBy, Names, Costs
    <2>1. CASE i \in DOMAIN entries /\ entries'[i] = entries[i]
      BY <2>1 DEF HoursInv, CostedAndNamed, Costs
    <2>2. CASE Good(entries'[i])
      BY <2>2 DEF Good, InForceThen
    <2> QED BY <2>1, <2>2 DEF OnlyGoodRows
  <1>4. \A w, k : Approval(w, k)' => Approval(w, k)
    BY DEF Approval, OnlyGoodRows, Good
  <1>5. ApprovalCoversWeek'
    BY <1>4 DEF ApprovalCoversWeek, HoursInv, OnlyGoodRows, Good
  <1>6. ClosedGainNothing
    BY DEF ClosedGainNothing, HoursOf, OnlyGoodRows, Good
  <1>7. ApprovedStand
    BY DEF ApprovedStand, OnlyGoodRows
  <1>8. rates' \in [Workers -> Seq(Rated)]
    BY DEF HoursInv, OnlyGoodRows
  <1> QED BY <1>2, <1>3, <1>5, <1>6, <1>7, <1>8 DEF HoursInv

LEMMA AddedRows ==
    ASSUME HoursInv, NEW new \in Seq(Wanted), Add(new), OnEntries,
           \A k \in 1..Len(new) :
               /\ ~new[k].locked /\ Recordable(new[k])
               /\ ~Approval(new[k].worker, WeekOf[new[k].day])
    PROVE  OnlyGoodRows
  <1>1. /\ entered \in 0..MaxEntries /\ DOMAIN entries \subseteq 1..entered
        /\ MaxEntries \in Nat /\ Len(new) \in Nat
    BY RatesAssumption DEF HoursInv, LabourTypeOK
  <1>2. /\ entered' = entered + Len(new) /\ entered' \in 0..MaxEntries
        /\ DOMAIN entries' = DOMAIN entries \cup (entered + 1..entered')
        /\ \A k \in DOMAIN entries : entries'[k] = entries[k]
        /\ \A k \in entered + 1..entered' : entries'[k] = Priced(new[k - entered])
    BY <1>1 DEF Add
  <1>3. ASSUME NEW k \in entered + 1..entered'
        PROVE  Good(entries'[k])
    <2>1. k - entered \in 1..Len(new)
      BY <1>1, <1>2
    <2>2. new[k - entered] \in Wanted
      BY <2>1
    <2>3. Good(Priced(new[k - entered]))
      BY <2>1, <2>2, PricedRow DEF Recordable
    <2> QED BY <1>2, <2>3
  <1>4. DOMAIN entries' \subseteq 1..entered'
    BY <1>1, <1>2
  <1> QED BY <1>1, <1>2, <1>3, <1>4 DEF OnlyGoodRows, OnEntries

LEMMA StepRecord ==
    ASSUME HoursInv, "late" \notin Slips,
           NEW w \in Workers, NEW j \in Jobs, NEW d \in WorkDays, NEW h \in Lengths,
           RecordHours(w, j, d, h)
    PROVE  OnlyGoodRows
  <1> DEFINE e == [worker |-> w, job |-> j, line |-> j \in Budgeted, day |-> d, hours |-> h,
                   rate |-> Unrated, cost |-> 0, locked |-> FALSE]
  <1>1. Recordable(e) /\ ~Approval(w, WeekOf[d]) /\ Add(<<e>>) /\ OnEntries
    BY DEF RecordHours
  <1>2. e \in Wanted /\ e.worker = w /\ e.day = d /\ e.locked = FALSE
    BY DEF Wanted, Unrated
  <1> HIDE DEF e
  <1>3. <<e>> \in Seq(Wanted) /\ Len(<<e>>) = 1 /\ <<e>>[1] = e
    BY <1>2
  <1>4. \A k \in 1..Len(<<e>>) : /\ ~(<<e>>[k]).locked /\ Recordable(<<e>>[k])
                                 /\ ~Approval((<<e>>[k]).worker, WeekOf[(<<e>>[k]).day])
    BY <1>1, <1>2, <1>3
  <1> QED BY <1>1, <1>3, <1>4, AddedRows

LEMMA EntryIs ==
    ASSUME NEW r \in HoursEntry
    PROVE  r = [worker |-> r.worker, job |-> r.job, line |-> r.line, day |-> r.day,
                hours |-> r.hours, rate |-> r.rate, cost |-> r.cost, locked |-> r.locked]
  BY DEF HoursEntry

LEMMA StepCorrect ==
    ASSUME HoursInv, Slips = {}, NEW i \in DOMAIN entries, NEW j \in Jobs, NEW named \in BOOLEAN,
           NEW d \in WorkDays, NEW h \in Lengths, CorrectHours(i, j, named, d, h)
    PROVE  OnlyGoodRows
  <1> DEFINE e == [entries[i] EXCEPT !.job = j, !.line = named, !.day = d, !.hours = h]
  <1>1. /\ Allowed(i, e) /\ Names(e) /\ RateAt(e.worker, d) # Unrated
        /\ entries' = [entries EXCEPT ![i] = Corrected(i, e)]
        /\ UNCHANGED <<rates, closed, entered>>
    BY DEF CorrectHours, OnEntries
  <1>2. entries[i] \in HoursEntry
    BY DEF HoursInv, LabourTypeOK
  <1>3. e = [worker |-> entries[i].worker, job |-> j, line |-> named, day |-> d,
             hours |-> h, rate |-> entries[i].rate, cost |-> entries[i].cost,
             locked |-> entries[i].locked]
    <2>1. PICK r : r = entries[i]
      OBVIOUS
    <2>2. r = [worker |-> r.worker, job |-> r.job, line |-> r.line, day |-> r.day,
               hours |-> r.hours, rate |-> r.rate, cost |-> r.cost, locked |-> r.locked]
      BY <1>2, <2>1, EntryIs
    <2>3. e = [r EXCEPT !.job = j, !.line = named, !.day = d, !.hours = h]
      BY <2>1
    <2> HIDE DEF e
    <2>4. e = [worker |-> r.worker, job |-> j, line |-> named, day |-> d, hours |-> h,
               rate |-> r.rate, cost |-> r.cost, locked |-> r.locked]
      BY <2>2, <2>3
    <2> QED BY <2>1, <2>4
  <1> HIDE DEF e
  <1>4. /\ e \in Wanted /\ e.worker = entries[i].worker /\ e.day = d /\ e.job = j
        /\ e.locked = entries[i].locked
    BY <1>2, <1>3 DEF Wanted, HoursEntry, Rated
  <1>5. Corrected(i, e) = Priced(e)
    BY <1>1, <1>4 DEF Corrected
  <1>6. ~e.locked /\ e.job \notin closed
    BY <1>1, <1>4 DEF Allowed
  <1>7. ~Approval(e.worker, WeekOf[e.day])
    BY <1>1, <1>4 DEF Allowed, HoursInv, ApprovalCoversWeek
  <1>8. Good(Priced(e))
    BY <1>1, <1>4, <1>6, <1>7, PricedRow
  <1>9. ~entries[i].locked
    BY <1>1 DEF Allowed
  <1> QED BY <1>1, <1>5, <1>8, <1>9 DEF OnlyGoodRows, HoursInv, LabourTypeOK

LEMMA StepDelete ==
    ASSUME HoursInv, NEW i \in DOMAIN entries, DeleteHours(i)
    PROVE  OnlyGoodRows
  BY DEF DeleteHours, OnEntries, OnlyGoodRows, HoursInv, LabourTypeOK

LEMMA StepRepeat ==
    ASSUME HoursInv, Slips = {}, NEW d \in WorkDays, RepeatDay(d)
    PROVE  OnlyGoodRows
  <1> DEFINE yesterday == {i \in DOMAIN entries : entries[i].day = d - 1}
             here(i) == \E k \in DOMAIN entries :
                      /\ entries[k].worker = entries[i].worker /\ entries[k].job = entries[i].job
                      /\ entries[k].day = d
             copy(i) == [entries[i] EXCEPT !.day = d, !.locked = FALSE]
             wanted == {i \in yesterday : ~here(i)}
             n == Cardinality(wanted)
  <1>1. PICK order \in [1..n -> wanted] :
            LET refused == {k \in DOMAIN order : ~Recordable(copy(order[k]))}
                made == IF refused = {} THEN order ELSE SubSeq(order, 1, Min(refused) - 1)
            IN /\ \A k \in DOMAIN made : ~Approval(entries[made[k]].worker, WeekOf[d])
               /\ refused = {}
               /\ Add([k \in DOMAIN made |-> copy(made[k])]) /\ OnEntries
    BY Zenon DEF RepeatDay
  <1>2. /\ \A k \in 1..n : /\ order[k] \in DOMAIN entries
                           /\ Recordable(copy(order[k]))
                           /\ ~Approval(entries[order[k]].worker, WeekOf[d])
        /\ Add([k \in 1..n |-> copy(order[k])]) /\ OnEntries
    BY <1>1
  <1>3. n \in Nat
    <2>1. IsFiniteSet(1..entered) /\ wanted \subseteq 1..entered
      BY FS_Interval DEF HoursInv, LabourTypeOK
    <2> QED BY <2>1, FS_Subset, FS_CardinalityType
  <1>4. ASSUME NEW i \in DOMAIN entries
        PROVE  /\ copy(i) \in Wanted /\ copy(i).day = d /\ copy(i).locked = FALSE
               /\ copy(i).worker = entries[i].worker
    <2>1. entries[i] \in HoursEntry
      BY DEF HoursInv, LabourTypeOK
    <2>2. copy(i) = [worker |-> entries[i].worker, job |-> entries[i].job,
                     line |-> entries[i].line, day |-> d, hours |-> entries[i].hours,
                     rate |-> entries[i].rate, cost |-> entries[i].cost, locked |-> FALSE]
      <3>1. PICK r : r = entries[i]
        OBVIOUS
      <3>2. r = [worker |-> r.worker, job |-> r.job, line |-> r.line, day |-> r.day,
                 hours |-> r.hours, rate |-> r.rate, cost |-> r.cost, locked |-> r.locked]
        BY <2>1, <3>1, EntryIs
      <3>3. copy(i) = [r EXCEPT !.day = d, !.locked = FALSE]
        BY <3>1
      <3> HIDE DEF copy
      <3>4. copy(i) = [worker |-> r.worker, job |-> r.job, line |-> r.line, day |-> d,
                       hours |-> r.hours, rate |-> r.rate, cost |-> r.cost, locked |-> FALSE]
        BY <3>2, <3>3
      <3> QED BY <3>1, <3>4
    <2> QED BY <2>1, <2>2 DEF Wanted, HoursEntry, Rated
  <1> DEFINE new == [k \in 1..n |-> copy(order[k])]
  <1> HIDE DEF copy, wanted, n
  <1>5. new \in Seq(Wanted) /\ Len(new) = n /\ \A k \in 1..n : new[k] = copy(order[k])
    <2>1. \A k \in 1..n : new[k] = copy(order[k]) /\ new[k] \in Wanted
      BY <1>2, <1>4
    <2>2. new \in [1..n -> Wanted]
      BY <2>1
    <2>3. DOMAIN new = 1..n
      OBVIOUS
    <2> HIDE DEF new
    <2> QED BY <1>3, <2>1, <2>2, <2>3
  <1>6. \A k \in 1..Len(new) : /\ ~new[k].locked /\ Recordable(new[k])
                               /\ ~Approval(new[k].worker, WeekOf[new[k].day])
    BY <1>2, <1>4, <1>5
  <1>7. Add(new) /\ OnEntries
    BY <1>2
  <1> HIDE DEF new
  <1> QED BY ZenonT(40), <1>5, <1>6, <1>7, AddedRows

\* A rate given later leaves every rate that was there.
LEMMA StepRate ==
    ASSUME HoursInv, NEW w \in Workers, NEW band \in Bands, AddWorkerRate(w, band)
    PROVE  HoursInv' /\ UNCHANGED <<entries, closed>>
  <1> DEFINE r == rates[w]
             n == Cardinality(BandsBy(w, band.from))
             new == InsertAt(r, n + 1, band)
  <1>1. r \in Seq(Rated) /\ Len(r) \in Nat /\ DOMAIN r = 1..Len(r)
    BY DEF HoursInv
  <1>2. n \in 0..Len(r)
    <2>1. IsFiniteSet(1..Len(r)) /\ Cardinality(1..Len(r)) = Len(r)
      BY <1>1, FS_Interval
    <2>2. BandsBy(w, band.from) \subseteq 1..Len(r)
      BY <1>1 DEF BandsBy
    <2>3. n \in Nat /\ n <= Len(r)
      BY <2>1, <2>2, FS_Subset, FS_CardinalityType
    <2> QED BY <1>1, <2>3
  <1>3. rates' = [rates EXCEPT ![w] = new] /\ UNCHANGED <<entries, closed, entered>>
    BY DEF AddWorkerRate
  <1> HIDE DEF n
  <1>4. band \in Rated
    BY DEF Rated
  <1>5. new = SubSeq(r, 1, n) \o <<band>> \o SubSeq(r, n + 1, Len(r))
    <2>1. (n + 1) - 1 = n
      BY <1>2
    <2> QED BY <2>1 DEF InsertAt
  <1>6. /\ SubSeq(r, 1, n) \in Seq(Rated) /\ Len(SubSeq(r, 1, n)) = n
        /\ \A k \in 1..n : SubSeq(r, 1, n)[k] = r[k]
    BY <1>1, <1>2
  <1>7. /\ SubSeq(r, n + 1, Len(r)) \in Seq(Rated)
        /\ Len(SubSeq(r, n + 1, Len(r))) = Len(r) - n
        /\ \A k \in 1..Len(r) - n : SubSeq(r, n + 1, Len(r))[k] = r[n + k]
    BY <1>1, <1>2
  <1>8. /\ new \in Seq(Rated) /\ Len(new) = Len(r) + 1
        /\ \A k \in 1..n : new[k] = r[k]
        /\ \A k \in n + 1..Len(r) : new[k + 1] = r[k]
    <2> DEFINE a == SubSeq(r, 1, n)
               b == SubSeq(r, n + 1, Len(r))
    <2> HIDE DEF a, b
    <2>1. a \o <<band>> \in Seq(Rated) /\ Len(a \o <<band>>) = n + 1
          /\ \A k \in 1..n : (a \o <<band>>)[k] = r[k]
      BY <1>2, <1>4, <1>6 DEF a
    <2> DEFINE ab == a \o <<band>>
    <2> HIDE DEF ab
    <2>2. /\ ab \o b \in Seq(Rated) /\ Len(ab \o b) = Len(r) + 1
          /\ \A k \in 1..n : (ab \o b)[k] = r[k]
          /\ \A k \in n + 2..Len(r) + 1 : (ab \o b)[k] = b[k - n - 1]
      <3>1. ab \in Seq(Rated) /\ Len(ab) = n + 1 /\ \A k \in 1..n : ab[k] = r[k]
        BY <2>1 DEF ab
      <3>2. b \in Seq(Rated) /\ Len(b) = Len(r) - n
        BY <1>7 DEF b
      <3>3. ab \o b \in Seq(Rated) /\ Len(ab \o b) = Len(r) + 1
        BY <1>1, <1>2, <3>1, <3>2
      <3>4. \A k \in 1..n : (ab \o b)[k] = r[k]
        BY <1>1, <1>2, <3>1, <3>2
      <3>5. ASSUME NEW k \in n + 2..Len(r) + 1 PROVE (ab \o b)[k] = b[k - n - 1]
        <4> DEFINE m == Len(r)
        <4> HIDE DEF m
        <4>0. m \in Nat /\ n \in Nat /\ n <= m /\ k \in n + 2..m + 1
          BY <1>1, <1>2 DEF m
        <4>a. k \in Int /\ n + 2 <= k /\ k <= m + 1
          BY <4>0
        <4>b. Len(ab) = n + 1 /\ Len(b) = m - n
          BY <3>1, <3>2 DEF m
        <4>1. k \in 1..Len(ab) + Len(b) /\ ~(k <= Len(ab)) /\ k - Len(ab) = k - n - 1
          BY <4>0, <4>a, <4>b
        <4>2. (ab \o b)[k] = b[k - Len(ab)]
          BY <3>1, <3>2, <4>1
        <4> QED BY <4>1, <4>2
      <3> QED BY <3>3, <3>4, <3>5
    <2>3. \A k \in n + 1..Len(r) : (ab \o b)[k + 1] = r[k]
      <3> TAKE k \in n + 1..Len(r)
      <3>1. k + 1 \in n + 2..Len(r) + 1 /\ k - n \in 1..Len(r) - n /\ (k + 1) - n - 1 = k - n
            /\ n + (k - n) = k
        BY <1>1, <1>2
      <3>2. (ab \o b)[k + 1] = b[k - n]
        BY <2>2, <3>1
      <3> QED BY <1>7, <3>1, <3>2 DEF b
    <2>4. new = ab \o b
      BY <1>5 DEF a, b, ab
    <2> HIDE DEF new
    <2> QED BY <2>2, <2>3, <2>4
  <1> HIDE DEF new
  <1>9. \A k \in 1..Len(r) : \E m \in 1..Len(new) : new[m] = r[k]
    <2> TAKE k \in 1..Len(r)
    <2>1. CASE k <= n
      BY <1>1, <1>2, <1>8, <2>1
    <2>2. CASE k > n
      <3>1. k \in n + 1..Len(r) /\ k + 1 \in 1..Len(new)
        BY <1>1, <1>2, <1>8, <2>2
      <3> QED BY <1>8, <3>1
    <2> QED BY <1>1, <1>2, <2>1, <2>2
  <1>10. rates' \in [Workers -> Seq(Rated)]
    BY <1>3, <1>8 DEF HoursInv
  <1>11. ASSUME NEW i \in DOMAIN entries
         PROVE  \E b \in BandsBy(entries[i].worker, entries[i].day)' :
                    rates'[entries[i].worker][b].cents = entries[i].rate
    <2> DEFINE o == entries[i].worker
               d == entries[i].day
    <2>1. o \in Workers
      BY DEF HoursInv, LabourTypeOK, HoursEntry
    <2>2. PICK b \in BandsBy(o, d) : rates[o][b].cents = entries[i].rate
      BY DEF HoursInv, CostedAndNamed
    <2>3. CASE o # w
      BY <1>3, <2>1, <2>2, <2>3 DEF BandsBy, HoursInv
    <2>4. CASE o = w
      <3>1. b \in 1..Len(r) /\ r[b].from <= d /\ r[b].cents = entries[i].rate
        BY <1>1, <2>2, <2>4 DEF BandsBy
      <3>2. PICK m \in 1..Len(new) : new[m] = r[b]
        BY <1>9, <3>1
      <3>3. rates'[w] = new /\ DOMAIN new = 1..Len(new)
        BY <1>3, <1>8 DEF HoursInv
      <3>4. m \in BandsBy(w, d)' /\ rates'[w][m].cents = entries[i].rate
        BY <1>3, <3>1, <3>2, <3>3 DEF BandsBy
      <3> QED BY <1>3, <2>4, <3>4
    <2> QED BY <2>3, <2>4
  <1>12. CostedAndNamed'
    BY <1>3, <1>11 DEF HoursInv, CostedAndNamed, BandsBy, Names
  <1> QED BY <1>3, <1>10, <1>12 DEF HoursInv, LabourTypeOK, ApprovalCoversWeek, Approval

LEMMA StepApprove ==
    ASSUME HoursInv, NEW w \in Workers, NEW week \in Weeks, ApproveLabourWeek(w, week)
    PROVE  HoursInv' /\ ApprovedStand /\ ClosedGainNothing
  <1> DEFINE here == InWeek(w, week)
  <1>1. /\ DOMAIN entries' = DOMAIN entries /\ UNCHANGED <<rates, closed, entered>>
        /\ \A i \in DOMAIN entries : entries'[i] =
               IF i \in here THEN [entries[i] EXCEPT !.locked = TRUE] ELSE entries[i]
    BY DEF ApproveLabourWeek, OnEntries
  <1>2. ASSUME NEW i \in DOMAIN entries
        PROVE  /\ entries'[i] \in HoursEntry
               /\ entries'[i].worker = entries[i].worker /\ entries'[i].day = entries[i].day
               /\ entries'[i].job = entries[i].job /\ entries'[i].hours = entries[i].hours
               /\ entries'[i].line = entries[i].line /\ entries'[i].rate = entries[i].rate
               /\ entries'[i].cost = entries[i].cost
               /\ entries'[i].locked = (entries[i].locked \/ i \in here)
               /\ entries[i].locked => entries'[i] = entries[i]
    <2>1. entries[i] \in HoursEntry
      BY DEF HoursInv, LabourTypeOK
    <2>2. PICK r : r = entries[i]
      OBVIOUS
    <2>3. r = [worker |-> r.worker, job |-> r.job, line |-> r.line, day |-> r.day,
               hours |-> r.hours, rate |-> r.rate, cost |-> r.cost, locked |-> r.locked]
      BY <2>1, <2>2, EntryIs
    <2>4. CASE i \in here
      <3>1. entries'[i] = [r EXCEPT !.locked = TRUE]
        BY <1>1, <2>2, <2>4
      <3>2. entries'[i] = [worker |-> r.worker, job |-> r.job, line |-> r.line,
               day |-> r.day, hours |-> r.hours, rate |-> r.rate, cost |-> r.cost,
               locked |-> TRUE]
        BY <2>3, <3>1
      <3>3. r.locked \in BOOLEAN /\ entries'[i] \in HoursEntry
        BY <2>1, <2>2, <3>2 DEF HoursEntry
      <3>4. r.locked => r.locked = TRUE
        BY <3>3
      <3>5. /\ entries'[i].worker = r.worker /\ entries'[i].day = r.day
            /\ entries'[i].job = r.job /\ entries'[i].hours = r.hours
            /\ entries'[i].line = r.line /\ entries'[i].rate = r.rate
            /\ entries'[i].cost = r.cost /\ entries'[i].locked = TRUE
        BY <3>2
      <3>6. r.locked => entries'[i] = r
        BY <2>3, <3>2, <3>4
      <3> QED BY <2>2, <2>4, <3>3, <3>5, <3>6
    <2>5. CASE i \notin here
      <3>1. entries'[i] = entries[i] /\ entries[i].locked \in BOOLEAN
        BY <1>1, <2>1, <2>5 DEF HoursEntry
      <3> QED BY <2>1, <2>5, <3>1
    <2> QED BY <2>4, <2>5
  <1>3. CostedAndNamed'
    <2> SUFFICES ASSUME NEW i \in DOMAIN entries
                 PROVE  /\ Names(entries'[i]) /\ Costs(entries'[i])
                        /\ \E b \in BandsBy(entries'[i].worker, entries'[i].day) :
                               rates[entries'[i].worker][b].cents = entries'[i].rate
      BY <1>1 DEF CostedAndNamed, BandsBy, Names, Costs
    <2>1. /\ Names(entries[i]) /\ Costs(entries[i])
          /\ \E b \in BandsBy(entries[i].worker, entries[i].day) :
                 rates[entries[i].worker][b].cents = entries[i].rate
      BY DEF HoursInv, CostedAndNamed, Costs
    <2>2. Names(entries'[i])
      BY <1>2, <2>1 DEF Names
    <2>3. Costs(entries'[i])
      BY <1>2, <2>1 DEF Costs
    <2>4. entries'[i].worker = entries[i].worker /\ entries'[i].day = entries[i].day
          /\ entries'[i].rate = entries[i].rate
      BY <1>2
    <2> QED BY <2>1, <2>2, <2>3, <2>4
  <1>4. ApprovalCoversWeek'
    BY <1>1, <1>2 DEF HoursInv, ApprovalCoversWeek, Approval, InWeek
  <1>5. ApprovedStand
    BY <1>1, <1>2 DEF ApprovedStand
  <1>6. ClosedGainNothing
    BY <1>1, <1>2 DEF ClosedGainNothing, HoursOf
  <1> QED BY <1>1, <1>2, <1>3, <1>4, <1>5, <1>6 DEF HoursInv, LabourTypeOK

LEMMA StepUnapprove ==
    ASSUME HoursInv, NEW w \in Workers, NEW week \in Weeks, UnapproveLabourWeek(w, week)
    PROVE  HoursInv' /\ ApprovedStand /\ ClosedGainNothing
  <1> DEFINE here == InWeek(w, week)
  <1>1. /\ DOMAIN entries' = DOMAIN entries /\ UNCHANGED <<rates, closed, entered>>
        /\ \A i \in DOMAIN entries : entries'[i] =
               IF i \in here THEN [entries[i] EXCEPT !.locked = FALSE] ELSE entries[i]
    BY DEF UnapproveLabourWeek, OnEntries, Reopens
  <1>2. ASSUME NEW i \in DOMAIN entries
        PROVE  /\ entries'[i] \in HoursEntry
               /\ entries'[i].worker = entries[i].worker /\ entries'[i].day = entries[i].day
               /\ entries'[i].job = entries[i].job /\ entries'[i].hours = entries[i].hours
               /\ entries'[i].line = entries[i].line /\ entries'[i].rate = entries[i].rate
               /\ entries'[i].cost = entries[i].cost
               /\ entries'[i].locked = (entries[i].locked /\ i \notin here)
    <2>1. entries[i] \in HoursEntry
      BY DEF HoursInv, LabourTypeOK
    <2>2. PICK r : r = entries[i]
      OBVIOUS
    <2>3. r = [worker |-> r.worker, job |-> r.job, line |-> r.line, day |-> r.day,
               hours |-> r.hours, rate |-> r.rate, cost |-> r.cost, locked |-> r.locked]
      BY <2>1, <2>2, EntryIs
    <2>4. CASE i \in here
      <3>1. entries'[i] = [r EXCEPT !.locked = FALSE]
        BY <1>1, <2>2, <2>4
      <3>2. entries'[i] = [worker |-> r.worker, job |-> r.job, line |-> r.line,
               day |-> r.day, hours |-> r.hours, rate |-> r.rate, cost |-> r.cost,
               locked |-> FALSE]
        BY <2>3, <3>1
      <3>3. r.locked \in BOOLEAN /\ entries'[i] \in HoursEntry
        BY <2>1, <2>2, <3>2 DEF HoursEntry
      <3>5. /\ entries'[i].worker = r.worker /\ entries'[i].day = r.day
            /\ entries'[i].job = r.job /\ entries'[i].hours = r.hours
            /\ entries'[i].line = r.line /\ entries'[i].rate = r.rate
            /\ entries'[i].cost = r.cost /\ entries'[i].locked = FALSE
        BY <3>2
      <3> QED BY <2>2, <2>4, <3>3, <3>5
    <2>5. CASE i \notin here
      <3>1. entries'[i] = entries[i] /\ entries[i].locked \in BOOLEAN
        BY <1>1, <2>1, <2>5 DEF HoursEntry
      <3> QED BY <2>1, <2>5, <3>1
    <2> QED BY <2>4, <2>5
  <1>3. CostedAndNamed'
    <2> SUFFICES ASSUME NEW i \in DOMAIN entries
                 PROVE  /\ Names(entries'[i]) /\ Costs(entries'[i])
                        /\ \E b \in BandsBy(entries'[i].worker, entries'[i].day) :
                               rates[entries'[i].worker][b].cents = entries'[i].rate
      BY <1>1 DEF CostedAndNamed, BandsBy, Names, Costs
    <2>1. /\ Names(entries[i]) /\ Costs(entries[i])
          /\ \E b \in BandsBy(entries[i].worker, entries[i].day) :
                 rates[entries[i].worker][b].cents = entries[i].rate
      BY DEF HoursInv, CostedAndNamed, Costs
    <2>2. Names(entries'[i])
      BY <1>2, <2>1 DEF Names
    <2>3. Costs(entries'[i])
      BY <1>2, <2>1 DEF Costs
    <2>4. entries'[i].worker = entries[i].worker /\ entries'[i].day = entries[i].day
          /\ entries'[i].rate = entries[i].rate
      BY <1>2
    <2> QED BY <2>1, <2>2, <2>3, <2>4
  <1>4. ApprovalCoversWeek'
    BY <1>1, <1>2 DEF HoursInv, ApprovalCoversWeek, Approval, InWeek
  <1>5. ApprovedStand
    <2> SUFFICES ASSUME NEW i \in DOMAIN entries, entries[i].locked,
                        entries'[i] # entries[i]
                 PROVE  OnlyReopened(entries[i].worker, WeekOf[entries[i].day])
      BY <1>1 DEF ApprovedStand
    <2>1. i \in here
      BY <1>1
    <2>2. entries[i].worker = w /\ WeekOf[entries[i].day] = week
      BY <2>1 DEF InWeek
    <2> QED BY <1>1, <2>2 DEF OnlyReopened, InWeek
  <1>6. ClosedGainNothing
    BY <1>1, <1>2 DEF ClosedGainNothing, HoursOf
  <1> QED BY <1>1, <1>2, <1>3, <1>4, <1>5, <1>6 DEF HoursInv, LabourTypeOK

LEMMA Untouched ==
    ASSUME UNCHANGED entries
    PROVE  ApprovedStand /\ ClosedGainNothing
  BY DEF ApprovedStand, ClosedGainNothing, HoursOf

LEMMA StepLabour ==
    ASSUME Slips = {}, HoursInv, [LabourNext]_labourVars
    PROVE  HoursInv' /\ ApprovedStand /\ ClosedGainNothing
  <1>1. CASE UNCHANGED labourVars
    BY <1>1, Untouched DEF labourVars, HoursInv, LabourTypeOK, CostedAndNamed, ApprovalCoversWeek,
                 Approval, BandsBy, Names
  <1>2. ASSUME NEW w \in Workers, NEW b \in Bands, AddWorkerRate(w, b)
        PROVE  HoursInv' /\ ApprovedStand /\ ClosedGainNothing
    BY <1>2, StepRate, Untouched
  <1>3. ASSUME NEW w \in Workers, NEW j \in Jobs, NEW d \in WorkDays, NEW h \in Lengths,
               RecordHours(w, j, d, h)
        PROVE  HoursInv' /\ ApprovedStand /\ ClosedGainNothing
    BY <1>3, StepRecord, RowsKept
  <1>4. ASSUME NEW i \in DOMAIN entries, NEW j \in Jobs, NEW named \in BOOLEAN,
               NEW d \in WorkDays, NEW h \in Lengths, CorrectHours(i, j, named, d, h)
        PROVE  HoursInv' /\ ApprovedStand /\ ClosedGainNothing
    BY <1>4, StepCorrect, RowsKept
  <1>5. ASSUME NEW i \in DOMAIN entries, DeleteHours(i)
        PROVE  HoursInv' /\ ApprovedStand /\ ClosedGainNothing
    BY <1>5, StepDelete, RowsKept
  <1>6. ASSUME NEW d \in WorkDays, RepeatDay(d)
        PROVE  HoursInv' /\ ApprovedStand /\ ClosedGainNothing
    BY <1>6, StepRepeat, RowsKept
  <1>7. ASSUME NEW w \in Workers, NEW k \in Weeks,
               ApproveLabourWeek(w, k) \/ UnapproveLabourWeek(w, k)
        PROVE  HoursInv' /\ ApprovedStand /\ ClosedGainNothing
    BY <1>7, StepApprove, StepUnapprove
  <1>8. ASSUME NEW j \in Jobs, CloseProject(j) \/ ReopenProject(j)
        PROVE  HoursInv' /\ ApprovedStand /\ ClosedGainNothing
    <2>1. UNCHANGED <<rates, entries, entered>> /\ (closed' = closed \cup {j} \/ closed' = closed \ {j})
      BY <1>8 DEF CloseProject, ReopenProject
    <2> QED BY <2>1, Untouched DEF HoursInv, LabourTypeOK, CostedAndNamed, ApprovalCoversWeek,
                 Approval, BandsBy, Names
  <1> QED BY <1>1, <1>2, <1>3, <1>4, <1>5, <1>6, <1>7, <1>8 DEF LabourNext

LEMMA HoursBegin == LabourInit => HoursInv
  BY RatesAssumption DEF LabourInit, HoursInv, LabourTypeOK, CostedAndNamed, ApprovalCoversWeek, Rated,
     Range

\* Where no call fails half way and none reaches an approved week: every hour costs what
\* it came to at a rate that was in force that day, names a line exactly where its job
\* keeps lines, and an approval covers every hour of its week.
THEOREM HoursKept == ASSUME Slips = {} PROVE LabourSpec => []HoursHold
  <1>1. HoursInv => HoursHold
    BY DEF HoursInv, HoursHold
  <1>2. HoursInv /\ [LabourNext]_labourVars => HoursInv'
    BY StepLabour
  <1> QED BY <1>1, <1>2, HoursBegin, PTL DEF LabourSpec

\* And no call but the reopening of its week touches an approved hour, none brings an
\* hour to a job that is closed.
THEOREM ApprovedHoursKept ==
    ASSUME Slips = {} PROVE LabourSpec => ApprovedHoursStand /\ ClosedJobsGainNothing
  <1>1. HoursInv /\ [LabourNext]_labourVars => HoursInv' /\ ApprovedStand /\ ClosedGainNothing
    BY StepLabour
  <1>2. ApprovedStand => \A i \in DOMAIN entries : entries[i].locked =>
                \/ i \in DOMAIN entries' /\ entries'[i] = entries[i]
                \/ OnlyReopened(entries[i].worker, WeekOf[entries[i].day])
    BY DEF ApprovedStand
  <1>3. ClosedGainNothing => \A j \in closed :
                /\ HoursOf(entries', j) \subseteq HoursOf(entries, j)
                /\ \A i \in HoursOf(entries', j) : entries'[i].hours = entries[i].hours
    BY DEF ClosedGainNothing
  <1> QED BY <1>1, <1>2, <1>3, HoursBegin, PTL
          DEF LabourSpec, ApprovedHoursStand, ClosedJobsGainNothing
-----------------------------------------------------------------------------
(* Purchasing. *)

LEMMA Arithmetic ==
    \A x, y \in Int : x * y \in Int /\ (y > 0 => x \div y \in Int)
  OBVIOUS

\* What is split in proportion comes to what was to be split, whatever is rounded.
LEMMA RescaledComesToIt ==
    ASSUME NEW rows \in Seq(Int), rows # <<>>, SumOfRows(rows) > 0, NEW target \in Int
    PROVE  /\ Rescaled(rows, target) \in Seq(Int) /\ Rescaled(rows, target) # <<>>
           /\ SumOfRows(Rescaled(rows, target)) = target
  <1> DEFINE part(k) == (2 * rows[k] * target + SumOfRows(rows)) \div (2 * SumOfRows(rows))
             parts == [k \in 1..Len(rows) - 1 |-> part(k)]
  <1>1. SumOfRows(rows) \in Int
    BY SumOfSeq DEF SumOfRows
  <1>2. Len(rows) - 1 \in Nat
    OBVIOUS
  <1>3. ASSUME NEW k \in 1..Len(rows) - 1 PROVE part(k) \in Int
    <2>1. rows[k] \in Int
      OBVIOUS
    <2>2. 2 * rows[k] * target \in Int
      BY <2>1, Arithmetic
    <2>3. 2 * SumOfRows(rows) \in Int /\ 2 * SumOfRows(rows) > 0
      BY <1>1
    <2>4. 2 * rows[k] * target + SumOfRows(rows) \in Int
      BY <1>1, <2>2
    <2> QED BY <2>3, <2>4, Arithmetic
  <1>4. parts \in Seq(Int)
    <2> HIDE DEF part
    <2> QED BY <1>2, <1>3
  <1> HIDE DEF parts
  <1>5. SumOfRows(parts) \in Int
    BY <1>4, SumOfSeq DEF SumOfRows
  <1>6. target - SumOfRows(parts) \in Int
    BY <1>5
  <1>7. Rescaled(rows, target) = Append(parts, target - SumOfRows(parts))
    BY DEF Rescaled, parts
  <1>8. /\ Append(parts, target - SumOfRows(parts)) \in Seq(Int)
        /\ Append(parts, target - SumOfRows(parts)) # <<>>
    BY <1>4, <1>6
  <1>9. SumOfRows(Append(parts, target - SumOfRows(parts)))
            = SumOfRows(parts) + (target - SumOfRows(parts))
    BY <1>4, <1>6, SumOfAppended DEF SumOfRows
  <1> QED BY <1>5, <1>7, <1>8, <1>9

LEMMA PositiveSum ==
    ASSUME NEW rows \in Seq(Int), rows # <<>>, Positive(rows)
    PROVE  SumOfRows(rows) > 0
  <1> DEFINE S == DOMAIN rows
  <1>1. IsFiniteSet(S) /\ 1 \in S /\ \A k \in S : rows[k] \in Nat /\ rows[k] > 0
    <2>1. S = 1..Len(rows) /\ Len(rows) \in Nat /\ Len(rows) # 0
      OBVIOUS
    <2>2. \A k \in S : rows[k] \in Int /\ rows[k] > 0
      BY DEF Positive
    <2> QED BY <2>1, <2>2, FS_Interval
  <1>2. IsFiniteSet(S \ {1}) /\ \A k \in S \ {1} : rows[k] \in Nat
    BY <1>1, FS_Subset
  <1> HIDE DEF S
  <1>3. SumOn(rows, S) = rows[1] + SumOn(rows, S \ {1})
    <2>1. \A y \in S : rows[y] \in Int
      BY <1>1
    <2> QED BY <1>1, <2>1, SumOut
  <1>4. SumOn(rows, S \ {1}) \in Nat
    BY <1>2, SumNotNegative
  <1>5. rows[1] \in Nat /\ rows[1] > 0
    BY <1>1
  <1> QED BY <1>3, <1>4, <1>5 DEF SumOfRows, S

PurchasingInv ==
    /\ PurchasingTypeOK
    /\ numbered \in [papers : 0..MaxPapers, bills : 0..MaxBills]
    /\ orders \in Seq(Order)
    /\ subs \in Seq(Subcontract) /\ Len(subs) <= MaxSubs
    /\ RegisterAgrees

\* Every reading of a document has the base.
BasesAreRead == \A r \in Readings : BaseOf[r] > 0

LEMMA OrderIs ==
    ASSUME NEW r \in Order
    PROVE  r = [ref |-> r.ref, sent |-> r.sent, accepted |-> r.accepted,
                received |-> r.received, delivered |-> r.delivered,
                cancelled |-> r.cancelled, invoiced |-> r.invoiced,
                returned |-> r.returned, doc |-> r.doc]
  BY DEF Order

\* An order that is sent, accepted, received, cancelled, returned or given a document keeps
\* its reference and its bill.
LEMMA OrderMoves ==
    ASSUME NEW r \in Order
    PROVE  /\ [r EXCEPT !.sent = TRUE] \in Order
           /\ [r EXCEPT !.accepted = TRUE] \in Order
           /\ [r EXCEPT !.cancelled = TRUE] \in Order
           /\ \A n \in Nat, b \in BOOLEAN : [r EXCEPT !.received = n, !.delivered = b] \in Order
           /\ \A n \in Nat : [r EXCEPT !.returned = n] \in Order
           /\ \A p \in 0..MaxPapers : [r EXCEPT !.doc = p] \in Order
  <1>0. /\ r.ref \in Refs \cup {NoRef} /\ r.received \in Nat /\ r.returned \in Nat
        /\ r.sent \in BOOLEAN /\ r.accepted \in BOOLEAN /\ r.delivered \in BOOLEAN
        /\ r.cancelled \in BOOLEAN /\ r.invoiced \in 0..MaxBills /\ r.doc \in 0..MaxPapers
    BY DEF Order
  <1>1. [r EXCEPT !.sent = TRUE] \in Order
    BY <1>0 DEF Order
  <1>2. [r EXCEPT !.accepted = TRUE] \in Order
    BY <1>0 DEF Order
  <1>3. [r EXCEPT !.cancelled = TRUE] \in Order
    BY <1>0 DEF Order
  <1>4. \A n \in Nat, b \in BOOLEAN : [r EXCEPT !.received = n, !.delivered = b] \in Order
    BY <1>0 DEF Order
  <1>5. \A n \in Nat : [r EXCEPT !.returned = n] \in Order
    BY <1>0 DEF Order
  <1>6. \A p \in 0..MaxPapers : [r EXCEPT !.doc = p] \in Order
    BY <1>0 DEF Order
  <1> QED BY <1>1, <1>2, <1>3, <1>4, <1>5, <1>6
-----------------------------------------------------------------------------
LEMMA OrdersKeep ==
    ASSUME PurchasingInv, UNCHANGED <<papers, bills, subs, numbered>>,
           orders' \in Seq(Order),
           \A o \in DOMAIN orders' :
               \/ orders'[o].invoiced = Nothing
               \/ /\ o \in DOMAIN orders /\ orders'[o].invoiced = orders[o].invoiced
                  /\ orders'[o].ref = orders[o].ref
    PROVE  PurchasingInv'
  <1>1. \A o \in DOMAIN orders' : orders'[o] \in Order
    OBVIOUS
  <1>2. PurchasingTypeOK'
    BY <1>1 DEF PurchasingInv, PurchasingTypeOK
  <1>3. RegisterAgrees'
    BY DEF PurchasingInv, RegisterAgrees
  <1> QED BY <1>2, <1>3 DEF PurchasingInv

LEMMA OneOrderMoves ==
    ASSUME PurchasingInv, NEW o \in DOMAIN orders, NEW r \in Order,
           r.invoiced = orders[o].invoiced, r.ref = orders[o].ref,
           orders' = [orders EXCEPT ![o] = r], UNCHANGED <<papers, bills, subs, numbered>>
    PROVE  PurchasingInv'
  <1>1. orders \in Seq(Order)
    BY DEF PurchasingInv
  <1>2. orders' \in Seq(Order) /\ DOMAIN orders' = DOMAIN orders
    BY <1>1
  <1>3. \A k \in DOMAIN orders' :
            /\ k \in DOMAIN orders /\ orders'[k].invoiced = orders[k].invoiced
            /\ orders'[k].ref = orders[k].ref
    BY <1>1, <1>2
  <1> QED BY <1>2, <1>3, OrdersKeep

LEMMA OneOrderMore ==
    ASSUME PurchasingInv, NEW ref \in Refs \cup {NoRef},
           orders' = Append(orders, NewOrder(ref)), UNCHANGED <<papers, bills, subs, numbered>>
    PROVE  PurchasingInv'
  <1>1. orders \in Seq(Order)
    BY DEF PurchasingInv
  <1>2. NewOrder(ref) \in Order /\ NewOrder(ref).invoiced = Nothing
    BY FiguresAssumption DEF NewOrder, Order, Nothing
  <1> DEFINE r == NewOrder(ref)
  <1> HIDE DEF r
  <1>3. r \in Order /\ r.invoiced = Nothing /\ orders' = Append(orders, r)
    BY <1>2 DEF r
  <1>4. orders' \in Seq(Order)
    BY <1>1, <1>3
  <1>5. \A k \in DOMAIN orders' :
               \/ orders'[k].invoiced = Nothing
               \/ /\ k \in DOMAIN orders /\ orders'[k].invoiced = orders[k].invoiced
                  /\ orders'[k].ref = orders[k].ref
    BY <1>1, <1>3
  <1> QED BY <1>4, <1>5, OrdersKeep

LEMMA StepOrders ==
    ASSUME PurchasingInv, OrdersNext
    PROVE  PurchasingInv' /\ UNCHANGED <<papers, bills>>
  <1>0. /\ orders \in Seq(Order) /\ \A o \in DOMAIN orders : orders[o] \in Order
        /\ \A p \in DOMAIN papers : p \in 0..MaxPapers
    <2>1. orders \in Seq(Order)
      BY DEF PurchasingInv
    <2>2. DOMAIN papers \subseteq 1..numbered.papers /\ numbered.papers \in 0..MaxPapers
      BY DEF PurchasingInv, PurchasingTypeOK
    <2>3. \A p \in DOMAIN papers : p \in 0..MaxPapers
      BY <2>2, FiguresAssumption
    <2> QED BY <2>1, <2>3
  <1>1. ASSUME NEW ref \in Refs \cup {NoRef}, AddPurchase(ref)
        PROVE  PurchasingInv' /\ UNCHANGED <<papers, bills>>
    BY <1>1, OneOrderMore DEF AddPurchase, OnOrders
  <1>2. ASSUME NEW o \in DOMAIN orders, DuplicatePurchase(o)
        PROVE  PurchasingInv' /\ UNCHANGED <<papers, bills>>
    <2>1. orders[o].ref \in Refs \cup {NoRef}
      BY <1>0 DEF Order
    <2> QED BY <1>2, <2>1, OneOrderMore DEF DuplicatePurchase, OnOrders
  <1>3. ASSUME NEW o \in DOMAIN orders, SendPurchase(o)
        PROVE  PurchasingInv' /\ UNCHANGED <<papers, bills>>
    <2> DEFINE r == [orders[o] EXCEPT !.sent = TRUE]
    <2>1. r \in Order
      BY <1>0, OrderMoves
    <2>2. r.invoiced = orders[o].invoiced /\ r.ref = orders[o].ref
      BY <1>0 DEF Order
    <2>3. orders' = [orders EXCEPT ![o] = r] /\ UNCHANGED <<papers, bills, subs, numbered>>
      BY <1>3 DEF SendPurchase, OnOrders
    <2> QED BY <2>1, <2>2, <2>3, OneOrderMoves
  <1>4. ASSUME NEW o \in DOMAIN orders, AcceptPurchase(o)
        PROVE  PurchasingInv' /\ UNCHANGED <<papers, bills>>
    <2> DEFINE r == [orders[o] EXCEPT !.accepted = TRUE]
    <2>1. r \in Order
      BY <1>0, OrderMoves
    <2>2. r.invoiced = orders[o].invoiced /\ r.ref = orders[o].ref
      BY <1>0 DEF Order
    <2>3. orders' = [orders EXCEPT ![o] = r] /\ UNCHANGED <<papers, bills, subs, numbered>>
      BY <1>4 DEF AcceptPurchase, OnOrders
    <2> QED BY <2>1, <2>2, <2>3, OneOrderMoves
  <1>5. ASSUME NEW o \in DOMAIN orders, CancelPurchase(o)
        PROVE  PurchasingInv' /\ UNCHANGED <<papers, bills>>
    <2> DEFINE r == [orders[o] EXCEPT !.cancelled = TRUE]
    <2>1. r \in Order
      BY <1>0, OrderMoves
    <2>2. r.invoiced = orders[o].invoiced /\ r.ref = orders[o].ref
      BY <1>0 DEF Order
    <2>3. orders' = [orders EXCEPT ![o] = r] /\ UNCHANGED <<papers, bills, subs, numbered>>
      BY <1>5 DEF CancelPurchase, OnOrders
    <2> QED BY <2>1, <2>2, <2>3, OneOrderMoves
  <1>6. ASSUME NEW o \in DOMAIN orders, RecordReturn(o)
        PROVE  PurchasingInv' /\ UNCHANGED <<papers, bills>>
    <2> DEFINE r == [orders[o] EXCEPT !.returned = Goods]
    <2>1. r \in Order
      BY <1>0, OrderMoves, FiguresAssumption
    <2>2. r.invoiced = orders[o].invoiced /\ r.ref = orders[o].ref
      BY <1>0 DEF Order
    <2>3. orders' = [orders EXCEPT ![o] = r] /\ UNCHANGED <<papers, bills, subs, numbered>>
      BY <1>6 DEF RecordReturn, OnOrders
    <2> QED BY <2>1, <2>2, <2>3, OneOrderMoves
  <1>7. ASSUME NEW o \in DOMAIN orders, NEW qty \in Deliveries, ReceivePurchase(o, qty)
        PROVE  PurchasingInv' /\ UNCHANGED <<papers, bills>>
    <2> DEFINE had == orders[o].received
               all == orders[o].delivered \/ had + qty >= OrderedQty
               r == [orders[o] EXCEPT !.received = had + qty, !.delivered = all]
    <2>1. r \in Order
      <3>1. had \in Nat /\ had + qty \in Nat
        BY <1>0, FiguresAssumption DEF Order
      <3>2. all \in BOOLEAN
        OBVIOUS
      <3>3. \A n \in Nat, b \in BOOLEAN : [orders[o] EXCEPT !.received = n, !.delivered = b] \in Order
        BY <1>0, OrderMoves, FiguresAssumption
      <3> HIDE DEF had, all
      <3> QED BY <3>1, <3>2, <3>3
    <2>2. r.invoiced = orders[o].invoiced /\ r.ref = orders[o].ref
      BY <1>0 DEF Order
    <2>3. orders' = [orders EXCEPT ![o] = r] /\ UNCHANGED <<papers, bills, subs, numbered>>
      BY <1>0, <1>7 DEF ReceivePurchase, OnOrders
    <2> QED BY <2>1, <2>2, <2>3, OneOrderMoves
  <1>8. ASSUME NEW o \in DOMAIN orders, NEW p \in DOMAIN papers \cup {Nothing},
               AttachPurchaseDocument(o, p)
        PROVE  PurchasingInv' /\ UNCHANGED <<papers, bills>>
    <2> DEFINE r == [orders[o] EXCEPT !.doc = p]
    <2>0. p \in 0..MaxPapers
      BY <1>0, FiguresAssumption DEF Nothing
    <2>1. r \in Order
      BY <1>0, <2>0, OrderMoves
    <2>2. r.invoiced = orders[o].invoiced /\ r.ref = orders[o].ref
      BY <1>0 DEF Order
    <2>3. orders' = [orders EXCEPT ![o] = r] /\ UNCHANGED <<papers, bills, subs, numbered>>
      BY <1>8 DEF AttachPurchaseDocument, OnOrders
    <2> QED BY <2>1, <2>2, <2>3, OneOrderMoves
  <1> QED BY <1>1, <1>2, <1>3, <1>4, <1>5, <1>6, <1>7, <1>8 DEF OrdersNext
-----------------------------------------------------------------------------
\* What the ids of papers and bills are.
LEMMA IdsAre ==
    ASSUME PurchasingInv
    PROVE  /\ numbered.papers \in Nat /\ numbered.bills \in Nat
           /\ numbered.papers <= MaxPapers /\ numbered.bills <= MaxBills
           /\ \A p \in DOMAIN papers : p \in 1..MaxPapers /\ p <= numbered.papers
           /\ \A b \in DOMAIN bills : b \in 1..MaxBills /\ b <= numbered.bills
           /\ Nothing \notin DOMAIN papers /\ Nothing \notin DOMAIN bills
           /\ numbered.papers + 1 \notin DOMAIN papers /\ numbered.bills + 1 \notin DOMAIN bills
           /\ numbered = [papers |-> numbered.papers, bills |-> numbered.bills]
  <1>1. numbered \in [papers : 0..MaxPapers, bills : 0..MaxBills]
    BY DEF PurchasingInv
  <1>2. DOMAIN papers \subseteq 1..numbered.papers /\ DOMAIN bills \subseteq 1..numbered.bills
    BY DEF PurchasingInv, PurchasingTypeOK
  <1>3. /\ numbered.papers \in Nat /\ numbered.bills \in Nat
        /\ numbered.papers <= MaxPapers /\ numbered.bills <= MaxBills
        /\ numbered = [papers |-> numbered.papers, bills |-> numbered.bills]
    BY <1>1, FiguresAssumption
  <1>4. MaxPapers \in Nat /\ MaxBills \in Nat
    BY FiguresAssumption
  <1>5. /\ \A p \in DOMAIN papers : p \in 1..MaxPapers /\ p <= numbered.papers
        /\ Nothing \notin DOMAIN papers /\ numbered.papers + 1 \notin DOMAIN papers
    BY <1>2, <1>3, <1>4 DEF Nothing
  <1>6. /\ \A b \in DOMAIN bills : b \in 1..MaxBills /\ b <= numbered.bills
        /\ Nothing \notin DOMAIN bills /\ numbered.bills + 1 \notin DOMAIN bills
    BY <1>2, <1>3, <1>4 DEF Nothing
  <1> QED BY <1>3, <1>5, <1>6

LEMMA PaperIs ==
    ASSUME NEW r \in Paper
    PROVE  /\ r = [reading |-> r.reading, ticket |-> r.ticket, rows |-> r.rows,
                   status |-> r.status, bill |-> r.bill]
           /\ r.reading \in Readings /\ r.ticket \in BOOLEAN /\ r.rows \in Seq(Int)
           /\ r.status \in {"captured", "validated", "allocated"} /\ r.bill \in 0..MaxBills
  BY DEF Paper

\* A change of the papers that leaves every bill with its document.
LEMMA PapersKeep ==
    ASSUME PurchasingInv, UNCHANGED <<bills, orders, subs>>,
           numbered' \in [papers : 0..MaxPapers, bills : 0..MaxBills],
           numbered'.bills = numbered.bills,
           DOMAIN papers' \subseteq 1..numbered'.papers,
           \A p \in DOMAIN papers' : papers'[p] \in Paper,
           \A p \in DOMAIN papers' :
               \/ papers'[p].bill = Nothing /\ (p \in DOMAIN papers => papers[p].bill = Nothing)
               \/ p \in DOMAIN papers /\ papers'[p] = papers[p],
           \A p \in DOMAIN papers : papers[p].bill # Nothing => p \in DOMAIN papers'
    PROVE  PurchasingInv' /\ (BilledAtItsBasis => BilledAtItsBasis')
  <1>0. Nothing \notin DOMAIN bills
    BY IdsAre
  <1>1. PurchasingTypeOK'
    BY DEF PurchasingInv, PurchasingTypeOK
  <1>2. RegisterAgrees'
    <2>1. \A p \in DOMAIN papers' : papers'[p].bill # Nothing =>
               papers'[p].bill \in DOMAIN bills /\ bills[papers'[p].bill].paper = p
      BY DEF PurchasingInv, RegisterAgrees
    <2>2. ASSUME NEW b \in DOMAIN bills, bills[b].paper # Nothing
          PROVE  bills[b].paper \in DOMAIN papers' /\ papers'[bills[b].paper].bill = b
      <3>1. bills[b].paper \in DOMAIN papers /\ papers[bills[b].paper].bill = b
        BY <2>2 DEF PurchasingInv, RegisterAgrees
      <3>2. b # Nothing
        BY <1>0
      <3> QED BY <3>1, <3>2
    <2> QED BY <2>1, <2>2 DEF PurchasingInv, RegisterAgrees
  <1>3. ASSUME BilledAtItsBasis PROVE BilledAtItsBasis'
    <2>1. ASSUME NEW p \in DOMAIN papers', papers'[p].bill \in DOMAIN bills
          PROVE  /\ bills[papers'[p].bill].base = Basis(papers'[p].reading)
                 /\ ComesTo(papers'[p].rows, bills[papers'[p].bill].base)
                 /\ SumOfRows(bills[papers'[p].bill].rows) = bills[papers'[p].bill].base
      <3>1. p \in DOMAIN papers /\ papers'[p] = papers[p]
        BY <1>0, <2>1
      <3> QED BY <1>3, <2>1, <3>1 DEF BilledAtItsBasis
    <2> QED BY <2>1 DEF BilledAtItsBasis
  <1> QED BY <1>1, <1>2, <1>3 DEF PurchasingInv

LEMMA StepCapture ==
    ASSUME PurchasingInv, NEW r \in Readings, NEW ticket \in BOOLEAN, CaptureDocument(r, ticket)
    PROVE  PurchasingInv' /\ (BilledAtItsBasis => BilledAtItsBasis')
  <1> DEFINE id == numbered.papers + 1
             new == [reading |-> r, ticket |-> ticket, rows |-> <<>>, status |-> "validated",
                     bill |-> Nothing]
  <1>1. /\ numbered.papers < MaxPapers /\ numbered' = [numbered EXCEPT !.papers = id]
        /\ papers' = WithRow(papers, numbered'.papers, new)
        /\ UNCHANGED <<bills, orders, subs>>
    BY DEF CaptureDocument, OnPapers
  <1>2. /\ numbered' \in [papers : 0..MaxPapers, bills : 0..MaxBills]
        /\ numbered'.bills = numbered.bills /\ numbered'.papers = id
    <2>1. numbered = [papers |-> numbered.papers, bills |-> numbered.bills]
      BY IdsAre
    <2>2. numbered' = [papers |-> id, bills |-> numbered.bills]
      BY <1>1, <2>1
    <2>3. id \in 0..MaxPapers /\ numbered.bills \in 0..MaxBills
      BY <1>1, IdsAre, FiguresAssumption
    <2> HIDE DEF id
    <2> QED BY <2>2, <2>3
  <1>3. new \in Paper /\ new.bill = Nothing
    BY FiguresAssumption DEF Paper, Nothing
  <1> HIDE DEF new
  <1>4. /\ DOMAIN papers' = DOMAIN papers \cup {id} /\ papers'[id] = new
        /\ \A k \in DOMAIN papers : k # id => papers'[k] = papers[k]
    <2>1. papers' = WithRow(papers, id, new)
      BY <1>1, <1>2
    <2> HIDE DEF id
    <2> QED BY <2>1 DEF WithRow
  <1>5. /\ id \notin DOMAIN papers /\ DOMAIN papers \subseteq 1..numbered.papers
        /\ \A p \in DOMAIN papers : papers[p] \in Paper
    BY IdsAre DEF PurchasingInv, PurchasingTypeOK
  <1>6. DOMAIN papers' \subseteq 1..numbered'.papers
    BY <1>2, <1>4, <1>5, IdsAre
  <1> QED BY <1>1, <1>2, <1>3, <1>4, <1>5, <1>6, PapersKeep

LEMMA StepConfirm ==
    ASSUME PurchasingInv, NEW p \in DOMAIN papers, NEW r \in Readings, ConfirmCapture(p, r)
    PROVE  PurchasingInv' /\ (BilledAtItsBasis => BilledAtItsBasis')
  <1> DEFINE new == [papers[p] EXCEPT !.reading = r, !.status = "validated"]
  <1>1. /\ papers[p].bill = Nothing /\ papers' = [papers EXCEPT ![p] = new]
        /\ UNCHANGED <<bills, orders, subs, numbered>>
    BY DEF ConfirmCapture, Correctable, OnPapers
  <1>2. /\ DOMAIN papers \subseteq 1..numbered.papers
        /\ \A k \in DOMAIN papers : papers[k] \in Paper
        /\ numbered \in [papers : 0..MaxPapers, bills : 0..MaxBills]
    BY DEF PurchasingInv, PurchasingTypeOK
  <1>3. new \in Paper /\ new.bill = Nothing
    BY <1>1, <1>2 DEF Paper
  <1> HIDE DEF new
  <1>4. /\ DOMAIN papers' = DOMAIN papers /\ papers'[p] = new
        /\ \A k \in DOMAIN papers : k # p => papers'[k] = papers[k]
    BY <1>1
  <1> QED BY <1>1, <1>2, <1>3, <1>4, PapersKeep

LEMMA StepDeleteCapture ==
    ASSUME PurchasingInv, NEW p \in DOMAIN papers, DeleteCapture(p)
    PROVE  PurchasingInv' /\ (BilledAtItsBasis => BilledAtItsBasis')
  <1>1. /\ papers[p].bill = Nothing /\ papers' = [q \in DOMAIN papers \ {p} |-> papers[q]]
        /\ UNCHANGED <<bills, orders, subs, numbered>>
    BY DEF DeleteCapture, OnPapers
  <1>2. /\ DOMAIN papers \subseteq 1..numbered.papers
        /\ \A k \in DOMAIN papers : papers[k] \in Paper
        /\ numbered \in [papers : 0..MaxPapers, bills : 0..MaxBills]
    BY DEF PurchasingInv, PurchasingTypeOK
  <1>4. /\ DOMAIN papers' = DOMAIN papers \ {p}
        /\ \A k \in DOMAIN papers' : papers'[k] = papers[k]
    BY <1>1
  <1> QED BY <1>1, <1>2, <1>4, PapersKeep
-----------------------------------------------------------------------------
LEMMA BillIs ==
    ASSUME NEW r \in Bill
    PROVE  r.paper \in 0..MaxPapers /\ r.base \in Nat /\ r.rows \in Seq(Int)
           /\ r.ref \in Refs \cup {NoRef} /\ r.sub \in 0..MaxSubs
  BY DEF Bill

\* The order that a bill invoices, of those that carry its reference.
LEMMA InvoicesOne ==
    ASSUME PurchasingInv, NEW ref, NEW b \in 1..MaxBills
    PROVE  /\ Invoices(ref, b) \in Seq(Order)
           /\ DOMAIN Invoices(ref, b) = DOMAIN orders
           /\ \A o \in DOMAIN orders :
                 /\ Invoices(ref, b)[o].ref = orders[o].ref
                 /\ \/ Invoices(ref, b)[o].invoiced = orders[o].invoiced
                    \/ Invoices(ref, b)[o].invoiced = b /\ orders[o].ref = ref
           /\ ref = NoRef => Invoices(ref, b) = orders
  <1>1. orders \in Seq(Order)
    BY DEF PurchasingInv
  <1>2. CASE Ordered(ref) = {}
    BY <1>1, <1>2 DEF Invoices
  <1>3. CASE Ordered(ref) # {}
    <2> DEFINE o == Min(Ordered(ref))
               r == [orders[o] EXCEPT !.invoiced = b]
    <2>1. Ordered(ref) \subseteq Nat
      BY <1>1 DEF Ordered
    <2>2. o \in Ordered(ref)
      BY <1>3, <2>1, MinIsIn
    <2>3. o \in DOMAIN orders /\ orders[o].ref = ref /\ ref # NoRef
      BY <2>2 DEF Ordered
    <2>4. orders[o] \in Order
      BY <1>1, <2>3
    <2>5. b \in 0..MaxBills
      BY FiguresAssumption
    <2>6. r \in Order /\ r.ref = orders[o].ref /\ r.invoiced = b
      BY <2>4, <2>5 DEF Order
    <2>7. Invoices(ref, b) = [orders EXCEPT ![o] = r]
      BY <1>3 DEF Invoices
    <2> HIDE DEF o, r
    <2> QED BY <1>1, <2>3, <2>6, <2>7
  <1> QED BY <1>2, <1>3

\* A bill that is registered, with the papers that its press changes.
LEMMA BillRegistered ==
    ASSUME PurchasingInv, NEW bill \in Bill, RegisterBill(bill),
           NEW b, b = numbered.bills + 1,
           DOMAIN papers' = DOMAIN papers,
           \A p \in DOMAIN papers : papers'[p] \in Paper,
           \A p \in DOMAIN papers : bill.paper # p => papers'[p] = papers[p],
           bill.paper # Nothing =>
               /\ bill.paper \in DOMAIN papers /\ papers[bill.paper].bill = Nothing
               /\ papers'[bill.paper].bill = b,
           subs' \in Seq(Subcontract), Len(subs') <= MaxSubs
    PROVE  /\ PurchasingInv'
           /\ b \in 1..MaxBills /\ DOMAIN bills' = DOMAIN bills \cup {b} /\ bills'[b] = bill
           /\ \A k \in DOMAIN bills : bills'[k] = bills[k]
           /\ b \notin DOMAIN bills
  <1>1. /\ numbered.bills < MaxBills /\ numbered' = [numbered EXCEPT !.bills = b]
        /\ bills' = WithRow(bills, numbered'.bills, bill)
        /\ orders' = Invoices(bill.ref, numbered'.bills)
        /\ ComesTo(bill.rows, bill.base)
    BY DEF RegisterBill
  <1>2. numbered' = [papers |-> numbered.papers, bills |-> b]
    <2>1. numbered = [papers |-> numbered.papers, bills |-> numbered.bills]
      BY IdsAre
    <2> QED BY <1>1, <2>1
  <1>3. b \in 1..MaxBills /\ b \notin DOMAIN bills /\ b \in Nat
    BY <1>1, IdsAre, FiguresAssumption
  <1>4. numbered' \in [papers : 0..MaxPapers, bills : 0..MaxBills]
    <2>1. b \in 0..MaxBills /\ numbered.papers \in 0..MaxPapers
      BY <1>3, IdsAre, FiguresAssumption
    <2> QED BY <1>2, <2>1
  <1>5. bills' = WithRow(bills, b, bill) /\ orders' = Invoices(bill.ref, b)
    BY <1>1, <1>2
  <1>6. /\ DOMAIN bills' = DOMAIN bills \cup {b} /\ bills'[b] = bill
        /\ \A k \in DOMAIN bills : bills'[k] = bills[k]
    BY <1>3, <1>5 DEF WithRow
  <1>7. /\ orders' \in Seq(Order) /\ DOMAIN orders' = DOMAIN orders
        /\ \A o \in DOMAIN orders :
                 /\ orders'[o].ref = orders[o].ref
                 /\ \/ orders'[o].invoiced = orders[o].invoiced
                    \/ orders'[o].invoiced = b /\ orders[o].ref = bill.ref
    BY <1>3, <1>5, InvoicesOne
  <1>8. PurchasingTypeOK'
    <2>1. DOMAIN papers' \subseteq 1..numbered'.papers
      BY <1>2 DEF PurchasingInv, PurchasingTypeOK
    <2>2. DOMAIN bills' \subseteq 1..numbered'.bills
      BY <1>2, <1>3, <1>6, IdsAre
    <2>3. \A k \in DOMAIN bills' : bills'[k] \in Bill /\ ComesTo(bills'[k].rows, bills'[k].base)
      BY <1>1, <1>6 DEF PurchasingInv, PurchasingTypeOK
    <2>4. (\A o \in DOMAIN orders' : orders'[o] \in Order)
          /\ (\A s \in DOMAIN subs' : subs'[s] \in Subcontract)
      BY <1>7
    <2> QED BY <2>1, <2>2, <2>3, <2>4 DEF PurchasingTypeOK
  <1>9. RegisterAgrees'
    <2>0. RegisterAgrees /\ Nothing \notin DOMAIN bills
      BY IdsAre DEF PurchasingInv
    <2>1. ASSUME NEW p \in DOMAIN papers', papers'[p].bill # Nothing
          PROVE  papers'[p].bill \in DOMAIN bills' /\ bills'[papers'[p].bill].paper = p
      <3>1. CASE p = bill.paper
        <4>1. p # Nothing
          BY IdsAre
        <4>2. papers'[p].bill = b
          BY <3>1, <4>1
        <4> QED BY <1>6, <3>1, <4>2
      <3>2. CASE p # bill.paper
        <4>1. papers'[p] = papers[p]
          BY <3>2
        <4>2. papers[p].bill \in DOMAIN bills /\ bills[papers[p].bill].paper = p
          BY <2>0, <2>1, <4>1 DEF RegisterAgrees
        <4> QED BY <1>6, <4>1, <4>2
      <3> QED BY <3>1, <3>2
    <2>2. ASSUME NEW k \in DOMAIN bills', bills'[k].paper # Nothing
          PROVE  bills'[k].paper \in DOMAIN papers' /\ papers'[bills'[k].paper].bill = k
      <3>1. CASE k = b
        BY <1>6, <2>2, <3>1
      <3>2. CASE k # b
        <4>1. k \in DOMAIN bills /\ bills'[k] = bills[k]
          BY <1>6, <3>2
        <4>2. bills[k].paper \in DOMAIN papers /\ papers[bills[k].paper].bill = k
          BY <2>0, <2>2, <4>1 DEF RegisterAgrees
        <4>3. k # Nothing
          BY <2>0, <4>1
        <4>4. bills[k].paper # bill.paper
          BY <2>2, <4>1, <4>2, <4>3
        <4> QED BY <4>1, <4>2, <4>4
      <3> QED BY <3>1, <3>2
    <2>3. ASSUME NEW o \in DOMAIN orders', orders'[o].invoiced # Nothing
          PROVE  /\ orders'[o].invoiced \in DOMAIN bills'
                 /\ bills'[orders'[o].invoiced].ref = orders'[o].ref
      BY <1>6, <1>7, <2>0, <2>3 DEF RegisterAgrees
    <2> QED BY <2>1, <2>2, <2>3 DEF RegisterAgrees
  <1> QED BY <1>3, <1>4, <1>6, <1>7, <1>8, <1>9 DEF PurchasingInv

\* A bill without a document changes nothing of what was billed.
LEMMA OtherBill ==
    ASSUME PurchasingInv, NEW b, b \notin DOMAIN bills, UNCHANGED papers,
           DOMAIN bills' = DOMAIN bills \cup {b},
           \A k \in DOMAIN bills : bills'[k] = bills[k], b # Nothing, BilledAtItsBasis
    PROVE  BilledAtItsBasis'
  <1>1. ASSUME NEW p \in DOMAIN papers', papers'[p].bill \in DOMAIN bills'
        PROVE  /\ bills'[papers'[p].bill].base = Basis(papers'[p].reading)
               /\ ComesTo(papers'[p].rows, bills'[papers'[p].bill].base)
               /\ SumOfRows(bills'[papers'[p].bill].rows) = bills'[papers'[p].bill].base
    <2>1. papers[p].bill \in DOMAIN bills
      <3>1. papers[p].bill # Nothing => papers[p].bill \in DOMAIN bills
        BY <1>1 DEF PurchasingInv, RegisterAgrees
      <3> QED BY <1>1, <3>1
    <2> QED BY <1>1, <2>1 DEF BilledAtItsBasis
  <1> QED BY <1>1 DEF BilledAtItsBasis

LEMMA StepByHand ==
    ASSUME PurchasingInv, NEW share \in Shares, NEW miss \in Misses,
           NEW ref \in Refs \cup {NoRef}, BillByHand(Goods, share, miss, ref)
    PROVE  PurchasingInv' /\ (BilledAtItsBasis => BilledAtItsBasis')
  <1> DEFINE rows == Rescaled(share, Goods + miss)
             b == numbered.bills + 1
             bill == [paper |-> Nothing, base |-> Goods, rows |-> rows, ref |-> ref, sub |-> Nothing]
  <1>1. RegisterBill(bill) /\ UNCHANGED <<papers, subs>>
    BY DEF BillByHand
  <1>2. rows \in Seq(Int)
    <2>1. share \in Seq(Int) /\ share # <<>> /\ SumOfRows(share) > 0 /\ Goods + miss \in Int
      BY FiguresAssumption
    <2> QED BY <2>1, RescaledComesToIt
  <1> HIDE DEF rows
  <1>3. bill \in Bill /\ bill.rows = rows /\ bill.base = Goods /\ bill.paper = Nothing
    BY <1>2, FiguresAssumption DEF Bill, Nothing
  <1>4. /\ subs' \in Seq(Subcontract) /\ Len(subs') <= MaxSubs
        /\ \A p \in DOMAIN papers : papers[p] \in Paper /\ p # Nothing
    BY <1>1, IdsAre DEF PurchasingInv, PurchasingTypeOK
  <1> HIDE DEF bill, b
  <1>5. b = numbered.bills + 1
    BY DEF b
  <1>6. /\ PurchasingInv'
        /\ b \in 1..MaxBills /\ DOMAIN bills' = DOMAIN bills \cup {b}
        /\ \A k \in DOMAIN bills : bills'[k] = bills[k]
        /\ b \notin DOMAIN bills
    BY <1>1, <1>2, <1>3, <1>4, <1>5, BillRegistered
  <1>7. b # Nothing
    BY <1>6 DEF Nothing
  <1> QED BY <1>1, <1>6, <1>7, OtherBill

LEMMA BasisIs ==
    ASSUME NEW r \in Readings
    PROVE  /\ Basis(r) \in Nat /\ BaseOf[r] \in Nat
           /\ BaseOf[r] > 0 => Basis(r) = BaseOf[r]
  <1>1. BaseOf[r] \in Nat /\ VatOf[r] \in Nat /\ GrossOf[r] \in Nat
    BY FiguresAssumption
  <1>2. ASSUME ~(BaseOf[r] > 0) PROVE Basis(r) \in Nat
    <2> DEFINE S == {0, GrossOf[r] - VatOf[r]}
               top == IF GrossOf[r] - VatOf[r] > 0 THEN GrossOf[r] - VatOf[r] ELSE 0
    <2>1. S \subseteq Int /\ S # {} /\ top \in Int /\ (\A y \in S : y <= top) /\ 0 \in S
      BY <1>1
    <2>2. Max(S) \in S /\ \A y \in S : y <= Max(S)
      <3> HIDE DEF S, top
      <3> QED BY <2>1, MaxIsIn
    <2>3. Max(S) \in Int /\ 0 <= Max(S)
      BY <2>1, <2>2
    <2> QED BY <1>2, <2>3 DEF Basis
  <1> QED BY <1>1, <1>2 DEF Basis
LEMMA StepFromCapture ==
    ASSUME PurchasingInv, NEW p \in DOMAIN papers, NEW share \in Shares,
           NEW miss \in Misses, BillFromCapture(p, share, miss)
    PROVE  PurchasingInv' /\ (BasesAreRead /\ BilledAtItsBasis => BilledAtItsBasis')
  <1> DEFINE r == papers[p].reading
             split == IF Basis(r) > 0 THEN Basis(r) ELSE Goods
             rows == Rescaled(share, split + miss)
             billed == Rescaled(rows, BaseOf[r])
             b == numbered.bills + 1
             bill == [paper |-> p, base |-> BaseOf[r], rows |-> billed, ref |-> NoRef,
                      sub |-> Nothing]
             filed == [papers[p] EXCEPT !.rows = rows, !.status = "allocated", !.bill = b]
  <1>1. /\ papers[p].bill = Nothing /\ RegisterBill(bill) /\ UNCHANGED subs
        /\ Positive(rows) /\ (Basis(r) > 0 => ComesTo(rows, Basis(r)))
    BY DEF BillFromCapture
  <1>2. papers[p] \in Paper /\ r \in Readings /\ p \in 0..MaxPapers /\ p # Nothing
    <2>1. papers[p] \in Paper
      BY DEF PurchasingInv, PurchasingTypeOK
    <2>2. p \in 1..MaxPapers
      BY IdsAre
    <2>3. p \in 0..MaxPapers /\ p # Nothing
      BY <2>2, FiguresAssumption DEF Nothing
    <2> QED BY <2>1, <2>3, PaperIs
  <1>3. split \in Nat /\ split > 0 /\ BaseOf[r] \in Nat
    BY <1>2, BasisIs, FiguresAssumption
  <1>4. rows \in Seq(Int) /\ rows # <<>> /\ SumOfRows(rows) > 0
    <2>1. share \in Seq(Int) /\ share # <<>> /\ SumOfRows(share) > 0 /\ split + miss \in Int
      BY <1>3, FiguresAssumption
    <2>2. rows \in Seq(Int) /\ rows # <<>>
      <3> HIDE DEF split
      <3> QED BY <2>1, RescaledComesToIt
    <2> HIDE DEF rows
    <2> QED BY <1>1, <2>2, PositiveSum
  <1>5. billed \in Seq(Int) /\ SumOfRows(billed) = BaseOf[r]
    <2>1. SumOfRows(rows) > 0 /\ BaseOf[r] \in Int
      BY <1>3, <1>4
    <2> HIDE DEF rows
    <2> QED BY <1>4, <2>1, RescaledComesToIt
  <1>6. numbered'.bills = b /\ b \in 0..MaxBills
    <2>1. numbered.bills < MaxBills /\ numbered' = [numbered EXCEPT !.bills = b]
      BY <1>1 DEF RegisterBill
    <2>2. numbered = [papers |-> numbered.papers, bills |-> numbered.bills]
      BY IdsAre
    <2>3. numbered' = [papers |-> numbered.papers, bills |-> b]
      BY <2>1, <2>2
    <2>4. b \in 0..MaxBills
      BY <2>1, IdsAre, FiguresAssumption
    <2> HIDE DEF b
    <2> QED BY <2>3, <2>4
  <1>7. papers' = [papers EXCEPT ![p] = filed]
    <2>1. papers' = [papers EXCEPT ![p].rows = rows, ![p].status = "allocated",
                                   ![p].bill = numbered'.bills]
      BY DEF BillFromCapture
    <2> HIDE DEF rows, b
    <2> QED BY <1>6, <2>1
  <1> HIDE DEF split, rows, billed, b
  <1>8. bill \in Bill /\ bill.rows = billed /\ bill.base = BaseOf[r] /\ bill.paper = p
    <2>1. 0 \in 0..MaxSubs
      BY FiguresAssumption
    <2> QED BY <1>2, <1>3, <1>5, <2>1 DEF Bill, Nothing
  <1>9. filed \in Paper /\ filed.bill = b /\ filed.rows = rows /\ filed.reading = r
    BY <1>2, <1>4, <1>6 DEF Paper
  <1> HIDE DEF filed, bill
  <1>10. /\ DOMAIN papers' = DOMAIN papers /\ papers'[p] = filed
         /\ \A k \in DOMAIN papers : k # p => papers'[k] = papers[k]
    BY <1>7
  <1>11. /\ \A k \in DOMAIN papers : papers'[k] \in Paper
         /\ \A k \in DOMAIN papers : bill.paper # k => papers'[k] = papers[k]
         /\ bill.paper \in DOMAIN papers /\ papers[bill.paper].bill = Nothing
         /\ papers'[bill.paper].bill = b
         /\ subs' \in Seq(Subcontract) /\ Len(subs') <= MaxSubs
    <2>1. \A k \in DOMAIN papers : papers[k] \in Paper
      BY DEF PurchasingInv, PurchasingTypeOK
    <2>2. subs' \in Seq(Subcontract) /\ Len(subs') <= MaxSubs
      BY <1>1 DEF PurchasingInv
    <2> QED BY <1>1, <1>8, <1>9, <1>10, <2>1, <2>2
  <1>12. b = numbered.bills + 1
    BY DEF b
  <1>13. SumOfRows(bill.rows) = bill.base
    BY <1>5, <1>8
  <1>14. /\ PurchasingInv'
         /\ b \in 1..MaxBills /\ DOMAIN bills' = DOMAIN bills \cup {b} /\ bills'[b] = bill
         /\ \A k \in DOMAIN bills : bills'[k] = bills[k]
         /\ b \notin DOMAIN bills
    <2>1. PICK one \in Bill : one = bill
      BY <1>8
    <2>2. RegisterBill(one)
      BY <1>1, <2>1 DEF RegisterBill
    <2>3. PICK number : number = b
      OBVIOUS
    <2>4. /\ \A k \in DOMAIN papers : one.paper # k => papers'[k] = papers[k]
          /\ one.paper \in DOMAIN papers /\ papers[one.paper].bill = Nothing
          /\ papers'[one.paper].bill = number
          /\ number = numbered.bills + 1
      BY <1>11, <1>12, <2>1, <2>3
    <2>5. /\ PurchasingInv'
          /\ number \in 1..MaxBills /\ DOMAIN bills' = DOMAIN bills \cup {number}
          /\ bills'[number] = one
          /\ \A k \in DOMAIN bills : bills'[k] = bills[k]
          /\ number \notin DOMAIN bills
      BY ONLY PurchasingInv, <1>10, <1>11, <2>2, <2>4, one \in Bill, BillRegistered
    <2> QED BY <2>1, <2>3, <2>5
  <1>15. ASSUME BasesAreRead, BilledAtItsBasis PROVE BilledAtItsBasis'
    <2>1. ASSUME NEW k \in DOMAIN papers', papers'[k].bill \in DOMAIN bills'
          PROVE  /\ bills'[papers'[k].bill].base = Basis(papers'[k].reading)
                 /\ ComesTo(papers'[k].rows, bills'[papers'[k].bill].base)
                 /\ SumOfRows(bills'[papers'[k].bill].rows) = bills'[papers'[k].bill].base
      <3>1. CASE k = p
        <4>1. Basis(r) = BaseOf[r] /\ Basis(r) > 0
          BY <1>2, <1>15, BasisIs DEF BasesAreRead
        <4>2. papers'[k] = filed /\ bills'[papers'[k].bill] = bill
          BY <1>9, <1>10, <1>14, <3>1
        <4>3. ComesTo(rows, bill.base)
          BY <1>1, <1>8, <4>1
        <4> QED BY <1>8, <1>9, <1>13, <4>1, <4>2, <4>3
      <3>2. CASE k # p
        <4>1. k \in DOMAIN papers /\ papers'[k] = papers[k]
          BY <1>10, <3>2
        <4>2. papers[k].bill # Nothing => papers[k].bill \in DOMAIN bills
          BY <4>1 DEF PurchasingInv, RegisterAgrees
        <4>3. Nothing \notin DOMAIN bills'
          BY <1>14, IdsAre DEF Nothing
        <4>4. papers[k].bill \in DOMAIN bills
          BY <2>1, <4>1, <4>2, <4>3
        <4>5. bills'[papers[k].bill] = bills[papers[k].bill]
          BY <1>14, <4>4
        <4> QED BY <1>15, <4>1, <4>4, <4>5 DEF BilledAtItsBasis
      <3> QED BY <3>1, <3>2
    <2> QED BY <2>1 DEF BilledAtItsBasis
  <1> QED BY <1>14, <1>15

LEMMA StepDeleteBill ==
    ASSUME PurchasingInv, NEW b \in DOMAIN bills, DeleteBill(b)
    PROVE  PurchasingInv' /\ (BilledAtItsBasis => BilledAtItsBasis')
  <1>0. /\ RegisterAgrees /\ Nothing \notin DOMAIN bills /\ orders \in Seq(Order)
        /\ \A p \in DOMAIN papers : papers[p] \in Paper
        /\ \A o \in DOMAIN orders : orders[o] \in Order
        /\ 0 \in 0..MaxBills
    <2>1. orders \in Seq(Order)
      BY DEF PurchasingInv
    <2> QED BY <2>1, IdsAre, FiguresAssumption DEF PurchasingInv, PurchasingTypeOK
  <1>1. /\ bills' = [k \in DOMAIN bills \ {b} |-> bills[k]]
        /\ papers' = Freed(b) /\ orders' = Reopened(b) /\ UNCHANGED <<subs, numbered>>
    BY DEF DeleteBill
  <1>2. /\ DOMAIN bills' = DOMAIN bills \ {b}
        /\ \A k \in DOMAIN bills' : bills'[k] = bills[k]
    BY <1>1
  <1>3. DOMAIN papers' = DOMAIN papers
    BY <1>1 DEF Freed
  <1>4. ASSUME NEW p \in DOMAIN papers
        PROVE  /\ papers'[p] \in Paper
               /\ papers'[p].reading = papers[p].reading /\ papers'[p].rows = papers[p].rows
               /\ p = bills[b].paper => papers'[p].bill = Nothing
               /\ p # bills[b].paper => papers'[p] = papers[p]
    <2>1. papers[p] \in Paper
      BY <1>0
    <2>2. papers'[p] = IF p = bills[b].paper THEN [papers[p] EXCEPT !.bill = Nothing] ELSE papers[p]
      BY <1>1 DEF Freed
    <2>3. LET q == [papers[p] EXCEPT !.bill = Nothing]
          IN q \in Paper /\ q.reading = papers[p].reading /\ q.rows = papers[p].rows
             /\ q.bill = Nothing
      BY <1>0, <2>1 DEF Paper, Nothing
    <2> QED BY <2>1, <2>2, <2>3
  <1>5. DOMAIN orders' = DOMAIN orders /\ orders' \in Seq(Order)
    <2>1. DOMAIN orders' = DOMAIN orders
      BY <1>1 DEF Reopened
    <2>2. \A o \in DOMAIN orders : orders'[o] \in Order
      <3> TAKE o \in DOMAIN orders
      <3>1. orders[o] \in Order
        BY <1>0
      <3>2. [orders[o] EXCEPT !.invoiced = Nothing] \in Order
        BY <1>0, <3>1 DEF Order, Nothing
      <3>3. orders'[o] = IF orders[o].invoiced = b THEN [orders[o] EXCEPT !.invoiced = Nothing]
                         ELSE orders[o]
        BY <1>1 DEF Reopened
      <3> QED BY <3>1, <3>2, <3>3
    <2>3. orders' = [o \in DOMAIN orders |-> orders'[o]]
      BY <1>1 DEF Reopened
    <2>4. DOMAIN orders = 1..Len(orders) /\ Len(orders) \in Nat
      BY <1>0
    <2> QED BY <2>1, <2>2, <2>3, <2>4
  <1>6. \A o \in DOMAIN orders : orders'[o].invoiced # Nothing =>
            /\ orders'[o].invoiced = orders[o].invoiced /\ orders'[o].ref = orders[o].ref
            /\ orders[o].invoiced # b
    <2> TAKE o \in DOMAIN orders
    <2>1. orders[o] \in Order
      BY <1>0
    <2>2. orders'[o] = IF orders[o].invoiced = b THEN [orders[o] EXCEPT !.invoiced = Nothing]
                       ELSE orders[o]
      BY <1>1 DEF Reopened
    <2>3. [orders[o] EXCEPT !.invoiced = Nothing].invoiced = Nothing
      BY <2>1 DEF Order
    <2> QED BY <2>2, <2>3
  <1>7. PurchasingTypeOK'
    <2>1. \A o \in DOMAIN orders' : orders'[o] \in Order
      BY <1>5
    <2> QED BY <1>1, <1>2, <1>3, <1>4, <2>1 DEF PurchasingInv, PurchasingTypeOK
  <1>8. \A p \in DOMAIN papers' : papers'[p].bill # Nothing =>
            /\ papers'[p] = papers[p] /\ papers[p].bill \in DOMAIN bills'
            /\ bills[papers[p].bill].paper = p
    BY <1>0, <1>2, <1>3, <1>4 DEF RegisterAgrees
  <1>9. RegisterAgrees'
    <2>1. \A p \in DOMAIN papers' : papers'[p].bill # Nothing =>
               papers'[p].bill \in DOMAIN bills' /\ bills'[papers'[p].bill].paper = p
      BY <1>2, <1>8
    <2>2. ASSUME NEW k \in DOMAIN bills', bills'[k].paper # Nothing
          PROVE  bills'[k].paper \in DOMAIN papers' /\ papers'[bills'[k].paper].bill = k
      <3>1. k \in DOMAIN bills /\ k # b /\ bills'[k] = bills[k]
        BY <1>2
      <3>2. bills[k].paper \in DOMAIN papers /\ papers[bills[k].paper].bill = k
        BY <1>0, <2>2, <3>1 DEF RegisterAgrees
      <3>3. bills[k].paper # bills[b].paper
        BY <1>0, <2>2, <3>1, <3>2 DEF RegisterAgrees
      <3> QED BY <1>3, <1>4, <3>1, <3>2, <3>3
    <2>3. \A o \in DOMAIN orders' : orders'[o].invoiced # Nothing =>
              /\ orders'[o].invoiced \in DOMAIN bills'
              /\ bills'[orders'[o].invoiced].ref = orders'[o].ref
      BY <1>0, <1>2, <1>5, <1>6 DEF RegisterAgrees
    <2> QED BY <2>1, <2>2, <2>3 DEF RegisterAgrees
  <1>10. ASSUME BilledAtItsBasis PROVE BilledAtItsBasis'
    <2>1. ASSUME NEW p \in DOMAIN papers', papers'[p].bill \in DOMAIN bills'
          PROVE  /\ bills'[papers'[p].bill].base = Basis(papers'[p].reading)
                 /\ ComesTo(papers'[p].rows, bills'[papers'[p].bill].base)
                 /\ SumOfRows(bills'[papers'[p].bill].rows) = bills'[papers'[p].bill].base
      <3>1. papers'[p].bill # Nothing
        BY <1>0, <1>2, <2>1
      <3>2. papers'[p] = papers[p] /\ papers[p].bill \in DOMAIN bills
        BY <1>2, <1>8, <3>1
      <3> QED BY <1>2, <1>3, <1>10, <2>1, <3>2 DEF BilledAtItsBasis
    <2> QED BY <2>1 DEF BilledAtItsBasis
  <1> QED BY <1>1, <1>5, <1>7, <1>9, <1>10 DEF PurchasingInv
-----------------------------------------------------------------------------
LEMMA SubsKeep ==
    ASSUME PurchasingInv, UNCHANGED <<papers, bills, orders, numbered>>,
           subs' \in Seq(Subcontract), Len(subs') <= MaxSubs
    PROVE  PurchasingInv'
  <1>1. \A s \in DOMAIN subs' : subs'[s] \in Subcontract
    OBVIOUS
  <1> QED BY <1>1 DEF PurchasingInv, PurchasingTypeOK, RegisterAgrees

LEMMA SubMoveKept ==
    ASSUME PurchasingInv, NEW s \in DOMAIN subs, NEW r \in Subcontract,
           subs' = [subs EXCEPT ![s] = r]
    PROVE  subs' \in Seq(Subcontract) /\ Len(subs') <= MaxSubs
  BY DEF PurchasingInv

LEMMA SubcontractMoves ==
    ASSUME NEW r \in Subcontract
    PROVE  /\ \A to \in {"sent", "accepted", "inExecution", "completed", "terminated"} :
                  [r EXCEPT !.status = to] \in Subcontract
           /\ \A yes \in BOOLEAN : [r EXCEPT !.insured = yes] \in Subcontract
           /\ [r EXCEPT !.certified = Goods] \in Subcontract
           /\ [r EXCEPT !.released = TRUE] \in Subcontract
           /\ \A b \in 1..MaxBills : [r EXCEPT !.bills = @ \cup {b}] \in Subcontract
  <1>0. /\ r.status \in {"draft", "sent", "accepted", "inExecution", "completed", "terminated"}
        /\ r.insured \in BOOLEAN /\ r.certified \in Nat /\ r.released \in BOOLEAN
        /\ r.bills \in SUBSET (1..MaxBills) /\ Goods \in Nat
    BY FiguresAssumption DEF Subcontract
  <1>1. \A to \in {"sent", "accepted", "inExecution", "completed", "terminated"} :
            [r EXCEPT !.status = to] \in Subcontract
    BY <1>0 DEF Subcontract
  <1>2. \A yes \in BOOLEAN : [r EXCEPT !.insured = yes] \in Subcontract
    BY <1>0 DEF Subcontract
  <1>3. [r EXCEPT !.certified = Goods] \in Subcontract
    BY <1>0 DEF Subcontract
  <1>4. [r EXCEPT !.released = TRUE] \in Subcontract
    BY <1>0 DEF Subcontract
  <1>5. \A b \in 1..MaxBills : [r EXCEPT !.bills = @ \cup {b}] \in Subcontract
    BY <1>0 DEF Subcontract
  <1> QED BY <1>1, <1>2, <1>3, <1>4, <1>5

LEMMA StepSubs ==
    ASSUME PurchasingInv, SubsNext
    PROVE  PurchasingInv' /\ (BilledAtItsBasis => BilledAtItsBasis')
  <1>0. /\ subs \in Seq(Subcontract) /\ Len(subs) <= MaxSubs
        /\ \A s \in DOMAIN subs : subs[s] \in Subcontract /\ s \in 1..MaxSubs
    <2>1. subs \in Seq(Subcontract) /\ Len(subs) <= MaxSubs
      BY DEF PurchasingInv
    <2> QED BY <2>1, FiguresAssumption
  <1>a. ASSUME subs' \in Seq(Subcontract), Len(subs') <= MaxSubs, OnSubs
        PROVE  PurchasingInv' /\ (BilledAtItsBasis => BilledAtItsBasis')
    BY <1>a, SubsKeep DEF OnSubs, BilledAtItsBasis
  <1>1. CASE AddSubcontract
    <2> DEFINE r == [status |-> "draft", insured |-> FALSE, certified |-> 0,
                     bills |-> {}, released |-> FALSE]
    <2>1. r \in Subcontract
      BY DEF Subcontract
    <2>2. subs' = Append(subs, r) /\ Len(subs) < MaxSubs /\ OnSubs
      BY <1>1 DEF AddSubcontract
    <2> HIDE DEF r
    <2>3. subs' \in Seq(Subcontract) /\ Len(subs') = Len(subs) + 1
      BY <1>0, <2>1, <2>2
    <2>4. Len(subs') <= MaxSubs
      BY <1>0, <2>2, <2>3, FiguresAssumption
    <2> QED BY <1>a, <2>2, <2>3, <2>4
  <1>2. ASSUME NEW s \in DOMAIN subs, NEW from,
               NEW to \in {"sent", "accepted", "inExecution", "completed", "terminated"},
               SubMoves(s, from, to)
        PROVE  PurchasingInv' /\ (BilledAtItsBasis => BilledAtItsBasis')
    <2> DEFINE r == [subs[s] EXCEPT !.status = to]
    <2>1. r \in Subcontract
      BY <1>0, SubcontractMoves
    <2>2. subs' = [subs EXCEPT ![s] = r] /\ OnSubs
      BY <1>2 DEF SubMoves
    <2> HIDE DEF r
    <2> QED BY <1>a, <2>1, <2>2, SubMoveKept
  <1>3. ASSUME NEW s \in DOMAIN subs, NEW yes \in BOOLEAN,
               subs' = [subs EXCEPT ![s].insured = yes], OnSubs
        PROVE  PurchasingInv' /\ (BilledAtItsBasis => BilledAtItsBasis')
    <2> DEFINE r == [subs[s] EXCEPT !.insured = yes]
    <2>1. r \in Subcontract
      BY <1>0, SubcontractMoves
    <2>2. subs' = [subs EXCEPT ![s] = r]
      BY <1>3
    <2> HIDE DEF r
    <2> QED BY <1>3, <1>a, <2>1, <2>2, SubMoveKept
  <1>4. ASSUME NEW s \in DOMAIN subs, CertifySubcontract(s)
        PROVE  PurchasingInv' /\ (BilledAtItsBasis => BilledAtItsBasis')
    <2> DEFINE r == [subs[s] EXCEPT !.certified = Goods]
    <2>1. r \in Subcontract
      BY <1>0, SubcontractMoves
    <2>2. subs' = [subs EXCEPT ![s] = r] /\ OnSubs
      BY <1>4 DEF CertifySubcontract
    <2> HIDE DEF r
    <2> QED BY <1>a, <2>1, <2>2, SubMoveKept
  <1>5. ASSUME NEW s \in DOMAIN subs, ReleaseSubcontractRetention(s)
        PROVE  PurchasingInv' /\ (BilledAtItsBasis => BilledAtItsBasis')
    <2> DEFINE r == [subs[s] EXCEPT !.released = TRUE]
    <2>1. r \in Subcontract
      BY <1>0, SubcontractMoves
    <2>2. subs' = [subs EXCEPT ![s] = r] /\ OnSubs
      BY <1>5 DEF ReleaseSubcontractRetention
    <2> HIDE DEF r
    <2> QED BY <1>a, <2>1, <2>2, SubMoveKept
  <1>6. ASSUME NEW s \in DOMAIN subs, ApproveSubcontractorInvoice(s)
        PROVE  PurchasingInv' /\ (BilledAtItsBasis => BilledAtItsBasis')
    <2> DEFINE b == numbered.bills + 1
               bill == [paper |-> Nothing, base |-> Goods, rows |-> <<Goods>>, ref |-> NoRef,
                        sub |-> s]
               r == [subs[s] EXCEPT !.bills = @ \cup {b}]
    <2>1. RegisterBill(bill) /\ UNCHANGED papers
          /\ subs' = [subs EXCEPT ![s].bills = @ \cup {numbered'.bills}]
      BY <1>6 DEF ApproveSubcontractorInvoice
    <2>2. /\ <<Goods>> \in Seq(Int) /\ SumOfRows(<<Goods>>) = Goods
      <3>1. Goods \in Int /\ <<>> \in Seq(Int) /\ Append(<<>>, Goods) = <<Goods>>
        BY FiguresAssumption
      <3>2. SumOfRows(<<Goods>>) = SumOn(<<>>, DOMAIN <<>>) + Goods
        BY <3>1, SumOfAppended DEF SumOfRows
      <3>3. DOMAIN <<>> = {}
        OBVIOUS
      <3>4. SumOn(<<>>, {}) = 0
        BY SumOfNone
      <3> QED BY <3>1, <3>2, <3>3, <3>4
    <2>3. bill \in Bill /\ bill.rows = <<Goods>> /\ bill.base = Goods /\ bill.paper = Nothing
      BY <1>0, <2>2, FiguresAssumption DEF Bill, Nothing
    <2>4. b = numbered.bills + 1 /\ b \in 1..MaxBills /\ numbered'.bills = b
      <3>1. numbered.bills < MaxBills /\ numbered' = [numbered EXCEPT !.bills = b]
        BY <2>1 DEF RegisterBill
      <3>2. numbered = [papers |-> numbered.papers, bills |-> numbered.bills]
        BY IdsAre
      <3>3. numbered' = [papers |-> numbered.papers, bills |-> b]
        BY <3>1, <3>2
      <3>4. b \in 1..MaxBills
        BY <3>1, IdsAre, FiguresAssumption
      <3> QED BY <3>3, <3>4
    <2> HIDE DEF b, bill
    <2>5. r \in Subcontract
      BY <1>0, <2>4, SubcontractMoves
    <2>6. subs' = [subs EXCEPT ![s] = r]
      BY <2>1, <2>4
    <2> HIDE DEF r
    <2>7. subs' \in Seq(Subcontract) /\ Len(subs') <= MaxSubs
      BY <2>5, <2>6, SubMoveKept
    <2>8. \A p \in DOMAIN papers : papers[p] \in Paper /\ p # Nothing
      BY IdsAre DEF PurchasingInv, PurchasingTypeOK
    <2>9. /\ PurchasingInv'
          /\ b \in 1..MaxBills /\ DOMAIN bills' = DOMAIN bills \cup {b}
          /\ \A k \in DOMAIN bills : bills'[k] = bills[k]
          /\ b \notin DOMAIN bills
      BY <2>1, <2>2, <2>3, <2>4, <2>7, <2>8, BillRegistered
    <2>10. b # Nothing
      BY <2>9 DEF Nothing
    <2> QED BY <2>1, <2>9, <2>10, OtherBill
  <1> QED
    BY <1>1, <1>2, <1>3, <1>4, <1>5, <1>6
       DEF SubsNext, SendSubcontract, AcceptSubcontract, MarkSubcontractStarted,
           MarkSubcontractCompleted, TerminateSubcontract, RenewSubcontractDoc, DocumentExpires

LEMMA StepPurchasing ==
    ASSUME PurchasingInv, [PurchasingNext]_purchasingVars
    PROVE  PurchasingInv' /\ (BasesAreRead /\ BilledAtItsBasis => BilledAtItsBasis')
  <1>1. CASE UNCHANGED purchasingVars
    BY <1>1 DEF purchasingVars, PurchasingInv, PurchasingTypeOK, RegisterAgrees, BilledAtItsBasis
  <1>2. CASE OrdersNext
    BY <1>2, StepOrders DEF BilledAtItsBasis
  <1>3. CASE PapersNext
    BY <1>3, StepCapture, StepConfirm, StepDeleteCapture, StepFromCapture, StepByHand,
       StepDeleteBill DEF PapersNext
  <1>4. CASE SubsNext
    BY <1>4, StepSubs
  <1> QED BY <1>1, <1>2, <1>3, <1>4 DEF PurchasingNext

LEMMA PurchasingBegins == PurchasingInit => PurchasingInv /\ BilledAtItsBasis
  <1> SUFFICES ASSUME PurchasingInit PROVE PurchasingInv /\ BilledAtItsBasis
    OBVIOUS
  <1>1. /\ papers = <<>> /\ bills = <<>> /\ orders = <<>> /\ subs = <<>>
        /\ numbered = [papers |-> 0, bills |-> 0]
    BY DEF PurchasingInit
  <1>2. numbered \in [papers : 0..MaxPapers, bills : 0..MaxBills]
    BY <1>1, FiguresAssumption
  <1> QED BY <1>1, <1>2, FiguresAssumption
          DEF PurchasingInv, PurchasingTypeOK, RegisterAgrees, BilledAtItsBasis

\* Whatever is ordered, photographed, billed, deleted and subcontracted: a document and its
\* bill name each other, an order names the bill that invoices it as long as it is there,
\* and the rows of a bill come to its base within the cent that registerBill allows
\* (registerBill and deleteBill).
THEOREM RegisterAgreesAlways == PurchasingSpec => [](PurchasingTypeOK /\ RegisterAgrees)
  <1>1. PurchasingInv => PurchasingTypeOK /\ RegisterAgrees
    BY DEF PurchasingInv
  <1> QED BY <1>1, StepPurchasing, PurchasingBegins, PTL DEF PurchasingSpec

\* And a bill costs what its document says: what was split of the document came to that
\* within a cent, and what the bill charges comes to it exactly, whatever was typed and
\* however it was rounded, as long as every document is read with its base
\* (captureBasisCents, _rescaleAllocations, captureDrawer of erp.html).
THEOREM PurchasesKept == ASSUME BasesAreRead PROVE PurchasingSpec => []PurchasesHold
  <1>1. PurchasingInv /\ BilledAtItsBasis => PurchasesHold
    BY DEF PurchasingInv, PurchasesHold
  <1>2. PurchasingInv /\ BilledAtItsBasis /\ [PurchasingNext]_purchasingVars
            => PurchasingInv' /\ BilledAtItsBasis'
    BY StepPurchasing
  <1> QED BY <1>1, <1>2, PurchasingBegins, PTL DEF PurchasingSpec
-----------------------------------------------------------------------------
(* Bank. *)

\* What reconciliation keeps, with what it rests on: a pair names no line that is yet to
\* come, and a payment is of a call that was made.
BankInv ==
    /\ BankTypeOK
    /\ deeds \in Nat
    /\ \A m \in DOMAIN moves : moves[m].pair <= imported
    /\ PaidIffMatched
    /\ PapersNotOverpaid
    /\ EachLineOnce
    /\ TransferLegsMutual
    /\ ClosedMeansExplained

\* What a step does to the lines of a closed quarter.
ClosedStand ==
    \A m \in DOMAIN moves : Closed(m) =>
        /\ m \in DOMAIN moves' /\ moves'[m] = moves[m]
        /\ \A k \in Naming(m) : \E j \in DOMAIN payments' : payments'[j] = payments[k]

LEMMA SplitIs ==
    ASSUME NEW f \in Splits
    PROVE  /\ DOMAIN f \subseteq Papers /\ f # <<>>
           /\ \A p \in DOMAIN f : f[p] \in Nat
  <1>1. PICK S \in (SUBSET Papers) \ {{}} : f \in [S -> {Total[p] : p \in Papers} \cup {10}]
    BY DEF Splits
  <1>2. DOMAIN f = S /\ S # {} /\ S \subseteq Papers
    <2>1. S \in (SUBSET Papers) \ {{}}
      OBVIOUS
    <2>2. S \subseteq Papers
      BY <2>1
    <2>4. S # {}
      BY <2>1, Zenon
    <2>3. DOMAIN f = S
      BY <1>1
    <2> QED BY <2>2, <2>3, <2>4
  <1>3. DOMAIN <<>> = {}
    OBVIOUS
  <1>4. {Total[p] : p \in Papers} \cup {10} \subseteq Nat
    BY PapersAssumption
  <1>5. \A p \in DOMAIN f : f[p] \in Nat
    BY <1>1, <1>2, <1>4
  <1> QED BY <1>2, <1>3, <1>5

LEMMA LinesTyped ==
    ASSUME BankInv
    PROVE  /\ imported \in Nat /\ imported <= MaxMoves /\ MaxMoves \in Nat /\ deeds \in Nat
           /\ \A m \in DOMAIN moves :
                 /\ moves[m] \in Movement /\ DOMAIN moves[m].papers \subseteq booked
                 /\ m \in Nat /\ 1 <= m /\ m <= imported
                 /\ moves[m].pair \in Nat /\ moves[m].pair <= imported
                 /\ moves[m].line \in Lines
                 /\ moves[m].papers \in Splits \cup {<<>>}
           /\ Nobody \notin DOMAIN moves
           /\ DOMAIN payments \subseteq 1..deeds /\ IsFiniteSet(DOMAIN payments)
           /\ \A k \in DOMAIN payments :
                 /\ payments[k] \in [move : DOMAIN moves, pays : Splits]
                 /\ payments[k].move \in DOMAIN moves /\ payments[k].pays \in Splits
                 /\ k \in Nat /\ 1 <= k /\ k <= deeds
           /\ IsFiniteSet(DOMAIN moves)
  <1>1. /\ imported \in 0..MaxMoves /\ DOMAIN moves \subseteq 1..imported /\ deeds \in Nat
        /\ DOMAIN payments \subseteq 1..deeds /\ MaxMoves \in Nat
    BY PapersAssumption DEF BankInv, BankTypeOK
  <1>2. imported \in Nat /\ imported <= MaxMoves
    BY <1>1
  <1>3. \A m \in DOMAIN moves : m \in Nat /\ 1 <= m /\ m <= imported
    BY <1>1, <1>2
  <1>4. \A m \in DOMAIN moves :
                 /\ moves[m] \in Movement /\ DOMAIN moves[m].papers \subseteq booked
                 /\ moves[m].pair <= imported
    BY DEF BankInv, BankTypeOK
  <1>5. \A m \in DOMAIN moves : /\ moves[m].pair \in Nat /\ moves[m].line \in Lines
                                /\ moves[m].papers \in Splits \cup {<<>>}
    BY <1>1, <1>4 DEF Movement
  <1>6. \A k \in DOMAIN payments : payments[k] \in [move : DOMAIN moves, pays : Splits]
    BY DEF BankInv, BankTypeOK
  <1>7. \A k \in DOMAIN payments :
            payments[k].move \in DOMAIN moves /\ payments[k].pays \in Splits
    BY <1>6
  <1>8. \A k \in DOMAIN payments : k \in Nat /\ 1 <= k /\ k <= deeds
    BY <1>1
  <1>9. Nobody \notin DOMAIN moves
    BY <1>3 DEF Nobody
  <1>10. IsFiniteSet(1..deeds) /\ IsFiniteSet(1..imported)
    BY <1>1, <1>2, FS_Interval
  <1>11. IsFiniteSet(DOMAIN payments) /\ IsFiniteSet(DOMAIN moves)
    BY <1>1, <1>10, FS_Subset
  <1> QED BY <1>1, <1>2, <1>3, <1>4, <1>5, <1>6, <1>7, <1>8, <1>9, <1>11

LEMMA MovementIs ==
    ASSUME NEW r \in Movement
    PROVE  r = [line |-> r.line, batch |-> r.batch, class |-> r.class, status |-> r.status,
                papers |-> r.papers, excluded |-> r.excluded, unbacked |-> r.unbacked,
                allocated |-> r.allocated, settles |-> r.settles, cash |-> r.cash,
                pair |-> r.pair, returns |-> r.returns]
  BY DEF Movement

\* What the payments come to of one paper.
PaidOf(p) == [k \in DOMAIN payments |-> PaidBy(k, p)]

LEMMA PaidIs ==
    ASSUME BankInv, NEW p
    PROVE  /\ Paid(p) = SumOn(PaidOf(p), DOMAIN payments)
           /\ \A k \in DOMAIN payments : PaidOf(p)[k] = PaidBy(k, p) /\ PaidBy(k, p) \in Nat
           /\ Paid(p) \in Nat
  <1>1. Paid(p) = SumOn(PaidOf(p), DOMAIN payments)
    BY DEF Paid, PaidOf
  <1>2. \A k \in DOMAIN payments : PaidOf(p)[k] = PaidBy(k, p) /\ PaidBy(k, p) \in Nat
    <2> TAKE k \in DOMAIN payments
    <2>1. payments[k].pays \in Splits
      BY LinesTyped
    <2> QED BY <2>1, SplitIs DEF PaidBy, PaidOf
  <1>3. \A k \in DOMAIN payments : PaidOf(p)[k] \in Nat
    BY <1>2
  <1>4. SumOn(PaidOf(p), DOMAIN payments) \in Nat
    BY <1>3, LinesTyped, SumNotNegative
  <1> QED BY <1>1, <1>2, <1>4
-----------------------------------------------------------------------------
(* What a step that leaves some of it alone keeps of the rest. *)

LEMMA HeldKept ==
    ASSUME BankInv, DOMAIN moves' \subseteq DOMAIN moves,
           \A m \in DOMAIN moves' : moves'[m].line = moves[m].line
    PROVE  EachLineOnce'
  <1> SUFFICES ASSUME NEW l \in Lines PROVE Held(l)' <= Times[l]
    BY DEF EachLineOnce
  <1> DEFINE had == {m \in DOMAIN moves : Of(m) = l}
             has == {m \in DOMAIN moves' : moves'[m].line = l}
  <1>1. has \subseteq had /\ IsFiniteSet(had)
    <2>1. had \in SUBSET (DOMAIN moves)
      OBVIOUS
    <2>2. IsFiniteSet(had)
      BY <2>1, LinesTyped, FS_Subset
    <2> QED BY <2>2 DEF Of
  <1>2. Cardinality(has) <= Cardinality(had) /\ Cardinality(has) \in Nat /\ Cardinality(had) \in Nat
    BY <1>1, FS_Subset, FS_CardinalityType
  <1>3. Held(l)' = Cardinality(has) /\ Held(l) = Cardinality(had)
    BY DEF Held, Of
  <1>4. Held(l) <= Times[l] /\ Times[l] \in Nat
    BY StatementsAssumption DEF BankInv, EachLineOnce
  <1> HIDE DEF had, has
  <1> QED BY <1>2, <1>3, <1>4

LEMMA ExplainedKept ==
    ASSUME BankInv, UNCHANGED locked,
           \A m \in DOMAIN moves' :
               /\ m \in DOMAIN moves /\ moves'[m].line = moves[m].line
               /\ Closed(m) => moves'[m] = moves[m]
    PROVE  ClosedMeansExplained'
  BY DEF BankInv, ClosedMeansExplained, Closed, Of

LEMMA MatchedKept ==
    ASSUME BankInv, UNCHANGED payments,
           \A m \in DOMAIN moves' : m \in DOMAIN moves /\ moves'[m].papers = moves[m].papers,
           \A m \in DOMAIN moves : m \notin DOMAIN moves' => moves[m].papers = <<>>
    PROVE  /\ PaidIffMatched'
           /\ \A k \in DOMAIN payments : payments[k] \in [move : DOMAIN moves', pays : Splits]
  <1>1. PaidIffMatched
    BY DEF BankInv
  <1>2. PaidIffMatched'
    BY <1>1 DEF PaidIffMatched, Naming
  <1>3. ASSUME NEW k \in DOMAIN payments
        PROVE  payments[k] \in [move : DOMAIN moves', pays : Splits]
    <2>1. payments[k] \in [move : DOMAIN moves, pays : Splits] /\ payments[k].move \in DOMAIN moves
      BY LinesTyped
    <2>2. moves[payments[k].move].papers # <<>>
      BY <1>1, <2>1 DEF PaidIffMatched, Naming
    <2>3. payments[k].move \in DOMAIN moves'
      BY <2>1, <2>2
    <2> QED BY <2>1, <2>3
  <1> QED BY <1>2, <1>3

LEMMA PaidKept ==
    ASSUME BankInv, UNCHANGED <<payments, writeOffs>>
    PROVE  PapersNotOverpaid' /\ \A p : Paid(p)' = Paid(p)
  BY DEF BankInv, PapersNotOverpaid, Paid, PaidBy
LEMMA LegsKept ==
    ASSUME BankInv, imported' \in Nat, imported <= imported',
           \A m \in DOMAIN moves' : m \in DOMAIN moves /\ moves'[m].pair = moves[m].pair
    PROVE  TransferLegsMutual' /\ \A m \in DOMAIN moves' : moves'[m].pair <= imported'
  <1>1. TransferLegsMutual'
    BY DEF BankInv, TransferLegsMutual
  <1>2. ASSUME NEW m \in DOMAIN moves' PROVE moves'[m].pair <= imported'
    <2>1. /\ m \in DOMAIN moves /\ moves'[m].pair = moves[m].pair
          /\ moves[m].pair \in Nat /\ moves[m].pair <= imported /\ imported \in Nat
      BY LinesTyped
    <2> QED BY <2>1
  <1> QED BY <1>1, <1>2

\* A step that pays nothing, and of each line changes neither what it is, nor what it pays.
\* nor its pair, and nothing of a line in a closed quarter.
LEMMA RowsMove ==
    ASSUME BankInv, DOMAIN moves' = DOMAIN moves,
           \A m \in DOMAIN moves :
               /\ moves'[m] \in Movement
               /\ moves'[m].line = moves[m].line /\ moves'[m].papers = moves[m].papers
               /\ moves'[m].pair = moves[m].pair
               /\ Closed(m) => moves'[m] = moves[m],
           UNCHANGED <<payments, writeOffs, booked, locked, imported>>, deeds' = deeds + 1
    PROVE  BankInv' /\ ClosedStand
  <1>1. EachLineOnce' /\ ClosedMeansExplained'
    BY HeldKept, ExplainedKept
  <1>2. PaidIffMatched' /\ PapersNotOverpaid'
    BY MatchedKept, PaidKept
  <1>3. TransferLegsMutual' /\ \A m \in DOMAIN moves' : moves'[m].pair <= imported'
    BY LegsKept, LinesTyped
  <1>4. BankTypeOK' /\ deeds' \in Nat
    <2>1. DOMAIN payments \subseteq 1..deeds' /\ deeds' \in Nat
      BY LinesTyped
    <2> QED BY <2>1 DEF BankInv, BankTypeOK
  <1>5. ClosedStand
    BY DEF ClosedStand, Naming
  <1> QED BY <1>1, <1>2, <1>3, <1>4, <1>5 DEF BankInv

LEMMA OneRowMoves ==
    ASSUME BankInv, NEW m \in DOMAIN moves, ~Closed(m), NEW r \in Movement,
           r.line = moves[m].line, r.papers = moves[m].papers, r.pair = moves[m].pair,
           moves' = [moves EXCEPT ![m] = r],
           UNCHANGED <<payments, writeOffs, booked, locked, imported>>, deeds' = deeds + 1
    PROVE  BankInv' /\ ClosedStand
  <1>1. DOMAIN moves' = DOMAIN moves
    OBVIOUS
  <1>2. ASSUME NEW n \in DOMAIN moves
        PROVE  /\ moves'[n] \in Movement
               /\ moves'[n].line = moves[n].line /\ moves'[n].papers = moves[n].papers
               /\ moves'[n].pair = moves[n].pair
               /\ Closed(n) => moves'[n] = moves[n]
    <2>1. moves[n] \in Movement
      BY LinesTyped
    <2>2. CASE n = m
      BY <2>2
    <2>3. CASE n # m
      BY <2>1, <2>3
    <2> QED BY <2>2, <2>3
  <1> QED BY <1>1, <1>2, RowsMove
-----------------------------------------------------------------------------
(* What the operations make of one line. *)

LEMMA ClassifiedIs ==
    ASSUME NEW r \in Movement, NEW c \in Classes
    PROVE  /\ Classified(r, c) \in Movement
           /\ Classified(r, c).line = r.line /\ Classified(r, c).papers = r.papers
           /\ Classified(r, c).pair = r.pair
  <1> DEFINE e == r.excluded \/ c = "transfer"
             q == [r EXCEPT !.class = c, !.status = "allocated", !.excluded = e]
  <1>1. Classified(r, c) = q
    BY Zenon DEF Classified
  <1>2. e \in BOOLEAN
    BY DEF Movement
  <1> HIDE DEF e
  <1>3. q \in Movement /\ q.line = r.line /\ q.papers = r.papers /\ q.pair = r.pair
    BY <1>2, MovementIs DEF Movement
  <1> QED BY <1>1, <1>3

LEMMA ClearedIs ==
    ASSUME NEW r \in Movement
    PROVE  /\ Cleared(r) \in Movement
           /\ Cleared(r).line = r.line /\ Cleared(r).papers = r.papers
           /\ Cleared(r).pair = r.pair
  BY MovementIs DEF Cleared, Movement, Classes

LEMMA UnpairedIs ==
    ASSUME NEW r \in Movement
    PROVE  /\ Unpaired(r) \in Movement
           /\ Unpaired(r).line = r.line /\ Unpaired(r).papers = r.papers
           /\ Unpaired(r).pair = Nobody
  <1>1. 0 \in 0..MaxMoves /\ "none" \in Classes
    BY PapersAssumption DEF Classes
  <1> QED BY <1>1, MovementIs DEF Unpaired, Movement, Nobody

LEMMA UnmatchedIs ==
    ASSUME NEW r \in Movement
    PROVE  /\ Unmatched(r) \in Movement
           /\ Unmatched(r).line = r.line /\ Unmatched(r).papers = <<>>
           /\ Unmatched(r).pair = r.pair
  BY MovementIs DEF Unmatched, Movement, Classes

LEMMA Open ==
    ASSUME NEW m \in Workable
    PROVE  m \in DOMAIN moves /\ ~Closed(m)
  BY DEF Workable, Queue, Panel

LEMMA SplitStep ==
    ASSUME BankInv, NEW m \in DOMAIN moves, SplitMovement(m) PROVE BankInv' /\ ClosedStand
  <1> DEFINE r == [moves[m] EXCEPT !.allocated = TRUE, !.class = "overhead",
                                   !.status = "allocated"]
  <1>1. moves[m] \in Movement
    BY LinesTyped
  <1>2. r \in Movement /\ r.line = moves[m].line /\ r.papers = moves[m].papers
        /\ r.pair = moves[m].pair
    BY <1>1, MovementIs DEF Movement, Classes
  <1>3. moves' = [moves EXCEPT ![m] = r] /\ ~Closed(m)
        /\ UNCHANGED <<payments, writeOffs, booked, locked, imported>> /\ deeds' = deeds + 1
    BY <1>1, Open DEF SplitMovement, OnMoves, Deed
  <1> HIDE DEF r
  <1> QED BY <1>2, <1>3, OneRowMoves

LEMMA ClassifyStep ==
    ASSUME BankInv, NEW m \in DOMAIN moves, NEW c \in {"other", "transfer"},
           ClassifyMovement(m, c)
    PROVE  BankInv' /\ ClosedStand
  <1> DEFINE r == Classified(moves[m], c)
  <1>1. moves[m] \in Movement /\ c \in Classes
    BY LinesTyped DEF Classes
  <1>2. r \in Movement /\ r.line = moves[m].line /\ r.papers = moves[m].papers
        /\ r.pair = moves[m].pair
    BY <1>1, ClassifiedIs
  <1>3. moves' = [moves EXCEPT ![m] = r] /\ ~Closed(m)
        /\ UNCHANGED <<payments, writeOffs, booked, locked, imported>> /\ deeds' = deeds + 1
    BY <1>1, Open DEF ClassifyMovement, OnMoves, Deed
  <1> HIDE DEF r
  <1> QED BY <1>2, <1>3, OneRowMoves

LEMMA UnbackedStep ==
    ASSUME BankInv, NEW m \in DOMAIN moves, MarkMovementUnbacked(m)
    PROVE  BankInv' /\ ClosedStand
  <1> DEFINE r == [moves[m] EXCEPT !.unbacked = TRUE]
  <1>1. moves[m] \in Movement
    BY LinesTyped
  <1>2. r \in Movement /\ r.line = moves[m].line /\ r.papers = moves[m].papers
        /\ r.pair = moves[m].pair
    BY <1>1, MovementIs DEF Movement
  <1>3. moves' = [moves EXCEPT ![m] = r] /\ ~Closed(m)
        /\ UNCHANGED <<payments, writeOffs, booked, locked, imported>> /\ deeds' = deeds + 1
    BY <1>1, Open DEF MarkMovementUnbacked, OnMoves, Deed
  <1> HIDE DEF r
  <1> QED BY <1>2, <1>3, OneRowMoves

LEMMA SettlementStep ==
    ASSUME BankInv, NEW m \in DOMAIN moves, MarkCardSettlement(m)
    PROVE  BankInv' /\ ClosedStand
  <1> DEFINE r == [moves[m] EXCEPT !.class = "transfer", !.settles = TRUE,
                       !.status = IF @ = "unallocated" THEN "allocated" ELSE @]
  <1>1. moves[m] \in Movement
    BY LinesTyped
  <1>2. r \in Movement /\ r.line = moves[m].line /\ r.papers = moves[m].papers
        /\ r.pair = moves[m].pair
    BY <1>1, MovementIs DEF Movement, Classes
  <1>3. moves' = [moves EXCEPT ![m] = r] /\ ~Closed(m)
        /\ UNCHANGED <<payments, writeOffs, booked, locked, imported>> /\ deeds' = deeds + 1
    BY <1>1, Open DEF MarkCardSettlement, OnMoves, Deed
  <1> HIDE DEF r
  <1> QED BY <1>2, <1>3, OneRowMoves

LEMMA WithdrawalStep ==
    ASSUME BankInv, NEW m \in DOMAIN moves, MarkCashWithdrawal(m)
    PROVE  BankInv' /\ ClosedStand
  <1> DEFINE c == Classified(moves[m], "transfer")
             r == [c EXCEPT !.cash = TRUE]
  <1>1. moves[m] \in Movement /\ "transfer" \in Classes
    BY LinesTyped DEF Classes
  <1>2. c \in Movement /\ c.line = moves[m].line /\ c.papers = moves[m].papers
        /\ c.pair = moves[m].pair
    BY <1>1, ClassifiedIs
  <1>3. moves' = [moves EXCEPT ![m] = r] /\ ~Closed(m)
        /\ UNCHANGED <<payments, writeOffs, booked, locked, imported>> /\ deeds' = deeds + 1
    BY <1>1, Open DEF MarkCashWithdrawal, OnMoves, Deed
  <1> HIDE DEF c
  <1>4. r \in Movement /\ r.line = moves[m].line /\ r.papers = moves[m].papers
        /\ r.pair = moves[m].pair
    BY <1>2, MovementIs DEF Movement
  <1> HIDE DEF r
  <1> QED BY <1>3, <1>4, OneRowMoves

LEMMA ReturnStep ==
    ASSUME BankInv, NEW d \in DOMAIN moves, NEW w \in DOMAIN moves, MarkCashReturn(d, w)
    PROVE  BankInv' /\ ClosedStand
  <1> DEFINE c == Classified(moves[d], "transfer")
             r == [c EXCEPT !.returns = w]
  <1>1. moves[d] \in Movement /\ "transfer" \in Classes /\ w \in 0..MaxMoves
    BY LinesTyped DEF Classes
  <1>2. c \in Movement /\ c.line = moves[d].line /\ c.papers = moves[d].papers
        /\ c.pair = moves[d].pair
    BY <1>1, ClassifiedIs
  <1>3. moves' = [moves EXCEPT ![d] = r] /\ ~Closed(d)
        /\ UNCHANGED <<payments, writeOffs, booked, locked, imported>> /\ deeds' = deeds + 1
    BY <1>1, Open DEF MarkCashReturn, OnMoves, Deed
  <1> HIDE DEF c
  <1>4. r \in Movement /\ r.line = moves[d].line /\ r.papers = moves[d].papers
        /\ r.pair = moves[d].pair
    BY <1>1, <1>2, MovementIs DEF Movement
  <1> HIDE DEF r
  <1> QED BY <1>3, <1>4, OneRowMoves

-----------------------------------------------------------------------------
(* What is paid of a paper once some payments are voided, or one is made. *)

LEMMA PaidAfterVoid ==
    ASSUME BankInv, NEW gone, payments' = Void(gone), UNCHANGED writeOffs
    PROVE  PapersNotOverpaid'
  <1> SUFFICES ASSUME NEW p \in Papers PROVE Paid(p)' + writeOffs[p] <= Total[p] + 1
    BY DEF PapersNotOverpaid
  <1>1. PICK kept : kept = {k \in DOMAIN payments : payments[k].move \notin gone}
    OBVIOUS
  <1>2. PICK lost : lost = DOMAIN payments \ kept
    OBVIOUS
  <1>3. PICK was : was = PaidOf(p)
    OBVIOUS
  <1>4. PICK is : is = PaidOf(p)'
    OBVIOUS
  <1>5. DOMAIN payments' = kept /\ \A k \in kept : payments'[k] = payments[k]
    BY <1>1 DEF Void
  <1>6. /\ IsFiniteSet(kept) /\ IsFiniteSet(lost) /\ kept \cap lost = {}
        /\ kept \cup lost = DOMAIN payments
    <2>1. kept \in SUBSET (DOMAIN payments) /\ lost \in SUBSET (DOMAIN payments)
      BY <1>1, <1>2
    <2>2. IsFiniteSet(DOMAIN payments)
      BY LinesTyped
    <2>3. IsFiniteSet(kept) /\ IsFiniteSet(lost)
      BY <2>1, <2>2, FS_Subset
    <2> QED BY <1>2, <2>1, <2>3
  <1>7. \A k \in kept \cup lost : was[k] \in Nat
    BY <1>3, <1>6, PaidIs
  <1>8. \A k \in kept : is[k] = was[k]
    BY <1>3, <1>4, <1>5, <1>1 DEF PaidOf, PaidBy
  <1>9. SumOn(is, kept) = SumOn(was, kept) /\ SumOn(was, kept) \in Nat
    <2>1. \A k \in kept : was[k] \in Int /\ was[k] = is[k]
      BY <1>7, <1>8
    <2>2. \A k \in kept : was[k] \in Nat
      BY <1>7
    <2> QED BY ONLY <2>1, <2>2, <1>6, SumAlike, SumNotNegative
  <1>10. SumOn(was, lost) \in Nat
    <2>1. \A k \in lost : was[k] \in Nat
      BY <1>7
    <2> QED BY ONLY <2>1, <1>6, SumNotNegative
  <1>11. SumOn(was, kept \cup lost) = SumOn(was, kept) + SumOn(was, lost)
    <2>1. \A k \in kept \cup lost : was[k] \in Int
      BY <1>7
    <2> QED BY ONLY <2>1, <1>6, SumOfBoth
  <1>12. Paid(p)' = SumOn(is, kept)
    BY <1>4, <1>5 DEF Paid, PaidOf
  <1>13. Paid(p) = SumOn(was, kept \cup lost)
    BY <1>3, <1>6, PaidIs
  <1>14. /\ Paid(p) + writeOffs[p] <= Total[p] + 1 /\ writeOffs[p] \in Nat /\ Total[p] \in Nat
         /\ Paid(p) \in Nat
    BY PapersAssumption, PaidIs DEF BankInv, BankTypeOK, PapersNotOverpaid
  <1> QED BY <1>9, <1>10, <1>11, <1>12, <1>13, <1>14

LEMMA PaidAfterPayment ==
    ASSUME BankInv, NEW r, r.pays \in Splits, \A p \in DOMAIN r.pays : r.pays[p] <= Owed(p) + 1,
           payments' = WithRow(payments, deeds + 1, r), UNCHANGED writeOffs
    PROVE  PapersNotOverpaid'
  <1> SUFFICES ASSUME NEW p \in Papers PROVE Paid(p)' + writeOffs[p] <= Total[p] + 1
    BY DEF PapersNotOverpaid
  <1>1. PICK had : had = DOMAIN payments
    OBVIOUS
  <1>2. PICK x : x = deeds + 1
    OBVIOUS
  <1>3. PICK was : was = PaidOf(p)
    OBVIOUS
  <1>4. PICK is : is = PaidOf(p)'
    OBVIOUS
  <1>5. IsFiniteSet(had) /\ x \notin had
    BY <1>1, <1>2, LinesTyped
  <1>6. DOMAIN payments' = had \cup {x} /\ payments'[x] = r /\ \A k \in had : payments'[k] = payments[k]
    BY <1>1, <1>2, <1>5 DEF WithRow
  <1>7. \A k \in had : was[k] \in Nat
    BY <1>1, <1>3, PaidIs
  <1>8. \A k \in had : is[k] = was[k]
    BY <1>1, <1>3, <1>4, <1>6 DEF PaidOf, PaidBy
  <1>9. is[x] = (IF p \in DOMAIN r.pays THEN r.pays[p] ELSE 0)
    BY <1>4, <1>6 DEF PaidOf, PaidBy
  <1>10. is[x] \in Nat
    BY <1>9, SplitIs
  <1>11. SumOn(is, had \cup {x}) = is[x] + SumOn(is, had)
    <2>1. \A k \in had \cup {x} : is[k] \in Int
      BY <1>7, <1>8, <1>10
    <2> QED BY ONLY <2>1, <1>5, SumWith
  <1>12. SumOn(is, had) = SumOn(was, had)
    <2>1. \A k \in had : was[k] \in Int /\ was[k] = is[k]
      BY <1>7, <1>8
    <2> QED BY ONLY <2>1, <1>5, SumAlike
  <1>13. Paid(p)' = SumOn(is, had \cup {x})
    BY <1>4, <1>6 DEF Paid, PaidOf
  <1>14. Paid(p) = SumOn(was, had)
    BY <1>1, <1>3, PaidIs
  <1>15. /\ Paid(p) + writeOffs[p] <= Total[p] + 1 /\ writeOffs[p] \in Nat /\ Total[p] \in Nat
         /\ Paid(p) \in Nat
    BY PapersAssumption, PaidIs DEF BankInv, BankTypeOK, PapersNotOverpaid
  <1>16. Paid(p)' = is[x] + Paid(p)
    BY <1>11, <1>12, <1>13, <1>14
  <1>17. CASE p \in DOMAIN r.pays
    <2>1. is[x] <= Total[p] - Paid(p) - writeOffs[p] + 1
      BY <1>9, <1>17 DEF Owed
    <2> QED BY <2>1, <1>10, <1>15, <1>16
  <1>18. CASE p \notin DOMAIN r.pays
    BY <1>9, <1>18, <1>15, <1>16
  <1> QED BY <1>17, <1>18

-----------------------------------------------------------------------------
(* Matching, and undoing it. *)

LEMMA MatchStep ==
    ASSUME BankInv, NEW m \in DOMAIN moves, NEW pays \in Splits, MatchMovementSplit(m, pays)
    PROVE  BankInv' /\ ClosedStand
  <1> DEFINE r == [move |-> m, pays |-> pays]
             c == IF moves[m].cash THEN "transfer"
                  ELSE IF Amount[Of(m)] < 0 THEN "cost" ELSE "receipt"
             q == [moves[m] EXCEPT !.papers = pays, !.status = "matched", !.class = c]
  <1>1. /\ ~Closed(m) /\ DOMAIN pays \subseteq booked
        /\ \A p \in DOMAIN pays : pays[p] <= Owed(p) + 1
        /\ payments' = WithRow(payments, deeds + 1, r)
        /\ deeds' = deeds + 1 /\ UNCHANGED <<writeOffs, booked, locked, imported>>
    BY Open DEF MatchMovementSplit, Deed
  <1>2. moves' = [moves EXCEPT ![m] = q]
    BY DEF MatchMovementSplit
  <1>3. moves[m] \in Movement /\ c \in Classes
    BY LinesTyped DEF Classes
  <1> HIDE DEF c
  <1>4. /\ q \in Movement /\ q.line = moves[m].line /\ q.papers = pays
        /\ q.pair = moves[m].pair
    BY <1>3, MovementIs DEF Movement
  <1> HIDE DEF q
  <1>5. DOMAIN moves' = DOMAIN moves /\ moves'[m] = q
        /\ \A n \in DOMAIN moves : n # m => moves'[n] = moves[n]
    BY <1>2
  <1>6. deeds + 1 \notin DOMAIN payments /\ deeds \in Nat
    BY LinesTyped
  <1>7. /\ DOMAIN payments' = DOMAIN payments \cup {deeds + 1}
        /\ payments'[deeds + 1] = r
        /\ \A k \in DOMAIN payments : payments'[k] = payments[k]
    BY <1>1, <1>6 DEF WithRow
  <1>8. ASSUME NEW n \in DOMAIN moves'
        PROVE  /\ n \in DOMAIN moves
               /\ moves'[n].line = moves[n].line
               /\ moves'[n].pair = moves[n].pair
               /\ Closed(n) => moves'[n] = moves[n]
    BY <1>1, <1>4, <1>5
  <1>9. EachLineOnce' /\ ClosedMeansExplained'
    BY <1>1, <1>5, <1>8, HeldKept, ExplainedKept
  <1>10. TransferLegsMutual' /\ \A n \in DOMAIN moves' : moves'[n].pair <= imported'
    BY <1>1, <1>5, <1>8, LegsKept, LinesTyped
  <1>11. PapersNotOverpaid'
    BY <1>1, PaidAfterPayment
  <1>12. PaidIffMatched'
    <2>1. pays # <<>>
      BY SplitIs
    <2>2. \A n \in DOMAIN moves' : moves'[n].papers # <<>> =>
              \E k \in Naming(n)' : payments'[k].pays = moves'[n].papers
      <3> TAKE n \in DOMAIN moves'
      <3>1. CASE n = m
        BY <3>1, <1>4, <1>5, <1>7 DEF Naming
      <3>2. CASE n # m
        BY <3>2, <1>5, <1>7 DEF Naming, BankInv, PaidIffMatched
      <3> QED BY <3>1, <3>2
    <2>3. \A n \in DOMAIN moves' : Naming(n)' # {} => moves'[n].papers # <<>>
      <3> TAKE n \in DOMAIN moves'
      <3>1. CASE n = m
        BY <2>1, <3>1, <1>4, <1>5
      <3>2. CASE n # m
        BY <3>2, <1>5, <1>7 DEF Naming, BankInv, PaidIffMatched
      <3> QED BY <3>1, <3>2
    <2> QED BY <2>2, <2>3 DEF PaidIffMatched
  <1>13. BankTypeOK' /\ deeds' \in Nat
    <2>1. \A n \in DOMAIN moves' :
              moves'[n] \in Movement /\ DOMAIN moves'[n].papers \subseteq booked'
      BY <1>1, <1>4, <1>5, LinesTyped
    <2>2. \A k \in DOMAIN payments' : payments'[k] \in [move : DOMAIN moves', pays : Splits]
      BY <1>5, <1>7, LinesTyped
    <2>3. DOMAIN payments' \subseteq 1..deeds' /\ deeds' \in Nat
      BY <1>1, <1>7, LinesTyped
    <2> QED BY <2>1, <2>2, <2>3, <1>1, <1>5 DEF BankInv, BankTypeOK
  <1>14. ClosedStand
    <2>1. \A n \in DOMAIN moves : Closed(n) => moves'[n] = moves[n]
      BY <1>1, <1>5
    <2> QED BY <2>1, <1>5, <1>7 DEF ClosedStand, Naming
  <1> QED BY <1>9, <1>10, <1>11, <1>12, <1>13, <1>14 DEF BankInv

\* A step that undoes: the payments of some lines are voided, and those of them that are
\* still there show none.
LEMMA VoidStep ==
    ASSUME BankInv, NEW gone, payments' = Void(gone), DOMAIN moves' \subseteq DOMAIN moves,
           \A n \in DOMAIN moves' :
               /\ moves'[n] \in Movement /\ moves'[n].line = moves[n].line
               /\ moves'[n].pair = moves[n].pair
               /\ n \in gone => moves'[n].papers = <<>>
               /\ n \notin gone => moves'[n] = moves[n],
           \A n \in DOMAIN moves : n \notin DOMAIN moves' => n \in gone \/ moves[n].papers = <<>>,
           \A n \in DOMAIN moves : Closed(n) => n \notin gone /\ n \in DOMAIN moves',
           UNCHANGED <<writeOffs, booked, locked, imported>>, deeds' = deeds + 1
    PROVE  BankInv' /\ ClosedStand
  <1>1. /\ DOMAIN payments' = {k \in DOMAIN payments : payments[k].move \notin gone}
        /\ \A k \in DOMAIN payments' : payments'[k] = payments[k]
    BY DEF Void
  <1>2. EachLineOnce' /\ ClosedMeansExplained'
    BY HeldKept, ExplainedKept
  <1>3. TransferLegsMutual' /\ \A n \in DOMAIN moves' : moves'[n].pair <= imported'
    BY LegsKept, LinesTyped
  <1>4. PapersNotOverpaid'
    BY PaidAfterVoid
  <1>5. ASSUME NEW n \in DOMAIN moves'
        PROVE  /\ moves'[n].papers # <<>> <=> Naming(n)' # {}
               /\ moves'[n].papers # <<>> =>
                      \E k \in Naming(n)' : payments'[k].pays = moves'[n].papers
    <2>1. CASE n \in gone
      BY <2>1, <1>1 DEF Naming
    <2>2. CASE n \notin gone
      <3>1. Naming(n)' = Naming(n) /\ \A k \in Naming(n) : payments'[k] = payments[k]
        BY <2>2, <1>1 DEF Naming
      <3>2. moves'[n] = moves[n] /\ n \in DOMAIN moves
        BY <2>2
      <3> QED BY <3>1, <3>2 DEF BankInv, PaidIffMatched
    <2> QED BY <2>1, <2>2
  <1>6. PaidIffMatched'
    BY <1>5 DEF PaidIffMatched
  <1>7. BankTypeOK' /\ deeds' \in Nat
    <2>1. \A n \in DOMAIN moves' :
              moves'[n] \in Movement /\ DOMAIN moves'[n].papers \subseteq booked'
      <3> TAKE n \in DOMAIN moves'
      <3>1. CASE n \in gone
        BY <3>1
      <3>2. CASE n \notin gone
        BY <3>2, LinesTyped
      <3> QED BY <3>1, <3>2
    <2>2. ASSUME NEW k \in DOMAIN payments'
          PROVE  payments'[k] \in [move : DOMAIN moves', pays : Splits]
      <3>1. /\ k \in DOMAIN payments /\ payments'[k] = payments[k]
            /\ payments[k].move \notin gone
            /\ payments[k] \in [move : DOMAIN moves, pays : Splits]
            /\ payments[k].move \in DOMAIN moves
        BY <1>1, LinesTyped
      <3>2. moves[payments[k].move].papers # <<>>
        BY <3>1 DEF BankInv, PaidIffMatched, Naming
      <3>3. payments[k].move \in DOMAIN moves'
        BY <3>1, <3>2
      <3> QED BY <3>1, <3>3
    <2>3. DOMAIN payments' \subseteq 1..deeds' /\ deeds' \in Nat /\ DOMAIN moves' \subseteq 1..imported
      BY <1>1, LinesTyped
    <2> QED BY <2>1, <2>2, <2>3 DEF BankInv, BankTypeOK
  <1>8. ASSUME NEW n \in DOMAIN moves, Closed(n)
        PROVE  /\ n \in DOMAIN moves' /\ moves'[n] = moves[n]
               /\ \A k \in Naming(n) : \E j \in DOMAIN payments' : payments'[j] = payments[k]
    BY <1>1, <1>8 DEF Naming
  <1>9. ClosedStand
    BY <1>8 DEF ClosedStand
  <1> QED BY <1>2, <1>3, <1>4, <1>6, <1>7, <1>9 DEF BankInv

LEMMA UnmatchStep ==
    ASSUME BankInv, NEW m \in DOMAIN moves, ~Closed(m), Unmatch(m), deeds' = deeds + 1,
           UNCHANGED <<writeOffs, booked, locked, imported>>
    PROVE  BankInv' /\ ClosedStand
  <1>1. PICK gone : gone = {m}
    OBVIOUS
  <1>2. payments' = Void(gone) /\ moves' = [moves EXCEPT ![m] = Unmatched(moves[m])]
    BY <1>1 DEF Unmatch
  <1>3. moves[m] \in Movement
    BY LinesTyped
  <1>4. /\ Unmatched(moves[m]) \in Movement /\ Unmatched(moves[m]).line = moves[m].line
        /\ Unmatched(moves[m]).papers = <<>> /\ Unmatched(moves[m]).pair = moves[m].pair
    BY <1>3, UnmatchedIs
  <1>5. DOMAIN moves' = DOMAIN moves
    BY <1>2
  <1>6. ASSUME NEW n \in DOMAIN moves'
        PROVE  /\ moves'[n] \in Movement /\ moves'[n].line = moves[n].line
               /\ moves'[n].pair = moves[n].pair
               /\ n \in gone => moves'[n].papers = <<>>
               /\ n \notin gone => moves'[n] = moves[n]
    <2>1. CASE n = m
      BY <2>1, <1>1, <1>2, <1>4
    <2>2. CASE n # m
      BY <2>2, <1>1, <1>2, <1>5, LinesTyped
    <2> QED BY <2>1, <2>2
  <1>7. \A n \in DOMAIN moves : Closed(n) => n \notin gone /\ n \in DOMAIN moves'
    BY <1>1, <1>5
  <1>8. \A n \in DOMAIN moves : n \notin DOMAIN moves' => n \in gone \/ moves[n].papers = <<>>
    BY <1>5
  <1> QED BY <1>2, <1>5, <1>6, <1>7, <1>8, VoidStep

LEMMA ResetStep ==
    ASSUME BankInv, NEW a, ResetAccountMovements(a)
    PROVE  BankInv' /\ ClosedStand
  <1>1. PICK here : here = {m \in DOMAIN moves : AccountOf[Of(m)] = a}
    OBVIOUS
  <1>2. PICK gone : gone = {m \in here : moves[m].papers # <<>>}
    OBVIOUS
  <1>3. /\ \A m \in here : ~Closed(m)
        /\ payments' = Void(gone)
        /\ moves' = [m \in DOMAIN moves \ here |-> moves[m]]
        /\ UNCHANGED <<writeOffs, booked, locked, imported>> /\ deeds' = deeds + 1
    BY <1>1, <1>2 DEF ResetAccountMovements, Deed
  <1>4. DOMAIN moves' = DOMAIN moves \ here
    BY <1>3
  <1>5. ASSUME NEW n \in DOMAIN moves'
        PROVE  /\ moves'[n] \in Movement /\ moves'[n].line = moves[n].line
               /\ moves'[n].pair = moves[n].pair
               /\ n \in gone => moves'[n].papers = <<>>
               /\ n \notin gone => moves'[n] = moves[n]
    <2>1. moves'[n] = moves[n] /\ n \notin gone /\ n \in DOMAIN moves
      BY <1>2, <1>3, <1>4
    <2> QED BY <2>1, LinesTyped
  <1>6. \A n \in DOMAIN moves : Closed(n) => n \notin gone /\ n \in DOMAIN moves'
    BY <1>2, <1>3, <1>4
  <1>7. \A n \in DOMAIN moves : n \notin DOMAIN moves' => n \in gone \/ moves[n].papers = <<>>
    BY <1>2, <1>4
  <1>8. DOMAIN moves' \subseteq DOMAIN moves
    BY <1>4
  <1> QED BY <1>3, <1>5, <1>6, <1>7, <1>8, VoidStep

LEMMA DiscardStep ==
    ASSUME BankInv, NEW S \in SUBSET (DOMAIN moves), Discard(S)
    PROVE  BankInv' /\ ClosedStand
  <1>1. PICK gone : gone = {m \in S : ~Keeps(m)}
    OBVIOUS
  <1>2. /\ moves' = [m \in DOMAIN moves \ gone |-> moves[m]]
        /\ UNCHANGED <<payments, writeOffs, booked, locked, imported>> /\ deeds' = deeds + 1
    BY <1>1 DEF Discard, OnMoves, Deed
  <1>3. \A m \in gone : moves[m].papers = <<>> /\ ~Closed(m)
    BY <1>1 DEF Keeps
  <1>4. DOMAIN moves' = DOMAIN moves \ gone /\ \A n \in DOMAIN moves' : moves'[n] = moves[n]
    BY <1>2
  <1>5. EachLineOnce' /\ ClosedMeansExplained'
    BY <1>2, <1>4, HeldKept, ExplainedKept
  <1>6. PapersNotOverpaid'
    BY <1>2, PaidKept
  <1>7. /\ PaidIffMatched'
        /\ \A k \in DOMAIN payments : payments[k] \in [move : DOMAIN moves', pays : Splits]
    <2>1. \A m \in DOMAIN moves : m \notin DOMAIN moves' => moves[m].papers = <<>>
      BY <1>3, <1>4
    <2> QED BY <1>2, <1>4, <2>1, MatchedKept
  <1>8. TransferLegsMutual' /\ \A n \in DOMAIN moves' : moves'[n].pair <= imported'
    BY <1>2, <1>4, LegsKept, LinesTyped
  <1>9. BankTypeOK' /\ deeds' \in Nat
    <2>1. DOMAIN payments \subseteq 1..deeds' /\ deeds' \in Nat
      BY <1>2, LinesTyped
    <2> QED BY <2>1, <1>2, <1>4, <1>7 DEF BankInv, BankTypeOK
  <1>10. ClosedStand
    BY <1>2, <1>3, <1>4 DEF ClosedStand, Naming
  <1> QED BY <1>5, <1>6, <1>7, <1>8, <1>9, <1>10 DEF BankInv

\* A step that pays nothing and changes pairs, of lines that are not closed.
LEMMA PairsMove ==
    ASSUME BankInv, DOMAIN moves' = DOMAIN moves,
           \A m \in DOMAIN moves :
               /\ moves'[m] \in Movement
               /\ moves'[m].line = moves[m].line /\ moves'[m].papers = moves[m].papers
               /\ moves'[m].pair <= imported
               /\ Closed(m) => moves'[m] = moves[m],
           TransferLegsMutual',
           UNCHANGED <<payments, writeOffs, booked, locked, imported>>, deeds' = deeds + 1
    PROVE  BankInv' /\ ClosedStand
  <1>1. EachLineOnce' /\ ClosedMeansExplained'
    BY HeldKept, ExplainedKept
  <1>2. PaidIffMatched' /\ PapersNotOverpaid'
    BY MatchedKept, PaidKept
  <1>3. BankTypeOK' /\ deeds' \in Nat
    <2>1. DOMAIN payments \subseteq 1..deeds' /\ deeds' \in Nat
      BY LinesTyped
    <2> QED BY <2>1 DEF BankInv, BankTypeOK
  <1>4. ClosedStand
    BY DEF ClosedStand, Naming
  <1> QED BY <1>1, <1>2, <1>3, <1>4 DEF BankInv

LEMMA TransferStep ==
    ASSUME BankInv, NEW a \in DOMAIN moves, NEW b \in DOMAIN moves, MarkInternalTransfer(a, b)
    PROVE  BankInv' /\ ClosedStand
  <1> DEFINE ca == Classified(moves[a], "transfer")
             cb == Classified(moves[b], "transfer")
             ra == [ca EXCEPT !.pair = b]
             rb == [cb EXCEPT !.pair = a]
  <1>1. /\ moves[a] \in Movement /\ moves[b] \in Movement /\ "transfer" \in Classes
        /\ a \in 0..MaxMoves /\ b \in 0..MaxMoves /\ a <= imported /\ b <= imported
        /\ a # Nobody /\ b # Nobody
    BY LinesTyped DEF Classes
  <1>2. /\ ca \in Movement /\ ca.line = moves[a].line /\ ca.papers = moves[a].papers
        /\ cb \in Movement /\ cb.line = moves[b].line /\ cb.papers = moves[b].papers
    BY <1>1, ClassifiedIs
  <1>3. /\ moves' = [moves EXCEPT ![a] = ra, ![b] = rb]
        /\ ~Closed(a) /\ ~Closed(b) /\ a # b
        /\ moves[a].pair \in {Nobody, b} /\ moves[b].pair \in {Nobody, a}
        /\ UNCHANGED <<payments, writeOffs, booked, locked, imported>> /\ deeds' = deeds + 1
    BY DEF MarkInternalTransfer, OnMoves, Deed
  <1> HIDE DEF ca, cb
  <1>4. /\ ra \in Movement /\ ra.line = moves[a].line /\ ra.papers = moves[a].papers
        /\ ra.pair = b
        /\ rb \in Movement /\ rb.line = moves[b].line /\ rb.papers = moves[b].papers
        /\ rb.pair = a
    BY <1>1, <1>2, MovementIs DEF Movement
  <1> HIDE DEF ra, rb
  <1>5. /\ DOMAIN moves' = DOMAIN moves /\ moves'[a] = ra /\ moves'[b] = rb
        /\ \A n \in DOMAIN moves : n # a /\ n # b => moves'[n] = moves[n]
    BY <1>3
  <1>6. ASSUME NEW m \in DOMAIN moves
        PROVE  /\ moves'[m] \in Movement
               /\ moves'[m].line = moves[m].line /\ moves'[m].papers = moves[m].papers
               /\ moves'[m].pair <= imported
               /\ Closed(m) => moves'[m] = moves[m]
    <2>1. CASE m = a
      BY <2>1, <1>1, <1>3, <1>4, <1>5
    <2>2. CASE m = b
      BY <2>2, <1>1, <1>3, <1>4, <1>5
    <2>3. CASE m # a /\ m # b
      BY <2>3, <1>5, LinesTyped
    <2> QED BY <2>1, <2>2, <2>3
  <1>7. TransferLegsMutual'
    <2> SUFFICES ASSUME NEW m \in DOMAIN moves, NEW n \in DOMAIN moves, moves'[m].pair = n
                 PROVE  moves'[n].pair = m /\ m # n
      BY <1>5 DEF TransferLegsMutual
    <2>1. CASE m = a
      BY <2>1, <1>3, <1>4, <1>5
    <2>2. CASE m = b
      BY <2>2, <1>3, <1>4, <1>5
    <2>3. CASE m # a /\ m # b
      <3>1. moves[n].pair = m /\ m # n /\ m # Nobody
        BY <2>3, <1>5, LinesTyped DEF BankInv, TransferLegsMutual
      <3>2. n # a /\ n # b
        BY <3>1, <2>3, <1>3
      <3> QED BY <3>1, <3>2, <1>5
    <2> QED BY <2>1, <2>2, <2>3
  <1> QED BY <1>3, <1>5, <1>6, <1>7, PairsMove

LEMMA UnmarkStep ==
    ASSUME BankInv, NEW m \in DOMAIN moves, UnmarkTransfer(m), deeds' = deeds + 1,
           UNCHANGED <<writeOffs, booked, locked, imported>>
    PROVE  BankInv' /\ ClosedStand
  <1>1. PICK legs : legs = Legs(m)
    OBVIOUS
  <1>2. /\ \A n \in legs : ~Closed(n)
        /\ DOMAIN moves' = DOMAIN moves
        /\ \A n \in DOMAIN moves :
               moves'[n] = IF n \in legs THEN Unpaired(moves[n]) ELSE moves[n]
        /\ UNCHANGED payments
    BY <1>1 DEF UnmarkTransfer
  <1>3. \A n \in DOMAIN moves : n \in legs <=> (n = m \/ n = moves[m].pair)
    BY <1>1 DEF Legs
  <1>4. ASSUME NEW n \in DOMAIN moves
        PROVE  /\ moves'[n] \in Movement
               /\ moves'[n].line = moves[n].line /\ moves'[n].papers = moves[n].papers
               /\ n \in legs => moves'[n].pair = Nobody
               /\ n \notin legs => moves'[n] = moves[n]
    <2>1. moves[n] \in Movement
      BY LinesTyped
    <2>2. CASE n \in legs
      BY <2>1, <2>2, <1>2, UnpairedIs
    <2>3. CASE n \notin legs
      BY <2>1, <2>3, <1>2
    <2> QED BY <2>2, <2>3
  <1>5. ASSUME NEW n \in DOMAIN moves
        PROVE  /\ moves'[n].pair <= imported
               /\ Closed(n) => moves'[n] = moves[n]
    BY <1>2, <1>4, LinesTyped DEF Nobody
  <1>6. TransferLegsMutual'
    <2> SUFFICES ASSUME NEW x \in DOMAIN moves, NEW y \in DOMAIN moves, moves'[x].pair = y
                 PROVE  moves'[y].pair = x /\ x # y
      BY <1>2 DEF TransferLegsMutual
    <2>1. x \notin legs /\ moves'[x] = moves[x]
      BY <1>4, LinesTyped
    <2>2. moves[y].pair = x /\ x # y
      BY <2>1 DEF BankInv, TransferLegsMutual
    <2>3. y \notin legs
      <3>1. y # m
        BY <2>1, <2>2, <1>3
      <3>2. CASE y = moves[m].pair
        <4>1. moves[y].pair = m
          BY <3>2 DEF BankInv, TransferLegsMutual
        <4> QED BY <4>1, <2>1, <2>2, <1>3
      <3> QED BY <3>1, <3>2, <1>3
    <2> QED BY <2>2, <2>3, <1>4
  <1> QED BY <1>2, <1>4, <1>5, <1>6, PairsMove

LEMMA UnexplainStep ==
    ASSUME BankInv, NEW m \in DOMAIN moves, UnexplainMovement(m)
    PROVE  BankInv' /\ ClosedStand
  <1>1. /\ ~Closed(m) /\ deeds' = deeds + 1
        /\ UNCHANGED <<writeOffs, booked, locked, imported>>
    BY DEF UnexplainMovement, Deed
  <1>2. CASE Unmatch(m)
    BY <1>1, <1>2, UnmatchStep
  <1>3. CASE UnmarkTransfer(m)
    BY <1>1, <1>3, UnmarkStep
  <1>4. CASE moves' = [moves EXCEPT ![m] = Cleared(@)] /\ UNCHANGED payments
    <2> DEFINE r == Cleared(moves[m])
    <2>1. moves[m] \in Movement /\ moves' = [moves EXCEPT ![m] = r]
      BY <1>4, LinesTyped
    <2>2. r \in Movement /\ r.line = moves[m].line /\ r.papers = moves[m].papers
          /\ r.pair = moves[m].pair
      BY <2>1, ClearedIs
    <2> HIDE DEF r
    <2> QED BY <1>1, <1>4, <2>1, <2>2, OneRowMoves
  <1> QED BY <1>2, <1>3, <1>4 DEF UnexplainMovement

-----------------------------------------------------------------------------
(* Papers and quarters. *)

\* The lines and the payments are left as they are.
LEMMA LinesAlone ==
    ASSUME BankInv, UNCHANGED <<moves, payments, imported>>, deeds' = deeds + 1
    PROVE  /\ PaidIffMatched' /\ EachLineOnce' /\ TransferLegsMutual'
           /\ \A m \in DOMAIN moves' : moves'[m].pair <= imported'
           /\ \A p : Paid(p)' = Paid(p)
           /\ deeds' \in Nat /\ DOMAIN payments' \subseteq 1..deeds'
           /\ ClosedStand
  <1>1. PaidIffMatched'
    BY DEF BankInv, PaidIffMatched, Naming
  <1>2. EachLineOnce' /\ TransferLegsMutual' /\ \A m \in DOMAIN moves' : moves'[m].pair <= imported'
    BY DEF BankInv, EachLineOnce, Held, Of, TransferLegsMutual
  <1>3. \A p : Paid(p)' = Paid(p)
    BY DEF Paid, PaidBy
  <1>4. deeds' \in Nat /\ DOMAIN payments' \subseteq 1..deeds'
    BY LinesTyped
  <1>5. ClosedStand
    BY DEF ClosedStand, Naming
  <1> QED BY <1>1, <1>2, <1>3, <1>4, <1>5

LEMMA ShortfallStep ==
    ASSUME BankInv, NEW p \in Papers, SettleShortfall(p) PROVE BankInv' /\ ClosedStand
  <1>1. /\ p \in booked /\ Owed(p) > 0 /\ writeOffs' = [writeOffs EXCEPT ![p] = @ + Owed(p)]
        /\ UNCHANGED <<moves, payments, booked, locked, imported>> /\ deeds' = deeds + 1
    BY DEF SettleShortfall, Deed
  <1>2. /\ PaidIffMatched' /\ EachLineOnce' /\ TransferLegsMutual'
        /\ \A m \in DOMAIN moves' : moves'[m].pair <= imported'
        /\ \A x : Paid(x)' = Paid(x)
        /\ deeds' \in Nat /\ DOMAIN payments' \subseteq 1..deeds'
        /\ ClosedStand
    BY <1>1, LinesAlone
  <1>3. /\ \A x \in Papers : /\ Paid(x) \in Nat /\ writeOffs[x] \in Nat /\ Total[x] \in Nat
                             /\ Paid(x) + writeOffs[x] <= Total[x] + 1
        /\ writeOffs \in [Papers -> Nat]
    BY PapersAssumption, PaidIs DEF BankInv, BankTypeOK, PapersNotOverpaid
  <1>4. Owed(p) \in Int /\ Owed(p) = Total[p] - Paid(p) - writeOffs[p]
    BY <1>3 DEF Owed
  <1>5. writeOffs' \in [Papers -> Nat] /\ writeOffs'[p] = Total[p] - Paid(p)
        /\ \A x \in Papers \ {p} : writeOffs'[x] = writeOffs[x]
    BY <1>1, <1>3, <1>4
  <1>6. PapersNotOverpaid'
    <2> SUFFICES ASSUME NEW x \in Papers PROVE Paid(x)' + writeOffs'[x] <= Total[x] + 1
      BY DEF PapersNotOverpaid
    <2>1. CASE x = p
      BY <2>1, <1>2, <1>3, <1>5
    <2>2. CASE x # p
      BY <2>2, <1>2, <1>3, <1>5
    <2> QED BY <2>1, <2>2
  <1>7. ClosedMeansExplained'
    BY <1>1, ExplainedKept
  <1>8. BankTypeOK'
    BY <1>1, <1>2, <1>5 DEF BankInv, BankTypeOK
  <1> QED BY <1>2, <1>6, <1>7, <1>8 DEF BankInv

LEMMA ArrivalStep ==
    ASSUME BankInv, NEW p \in Papers, BillArrives(p) PROVE BankInv' /\ ClosedStand
  <1>1. /\ booked' = booked \cup {p}
        /\ UNCHANGED <<moves, payments, writeOffs, locked, imported>> /\ deeds' = deeds + 1
    BY DEF BillArrives, Deed
  <1>2. /\ PaidIffMatched' /\ EachLineOnce' /\ TransferLegsMutual'
        /\ \A m \in DOMAIN moves' : moves'[m].pair <= imported'
        /\ deeds' \in Nat /\ DOMAIN payments' \subseteq 1..deeds'
        /\ ClosedStand
    BY <1>1, LinesAlone
  <1>3. PapersNotOverpaid' /\ ClosedMeansExplained'
    BY <1>1, PaidKept, ExplainedKept
  <1>4. BankTypeOK'
    BY <1>1, <1>2 DEF BankInv, BankTypeOK
  <1> QED BY <1>2, <1>3, <1>4 DEF BankInv

LEMMA GoneStep ==
    ASSUME BankInv, NEW p \in Papers, BillGoes(p) PROVE BankInv' /\ ClosedStand
  <1>1. /\ \A m \in DOMAIN moves : p \notin DOMAIN moves[m].papers
        /\ booked' = booked \ {p} /\ writeOffs' = [writeOffs EXCEPT ![p] = 0]
        /\ UNCHANGED <<moves, payments, locked, imported>> /\ deeds' = deeds + 1
    BY DEF BillGoes, BillDeletable, Deed
  <1>2. /\ PaidIffMatched' /\ EachLineOnce' /\ TransferLegsMutual'
        /\ \A m \in DOMAIN moves' : moves'[m].pair <= imported'
        /\ \A x : Paid(x)' = Paid(x)
        /\ deeds' \in Nat /\ DOMAIN payments' \subseteq 1..deeds'
        /\ ClosedStand
    BY <1>1, LinesAlone
  <1>3. /\ \A x \in Papers : /\ Paid(x) \in Nat /\ writeOffs[x] \in Nat /\ Total[x] \in Nat
                             /\ Paid(x) + writeOffs[x] <= Total[x] + 1
        /\ writeOffs \in [Papers -> Nat] /\ \A x \in Papers \ booked : writeOffs[x] = 0
    BY PapersAssumption, PaidIs DEF BankInv, BankTypeOK, PapersNotOverpaid
  <1>4. /\ writeOffs' \in [Papers -> Nat] /\ writeOffs'[p] = 0
        /\ \A x \in Papers \ {p} : writeOffs'[x] = writeOffs[x]
    BY <1>1, <1>3
  <1>5. PapersNotOverpaid'
    <2> SUFFICES ASSUME NEW x \in Papers PROVE Paid(x)' + writeOffs'[x] <= Total[x] + 1
      BY DEF PapersNotOverpaid
    <2>1. CASE x = p
      BY <2>1, <1>2, <1>3, <1>4
    <2>2. CASE x # p
      BY <2>2, <1>2, <1>3, <1>4
    <2> QED BY <2>1, <2>2
  <1>6. ClosedMeansExplained'
    BY <1>1, ExplainedKept
  <1>7. BankTypeOK'
    <2>1. \A x \in Papers \ booked' : writeOffs'[x] = 0
      BY <1>1, <1>3, <1>4
    <2>2. \A m \in DOMAIN moves : DOMAIN moves[m].papers \subseteq booked'
      BY <1>1, LinesTyped
    <2> QED BY <1>1, <1>2, <1>4, <2>1, <2>2 DEF BankInv, BankTypeOK
  <1> QED BY <1>2, <1>5, <1>6, <1>7 DEF BankInv

LEMMA QuarterStep ==
    ASSUME BankInv, NEW q \in Quarters, CloseQuarter(q) \/ ReopenBankPeriod(q)
    PROVE  BankInv' /\ ClosedStand
  <1>1. /\ UNCHANGED <<moves, payments, writeOffs, booked, imported>> /\ deeds' = deeds + 1
        /\ locked' = locked \cup {q} \/ locked' = locked \ {q}
    BY DEF CloseQuarter, ReopenBankPeriod, Deed
  <1>2. /\ PaidIffMatched' /\ EachLineOnce' /\ TransferLegsMutual'
        /\ \A m \in DOMAIN moves' : moves'[m].pair <= imported'
        /\ deeds' \in Nat /\ DOMAIN payments' \subseteq 1..deeds'
        /\ ClosedStand
    BY <1>1, LinesAlone
  <1>3. PapersNotOverpaid'
    BY <1>1, PaidKept
  <1>4. ClosedMeansExplained'
    <2> SUFFICES ASSUME NEW m \in DOMAIN moves, QuarterOf[moves[m].line] \in locked'
                 PROVE  moves[m].status # "unallocated" \/ moves[m].unbacked
      BY <1>1 DEF ClosedMeansExplained, Closed, Of
    <2>1. CASE QuarterOf[moves[m].line] \in locked
      BY <2>1 DEF BankInv, ClosedMeansExplained, Closed, Of
    <2>2. CASE QuarterOf[moves[m].line] \notin locked
      <3>1. CloseQuarter(q) /\ QuarterOf[Of(m)] = q
        BY <2>2, <1>1 DEF ReopenBankPeriod, CloseQuarter, Of
      <3> QED BY <3>1 DEF CloseQuarter
    <2> QED BY <2>1, <2>2
  <1>5. BankTypeOK'
    BY <1>1, <1>2 DEF BankInv, BankTypeOK
  <1> QED BY <1>2, <1>3, <1>4, <1>5 DEF BankInv
-----------------------------------------------------------------------------
(* Reading a file. *)

\* The lines of a file that are new, of those of some kinds.
FreshOf(s, T) == UNION {{l} \X (Held(l) + 1..s[l]) : l \in T}

LEMMA HeldIs ==
    ASSUME BankInv
    PROVE  \A l : /\ IsFiniteSet({m \in DOMAIN moves : Of(m) = l})
                  /\ Held(l) = Cardinality({m \in DOMAIN moves : Of(m) = l}) /\ Held(l) \in Nat
  <1> TAKE l
  <1>1. {m \in DOMAIN moves : Of(m) = l} \in SUBSET (DOMAIN moves) /\ IsFiniteSet(DOMAIN moves)
    BY LinesTyped
  <1>2. IsFiniteSet({m \in DOMAIN moves : Of(m) = l})
    BY <1>1, FS_Subset
  <1> QED BY <1>2, FS_CardinalityType DEF Held

LEMMA FreshIsFinite ==
    ASSUME BankInv, NEW s \in Statements PROVE IsFiniteSet(Fresh(s))
  <1>1. DOMAIN s \subseteq Lines /\ IsFiniteSet(DOMAIN s) /\ \A l \in DOMAIN s : s[l] \in Nat
    <2>1. DOMAIN s \in SUBSET Lines
      BY StatementsAssumption
    <2> QED BY <2>1, StatementsAssumption, FS_Subset
  <1>2. PICK Fine : Fine = {T \in SUBSET (DOMAIN s) : IsFiniteSet(FreshOf(s, T))}
    OBVIOUS
  <1>3. {} \in Fine
    <2>1. FreshOf(s, {}) = {}
      BY DEF FreshOf
    <2> QED BY <2>1, <1>2, FS_EmptySet
  <1>4. ASSUME NEW T \in SUBSET (DOMAIN s), NEW l \in (DOMAIN s) \ T, T \in Fine
        PROVE  T \cup {l} \in Fine
    <2>1. FreshOf(s, T \cup {l}) = FreshOf(s, T) \cup ({l} \X (Held(l) + 1..s[l]))
      BY DEF FreshOf
    <2>2. IsFiniteSet({l} \X (Held(l) + 1..s[l]))
      <3>1. IsFiniteSet(Held(l) + 1..s[l])
        <4>1. Held(l) \in Nat
          BY HeldIs
        <4>2. s[l] \in Nat
          BY <1>1
        <4>3. Held(l) + 1 \in Int /\ s[l] \in Int
          BY <4>1, <4>2
        <4> QED BY ONLY <4>3, FS_Interval
      <3>2. IsFiniteSet({l})
        BY FS_Singleton
      <3> QED BY <3>1, <3>2, FS_Product
    <2>3. IsFiniteSet(FreshOf(s, T))
      BY <1>2, <1>4
    <2>4. IsFiniteSet(FreshOf(s, T) \cup ({l} \X (Held(l) + 1..s[l])))
      BY <2>2, <2>3, FS_Union
    <2>5. T \cup {l} \in SUBSET (DOMAIN s)
      OBVIOUS
    <2> QED BY <2>1, <2>4, <2>5, <1>2
  <1>5. SUBSET (DOMAIN s) \subseteq Fine
    BY <1>1, <1>3, <1>4, EveryPart
  <1>6. DOMAIN s \in Fine
    BY <1>5
  <1> QED BY <1>6, <1>2 DEF Fresh, FreshOf

\* Listing a finite set names each of its members once.
LEMMA Listing ==
    ASSUME NEW S, IsFiniteSet(S)
    PROVE  /\ Len(SetToSeq(S)) \in Nat
           /\ DOMAIN SetToSeq(S) = 1..Len(SetToSeq(S))
           /\ \A i \in DOMAIN SetToSeq(S) : SetToSeq(S)[i] \in S
           /\ \A i, j \in DOMAIN SetToSeq(S) : SetToSeq(S)[i] = SetToSeq(S)[j] => i = j
  <1>1. Cardinality(S) \in Nat /\ ExistsBijection(1..Cardinality(S), S)
    BY FS_CardinalityType
  <1>2. \E f \in [1..Cardinality(S) -> S] : IsInjective(f)
    BY <1>1 DEF ExistsBijection, Bijection, Injection
  <1>3. PICK f : f = SetToSeq(S)
    OBVIOUS
  <1>4. f \in [1..Cardinality(S) -> S] /\ IsInjective(f)
    BY <1>2, <1>3, Zenon DEF SetToSeq
  <1>5. f \in Seq(S)
    BY <1>1, <1>4
  <1>6. Len(f) \in Nat /\ DOMAIN f = 1..Len(f)
    BY <1>5
  <1> QED BY <1>3, <1>4, <1>6 DEF IsInjective

LEMMA ImportStep ==
    ASSUME BankInv, NEW s \in Statements, ImportMovements(s)
    PROVE  BankInv' /\ ClosedStand
  <1>1. PICK new : new = SetToSeq(Fresh(s))
    OBVIOUS
  <1>2. /\ Len(new) \in Nat /\ DOMAIN new = 1..Len(new)
        /\ \A i \in DOMAIN new : new[i] \in Fresh(s)
        /\ \A i, j \in DOMAIN new : new[i] = new[j] => i = j
    BY <1>1, FreshIsFinite, Listing
  <1>3. /\ \A l \in DOMAIN s : s[l] > 0 => QuarterOf[l] \notin locked
        /\ imported + Len(new) <= MaxMoves /\ imported' = imported + Len(new)
        /\ moves' = [k \in DOMAIN moves \cup (imported + 1..imported') |->
                 IF k \in DOMAIN moves THEN moves[k] ELSE Unexplained(new[k - imported][1])]
        /\ UNCHANGED <<payments, writeOffs, booked, locked>> /\ deeds' = deeds + 1
    BY <1>1 DEF ImportMovements, Deed
  <1>4. PICK ids : ids = imported + 1..imported'
    OBVIOUS
  <1>5. /\ imported \in Nat /\ imported' \in Nat /\ imported <= imported' /\ MaxMoves \in Nat
        /\ DOMAIN moves \subseteq 1..imported /\ imported' <= MaxMoves
        /\ \A k \in ids : /\ k \notin DOMAIN moves /\ k \in 1..imported' /\ k > imported
                         /\ k - imported \in DOMAIN new
    BY <1>2, <1>3, <1>4, LinesTyped
  <1>6. DOMAIN s \subseteq Lines /\ \A l \in DOMAIN s : s[l] \in Nat /\ s[l] <= Times[l]
    BY StatementsAssumption
  <1>7. ASSUME NEW k \in ids
        PROVE  /\ new[k - imported][1] \in DOMAIN s
               /\ new[k - imported][2] \in
                      Held(new[k - imported][1]) + 1..s[new[k - imported][1]]
               /\ new[k - imported] = <<new[k - imported][1], new[k - imported][2]>>
    <2>1. new[k - imported] \in Fresh(s)
      BY <1>2, <1>5
    <2>2. PICK l \in DOMAIN s : new[k - imported] \in {l} \X (Held(l) + 1..s[l])
      BY <2>1 DEF Fresh
    <2> QED BY <2>2
  <1>8. DOMAIN moves' = DOMAIN moves \cup ids /\ \A n \in DOMAIN moves : moves'[n] = moves[n]
    BY <1>3, <1>4
  <1>9. \A k \in ids : moves'[k] = Unexplained(new[k - imported][1])
    BY <1>3, <1>4, <1>5
  <1>10. ASSUME NEW k \in ids
         PROVE  /\ moves'[k] \in Movement /\ moves'[k].line = new[k - imported][1]
                /\ moves'[k].papers = <<>> /\ moves'[k].pair = Nobody
                /\ QuarterOf[moves'[k].line] \notin locked
    <2>1. PICK l : l = new[k - imported][1]
      OBVIOUS
    <2>2. l \in DOMAIN s /\ l \in Lines /\ s[l] > 0
      <3>1. new[k - imported][2] \in Held(l) + 1..s[l] /\ l \in DOMAIN s
        BY <2>1, <1>7
      <3>2. Held(l) \in Nat /\ s[l] \in Nat
        BY <3>1, <1>6, HeldIs
      <3> QED BY <3>1, <3>2, <1>6
    <2>3. imported + 1 \in 1..MaxMoves /\ 0 \in 0..MaxMoves
      BY <1>4, <1>5
    <2>4. Unexplained(l) \in Movement
      BY <2>2, <2>3 DEF Unexplained, Movement, Classes, Nobody
    <2>5. Unexplained(l).line = l /\ Unexplained(l).papers = <<>> /\ Unexplained(l).pair = Nobody
      BY DEF Unexplained
    <2>6. moves'[k] = Unexplained(l)
      BY <2>1, <1>9
    <2> QED BY <2>1, <2>2, <2>4, <2>5, <2>6, <1>3
  <1>11. EachLineOnce'
    <2> SUFFICES ASSUME NEW l \in Lines PROVE Held(l)' <= Times[l]
      BY DEF EachLineOnce
    <2>1. PICK had : had = {m \in DOMAIN moves : Of(m) = l}
      OBVIOUS
    <2>2. PICK came : came = {k \in ids : new[k - imported][1] = l}
      OBVIOUS
    <2>3. PICK h : h = Held(l)
      OBVIOUS
    <2>4. Held(l)' = Cardinality(had \cup came)
      <3>1. {m \in DOMAIN moves' : moves'[m].line = l} = had \cup came
        BY <2>1, <2>2, <1>8, <1>10 DEF Of
      <3> QED BY <3>1 DEF Held, Of
    <2>5. IsFiniteSet(had) /\ h = Cardinality(had) /\ h \in Nat /\ h <= Times[l] /\ Times[l] \in Nat
      BY <2>1, <2>3, HeldIs, StatementsAssumption DEF BankInv, EachLineOnce
    <2>6. had \cap came = {}
      BY <2>1, <2>2, <1>5
    <2>7. CASE came = {}
      <3>1. had \cup came = had
        BY <2>7
      <3> QED BY <3>1, <2>4, <2>5
    <2>8. CASE came # {}
      <3>1. l \in DOMAIN s /\ s[l] \in Nat /\ s[l] <= Times[l]
        BY <2>8, <2>2, <1>6, <1>7
      <3>2. PICK g : g = [k \in came |-> new[k - imported][2]]
        OBVIOUS
      <3>3. g \in [came -> h + 1..s[l]]
        <4>1. \A k \in came : new[k - imported][2] \in h + 1..s[l]
          BY <2>2, <2>3, <1>7
        <4> QED BY <4>1, <3>2
      <3>4. ASSUME NEW i \in came, NEW j \in came, g[i] = g[j] PROVE i = j
        <4>1. new[i - imported] = new[j - imported]
          BY <3>2, <3>4, <2>2, <1>7
        <4>2. i - imported = j - imported
          BY <4>1, <2>2, <1>2, <1>5
        <4> QED BY <4>2, <2>2, <1>4, <1>5
      <3>5. g \in Injection(came, h + 1..s[l])
        BY <3>3, <3>4 DEF Injection, IsInjective
      <3>6. h + 1 \in Int /\ s[l] \in Int
        BY <2>5, <3>1
      <3>7. /\ IsFiniteSet(h + 1..s[l])
            /\ Cardinality(h + 1..s[l]) = IF h + 1 > s[l] THEN 0 ELSE s[l] - (h + 1) + 1
        BY ONLY <3>6, FS_Interval
      <3>8. IsFiniteSet(came) /\ Cardinality(came) <= Cardinality(h + 1..s[l])
        BY ONLY <3>5, <3>7, FS_Injection
      <3>9. Cardinality(came) \in Nat
        BY <3>8, FS_CardinalityType
      <3>10. Cardinality(had \cup came) = Cardinality(had) + Cardinality(came) - Cardinality(had \cap came)
        BY ONLY <2>5, <3>8, FS_Union
      <3>11. Cardinality(had \cap came) = 0
        BY <2>6, FS_EmptySet
      <3>12. Cardinality(came) <= s[l] - h \/ Cardinality(came) = 0
        BY <3>7, <3>8, <3>9, <3>1, <2>5
      <3> QED BY <3>1, <3>9, <3>10, <3>11, <3>12, <2>4, <2>5
    <2> QED BY <2>7, <2>8
  <1>12. ClosedMeansExplained'
    <2> SUFFICES ASSUME NEW m \in DOMAIN moves', QuarterOf[moves'[m].line] \in locked
                 PROVE  moves'[m].status # "unallocated" \/ moves'[m].unbacked
      BY <1>3 DEF ClosedMeansExplained, Closed, Of
    <2>1. m \in DOMAIN moves /\ moves'[m] = moves[m]
      BY <1>8, <1>10
    <2> QED BY <2>1 DEF BankInv, ClosedMeansExplained, Closed, Of
  <1>13. PaidIffMatched'
    <2>1. \A m \in DOMAIN moves' : Naming(m)' = Naming(m)
      BY <1>3 DEF Naming
    <2>2. \A k \in ids : Naming(k) = {}
      BY <1>5, LinesTyped DEF Naming
    <2>3. ASSUME NEW m \in DOMAIN moves'
          PROVE  /\ moves'[m].papers # <<>> <=> Naming(m)' # {}
                 /\ moves'[m].papers # <<>> =>
                        \E k \in Naming(m)' : payments'[k].pays = moves'[m].papers
      <3>1. CASE m \in ids
        <4>1. moves'[m].papers = <<>> /\ Naming(m)' = {}
          BY <3>1, <1>10, <2>1, <2>2
        <4> QED BY <4>1
      <3>2. CASE m \notin ids
        <4>1. m \in DOMAIN moves /\ moves'[m] = moves[m] /\ Naming(m)' = Naming(m)
          BY <3>2, <1>8, <2>1
        <4> QED BY <4>1, <1>3 DEF BankInv, PaidIffMatched
      <3> QED BY <3>1, <3>2
    <2> QED BY <2>3 DEF PaidIffMatched
  <1>14. PapersNotOverpaid'
    BY <1>3, PaidKept
  <1>15. TransferLegsMutual' /\ \A m \in DOMAIN moves' : moves'[m].pair <= imported'
    <2>1. ASSUME NEW m \in DOMAIN moves', NEW n \in DOMAIN moves', moves'[m].pair = n
          PROVE  moves'[n].pair = m /\ m # n
      <3>1. n # Nobody
        BY <1>5, <1>8 DEF Nobody
      <3>2. m \in DOMAIN moves /\ moves'[m] = moves[m]
        BY <2>1, <3>1, <1>8, <1>10
      <3>3. n <= imported
        BY <2>1, <3>2, LinesTyped
      <3>4. n \in DOMAIN moves /\ moves'[n] = moves[n]
        BY <3>3, <1>5, <1>8, <1>4
      <3> QED BY <2>1, <3>2, <3>4 DEF BankInv, TransferLegsMutual
    <2>2. ASSUME NEW m \in DOMAIN moves' PROVE moves'[m].pair <= imported'
      <3>1. CASE m \in ids
        BY <3>1, <1>5, <1>10 DEF Nobody
      <3>2. CASE m \notin ids
        BY <3>2, <1>5, <1>8, LinesTyped
      <3> QED BY <3>1, <3>2
    <2> QED BY <2>1, <2>2 DEF TransferLegsMutual
  <1>16. BankTypeOK' /\ deeds' \in Nat
    <2>1. \A m \in DOMAIN moves' :
              moves'[m] \in Movement /\ DOMAIN moves'[m].papers \subseteq booked
      <3> TAKE m \in DOMAIN moves'
      <3>1. CASE m \in ids
        <4>1. DOMAIN <<>> = {}
          OBVIOUS
        <4> QED BY <4>1, <3>1, <1>10
      <3>2. CASE m \notin ids
        BY <3>2, <1>8, LinesTyped
      <3> QED BY <3>1, <3>2
    <2>2. \A k \in DOMAIN payments : payments[k] \in [move : DOMAIN moves', pays : Splits]
      BY <1>8, LinesTyped
    <2>3. DOMAIN payments \subseteq 1..deeds' /\ deeds' \in Nat
      BY <1>3, LinesTyped
    <2>4. imported' \in 0..MaxMoves /\ DOMAIN moves' \subseteq 1..imported'
      BY <1>5, <1>8
    <2> QED BY <2>1, <2>2, <2>3, <2>4, <1>3 DEF BankInv, BankTypeOK
  <1>17. ClosedStand
    BY <1>3, <1>8 DEF ClosedStand, Naming
  <1> QED BY <1>11, <1>12, <1>13, <1>14, <1>15, <1>16, <1>17 DEF BankInv
-----------------------------------------------------------------------------
LEMMA BankStarts == BankInit => BankInv
  <1> SUFFICES ASSUME BankInit PROVE BankInv
    OBVIOUS
  <1>1. DOMAIN <<>> = {} /\ DOMAIN moves = {} /\ DOMAIN payments = {}
    BY DEF BankInit
  <1>2. \A p \in Papers : Paid(p) = 0 /\ writeOffs[p] = 0 /\ Total[p] \in Nat
    <2> TAKE p \in Papers
    <2>1. Paid(p) = SumOn(PaidOf(p), {})
      BY <1>1 DEF Paid, PaidOf
    <2> QED BY <2>1, SumOfNone, PapersAssumption DEF BankInit
  <1>3. EachLineOnce
    <2>1. \A l : {m \in DOMAIN moves : Of(m) = l} = {}
      BY <1>1
    <2>2. \A l : Held(l) = 0
      BY <2>1, FS_EmptySet DEF Held
    <2> QED BY <2>2, StatementsAssumption DEF EachLineOnce
  <1>4. PapersNotOverpaid
    BY <1>2 DEF PapersNotOverpaid
  <1>5. PaidIffMatched /\ TransferLegsMutual /\ ClosedMeansExplained
    BY <1>1 DEF PaidIffMatched, TransferLegsMutual, ClosedMeansExplained
  <1>6. BankTypeOK /\ deeds \in Nat
    BY <1>1, <1>2, PapersAssumption DEF BankTypeOK, BankInit
  <1> QED BY <1>1, <1>3, <1>4, <1>5, <1>6 DEF BankInv

LEMMA BankSteps ==
    ASSUME BankInv, [BankNext]_bankVars PROVE BankInv' /\ ClosedStand
  <1>1. CASE UNCHANGED bankVars
    <2>1. UNCHANGED <<moves, payments, writeOffs, booked, locked, imported, deeds>>
      BY <1>1 DEF bankVars
    <2>2. BankInv'
      BY <2>1 DEF BankInv, BankTypeOK, PaidIffMatched, Naming, PapersNotOverpaid, Paid, PaidBy,
         EachLineOnce, Held, Of, TransferLegsMutual, ClosedMeansExplained, Closed
    <2>3. ClosedStand
      BY <2>1 DEF ClosedStand, Naming
    <2> QED BY <2>2, <2>3
  <1>2. ASSUME NEW s \in Statements, ImportMovements(s) PROVE BankInv' /\ ClosedStand
    BY <1>2, ImportStep
  <1>3. ASSUME NEW S \in SUBSET (DOMAIN moves), Discard(S) PROVE BankInv' /\ ClosedStand
    BY <1>3, DiscardStep
  <1>4. ASSUME NEW b, UndoImport(b) PROVE BankInv' /\ ClosedStand
    <2>1. PICK S : S = {m \in DOMAIN moves : moves[m].batch = b}
      OBVIOUS
    <2>2. Discard(S) /\ S \in SUBSET (DOMAIN moves)
      BY <2>1, <1>4 DEF UndoImport
    <2> QED BY <2>2, <1>3
  <1>5. ASSUME NEW a, DiscardMovements(a) \/ ResetAccountMovements(a)
        PROVE  BankInv' /\ ClosedStand
    <2>1. CASE DiscardMovements(a)
      <3>1. PICK S : S = {m \in DOMAIN moves : AccountOf[Of(m)] = a}
        OBVIOUS
      <3>2. Discard(S) /\ S \in SUBSET (DOMAIN moves)
        BY <3>1, <2>1 DEF DiscardMovements
      <3> QED BY <3>2, <1>3
    <2>2. CASE ResetAccountMovements(a)
      BY <2>2, ResetStep
    <2> QED BY <2>1, <2>2, <1>5
  <1>6. ASSUME NEW m \in DOMAIN moves,
               \/ \E pays \in Splits : MatchMovementSplit(m, pays)
               \/ SplitMovement(m) \/ MarkMovementUnbacked(m) \/ MarkCardSettlement(m)
               \/ MarkCashWithdrawal(m) \/ UnexplainMovement(m)
               \/ \E c \in {"other", "transfer"} : ClassifyMovement(m, c)
        PROVE  BankInv' /\ ClosedStand
    BY <1>6, MatchStep, SplitStep, UnbackedStep, SettlementStep, WithdrawalStep, UnexplainStep,
       ClassifyStep
  <1>7. ASSUME NEW d \in DOMAIN moves, NEW w \in DOMAIN moves,
               MarkCashReturn(d, w) \/ MarkInternalTransfer(d, w)
        PROVE  BankInv' /\ ClosedStand
    BY <1>7, ReturnStep, TransferStep
  <1>8. ASSUME NEW p \in Papers, SettleShortfall(p) \/ BillArrives(p) \/ BillGoes(p)
        PROVE  BankInv' /\ ClosedStand
    BY <1>8, ShortfallStep, ArrivalStep, GoneStep
  <1>9. ASSUME NEW q \in Quarters, CloseQuarter(q) \/ ReopenBankPeriod(q)
        PROVE  BankInv' /\ ClosedStand
    BY <1>9, QuarterStep
  <1> QED BY <1>1, <1>2, <1>4, <1>5, <1>6, <1>7, <1>8, <1>9 DEF BankNext

LEMMA BankInvariant == BankSpec => []BankInv
  <1>1. BankInv /\ [BankNext]_bankVars => BankInv'
    BY BankSteps
  <1> QED BY BankStarts, <1>1, PTL DEF BankSpec

\* Whatever is imported, matched, paired, forgiven, undone and read again, and in whatever
\* order: a line shows papers exactly while a payment of it stands, no paper is paid beyond
\* its amount, no line is held more often than the bank wrote it, transfers are mutual and
\* closed quarters explained (importMovements, matchMovementSplit, unexplainMovement, ...).
THEOREM Reconciled == BankSpec => []BankReconciles
  <1>1. BankInv => BankReconciles
    BY DEF BankInv, BankReconciles
  <1> QED BY BankInvariant, <1>1, PTL

\* While a quarter is locked (closeQuarter) no operation touches its lines nor the payments
\* they made.
THEOREM ClosedLinesKept == BankSpec => ClosedLinesStand
  <1>1. BankInv /\ [BankNext]_bankVars => [ClosedStand]_bankVars
    BY BankSteps
  <1>2. BankSpec => [][ClosedStand]_bankVars
    BY BankInvariant, <1>1, PTL DEF BankSpec
  <1> QED BY <1>2 DEF ClosedStand, ClosedLinesStand
=============================================================================
