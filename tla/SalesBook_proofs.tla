-------------------------- MODULE SalesBook_proofs --------------------------
(***************************************************************************)
(* Proofs about SalesBook, for any customers, chapters, changes,           *)
(* instalments, amounts, years and bounds:                                 *)
(*   - NobodyIsBilledBeyond: no step bills a payer beyond its scope;       *)
(*   - FiledInvoicesKept: a filed period keeps its invoices as they are;   *)
(*   - BookKept: the chain verifies, the series stand where the book ends  *)
(*     and nothing names an invoice that is gone, where both series print  *)
(*     the year and their patterns tell them apart.                        *)
(* and about Contracts, for any extras, days and bounds, where people keep  *)
(* to the habits each theorem names:                                        *)
(*   - ContractsKept: one milestone for each annex in force, milestones and  *)
(*     invoices that name each other, no work out of scope (Orderly says     *)
(*     why: annexes numbered in order, one for an extra, those that wait on  *)
(*     the contract the job holds);                                         *)
(*   - DaysCountedOnceKept: the date moves by the days of what joins or      *)
(*     leaves, once;                                                        *)
(*   - SignedKeepsItsJobKept: only a person takes the job from a signed one. *)
(***************************************************************************)
EXTENDS FunctionTheorems, Contracts, SalesBook, Tables_proofs, FiniteSetTheorems, TLAPS

-----------------------------------------------------------------------------
\* Both series print the year and no number of one can be read as one of the other.
ShapesTellApart == {InvoiceShape, CreditShape} \subseteq Dated /\ InvoiceShape # CreditShape

\* The members of S from the least to the greatest.
Listing(s, S) ==
    /\ s \in Seq(Nat)
    /\ \A k, l \in DOMAIN s : k < l => s[k] < s[l]
    /\ \A k \in DOMAIN s : s[k] \in S
    /\ \A i \in S : \E k \in DOMAIN s : s[k] = i

LEMMA ListingOrder ==
    ASSUME NEW s, NEW S, Listing(s, S)
    PROVE  /\ \A k, l \in DOMAIN s : k < l <=> s[k] < s[l]
           /\ \A k, l \in DOMAIN s : s[k] = s[l] => k = l
           /\ s # <<>> => Len(s) \in DOMAIN s
  <1>1. /\ s \in Seq(Nat) /\ DOMAIN s = 1..Len(s) /\ Len(s) \in Nat
        /\ \A k, l \in DOMAIN s : k < l => s[k] < s[l]
    BY DEF Listing
  <1>2. ASSUME NEW k \in DOMAIN s, NEW l \in DOMAIN s
        PROVE  (k < l <=> s[k] < s[l]) /\ (s[k] = s[l] => k = l)
    <2>1. k \in Nat /\ l \in Nat /\ s[k] \in Nat /\ s[l] \in Nat
      BY <1>1
    <2>2. k < l \/ k = l \/ l < k
      BY <2>1
    <2>3. (k < l => s[k] < s[l]) /\ (l < k => s[l] < s[k])
      BY <1>1
    <2> QED BY <2>1, <2>2, <2>3
  <1> QED BY <1>1, <1>2

LEMMA ListingGrows ==
    ASSUME NEW s, NEW S, Listing(s, S), NEW n \in Nat, \A i \in S : i < n
    PROVE  /\ Listing(Append(s, n), S \cup {n})
           /\ Append(s, n) \in Seq(Nat) /\ Len(Append(s, n)) = Len(s) + 1
           /\ \A k \in DOMAIN s : Append(s, n)[k] = s[k]
           /\ Append(s, n)[Len(s) + 1] = n
  <1> DEFINE t == Append(s, n)
  <1>1. /\ s \in Seq(Nat) /\ DOMAIN s = 1..Len(s) /\ Len(s) \in Nat
        /\ \A k, l \in DOMAIN s : k < l => s[k] < s[l]
        /\ \A k \in DOMAIN s : s[k] \in S
        /\ \A i \in S : \E k \in DOMAIN s : s[k] = i
    BY DEF Listing
  <1>2. /\ t \in Seq(Nat) /\ Len(t) = Len(s) + 1 /\ DOMAIN t = 1..Len(s) + 1
        /\ \A k \in DOMAIN s : t[k] = s[k]
        /\ t[Len(s) + 1] = n
    BY <1>1
  <1> HIDE DEF t
  <1>3. ASSUME NEW k \in DOMAIN t, NEW l \in DOMAIN t, k < l PROVE t[k] < t[l]
    <2>1. k \in DOMAIN s /\ k \in Nat /\ (l \in DOMAIN s \/ l = Len(s) + 1)
      BY <1>1, <1>2, <1>3
    <2>2. t[k] = s[k] /\ s[k] < n
      BY <2>1, <1>1, <1>2
    <2> QED BY <1>1, <1>2, <1>3, <2>1, <2>2
  <1>4. \A k \in DOMAIN t : t[k] \in S \cup {n}
    BY <1>1, <1>2
  <1>5. ASSUME NEW i \in S \cup {n} PROVE \E k \in DOMAIN t : t[k] = i
    BY <1>1, <1>2
  <1>6. Listing(t, S \cup {n})
    BY <1>2, <1>3, <1>4, <1>5 DEF Listing
  <1> QED BY <1>2, <1>6 DEF t

LEMMA ListingShrinks ==
    ASSUME NEW s, NEW S, Listing(s, S), s # <<>>
    PROVE  LET t == SubSeq(s, 1, Len(s) - 1)
           IN /\ Listing(t, S \ {s[Len(s)]})
              /\ t \in Seq(Nat) /\ Len(t) = Len(s) - 1
              /\ \A k \in DOMAIN t : t[k] = s[k] /\ k \in DOMAIN s
  <1> DEFINE t == SubSeq(s, 1, Len(s) - 1)
             n == Len(s)
  <1>1. /\ s \in Seq(Nat) /\ DOMAIN s = 1..n /\ n \in Nat
        /\ \A k, l \in DOMAIN s : k < l => s[k] < s[l]
        /\ \A k \in DOMAIN s : s[k] \in S
        /\ \A i \in S : \E k \in DOMAIN s : s[k] = i
    BY DEF Listing
  <1>2. n >= 1
    BY <1>1
  <1>3. /\ t \in Seq(Nat) /\ Len(t) = n - 1 /\ DOMAIN t = 1..n - 1
        /\ \A k \in 1..n - 1 : t[k] = s[k]
    BY <1>1, <1>2
  <1> HIDE DEF t, n
  <1>4. \A k, l \in DOMAIN t : k < l => t[k] < t[l]
    BY <1>1, <1>2, <1>3
  <1>5. ASSUME NEW k \in DOMAIN t PROVE t[k] \in S \ {s[n]}
    <2>1. k \in DOMAIN s /\ n \in DOMAIN s /\ k < n /\ k \in Nat
      BY <1>1, <1>2, <1>3
    <2>2. s[k] < s[n] /\ s[k] \in Nat /\ s[n] \in Nat
      BY <1>1, <2>1
    <2>3. t[k] = s[k] /\ s[k] \in S
      BY <1>1, <1>3, <2>1
    <2> QED BY <2>2, <2>3
  <1>6. ASSUME NEW i \in S \ {s[n]} PROVE \E k \in DOMAIN t : t[k] = i
    <2>1. PICK k \in DOMAIN s : s[k] = i
      BY <1>1
    <2>2. k # n /\ k \in 1..n - 1
      BY <1>1, <1>2, <2>1
    <2> QED BY <1>3, <2>1, <2>2
  <1>7. Listing(t, S \ {s[n]})
    BY <1>3, <1>4, <1>5, <1>6 DEF Listing
  <1>8. \A k \in DOMAIN t : t[k] = s[k] /\ k \in DOMAIN s
    BY <1>1, <1>2, <1>3
  <1> QED BY <1>3, <1>7, <1>8 DEF t, n

\* What stands at the positions of a listing stands one by one for them.
LEMMA ListedOneByOne ==
    ASSUME NEW s, NEW S, Listing(s, S), NEW R,
           \A p \in R : p[1] \in DOMAIN s /\ p[2] = s[p[1]],
           \A k \in DOMAIN s : <<k, s[k]>> \in R
    PROVE  OneByOne(R, Len(s), S)
  <1>1. s \in Seq(Nat) /\ DOMAIN s = 1..Len(s)
    BY DEF Listing
  <1>2. \A k \in 1..Len(s) : \E i \in S : <<k, i>> \in R
    BY <1>1 DEF Listing
  <1>3. \A i \in S : \E k \in 1..Len(s) : <<k, i>> \in R
    BY <1>1 DEF Listing
  <1>4. \A p, q \in R : p[1] < q[1] <=> p[2] < q[2]
    BY ListingOrder
  <1> QED BY <1>2, <1>3, <1>4 DEF OneByOne
-----------------------------------------------------------------------------
\* What one series looks like: each number shows its year and is under the counter of it.
CountedUp(r, shape) ==
    /\ r.pattern = shape /\ r.yearly = TRUE
    /\ \A k \in DOMAIN r.issued :
          /\ r.issued[k].pattern = shape /\ r.issued[k].year \in Years
          /\ r.issued[k].n \in Nat \ {0}
          /\ r.byYear[r.issued[k].year] # NoCount
          /\ r.issued[k].n < r.byYear[r.issued[k].year]
    /\ \A k, l \in DOMAIN r.issued :
          k < l /\ r.issued[k].year = r.issued[l].year => r.issued[k].n < r.issued[l].n
    /\ \A y \in Years : r.byYear[y] # NoCount => r.byYear[y] \in Nat \ {0}

LEMMA SeriesRowIs ==
    ASSUME NEW r \in SeriesRow
    PROVE  /\ r = [pattern |-> r.pattern, yearly |-> r.yearly, next |-> r.next,
                   byYear |-> r.byYear, issued |-> r.issued]
           /\ r.pattern \in Patterns /\ r.yearly \in BOOLEAN /\ r.next \in Nat \ {0}
           /\ r.byYear \in [Years -> Nat \cup {NoCount}] /\ r.issued \in Seq(Printed)
           /\ DOMAIN r.issued = 1..Len(r.issued) /\ Len(r.issued) \in Nat
           /\ r.issued # <<>> => Len(r.issued) >= 1
           /\ \A k \in DOMAIN r.issued : r.issued[k] \in Printed
  BY DEF SeriesRow

LEMMA AdvancedRow ==
    ASSUME NEW r \in SeriesRow, NEW y \in Years, NEW s, s = Advance(r, y)
    PROVE  s = [pattern |-> r.pattern, yearly |-> r.yearly,
                next |-> (IF r.yearly THEN r.next ELSE Count(r, y)) + 1,
                byYear |-> [r.byYear EXCEPT ![y] = IF r.yearly THEN Count(r, y) + 1 ELSE @],
                issued |-> Append(r.issued, NextOf(r, y))]
  BY DEF Advance, SeriesRow

LEMMA GivenBackRow ==
    ASSUME NEW r \in SeriesRow, NEW y \in Years, NEW s, s = GiveBack(r, y),
           r.yearly = TRUE, r.byYear[y] # NoCount
    PROVE  s = [pattern |-> r.pattern, yearly |-> r.yearly,
                next |-> IF r.next > 1 THEN r.next - 1 ELSE 1,
                byYear |-> [r.byYear EXCEPT ![y] = @ - 1],
                issued |-> SubSeq(r.issued, 1, Len(r.issued) - 1)]
  BY DEF GiveBack, SeriesRow

LEMMA NumbersOfOne ==
    ASSUME NEW r \in SeriesRow, NEW shape, CountedUp(r, shape)
    PROVE  \A k, l \in DOMAIN r.issued : r.issued[k] = r.issued[l] => k = l
  <1> TAKE k, l \in DOMAIN r.issued
  <1>1. k \in Nat /\ l \in Nat
    BY SeriesRowIs
  <1>2. k < l \/ k = l \/ l < k
    BY <1>1
  <1>3. r.issued[k].n \in Nat /\ r.issued[l].n \in Nat
    BY DEF CountedUp
  <1>4. k < l /\ r.issued[k].year = r.issued[l].year => r.issued[k].n < r.issued[l].n
    BY DEF CountedUp
  <1>5. l < k /\ r.issued[l].year = r.issued[k].year => r.issued[l].n < r.issued[k].n
    BY DEF CountedUp
  <1> QED BY <1>2, <1>3, <1>4, <1>5

LEMMA AdvanceIs ==
    ASSUME NEW r \in SeriesRow, NEW shape \in Dated, CountedUp(r, shape), NEW y \in Years
    PROVE  /\ NextOf(r, y) \in Printed
           /\ NextOf(r, y).pattern = shape /\ NextOf(r, y).year = y
           /\ Advance(r, y) \in SeriesRow /\ CountedUp(Advance(r, y), shape)
           /\ Advance(r, y).issued = Append(r.issued, NextOf(r, y))
  <1> DEFINE c == Count(r, y)
             p == NextOf(r, y)
             a == Advance(r, y)
             up == [r.byYear EXCEPT ![y] = c + 1]
  <1>1. /\ r.pattern = shape /\ r.yearly = TRUE
        /\ \A k \in DOMAIN r.issued :
              /\ r.issued[k].pattern = shape /\ r.issued[k].year \in Years
              /\ r.issued[k].n \in Nat \ {0}
              /\ r.byYear[r.issued[k].year] # NoCount
              /\ r.issued[k].n < r.byYear[r.issued[k].year]
        /\ \A k, l \in DOMAIN r.issued :
              k < l /\ r.issued[k].year = r.issued[l].year => r.issued[k].n < r.issued[l].n
        /\ \A z \in Years : r.byYear[z] # NoCount => r.byYear[z] \in Nat \ {0}
    BY DEF CountedUp
  <1>2. /\ c \in Nat \ {0}
        /\ r.byYear[y] # NoCount => c = r.byYear[y]
    <2>1. CASE r.byYear[y] # NoCount
      BY <1>1, <2>1 DEF Count
    <2>2. CASE r.byYear[y] = NoCount
      <3>1. Mine(r, y) = {}
        BY <1>1, <2>2 DEF Mine, ReadBy
      <3>2. c = Cardinality({}) + 1
        BY <1>1, <2>2, <3>1 DEF Count
      <3> QED BY <2>2, <3>2, FS_EmptySet
    <2> QED BY <2>1, <2>2
  <1>3. p = [pattern |-> shape, year |-> y, n |-> c]
    BY <1>1 DEF NextOf, Number
  <1>4. p \in Printed /\ p.pattern = shape /\ p.year = y /\ p.n = c
    BY <1>2, <1>3, PatternsAssumption DEF Printed
  <1>5. a = [pattern |-> r.pattern, yearly |-> TRUE, next |-> r.next + 1, byYear |-> up,
             issued |-> Append(r.issued, p)]
    BY <1>1, AdvancedRow
  <1>6. up \in [Years -> Nat \cup {NoCount}] /\ Append(r.issued, p) \in Seq(Printed)
    BY <1>2, <1>4, SeriesRowIs
  <1>7. a \in SeriesRow
    BY <1>5, <1>6, SeriesRowIs DEF SeriesRow
  <1>8. /\ DOMAIN a.issued = 1..Len(r.issued) + 1 /\ Len(r.issued) \in Nat
        /\ \A k \in DOMAIN r.issued : a.issued[k] = r.issued[k]
        /\ a.issued[Len(r.issued) + 1] = p /\ DOMAIN r.issued = 1..Len(r.issued)
    BY <1>4, <1>5, SeriesRowIs
  <1>9. /\ up[y] = c + 1 /\ NoCount \notin Nat
        /\ \A z \in Years : z # y => up[z] = r.byYear[z]
    BY SeriesRowIs DEF NoCount
  <1>10. ASSUME NEW k \in DOMAIN r.issued, r.issued[k].year = y PROVE r.issued[k].n < c
    BY <1>1, <1>2, <1>10
  <1> HIDE DEF c, p, a, up
  <1>11. ASSUME NEW k \in DOMAIN a.issued
         PROVE  /\ a.issued[k].pattern = shape /\ a.issued[k].year \in Years
                /\ a.issued[k].n \in Nat \ {0}
                /\ up[a.issued[k].year] # NoCount
                /\ a.issued[k].n < up[a.issued[k].year]
    <2>1. CASE k = Len(r.issued) + 1
      BY <1>2, <1>4, <1>8, <1>9, <2>1
    <2>2. CASE k # Len(r.issued) + 1
      <3>1. k \in DOMAIN r.issued /\ a.issued[k] = r.issued[k]
        BY <1>8, <2>2
      <3>2. CASE r.issued[k].year = y
        BY <1>1, <1>2, <1>9, <1>10, <3>1, <3>2
      <3>3. CASE r.issued[k].year # y
        BY <1>1, <1>9, <3>1, <3>3
      <3> QED BY <3>2, <3>3
    <2> QED BY <2>1, <2>2
  <1>12. ASSUME NEW k \in DOMAIN a.issued, NEW l \in DOMAIN a.issued, k < l,
                a.issued[k].year = a.issued[l].year
         PROVE  a.issued[k].n < a.issued[l].n
    <2>1. k \in DOMAIN r.issued /\ a.issued[k] = r.issued[k] /\ k \in Nat
      BY <1>8, <1>12
    <2>2. CASE l = Len(r.issued) + 1
      BY <1>4, <1>8, <1>10, <1>12, <2>1, <2>2
    <2>3. CASE l # Len(r.issued) + 1
      BY <1>1, <1>8, <1>12, <2>1, <2>3
    <2> QED BY <2>2, <2>3
  <1>13. \A z \in Years : up[z] # NoCount => up[z] \in Nat \ {0}
    BY <1>1, <1>2, <1>9
  <1>14. a.byYear = up /\ a.pattern = shape /\ a.yearly = TRUE /\ a.issued = Append(r.issued, p)
    BY <1>1, <1>5
  <1>15. CountedUp(a, shape)
    BY <1>11, <1>12, <1>13, <1>14 DEF CountedUp
  <1> QED BY <1>4, <1>7, <1>14, <1>15 DEF c, p, a, up

LEMMA GiveBackIs ==
    ASSUME NEW r \in SeriesRow, NEW shape, CountedUp(r, shape), r.issued # <<>>,
           NEW y, y = r.issued[Len(r.issued)].year
    PROVE  /\ GiveBack(r, y) \in SeriesRow /\ CountedUp(GiveBack(r, y), shape)
           /\ GiveBack(r, y).issued = SubSeq(r.issued, 1, Len(r.issued) - 1)
  <1> DEFINE n == Len(r.issued)
             g == GiveBack(r, y)
             t == SubSeq(r.issued, 1, n - 1)
             down == [r.byYear EXCEPT ![y] = @ - 1]
  <1>1. /\ r.pattern = shape /\ r.yearly = TRUE
        /\ \A k \in DOMAIN r.issued :
              /\ r.issued[k].pattern = shape /\ r.issued[k].year \in Years
              /\ r.issued[k].n \in Nat \ {0}
              /\ r.byYear[r.issued[k].year] # NoCount
              /\ r.issued[k].n < r.byYear[r.issued[k].year]
        /\ \A k, l \in DOMAIN r.issued :
              k < l /\ r.issued[k].year = r.issued[l].year => r.issued[k].n < r.issued[l].n
        /\ \A z \in Years : r.byYear[z] # NoCount => r.byYear[z] \in Nat \ {0}
    BY DEF CountedUp
  <1>2. n \in Nat /\ n >= 1 /\ DOMAIN r.issued = 1..n /\ n \in DOMAIN r.issued
    BY SeriesRowIs
  <1>3. /\ y \in Years /\ r.byYear[y] # NoCount /\ r.byYear[y] \in Nat
        /\ r.issued[n].n < r.byYear[y] /\ r.issued[n].n \in Nat \ {0}
    BY <1>1, <1>2
  <1>4. r.byYear[y] - 1 \in Nat \ {0}
    BY <1>3
  <1>5. g = [pattern |-> r.pattern, yearly |-> TRUE,
             next |-> IF r.next > 1 THEN r.next - 1 ELSE 1, byYear |-> down, issued |-> t]
    BY <1>1, <1>3, GivenBackRow
  <1>6. /\ t \in Seq(Printed) /\ Len(t) = n - 1 /\ DOMAIN t = 1..n - 1
        /\ \A k \in 1..n - 1 : t[k] = r.issued[k]
    BY <1>2, SeriesRowIs
  <1>7. /\ down \in [Years -> Nat \cup {NoCount}]
        /\ down[y] = r.byYear[y] - 1 /\ \A z \in Years : z # y => down[z] = r.byYear[z]
    BY <1>3, <1>4, SeriesRowIs
  <1>8. (IF r.next > 1 THEN r.next - 1 ELSE 1) \in Nat \ {0}
    BY SeriesRowIs
  <1>9. g \in SeriesRow
    BY <1>5, <1>6, <1>7, <1>8, SeriesRowIs DEF SeriesRow
  <1> HIDE DEF n, g, t, down
  <1>10. ASSUME NEW k \in DOMAIN t
         PROVE  /\ t[k].pattern = shape /\ t[k].year \in Years /\ t[k].n \in Nat \ {0}
                /\ down[t[k].year] # NoCount /\ t[k].n < down[t[k].year]
    <2>1. k \in DOMAIN r.issued /\ t[k] = r.issued[k] /\ k < n /\ k \in Nat
      BY <1>2, <1>6
    <2>2. CASE r.issued[k].year = y
      <3>1. r.issued[k].n < r.issued[n].n /\ r.issued[k].n \in Nat \ {0}
        <4>1. r.issued[n].year = y
          BY DEF n
        <4> QED BY <1>1, <1>2, <2>1, <2>2, <4>1
      <3>2. r.issued[k].n < r.byYear[y] - 1
        BY <1>3, <3>1
      <3>3. down[y] # NoCount
        BY <1>4, <1>7 DEF NoCount
      <3> QED BY <1>1, <1>7, <2>1, <2>2, <3>1, <3>2, <3>3
    <2>3. CASE r.issued[k].year # y
      BY <1>1, <1>7, <2>1, <2>3
    <2> QED BY <2>2, <2>3
  <1>11. \A k, l \in DOMAIN t : k < l /\ t[k].year = t[l].year => t[k].n < t[l].n
    <2>1. \A k \in DOMAIN t : k \in DOMAIN r.issued /\ t[k] = r.issued[k]
      BY <1>2, <1>6
    <2> QED BY <1>1, <2>1
  <1>12. \A z \in Years : down[z] # NoCount => down[z] \in Nat \ {0}
    BY <1>1, <1>4, <1>7
  <1>13. g.byYear = down /\ g.pattern = shape /\ g.yearly = TRUE /\ g.issued = t
    BY <1>1, <1>5
  <1>14. CountedUp(g, shape)
    BY <1>10, <1>11, <1>12, <1>13 DEF CountedUp
  <1> QED BY <1>9, <1>13, <1>14 DEF n, g, t, down
-----------------------------------------------------------------------------
(* The book. *)

Shaped(b) ==
    b = [invoices |-> b.invoices, events |-> b.events, next |-> b.next, series |-> b.series,
         extras |-> b.extras, milestones |-> b.milestones]
Rows(b) ==
    /\ Shaped(b)
    /\ b.next \in Nat \ {0} /\ InBook(b) \subseteq 1..b.next - 1
    /\ b.invoices \in [InBook(b) -> Invoice]
    /\ \A i \in InBook(b) : b.invoices[i].external =>
           b.invoices[i].extra = None /\ b.invoices[i].milestone = None
    /\ b.events \in Seq(Chained)
    /\ b.series \in [SeriesKeys -> SeriesRow]
    /\ b.extras \in [Extras -> ChangeRow] /\ b.milestones \in [Milestones -> StageRow]

\* A change or an instalment that names an invoice is what that invoice was for, and no
\* credit note stands for an invoice that is gone.
Pointed(b) ==
    /\ \A i \in InBook(b) : b.invoices[i].rectifies \in InBook(b) \cup {None}
    /\ \A x \in Extras : b.extras[x].invoice # None =>
           b.extras[x].invoice \in InBook(b) /\ b.invoices[b.extras[x].invoice].extra = x
    /\ \A m \in Milestones : b.milestones[m].invoice # None =>
           /\ b.milestones[m].invoice \in InBook(b)
           /\ b.invoices[b.milestones[m].invoice].milestone = m

\* The number of an invoice is of the series of its kind and shows the year it was issued.
Numbered(b) ==
    \A i \in IssuedIn(b) :
        /\ b.invoices[i].number \in Printed
        /\ b.invoices[i].number.year = YearOf[b.invoices[i].date]
        /\ b.invoices[i].number.pattern = ShapeOf(KeyOf(b.invoices[i].kind))

Linked(events) ==
    \A k \in DOMAIN events :
        events[k] = Event(HashBefore(events, k), events[k].number, events[k].total)

MineIn(b, key) == {i \in IssuedIn(b) : KeyOf(b.invoices[i].kind) = key}

\* The positions of the chain, and those of a series, read as the invoices they stand for.
Chain(b, s) ==
    /\ Listing(s, IssuedIn(b)) /\ Len(s) = Len(b.events)
    /\ \A k \in DOMAIN s : /\ b.events[k].number = b.invoices[s[k]].number
                           /\ b.events[k].total = b.invoices[s[k]].base
Run(b, key, s) ==
    /\ Listing(s, MineIn(b, key)) /\ Len(s) = Len(b.series[key].issued)
    /\ \A k \in DOMAIN s : b.series[key].issued[k] = b.invoices[s[k]].number

Sound(b) ==
    /\ Rows(b) /\ Pointed(b) /\ Numbered(b)
    /\ \A key \in SeriesKeys : CountedUp(b.series[key], ShapeOf(key))
    /\ Linked(b.events)
    /\ \E s : Chain(b, s)
    /\ \A key \in SeriesKeys : \E s : Run(b, key, s)

LEMMA Keys ==
    /\ \A kind \in Kinds : KeyOf(kind) \in SeriesKeys
    /\ ShapesTellApart => /\ \A key \in SeriesKeys : ShapeOf(key) \in Dated
                          /\ \A k, l \in SeriesKeys : ShapeOf(k) = ShapeOf(l) => k = l
  <1>1. \A kind \in Kinds : KeyOf(kind) \in SeriesKeys
    BY DEF KeyOf, SeriesKeys
  <1>2. ASSUME ShapesTellApart
        PROVE  /\ \A key \in SeriesKeys : ShapeOf(key) \in Dated
               /\ \A k, l \in SeriesKeys : ShapeOf(k) = ShapeOf(l) => k = l
    BY <1>2 DEF ShapesTellApart, ShapeOf, SeriesKeys
  <1> QED BY <1>1, <1>2

LEMMA InvoiceIs ==
    ASSUME NEW i \in Invoice
    PROVE  /\ i = [number |-> i.number, kind |-> i.kind, date |-> i.date, party |-> i.party,
                   base |-> i.base, extra |-> i.extra, milestone |-> i.milestone,
                   rectifies |-> i.rectifies, external |-> i.external]
           /\ i.number \in Printed \cup Foreign /\ i.kind \in Kinds /\ i.date \in Days
           /\ i.party \in Customers /\ i.base \in Nat /\ i.extra \in Extras \cup {None}
           /\ i.milestone \in Milestones \cup {None} /\ i.rectifies \in Nat
           /\ i.external \in BOOLEAN
  BY DEF Invoice

LEMMA EventIs ==
    ASSUME NEW prev \in Seq(Printed \X Nat), NEW number \in Printed, NEW total \in Nat
    PROVE  /\ Event(prev, number, total) \in Chained
           /\ Event(prev, number, total).number = number
           /\ Event(prev, number, total).total = total
           /\ Event(prev, number, total).prev = prev
           /\ Event(prev, number, total).hash = Append(prev, <<number, total>>)
  <1>1. Append(prev, <<number, total>>) \in Seq(Printed \X Nat)
    OBVIOUS
  <1> QED BY <1>1 DEF Event, Entry, Chained

LEMMA HashIs ==
    ASSUME NEW events \in Seq(Chained), NEW k \in 1..Len(events) + 1
    PROVE  HashBefore(events, k) \in Seq(Printed \X Nat)
  <1>1. CASE k = 1
    BY <1>1 DEF HashBefore
  <1>2. CASE k # 1
    <2>1. k - 1 \in DOMAIN events
      BY <1>2
    <2>2. events[k - 1] \in Chained
      BY <2>1
    <2> QED BY <1>2, <2>2 DEF HashBefore, Chained
  <1> QED BY <1>1, <1>2

\* No two invoices issued here have the same number.
LEMMA NumbersDiffer ==
    ASSUME ShapesTellApart, NEW b, Sound(b), NEW i \in IssuedIn(b), NEW j \in IssuedIn(b),
           b.invoices[i].number = b.invoices[j].number
    PROVE  i = j
  <1>1. /\ i \in InBook(b) /\ b.invoices[i] \in Invoice
        /\ j \in InBook(b) /\ b.invoices[j] \in Invoice
    BY DEF IssuedIn, Sound, Rows, Shaped
  <1>2. PICK key \in SeriesKeys : key = KeyOf(b.invoices[i].kind)
    BY <1>1, Keys, InvoiceIs
  <1>3. KeyOf(b.invoices[j].kind) = key
    <2>1. KeyOf(b.invoices[j].kind) \in SeriesKeys
      BY <1>1, Keys, InvoiceIs
    <2>2. ShapeOf(KeyOf(b.invoices[j].kind)) = ShapeOf(key)
      BY <1>2 DEF Sound, Numbered
    <2> QED BY <2>1, <2>2, Keys
  <1>4. PICK s : Run(b, key, s)
    BY DEF Sound
  <1>5. i \in MineIn(b, key) /\ j \in MineIn(b, key)
    BY <1>2, <1>3 DEF MineIn
  <1>6. PICK k \in DOMAIN s : s[k] = i
    BY <1>4, <1>5 DEF Run, Listing
  <1>7. PICK l \in DOMAIN s : s[l] = j
    BY <1>4, <1>5 DEF Run, Listing
  <1>8. b.series[key] \in SeriesRow /\ CountedUp(b.series[key], ShapeOf(key))
    BY DEF Sound, Rows, Shaped
  <1>9. DOMAIN s = DOMAIN b.series[key].issued
    BY <1>4, <1>8, SeriesRowIs DEF Run, Listing
  <1>10. b.series[key].issued[k] = b.series[key].issued[l]
    BY <1>4, <1>6, <1>7 DEF Run
  <1> QED BY <1>6, <1>7, <1>8, <1>9, <1>10, NumbersOfOne
-----------------------------------------------------------------------------
(* Issuing. *)

Draftlike(b, d) ==
    /\ d.kind \in Kinds /\ d.party \in Customers /\ d.base \in Nat
    /\ d.extra \in Extras \cup {None} /\ d.milestone \in Milestones \cup {None}
    /\ d.rectifies \in InBook(b) \cup {None}

\* The row of a draft issued under a number on a day.
RowOf(d, n, t) ==
    [number |-> n, kind |-> d.kind, date |-> t, party |-> d.party, base |-> d.base,
     extra |-> d.extra, milestone |-> d.milestone, rectifies |-> d.rectifies, external |-> FALSE]

LEMMA IssueIs ==
    ASSUME NEW t, t = day, NEW b, Shaped(b), NEW d, d.kind \in Kinds, NEW c, c = Issue(b, d),
           NEW key, key = KeyOf(d.kind), NEW n, n = NextOf(b.series[key], YearOf[t])
    PROVE  c = [invoices |-> WithRow(b.invoices, b.next, RowOf(d, n, t)),
                events |-> Append(b.events,
                               Event(HashBefore(b.events, Len(b.events) + 1), n, d.base)),
                next |-> b.next + 1,
                series |-> [b.series EXCEPT ![key] = Advance(@, YearOf[t])],
                extras |-> [x \in Extras |-> IF x = d.extra
                        THEN [status |-> "invoiced", invoice |-> b.next] ELSE b.extras[x]],
                milestones |-> [m \in Milestones |-> IF m = d.milestone
                        THEN [status |-> "invoiced", invoice |-> b.next] ELSE b.milestones[m]]]
  BY Zenon DEF Issue, Shaped, RowOf

LEMMA IssueSound ==
    ASSUME ShapesTellApart, NEW t \in Days, t = day, NEW b, Sound(b), NEW d, Draftlike(b, d),
           NEW c, c = Issue(b, d)
    PROVE  /\ Sound(c) /\ c.next = b.next + 1 /\ InBook(c) = InBook(b) \cup {b.next}
           /\ \A i \in InBook(b) : i # b.next /\ c.invoices[i] = b.invoices[i]
           /\ c.invoices[b.next].external = FALSE
  <1> DEFINE m == b.next
             y == YearOf[t]
  <1>1. PICK key \in SeriesKeys : key = KeyOf(d.kind)
    BY Keys DEF Draftlike
  <1>2. PICK n : n = NextOf(b.series[key], YearOf[t])
    OBVIOUS
  <1>3. /\ Shaped(b) /\ Rows(b) /\ Pointed(b) /\ Numbered(b) /\ Linked(b.events)
        /\ b.next \in Nat \ {0} /\ InBook(b) \subseteq 1..b.next - 1
        /\ b.events \in Seq(Chained) /\ b.series \in [SeriesKeys -> SeriesRow]
        /\ b.series[key] \in SeriesRow /\ CountedUp(b.series[key], ShapeOf(key))
        /\ \A i \in InBook(b) : b.invoices[i] \in Invoice
        /\ \A i \in InBook(b) : b.invoices[i].external =>
               b.invoices[i].extra = None /\ b.invoices[i].milestone = None
        /\ b.extras \in [Extras -> ChangeRow] /\ b.milestones \in [Milestones -> StageRow]
    BY DEF Sound, Rows, Shaped
  <1>4. y \in Years
    BY CalendarAssumption
  <1>5. ShapeOf(key) \in Dated
    BY Keys
  <1>6. /\ n \in Printed /\ n.pattern = ShapeOf(key) /\ n.year = y
        /\ Advance(b.series[key], y) \in SeriesRow
        /\ CountedUp(Advance(b.series[key], y), ShapeOf(key))
        /\ Advance(b.series[key], y).issued = Append(b.series[key].issued, n)
    BY <1>2, <1>3, <1>4, <1>5, AdvanceIs
  <1> DEFINE e == Event(HashBefore(b.events, Len(b.events) + 1), n, d.base)
             row == RowOf(d, n, t)
  <1>7. /\ row \in Invoice /\ row.number = n /\ row.kind = d.kind /\ row.date = t
        /\ row.base = d.base /\ row.extra = d.extra /\ row.milestone = d.milestone
        /\ row.rectifies = d.rectifies /\ row.external = FALSE
    <2>1. d.rectifies \in Nat
      BY <1>3 DEF Draftlike, None
    <2> QED BY <1>6, <2>1 DEF Draftlike, RowOf, Invoice
  <1>8. HashBefore(b.events, Len(b.events) + 1) \in Seq(Printed \X Nat)
    BY <1>3, HashIs
  <1>9. e \in Chained /\ e.number = n /\ e.total = d.base
    BY <1>6, <1>8, EventIs DEF Draftlike
  <1> HIDE DEF m, y, e, row
  <1>10. /\ c = [invoices |-> WithRow(b.invoices, m, row), events |-> Append(b.events, e),
                 next |-> m + 1, series |-> [b.series EXCEPT ![key] = Advance(@, y)],
                 extras |-> [x \in Extras |-> IF x = d.extra
                        THEN [status |-> "invoiced", invoice |-> m] ELSE b.extras[x]],
                 milestones |-> [s \in Milestones |-> IF s = d.milestone
                        THEN [status |-> "invoiced", invoice |-> m] ELSE b.milestones[s]]]
    BY <1>1, <1>2, <1>3, IssueIs DEF m, y, e, row, Draftlike
  <1>11. c = [invoices |-> c.invoices, events |-> c.events, next |-> c.next,
              series |-> c.series, extras |-> c.extras, milestones |-> c.milestones]
    BY <1>10
  <1>12. /\ c.next = m + 1 /\ m \in Nat \ {0} /\ InBook(b) \subseteq 1..m - 1
         /\ c.events = Append(b.events, e) /\ c.series = [b.series EXCEPT ![key] = Advance(@, y)]
    BY <1>3, <1>10 DEF m
  <1>13. c.invoices = WithRow(b.invoices, m, row)
    BY <1>10
  <1>14. /\ InBook(c) = InBook(b) \cup {m}
         /\ c.invoices = [k \in InBook(c) |-> IF k = m THEN row ELSE b.invoices[k]]
    BY <1>13 DEF WithRow, InBook
  <1>15. /\ m \notin InBook(b) /\ c.invoices[m] = row
         /\ \A i \in InBook(b) : i # m /\ c.invoices[i] = b.invoices[i]
    BY <1>12, <1>14
  <1>16. /\ c.extras = [x \in Extras |-> IF x = d.extra
                        THEN [status |-> "invoiced", invoice |-> m] ELSE b.extras[x]]
         /\ c.milestones = [s \in Milestones |-> IF s = d.milestone
                        THEN [status |-> "invoiced", invoice |-> m] ELSE b.milestones[s]]
    BY <1>10
  <1>17. IssuedIn(c) = IssuedIn(b) \cup {m}
    BY <1>7, <1>14, <1>15 DEF IssuedIn
  <1>18. Rows(c)
    <2>1. InBook(c) \subseteq 1..c.next - 1 /\ c.next \in Nat \ {0}
      BY <1>12, <1>14
    <2>2. c.invoices \in [InBook(c) -> Invoice]
      BY <1>3, <1>7, <1>14
    <2>3. \A i \in InBook(c) : c.invoices[i].external =>
              c.invoices[i].extra = None /\ c.invoices[i].milestone = None
      BY <1>3, <1>7, <1>14, <1>15
    <2>4. c.events \in Seq(Chained)
      BY <1>3, <1>9, <1>12
    <2>5. c.series \in [SeriesKeys -> SeriesRow]
      BY <1>3, <1>6, <1>12
    <2>6. c.extras \in [Extras -> ChangeRow]
      <3>1. [status |-> "invoiced", invoice |-> m] \in ChangeRow
        BY <1>12 DEF ChangeRow, ChangeStatus
      <3> QED BY <1>3, <1>16, <3>1
    <2>7. c.milestones \in [Milestones -> StageRow]
      <3>1. [status |-> "invoiced", invoice |-> m] \in StageRow
        BY <1>12 DEF StageRow
      <3> QED BY <1>3, <1>16, <3>1
    <2> QED BY <1>11, <2>1, <2>2, <2>3, <2>4, <2>5, <2>6, <2>7 DEF Rows, Shaped
  <1>19. Pointed(c)
    <2>1. \A i \in InBook(c) : c.invoices[i].rectifies \in InBook(c) \cup {None}
      BY <1>3, <1>7, <1>14, <1>15 DEF Pointed, Draftlike
    <2>2. ASSUME NEW x \in Extras, c.extras[x].invoice # None
          PROVE  c.extras[x].invoice \in InBook(c) /\ c.invoices[c.extras[x].invoice].extra = x
      <3>1. CASE x = d.extra
        BY <1>7, <1>14, <1>15, <1>16, <3>1
      <3>2. CASE x # d.extra
        BY <1>3, <1>14, <1>15, <1>16, <2>2, <3>2 DEF Pointed
      <3> QED BY <3>1, <3>2
    <2>3. ASSUME NEW s \in Milestones, c.milestones[s].invoice # None
          PROVE  /\ c.milestones[s].invoice \in InBook(c)
                 /\ c.invoices[c.milestones[s].invoice].milestone = s
      <3>1. CASE s = d.milestone
        BY <1>7, <1>14, <1>15, <1>16, <3>1
      <3>2. CASE s # d.milestone
        BY <1>3, <1>14, <1>15, <1>16, <2>3, <3>2 DEF Pointed
      <3> QED BY <3>1, <3>2
    <2> QED BY <2>1, <2>2, <2>3 DEF Pointed
  <1>20. Numbered(c)
    <2>1. ASSUME NEW i \in IssuedIn(c)
          PROVE  /\ c.invoices[i].number \in Printed
                 /\ c.invoices[i].number.year = YearOf[c.invoices[i].date]
                 /\ c.invoices[i].number.pattern = ShapeOf(KeyOf(c.invoices[i].kind))
      <3>1. CASE i = m
        BY <1>1, <1>6, <1>7, <1>15, <3>1 DEF y
      <3>2. CASE i # m
        <4>1. i \in IssuedIn(b) /\ i \in InBook(b)
          BY <1>17, <3>2 DEF IssuedIn
        <4> QED BY <1>3, <1>15, <4>1 DEF Numbered
      <3> QED BY <3>1, <3>2
    <2> QED BY <2>1 DEF Numbered
  <1>21. \A k \in SeriesKeys : CountedUp(c.series[k], ShapeOf(k))
    <2>1. ASSUME NEW k \in SeriesKeys PROVE CountedUp(c.series[k], ShapeOf(k))
      <3>1. CASE k = key
        BY <1>3, <1>6, <1>12, <3>1
      <3>2. CASE k # key
        BY <1>3, <1>12, <3>2 DEF Sound
      <3> QED BY <3>1, <3>2
    <2> QED BY <2>1
  <1>22. /\ DOMAIN c.events = 1..Len(b.events) + 1 /\ Len(b.events) \in Nat
         /\ DOMAIN b.events = 1..Len(b.events) /\ Len(c.events) = Len(b.events) + 1
         /\ \A k \in 1..Len(b.events) : c.events[k] = b.events[k]
         /\ c.events[Len(b.events) + 1] = e
    BY <1>3, <1>12
  <1>23. Linked(c.events)
    <2>1. ASSUME NEW k \in DOMAIN c.events
          PROVE  c.events[k] = Event(HashBefore(c.events, k), c.events[k].number, c.events[k].total)
      <3>1. k \in Nat /\ k >= 1 /\ HashBefore(c.events, k) = HashBefore(b.events, k)
        <4>1. k \in Nat /\ k >= 1
          BY <1>22
        <4>2. k # 1 => k - 1 \in 1..Len(b.events)
          BY <1>22
        <4> QED BY <1>22, <4>1, <4>2 DEF HashBefore
      <3>2. CASE k = Len(b.events) + 1
        BY <1>9, <1>22, <3>1, <3>2 DEF e
      <3>3. CASE k # Len(b.events) + 1
        BY <1>3, <1>22, <3>1, <3>3 DEF Linked
      <3> QED BY <3>2, <3>3
    <2> QED BY <2>1 DEF Linked
  <1>24. \A i \in InBook(b) : i < m
    BY <1>12
  <1>25. \E s : Chain(c, s)
    <2>1. PICK s : Chain(b, s)
      BY DEF Sound
    <2>2. /\ Listing(s, IssuedIn(b)) /\ Len(s) = Len(b.events)
          /\ \A k \in DOMAIN s : /\ b.events[k].number = b.invoices[s[k]].number
                                 /\ b.events[k].total = b.invoices[s[k]].base
      BY <2>1 DEF Chain
    <2>3. \A i \in IssuedIn(b) : i < m
      BY <1>24 DEF IssuedIn
    <2> DEFINE u == Append(s, m)
    <2>4. /\ Listing(u, IssuedIn(c)) /\ u \in Seq(Nat) /\ Len(u) = Len(s) + 1
          /\ \A k \in DOMAIN s : u[k] = s[k]
          /\ u[Len(s) + 1] = m
      <3>1. m \in Nat /\ Listing(s, IssuedIn(b))
        BY <1>12, <2>2
      <3> QED BY <1>17, <2>3, <3>1, ListingGrows
    <2> HIDE DEF u
    <2>5. DOMAIN s = 1..Len(b.events) /\ DOMAIN u = 1..Len(b.events) + 1
      BY <2>2, <2>4 DEF Listing
    <2>6. ASSUME NEW k \in DOMAIN u
          PROVE  /\ c.events[k].number = c.invoices[u[k]].number
                 /\ c.events[k].total = c.invoices[u[k]].base
      <3>1. CASE k = Len(b.events) + 1
        BY <1>7, <1>9, <1>15, <1>22, <2>2, <2>4, <3>1
      <3>2. CASE k # Len(b.events) + 1
        <4>1. k \in DOMAIN s /\ s[k] \in InBook(b)
          <5>1. k \in DOMAIN s
            BY <1>22, <2>5, <3>2
          <5> QED BY <2>2, <5>1 DEF Listing, IssuedIn
        <4>2. c.events[k] = b.events[k] /\ u[k] = s[k]
          BY <1>22, <2>4, <2>5, <4>1
        <4>3. c.invoices[s[k]] = b.invoices[s[k]]
          BY <1>15, <4>1
        <4> QED BY <2>2, <4>1, <4>2, <4>3
      <3> QED BY <3>1, <3>2
    <2>7. Chain(c, u)
      BY <1>22, <2>2, <2>4, <2>6 DEF Chain
    <2> QED BY <2>7
  <1>26. ASSUME NEW k \in SeriesKeys PROVE \E s : Run(c, k, s)
    <2>1. PICK s : Run(b, k, s)
      BY DEF Sound
    <2>2. /\ Listing(s, MineIn(b, k)) /\ Len(s) = Len(b.series[k].issued)
          /\ \A l \in DOMAIN s : b.series[k].issued[l] = b.invoices[s[l]].number
          /\ DOMAIN s = 1..Len(s) /\ Len(s) \in Nat
          /\ \A l \in DOMAIN s : s[l] \in InBook(b)
      BY <2>1 DEF Run, Listing, MineIn, IssuedIn
    <2>3. \A i \in MineIn(b, k) : i < m
      BY <1>24 DEF MineIn, IssuedIn
    <2>4. \A i \in IssuedIn(b) : c.invoices[i] = b.invoices[i] /\ i # m
      BY <1>15 DEF IssuedIn
    <2>5. CASE k = key
      <3>1. MineIn(c, k) = MineIn(b, k) \cup {m}
        BY <1>1, <1>7, <1>15, <1>17, <2>4, <2>5 DEF MineIn
      <3> DEFINE u == Append(s, m)
      <3>2. /\ Listing(u, MineIn(c, k)) /\ u \in Seq(Nat) /\ Len(u) = Len(s) + 1
            /\ \A l \in DOMAIN s : u[l] = s[l]
            /\ u[Len(s) + 1] = m
        <4>1. m \in Nat /\ Listing(s, MineIn(b, k))
          BY <1>12, <2>2
        <4>2. PICK S : S = MineIn(b, k)
          OBVIOUS
        <4>3. Listing(s, S) /\ \A i \in S : i < m
          BY <2>3, <4>1, <4>2
        <4>4. /\ Listing(u, S \cup {m}) /\ u \in Seq(Nat) /\ Len(u) = Len(s) + 1
              /\ \A l \in DOMAIN s : u[l] = s[l]
              /\ u[Len(s) + 1] = m
          BY <4>1, <4>3, ListingGrows
        <4> HIDE DEF u
        <4> QED BY <3>1, <4>2, <4>4
      <3> HIDE DEF u
      <3>3. DOMAIN u = 1..Len(s) + 1
        BY <3>2
      <3>4. b.series[k].issued \in Seq(Printed)
        BY <1>3, SeriesRowIs
      <3>5. c.series[k].issued = Append(b.series[k].issued, n)
        BY <1>3, <1>6, <1>12, <2>5
      <3>6. /\ Len(c.series[k].issued) = Len(s) + 1 /\ c.series[k].issued[Len(s) + 1] = n
            /\ \A l \in 1..Len(s) : c.series[k].issued[l] = b.series[k].issued[l]
        BY <1>6, <2>2, <3>4, <3>5
      <3>7. ASSUME NEW l \in DOMAIN u PROVE c.series[k].issued[l] = c.invoices[u[l]].number
        <4>1. CASE l = Len(s) + 1
          BY <1>7, <1>15, <3>2, <3>6, <4>1
        <4>2. CASE l # Len(s) + 1
          <5>1. l \in DOMAIN s /\ l \in 1..Len(s)
            BY <2>2, <3>3, <4>2
          <5>2. u[l] = s[l] /\ c.series[k].issued[l] = b.series[k].issued[l]
            BY <2>2, <3>2, <3>6, <5>1
          <5> QED BY <1>15, <2>2, <5>1, <5>2
        <4> QED BY <4>1, <4>2
      <3>8. Run(c, k, u)
        BY <3>2, <3>6, <3>7 DEF Run
      <3> QED BY <3>8
    <2>6. CASE k # key
      <3>1. MineIn(c, k) = MineIn(b, k)
        BY <1>1, <1>7, <1>15, <1>17, <2>4, <2>6 DEF MineIn
      <3>2. c.series[k] = b.series[k]
        BY <1>3, <1>12, <2>6
      <3>3. Run(c, k, s)
        BY <1>15, <2>2, <3>1, <3>2 DEF Run
      <3> QED BY <3>3
    <2> QED BY <2>5, <2>6
  <1>27. Sound(c)
    BY <1>18, <1>19, <1>20, <1>21, <1>23, <1>25, <1>26 DEF Sound
  <1> QED BY <1>7, <1>12, <1>14, <1>15, <1>27 DEF m
-----------------------------------------------------------------------------
(* Handing back and withdrawing. *)

LEMMA HandBackIs ==
    ASSUME NEW b, Shaped(b), NEW i, NEW h, h = HandBack(b, i)
    PROVE  h = [invoices |-> b.invoices, events |-> b.events, next |-> b.next,
                series |-> b.series,
                extras |-> [x \in Extras |->
                    IF x = b.invoices[i].extra /\ b.extras[x].invoice = i
                    THEN [status |-> "approved", invoice |-> None] ELSE b.extras[x]],
                milestones |-> [m \in Milestones |->
                    IF m = b.invoices[i].milestone /\ b.milestones[m].invoice = i
                    THEN [status |-> "pending", invoice |-> None] ELSE b.milestones[m]]]
  BY Zenon DEF HandBack, Shaped

LEMMA HandBackSound ==
    ASSUME NEW b, Sound(b), NEW i \in InBook(b), NEW h, h = HandBack(b, i)
    PROVE  /\ Sound(h)
           /\ h.invoices = b.invoices /\ h.events = b.events /\ h.next = b.next
           /\ h.series = b.series
           /\ \A x \in Extras : h.extras[x].invoice # i
           /\ \A m \in Milestones : h.milestones[m].invoice # i
  <1>1. /\ Shaped(b) /\ Rows(b) /\ Pointed(b) /\ i \in Nat \ {0}
        /\ b.extras \in [Extras -> ChangeRow] /\ b.milestones \in [Milestones -> StageRow]
    BY DEF Sound, Rows, Shaped
  <1>2. h = [invoices |-> b.invoices, events |-> b.events, next |-> b.next,
             series |-> b.series,
             extras |-> [x \in Extras |->
                    IF x = b.invoices[i].extra /\ b.extras[x].invoice = i
                    THEN [status |-> "approved", invoice |-> None] ELSE b.extras[x]],
             milestones |-> [m \in Milestones |->
                    IF m = b.invoices[i].milestone /\ b.milestones[m].invoice = i
                    THEN [status |-> "pending", invoice |-> None] ELSE b.milestones[m]]]
    BY <1>1, HandBackIs
  <1>3. /\ h = [invoices |-> h.invoices, events |-> h.events, next |-> h.next,
                series |-> h.series, extras |-> h.extras, milestones |-> h.milestones]
        /\ h.invoices = b.invoices /\ h.events = b.events /\ h.next = b.next
        /\ h.series = b.series
    BY <1>2
  <1>4. \A x \in Extras :
            \/ h.extras[x] = [status |-> "approved", invoice |-> None]
            \/ /\ h.extras[x] = b.extras[x]
               /\ ~(x = b.invoices[i].extra /\ b.extras[x].invoice = i)
    BY <1>2
  <1>5. \A m \in Milestones :
            \/ h.milestones[m] = [status |-> "pending", invoice |-> None]
            \/ /\ h.milestones[m] = b.milestones[m]
               /\ ~(m = b.invoices[i].milestone /\ b.milestones[m].invoice = i)
    BY <1>2
  <1>6. i # None
    BY <1>1 DEF None
  <1>7. \A x \in Extras : h.extras[x].invoice # i
    BY <1>1, <1>4, <1>6 DEF Pointed
  <1>8. \A m \in Milestones : h.milestones[m].invoice # i
    BY <1>1, <1>5, <1>6 DEF Pointed
  <1>9. h.extras \in [Extras -> ChangeRow] /\ h.milestones \in [Milestones -> StageRow]
    <2>1. [status |-> "approved", invoice |-> None] \in ChangeRow
      BY DEF ChangeRow, ChangeStatus, None
    <2>2. [status |-> "pending", invoice |-> None] \in StageRow
      BY DEF StageRow, None
    <2>3. /\ h.extras = [x \in Extras |->
                    IF x = b.invoices[i].extra /\ b.extras[x].invoice = i
                    THEN [status |-> "approved", invoice |-> None] ELSE b.extras[x]]
          /\ h.milestones = [m \in Milestones |->
                    IF m = b.invoices[i].milestone /\ b.milestones[m].invoice = i
                    THEN [status |-> "pending", invoice |-> None] ELSE b.milestones[m]]
      BY <1>2
    <2> QED BY <1>1, <2>1, <2>2, <2>3
  <1>10. InBook(h) = InBook(b) /\ IssuedIn(h) = IssuedIn(b)
    BY <1>3 DEF InBook, IssuedIn
  <1>11. \A key \in SeriesKeys : MineIn(h, key) = MineIn(b, key)
    BY <1>3, <1>10 DEF MineIn
  <1>12. Rows(h)
    BY <1>1, <1>3, <1>9, <1>10 DEF Rows, Shaped
  <1>13. Pointed(h)
    <2>1. \A x \in Extras : h.extras[x].invoice # None => h.extras[x] = b.extras[x]
      BY <1>4
    <2>2. \A m \in Milestones : h.milestones[m].invoice # None => h.milestones[m] = b.milestones[m]
      BY <1>5
    <2> QED BY <1>1, <1>3, <1>10, <2>1, <2>2 DEF Pointed
  <1>14. Numbered(h) /\ Linked(h.events)
    BY <1>3, <1>10 DEF Numbered, Sound
  <1>15. \E s : Chain(h, s)
    BY <1>3, <1>10 DEF Chain, Sound
  <1>16. \A key \in SeriesKeys : \E s : Run(h, key, s)
    BY <1>3, <1>11 DEF Run, Sound
  <1>17. \A key \in SeriesKeys : CountedUp(h.series[key], ShapeOf(key))
    BY <1>3 DEF Sound
  <1>18. Sound(h)
    BY <1>12, <1>13, <1>14, <1>15, <1>16, <1>17 DEF Sound
  <1> QED BY <1>3, <1>7, <1>8, <1>18

LEMMA RowsButIs ==
    ASSUME NEW b, NEW i
    PROVE  /\ DOMAIN RowsBut(b, i) = InBook(b) \ {i}
           /\ \A j \in InBook(b) \ {i} : RowsBut(b, i)[j] = b.invoices[j]
           /\ RowsBut(b, i) = [j \in InBook(b) \ {i} |-> b.invoices[j]]
  BY DEF RowsBut, Restrict, InBook

LEMMA WithdrawIs ==
    ASSUME NEW b, Shaped(b), NEW i, NEW c, c = Withdraw(b, i), NEW h, h = HandBack(b, i),
           NEW key, key = KeyOf(b.invoices[i].kind), NEW y, y = YearOf[b.invoices[i].date]
    PROVE  c = [invoices |-> RowsBut(b, i), events |-> SubSeq(b.events, 1, Len(b.events) - 1),
                next |-> b.next, series |-> [b.series EXCEPT ![key] = GiveBack(@, y)],
                extras |-> h.extras, milestones |-> h.milestones]
  BY Zenon DEF Withdraw, HandBack, Shaped

\* What invoiceUndoBlock reads in the book before it lets an invoice go.
LastIssued(b, i) ==
    LET number == b.invoices[i].number   issued == b.series[KeyOf(b.invoices[i].kind)].issued
    IN /\ b.events # <<>> /\ b.events[Len(b.events)].number = number
       /\ issued # <<>> /\ issued[Len(issued)] = number
       /\ ~Rectified(b, i)

LEMMA WithdrawSound ==
    ASSUME ShapesTellApart, NEW b, Sound(b), NEW i \in IssuedIn(b), LastIssued(b, i),
           NEW c, c = Withdraw(b, i)
    PROVE  /\ Sound(c) /\ c.next = b.next /\ InBook(c) = InBook(b) \ {i}
           /\ \A j \in InBook(b) \ {i} : c.invoices[j] = b.invoices[j]
  <1>1. /\ Shaped(b) /\ Rows(b) /\ Pointed(b) /\ Numbered(b) /\ Linked(b.events) /\ i \in InBook(b)
        /\ b.next \in Nat \ {0} /\ InBook(b) \subseteq 1..b.next - 1
        /\ b.events \in Seq(Chained) /\ b.series \in [SeriesKeys -> SeriesRow]
        /\ b.invoices \in [InBook(b) -> Invoice] /\ b.invoices[i] \in Invoice
        /\ \A j \in InBook(b) : b.invoices[j].external =>
               b.invoices[j].extra = None /\ b.invoices[j].milestone = None
    BY DEF Sound, Rows, Shaped, IssuedIn
  <1>2. PICK key \in SeriesKeys : key = KeyOf(b.invoices[i].kind)
    BY <1>1, Keys, InvoiceIs
  <1>3. PICK y : y = YearOf[b.invoices[i].date]
    OBVIOUS
  <1>4. PICK h : h = HandBack(b, i)
    OBVIOUS
  <1>5. /\ Sound(h) /\ h.invoices = b.invoices /\ h.events = b.events /\ h.next = b.next
        /\ h.series = b.series
        /\ \A x \in Extras : h.extras[x].invoice # i
        /\ \A m \in Milestones : h.milestones[m].invoice # i
    BY <1>1, <1>4, HandBackSound
  <1>6. c = [invoices |-> RowsBut(b, i), events |-> SubSeq(b.events, 1, Len(b.events) - 1),
             next |-> b.next, series |-> [b.series EXCEPT ![key] = GiveBack(@, y)],
             extras |-> h.extras, milestones |-> h.milestones]
    BY <1>1, <1>2, <1>3, <1>4, WithdrawIs
  <1>7. /\ c = [invoices |-> c.invoices, events |-> c.events, next |-> c.next,
                series |-> c.series, extras |-> c.extras, milestones |-> c.milestones]
        /\ c.next = b.next /\ c.events = SubSeq(b.events, 1, Len(b.events) - 1)
        /\ c.series = [b.series EXCEPT ![key] = GiveBack(@, y)]
        /\ c.extras = h.extras /\ c.milestones = h.milestones
        /\ c.invoices = RowsBut(b, i)
    BY <1>6
  <1>8. /\ InBook(c) = InBook(b) \ {i}
        /\ c.invoices = [j \in InBook(b) \ {i} |-> b.invoices[j]]
        /\ \A j \in InBook(b) \ {i} : c.invoices[j] = b.invoices[j]
    <2>1. c.invoices = RowsBut(b, i)
      BY <1>7
    <2>2. c.invoices = [j \in InBook(b) \ {i} |-> b.invoices[j]]
      BY <2>1, RowsButIs
    <2>3. InBook(c) = InBook(b) \ {i}
      BY <2>2 DEF InBook
    <2> QED BY <2>2, <2>3
  <1>9. IssuedIn(c) = IssuedIn(b) \ {i}
    BY <1>8 DEF IssuedIn
  <1>10. \A k \in SeriesKeys : MineIn(c, k) = MineIn(b, k) \ {i}
    BY <1>8, <1>9 DEF MineIn, IssuedIn
  <1> DEFINE number == b.invoices[i].number
             r == b.series[key]
             n == Len(b.events)
             o == Len(r.issued)
  <1>11. /\ b.events # <<>> /\ b.events[n].number = number
         /\ r.issued # <<>> /\ r.issued[o] = number /\ ~Rectified(b, i)
    BY <1>2 DEF LastIssued
  <1>12. /\ r \in SeriesRow /\ CountedUp(r, ShapeOf(key)) /\ number.year = y
    BY <1>1, <1>2, <1>3 DEF Sound, Numbered
  <1>13. /\ GiveBack(r, y) \in SeriesRow /\ CountedUp(GiveBack(r, y), ShapeOf(key))
         /\ GiveBack(r, y).issued = SubSeq(r.issued, 1, o - 1)
    BY <1>11, <1>12, GiveBackIs
  <1>14. \A k \in SeriesKeys : c.series[k] = IF k = key THEN GiveBack(r, y) ELSE b.series[k]
    BY <1>1, <1>7
  <1>15. n \in Nat /\ n >= 1 /\ DOMAIN b.events = 1..n
    BY <1>1, <1>11
  <1>16. /\ c.events \in Seq(Chained) /\ Len(c.events) = n - 1 /\ DOMAIN c.events = 1..n - 1
         /\ \A k \in 1..n - 1 : c.events[k] = b.events[k] /\ k \in DOMAIN b.events
    BY <1>1, <1>7, <1>15
  <1> HIDE DEF number, r, n, o
  <1>17. Rows(c)
    <2>1. InBook(c) \subseteq 1..c.next - 1
      BY <1>1, <1>7, <1>8
    <2>2. c.invoices \in [InBook(c) -> Invoice]
      BY <1>1, <1>8
    <2>3. \A j \in InBook(c) : c.invoices[j].external =>
              c.invoices[j].extra = None /\ c.invoices[j].milestone = None
      BY <1>1, <1>8
    <2>4. c.series \in [SeriesKeys -> SeriesRow]
      BY <1>1, <1>7, <1>13 DEF r
    <2>5. c.extras \in [Extras -> ChangeRow] /\ c.milestones \in [Milestones -> StageRow]
      BY <1>5, <1>7 DEF Sound, Rows, Shaped
    <2> QED BY <1>1, <1>7, <1>16, <2>1, <2>2, <2>3, <2>4, <2>5 DEF Rows, Shaped
  <1>18. Pointed(c)
    <2>1. \A j \in InBook(c) : c.invoices[j].rectifies \in InBook(c) \cup {None}
      BY <1>1, <1>8, <1>11 DEF Pointed, Rectified
    <2>2. Pointed(h) /\ InBook(h) = InBook(b)
      BY <1>5 DEF Sound, InBook
    <2>3. \A x \in Extras : c.extras[x].invoice # None =>
              c.extras[x].invoice \in InBook(c) /\ c.invoices[c.extras[x].invoice].extra = x
      BY <1>5, <1>7, <1>8, <2>2 DEF Pointed
    <2>4. \A m \in Milestones : c.milestones[m].invoice # None =>
              /\ c.milestones[m].invoice \in InBook(c)
              /\ c.invoices[c.milestones[m].invoice].milestone = m
      BY <1>5, <1>7, <1>8, <2>2 DEF Pointed
    <2> QED BY <2>1, <2>3, <2>4 DEF Pointed
  <1>19. Numbered(c)
    <2>1. ASSUME NEW j \in IssuedIn(c) PROVE j \in IssuedIn(b) /\ c.invoices[j] = b.invoices[j]
      BY <1>8, <1>9 DEF IssuedIn
    <2> QED BY <1>1, <2>1 DEF Numbered
  <1>20. \A k \in SeriesKeys : CountedUp(c.series[k], ShapeOf(k))
    <2>1. ASSUME NEW k \in SeriesKeys PROVE CountedUp(c.series[k], ShapeOf(k))
      <3>1. CASE k = key
        BY <1>13, <1>14, <3>1
      <3>2. CASE k # key
        BY <1>14, <3>2 DEF Sound
      <3> QED BY <3>1, <3>2
    <2> QED BY <2>1
  <1>21. Linked(c.events)
    <2>1. ASSUME NEW k \in DOMAIN c.events
          PROVE  c.events[k] = Event(HashBefore(c.events, k), c.events[k].number, c.events[k].total)
      <3>1. k \in 1..n - 1 /\ (k # 1 => k - 1 \in 1..n - 1)
        BY <1>15, <1>16
      <3>2. HashBefore(c.events, k) = HashBefore(b.events, k)
        BY <1>16, <3>1 DEF HashBefore
      <3> QED BY <1>1, <1>16, <3>1, <3>2 DEF Linked
    <2> QED BY <2>1 DEF Linked
  <1>22. \E s : Chain(c, s)
    <2>1. PICK s : Chain(b, s)
      BY DEF Sound
    <2>2. /\ Listing(s, IssuedIn(b)) /\ Len(s) = n
          /\ \A k \in DOMAIN s : /\ b.events[k].number = b.invoices[s[k]].number
                                 /\ b.events[k].total = b.invoices[s[k]].base
      BY <2>1 DEF Chain, n
    <2>3. DOMAIN s = 1..n /\ n \in DOMAIN s /\ s # <<>> /\ s[n] \in IssuedIn(b)
      BY <1>15, <2>2 DEF Listing
    <2>4. s[n] = i
      <3>1. b.invoices[s[n]].number = b.invoices[i].number
        BY <1>11, <2>2, <2>3 DEF number
      <3> QED BY <2>3, <3>1, NumbersDiffer
    <2> DEFINE u == SubSeq(s, 1, Len(s) - 1)
    <2>5. /\ Listing(u, IssuedIn(b) \ {s[Len(s)]}) /\ u \in Seq(Nat) /\ Len(u) = Len(s) - 1
          /\ \A k \in DOMAIN u : u[k] = s[k] /\ k \in DOMAIN s
      BY <2>2, <2>3, ListingShrinks
    <2> HIDE DEF u
    <2>6. Listing(u, IssuedIn(c)) /\ Len(u) = n - 1 /\ DOMAIN u = 1..n - 1
      BY <1>9, <2>2, <2>4, <2>5
    <2>7. ASSUME NEW k \in DOMAIN u
          PROVE  /\ c.events[k].number = c.invoices[u[k]].number
                 /\ c.events[k].total = c.invoices[u[k]].base
      <3>1. u[k] = s[k] /\ k \in DOMAIN s /\ c.events[k] = b.events[k]
        BY <1>16, <2>5, <2>6
      <3>2. c.invoices[u[k]] = b.invoices[u[k]]
        <4>1. u[k] \in IssuedIn(c)
          BY <2>6 DEF Listing
        <4> QED BY <1>8, <4>1 DEF IssuedIn
      <3> QED BY <2>2, <3>1, <3>2
    <2>8. Chain(c, u)
      BY <1>16, <2>6, <2>7 DEF Chain
    <2> QED BY <2>8
  <1>23. ASSUME NEW k \in SeriesKeys PROVE \E s : Run(c, k, s)
    <2>1. PICK s : Run(b, k, s)
      BY DEF Sound
    <2>2. /\ Listing(s, MineIn(b, k)) /\ Len(s) = Len(b.series[k].issued)
          /\ \A l \in DOMAIN s : b.series[k].issued[l] = b.invoices[s[l]].number
          /\ DOMAIN s = 1..Len(s) /\ Len(s) \in Nat
          /\ \A l \in DOMAIN s : s[l] \in MineIn(b, k)
      BY <2>1 DEF Run, Listing
    <2>3. CASE k = key
      <3>1. Len(s) = o /\ o \in Nat /\ o >= 1 /\ o \in DOMAIN s /\ s # <<>>
            /\ DOMAIN r.issued = 1..o /\ r.issued \in Seq(Printed)
        <4>1. r.issued \in Seq(Printed) /\ r.issued # <<>>
          BY <1>11, <1>12, SeriesRowIs
        <4>2. Len(s) = o
          BY <2>2, <2>3 DEF r, o
        <4> QED BY <2>2, <4>1, <4>2 DEF o
      <3>2. s[o] = i
        <4>1. b.invoices[s[o]].number = b.invoices[i].number
          BY <1>11, <2>2, <2>3, <3>1 DEF number, r
        <4>2. s[o] \in IssuedIn(b)
          BY <2>2, <3>1 DEF MineIn
        <4> QED BY <4>1, <4>2, NumbersDiffer
      <3> DEFINE u == SubSeq(s, 1, Len(s) - 1)
      <3>3. /\ Listing(u, MineIn(b, k) \ {s[Len(s)]}) /\ u \in Seq(Nat) /\ Len(u) = Len(s) - 1
            /\ \A l \in DOMAIN u : u[l] = s[l] /\ l \in DOMAIN s
        BY <2>2, <3>1, ListingShrinks
      <3> HIDE DEF u
      <3>4. Listing(u, MineIn(c, k)) /\ Len(u) = o - 1 /\ DOMAIN u = 1..o - 1
        <4>1. s[Len(s)] = i /\ Len(u) = o - 1
          BY <3>1, <3>2, <3>3
        <4>2. Listing(u, MineIn(c, k))
          BY <1>10, <3>3, <4>1
        <4> QED BY <3>3, <4>1, <4>2
      <3>5. c.series[k].issued = SubSeq(r.issued, 1, o - 1)
        BY <1>13, <1>14, <2>3
      <3>6. /\ Len(c.series[k].issued) = o - 1
            /\ \A l \in 1..o - 1 : c.series[k].issued[l] = r.issued[l]
        BY <3>1, <3>5
      <3>7. ASSUME NEW l \in DOMAIN u PROVE c.series[k].issued[l] = c.invoices[u[l]].number
        <4>1. u[l] = s[l] /\ l \in DOMAIN s /\ c.series[k].issued[l] = b.series[k].issued[l]
          BY <2>3, <3>3, <3>4, <3>6 DEF r
        <4>2. c.invoices[u[l]] = b.invoices[u[l]]
          <5>1. u[l] \in MineIn(c, k)
            BY <3>4 DEF Listing
          <5> QED BY <1>8, <5>1 DEF MineIn, IssuedIn
        <4> QED BY <2>2, <4>1, <4>2
      <3>8. Run(c, k, u)
        BY <3>4, <3>6, <3>7 DEF Run
      <3> QED BY <3>8
    <2>4. CASE k # key
      <3>1. i \notin MineIn(b, k)
        BY <1>2, <2>4 DEF MineIn
      <3>2. MineIn(c, k) = MineIn(b, k) /\ c.series[k] = b.series[k]
        BY <1>10, <1>14, <2>4, <3>1
      <3>3. \A l \in DOMAIN s : c.invoices[s[l]] = b.invoices[s[l]]
        BY <1>8, <2>2, <3>1 DEF MineIn, IssuedIn
      <3>4. Run(c, k, s)
        BY <2>2, <3>2, <3>3 DEF Run
      <3> QED BY <3>4
    <2> QED BY <2>3, <2>4
  <1>24. Sound(c)
    BY <1>17, <1>18, <1>19, <1>20, <1>21, <1>22, <1>23 DEF Sound
  <1> QED BY <1>7, <1>8, <1>24
-----------------------------------------------------------------------------
(* Editing rebuilds the chain from the link of the invoice on. *)

LEMMA TailGrows ==
    ASSUME NEW T, NEW h \in Seq(T), NEW g, NEW n \in Nat, \A j \in 1..n + 1 : g[j] \in T
    PROVE  /\ h \o [j \in 1..n |-> g[j]] \in Seq(T)
           /\ h \o [j \in 1..n + 1 |-> g[j]] = Append(h \o [j \in 1..n |-> g[j]], g[n + 1])
  <1> DEFINE u == [j \in 1..n |-> g[j]]
             v == [j \in 1..n + 1 |-> g[j]]
  <1>1. /\ u \in Seq(T) /\ Len(u) = n /\ \A j \in 1..n : u[j] = g[j]
        /\ v \in Seq(T) /\ Len(v) = n + 1 /\ \A j \in 1..n + 1 : v[j] = g[j]
    OBVIOUS
  <1> HIDE DEF u, v
  <1>2. /\ h \o u \in Seq(T) /\ Len(h \o u) = Len(h) + n
        /\ h \o v \in Seq(T) /\ Len(h \o v) = Len(h) + n + 1 /\ Len(h) \in Nat
        /\ \A j \in 1..Len(h) + n : (h \o u)[j] = IF j <= Len(h) THEN h[j] ELSE u[j - Len(h)]
        /\ \A j \in 1..Len(h) + n + 1 : (h \o v)[j] = IF j <= Len(h) THEN h[j] ELSE v[j - Len(h)]
    BY <1>1
  <1> DEFINE a == h \o u
             w == Append(a, g[n + 1])
             z == h \o v
  <1>3. /\ w \in Seq(T) /\ Len(w) = Len(h) + n + 1
        /\ \A j \in 1..Len(h) + n : w[j] = a[j]
        /\ w[Len(h) + n + 1] = g[n + 1]
    <2>1. a \in Seq(T) /\ Len(a) = Len(h) + n /\ g[n + 1] \in T
      BY <1>2
    <2> HIDE DEF a
    <2> QED BY <1>2, <2>1
  <1>4. ASSUME NEW j \in 1..Len(h) + n + 1 PROVE w[j] = z[j]
    <2>1. CASE j <= Len(h)
      BY <1>2, <1>3, <2>1
    <2>2. CASE j > Len(h) /\ j <= Len(h) + n
      <3>1. j - Len(h) \in 1..n /\ j - Len(h) \in 1..n + 1 /\ j \in 1..Len(h) + n /\ ~(j <= Len(h))
        BY <1>2, <2>2
      <3>2. w[j] = u[j - Len(h)] /\ z[j] = v[j - Len(h)]
        BY <1>2, <1>3, <3>1
      <3> QED BY <1>1, <3>1, <3>2
    <2>3. CASE j = Len(h) + n + 1
      <3>1. j - Len(h) = n + 1 /\ ~(j <= Len(h)) /\ n + 1 \in 1..n + 1
        BY <1>2, <2>3
      <3>2. z[j] = v[j - Len(h)]
        BY <1>2, <3>1
      <3>3. z[j] = g[n + 1]
        BY <1>1, <3>1, <3>2
      <3> QED BY <1>3, <2>3, <3>3
    <2> QED BY <1>2, <2>1, <2>2, <2>3
  <1>5. z \in Seq(T) /\ Len(z) = Len(w)
    BY <1>2, <1>3
  <1> HIDE DEF a, w, z
  <1>6. w = z
    BY <1>2, <1>3, <1>4, <1>5
  <1> QED BY <1>2, <1>6 DEF a, w, z, u, v

LEMMA RebuiltIs ==
    ASSUME NEW events \in Seq(Chained), Linked(events), NEW at \in DOMAIN events,
           \A k \in DOMAIN events : events[k].number = events[at].number => k = at,
           NEW number, number = events[at].number, NEW total \in Nat,
           NEW r, r = Rebuilt(events, number, total)
    PROVE  /\ r \in Seq(Chained) /\ DOMAIN r = DOMAIN events /\ Linked(r)
           /\ Len(r) = Len(events)
           /\ \A k \in DOMAIN r : r[k].number = events[k].number
           /\ \A k \in DOMAIN r : r[k].total = IF k = at THEN total ELSE events[k].total
  <1> DEFINE H == HashBefore(events, at)
             NowOf(k) == IF k = at THEN total ELSE events[k].total
             g == [j \in 1..Len(events) - at + 1 |->
                       Entry(events[at + j - 1].number, NowOf(at + j - 1))]
             Upto(k) == H \o [j \in 1..(k - at + 1) |->
                                 Entry(events[at + j - 1].number, NowOf(at + j - 1))]
             By(k) == H \o [j \in 1..(k - at + 1) |-> g[j]]
  <1>1. /\ DOMAIN events = 1..Len(events) /\ Len(events) \in Nat
        /\ at \in Nat /\ at >= 1 /\ at <= Len(events)
    OBVIOUS
  <1>2. at = CHOOSE k \in DOMAIN events : events[k].number = number
    OBVIOUS
  <1>3. r = [k \in DOMAIN events |-> IF k < at THEN events[k]
                ELSE [number |-> events[k].number, total |-> NowOf(k),
                      prev |-> Upto(k - 1), hash |-> Upto(k)]]
    BY <1>2, Zenon DEF Rebuilt
  <1>4. \A k \in DOMAIN events : events[k] \in Chained /\ events[k].number \in Printed
                                 /\ events[k].total \in Nat /\ NowOf(k) \in Nat
    <2>1. \A k \in DOMAIN events : events[k] \in Chained
      OBVIOUS
    <2>2. \A k \in DOMAIN events : events[k].number \in Printed /\ events[k].total \in Nat
      BY <2>1 DEF Chained
    <2>3. \A k \in DOMAIN events : NowOf(k) \in Nat
      BY <2>2
    <2> HIDE DEF NowOf
    <2> QED BY <2>1, <2>2, <2>3
  <1>5. \A k \in at - 1..Len(events) : Upto(k) = By(k)
    <2>1. ASSUME NEW k \in at - 1..Len(events) PROVE Upto(k) = By(k)
      <3>1. \A j \in 1..(k - at + 1) : j \in 1..Len(events) - at + 1
        BY <1>1
      <3>2. [j \in 1..(k - at + 1) |-> g[j]]
              = [j \in 1..(k - at + 1) |-> Entry(events[at + j - 1].number, NowOf(at + j - 1))]
        BY <3>1
      <3> QED BY <3>2
    <2> QED BY <2>1
  <1>6. H \in Seq(Printed \X Nat)
    BY <1>1, HashIs
  <1>7. ASSUME NEW j \in 1..Len(events) - at + 1
        PROVE  /\ g[j] = <<events[at + j - 1].number, NowOf(at + j - 1)>>
               /\ g[j] \in Printed \X Nat
    <2>1. at + j - 1 \in DOMAIN events
      BY <1>1
    <2>2. g[j] = <<events[at + j - 1].number, NowOf(at + j - 1)>>
      BY DEF Entry
    <2>3. events[at + j - 1].number \in Printed /\ NowOf(at + j - 1) \in Nat
      BY <1>4, <2>1
    <2> HIDE DEF g, NowOf
    <2> QED BY <2>2, <2>3
  <1> HIDE DEF H, g, NowOf, Upto
  <1>8. By(at - 1) = H
    <2>1. (at - 1) - at + 1 = 0 /\ [j \in 1..0 |-> g[j]] = <<>>
      BY <1>1
    <2>2. H \o <<>> = H
      BY <1>6
    <2> QED BY <2>1, <2>2
  <1>9. ASSUME NEW k \in at..Len(events)
        PROVE  /\ By(k) = Append(By(k - 1), <<events[k].number, NowOf(k)>>)
               /\ By(k - 1) \in Seq(Printed \X Nat)
    <2> DEFINE n == k - at
    <2>1. /\ n \in Nat /\ k - at + 1 = n + 1 /\ (k - 1) - at + 1 = n /\ at + (n + 1) - 1 = k
          /\ n + 1 \in 1..Len(events) - at + 1
          /\ \A j \in 1..n + 1 : j \in 1..Len(events) - at + 1
      BY <1>1
    <2> HIDE DEF n
    <2>2. \A j \in 1..n + 1 : g[j] \in Printed \X Nat
      BY <1>7, <2>1
    <2>3. /\ H \o [j \in 1..n |-> g[j]] \in Seq(Printed \X Nat)
          /\ H \o [j \in 1..n + 1 |-> g[j]] = Append(H \o [j \in 1..n |-> g[j]], g[n + 1])
      <3>1. PICK T : T = Printed \X Nat
        OBVIOUS
      <3>2. n \in Nat /\ H \in Seq(T) /\ \A j \in 1..n + 1 : g[j] \in T
        BY <1>6, <2>1, <2>2, <3>1
      <3>3. /\ H \o [j \in 1..n |-> g[j]] \in Seq(T)
            /\ H \o [j \in 1..n + 1 |-> g[j]] = Append(H \o [j \in 1..n |-> g[j]], g[n + 1])
        BY ONLY <3>2, TailGrows
      <3> QED BY <3>1, <3>3
    <2>4. g[n + 1] = <<events[k].number, NowOf(k)>>
      BY <1>7, <2>1
    <2> QED BY <2>1, <2>3, <2>4
  <1> HIDE DEF By
  <1>10. DOMAIN r = DOMAIN events
    BY <1>3
  <1>11. ASSUME NEW k \in DOMAIN events
         PROVE  /\ r[k] \in Chained /\ r[k].number = events[k].number /\ r[k].total = NowOf(k)
                /\ k < at => r[k] = events[k]
                /\ k >= at => r[k] = Event(By(k - 1), events[k].number, NowOf(k))
                /\ k >= at => r[k].hash = By(k)
    <2>1. CASE k < at
      BY <1>1, <1>3, <1>4, <2>1 DEF NowOf
    <2>2. CASE ~(k < at)
      <3>1. k \in at..Len(events) /\ k \in at - 1..Len(events) /\ k - 1 \in at - 1..Len(events)
        BY <1>1, <2>2
      <3>2. r[k] = [number |-> events[k].number, total |-> NowOf(k),
                    prev |-> Upto(k - 1), hash |-> Upto(k)]
        BY <1>3, <2>2
      <3>3. Upto(k - 1) = By(k - 1) /\ Upto(k) = By(k)
        BY <1>5, <3>1
      <3>4. /\ By(k) = Append(By(k - 1), <<events[k].number, NowOf(k)>>)
            /\ By(k - 1) \in Seq(Printed \X Nat)
        BY <1>9, <3>1
      <3>5. r[k] = Event(By(k - 1), events[k].number, NowOf(k))
        BY <3>2, <3>3, <3>4 DEF Event, Entry
      <3>6. /\ Event(By(k - 1), events[k].number, NowOf(k)) \in Chained
            /\ Event(By(k - 1), events[k].number, NowOf(k)).number = events[k].number
            /\ Event(By(k - 1), events[k].number, NowOf(k)).total = NowOf(k)
        BY <1>4, <3>4, EventIs
      <3> QED BY <2>2, <3>2, <3>3, <3>5, <3>6
    <2> QED BY <2>1, <2>2
  <1>12. r \in Seq(Chained) /\ Len(r) = Len(events)
    <2>1. r \in [1..Len(events) -> Chained]
      BY <1>1, <1>3, <1>11
    <2> QED BY <1>1, <2>1
  <1>13. ASSUME NEW k \in DOMAIN r
         PROVE  r[k] = Event(HashBefore(r, k), r[k].number, r[k].total)
    <2>0. k \in Nat /\ k >= 1 /\ k \in DOMAIN events /\ (k # 1 => k - 1 \in DOMAIN events)
      BY <1>1, <1>10
    <2>1. CASE k < at
      <3>1. k # 1 => r[k - 1] = events[k - 1]
        BY <1>1, <1>11, <2>0, <2>1
      <3>2. HashBefore(r, k) = HashBefore(events, k)
        BY <3>1 DEF HashBefore
      <3> QED BY <1>11, <2>0, <2>1, <3>2 DEF Linked
    <2>2. CASE k = at
      <3>1. k # 1 => r[k - 1] = events[k - 1]
        BY <1>1, <1>11, <2>0, <2>2
      <3>2. HashBefore(r, k) = H
        BY <2>2, <3>1 DEF HashBefore, H
      <3>3. r[k] = Event(By(k - 1), events[k].number, NowOf(k))
        BY <1>1, <1>11, <2>0, <2>2
      <3> QED BY <1>8, <1>11, <2>0, <2>2, <3>2, <3>3
    <2>3. CASE k > at
      <3>1. k - 1 \in DOMAIN events /\ k - 1 >= at /\ k # 1 /\ k >= at
        BY <1>1, <2>0, <2>3
      <3>2. HashBefore(r, k) = By(k - 1)
        BY <1>11, <3>1 DEF HashBefore
      <3> QED BY <1>11, <2>0, <3>1, <3>2
    <2> QED BY <1>1, <2>0, <2>1, <2>2, <2>3
  <1>14. Linked(r)
    BY <1>13 DEF Linked
  <1> QED BY <1>10, <1>11, <1>12, <1>14 DEF NowOf

\* An invoice addressed anew and for another amount.
Rewritten(r, party, base) ==
    [number |-> r.number, kind |-> r.kind, date |-> r.date, party |-> party, base |-> base,
     extra |-> r.extra, milestone |-> r.milestone, rectifies |-> r.rectifies,
     external |-> r.external]

\* A row with the fields of an invoice, of a kind and for an amount.
Plain(r) ==
    /\ r = [number |-> r.number, kind |-> r.kind, date |-> r.date, party |-> r.party,
            base |-> r.base, extra |-> r.extra, milestone |-> r.milestone,
            rectifies |-> r.rectifies, external |-> r.external]
    /\ r.base \in Nat /\ r.kind \in Kinds

LEMMA EditedRow ==
    ASSUME NEW r, Plain(r), NEW party, NEW base, NEW q,
           q = [r EXCEPT !.party = party, !.base = base]
    PROVE  q = Rewritten(r, party, base)
  <1>1. PICK number, kind, date, old, from, extra, milestone, rectifies, external :
            /\ r = [number |-> number, kind |-> kind, date |-> date, party |-> old,
                    base |-> from, extra |-> extra, milestone |-> milestone,
                    rectifies |-> rectifies, external |-> external]
    BY DEF Plain
  <1> QED BY <1>1 DEF Rewritten

LEMMA EditIs ==
    ASSUME NEW b, Shaped(b), NEW i \in InBook(b), Plain(b.invoices[i]), NEW party, NEW base,
           NEW c, c = Edit(b, i, party, base)
    PROVE  c = [invoices |-> [b.invoices EXCEPT ![i] = Rewritten(b.invoices[i], party, base)],
                events |-> Rebuilt(b.events, b.invoices[i].number, base), next |-> b.next,
                series |-> b.series, extras |-> b.extras, milestones |-> b.milestones]
  <1>1. PICK r : r = b.invoices[i]
    OBVIOUS
  <1>2. PICK q : q = [r EXCEPT !.party = party, !.base = base]
    OBVIOUS
  <1>3. q = Rewritten(r, party, base)
    BY Zenon, <1>1, <1>2, EditedRow
  <1> QED BY <1>1, <1>2, <1>3, Zenon DEF Edit, Shaped

LEMMA EditSound ==
    ASSUME ShapesTellApart, NEW b, Sound(b), NEW i \in IssuedIn(b), NEW party \in Customers,
           NEW base \in Nat, NEW c, c = Edit(b, i, party, base)
    PROVE  /\ Sound(c) /\ c.next = b.next /\ InBook(c) = InBook(b)
           /\ \A j \in InBook(b) \ {i} : c.invoices[j] = b.invoices[j]
           /\ c.invoices[i].external = b.invoices[i].external
  <1>1. /\ Shaped(b) /\ Rows(b) /\ Pointed(b) /\ Numbered(b) /\ Linked(b.events) /\ i \in InBook(b)
        /\ b.events \in Seq(Chained) /\ b.series \in [SeriesKeys -> SeriesRow]
        /\ b.invoices \in [InBook(b) -> Invoice] /\ b.invoices[i] \in Invoice
    BY DEF Sound, Rows, Shaped, IssuedIn
  <1>2. PICK q : q = Rewritten(b.invoices[i], party, base)
    OBVIOUS
  <1>4. /\ q \in Invoice /\ q.base = base /\ q.number = b.invoices[i].number
        /\ q.kind = b.invoices[i].kind /\ q.date = b.invoices[i].date
        /\ q.extra = b.invoices[i].extra /\ q.milestone = b.invoices[i].milestone
        /\ q.rectifies = b.invoices[i].rectifies /\ q.external = b.invoices[i].external
    BY <1>1, <1>2, InvoiceIs DEF Invoice, Rewritten
  <1>5. c = [invoices |-> [b.invoices EXCEPT ![i] = q],
             events |-> Rebuilt(b.events, b.invoices[i].number, base), next |-> b.next,
             series |-> b.series, extras |-> b.extras, milestones |-> b.milestones]
    <2>1. Plain(b.invoices[i])
      BY <1>1, InvoiceIs DEF Plain
    <2> QED BY <1>1, <1>2, <2>1, EditIs
  <1>6. /\ c = [invoices |-> c.invoices, events |-> c.events, next |-> c.next,
                series |-> c.series, extras |-> c.extras, milestones |-> c.milestones]
        /\ c.next = b.next /\ c.series = b.series /\ c.extras = b.extras
        /\ c.milestones = b.milestones /\ c.invoices = [b.invoices EXCEPT ![i] = q]
        /\ c.events = Rebuilt(b.events, b.invoices[i].number, base)
    BY <1>5
  <1>7. /\ InBook(c) = InBook(b) /\ c.invoices[i] = q
        /\ c.invoices \in [InBook(b) -> Invoice]
        /\ \A j \in InBook(b) : j # i => c.invoices[j] = b.invoices[j]
    BY <1>1, <1>4, <1>6 DEF InBook
  <1>8. \A j \in InBook(b) :
            /\ c.invoices[j].number = b.invoices[j].number
            /\ c.invoices[j].kind = b.invoices[j].kind
            /\ c.invoices[j].date = b.invoices[j].date
            /\ c.invoices[j].extra = b.invoices[j].extra
            /\ c.invoices[j].milestone = b.invoices[j].milestone
            /\ c.invoices[j].rectifies = b.invoices[j].rectifies
            /\ c.invoices[j].external = b.invoices[j].external
    BY <1>4, <1>7
  <1>9. IssuedIn(c) = IssuedIn(b)
    BY <1>7, <1>8 DEF IssuedIn
  <1>10. \A k \in SeriesKeys : MineIn(c, k) = MineIn(b, k)
    BY <1>8, <1>9 DEF MineIn, IssuedIn
  <1>11. PICK s : Chain(b, s)
    BY DEF Sound
  <1>12. /\ Listing(s, IssuedIn(b)) /\ Len(s) = Len(b.events)
         /\ \A k \in DOMAIN s : /\ b.events[k].number = b.invoices[s[k]].number
                                /\ b.events[k].total = b.invoices[s[k]].base
                                /\ s[k] \in IssuedIn(b) /\ s[k] \in InBook(b)
         /\ DOMAIN s = DOMAIN b.events
    BY <1>1, <1>11 DEF Chain, Listing, IssuedIn
  <1>13. PICK at \in DOMAIN s : s[at] = i
    BY <1>12 DEF Listing
  <1>14. ASSUME NEW k \in DOMAIN b.events, b.events[k].number = b.events[at].number
         PROVE  k = at
    <2>1. b.invoices[s[k]].number = b.invoices[s[at]].number
      BY <1>12, <1>13, <1>14
    <2>2. s[k] = s[at]
      BY <1>12, <1>13, <2>1, NumbersDiffer
    <2> QED BY <1>12, <1>13, <2>2, ListingOrder
  <1>15. PICK number : number = b.invoices[i].number
    OBVIOUS
  <1>16. PICK r : r = Rebuilt(b.events, number, base)
    OBVIOUS
  <1>17. number = b.events[at].number /\ at \in DOMAIN b.events /\ c.events = r
    BY <1>6, <1>12, <1>13, <1>15, <1>16
  <1>18. /\ r \in Seq(Chained) /\ DOMAIN r = DOMAIN b.events /\ Linked(r)
         /\ Len(r) = Len(b.events)
         /\ \A k \in DOMAIN r : r[k].number = b.events[k].number
         /\ \A k \in DOMAIN r : r[k].total = IF k = at THEN base ELSE b.events[k].total
    <2>1. \A k \in DOMAIN b.events : b.events[k].number = b.events[at].number => k = at
      BY <1>14
    <2>2. at \in DOMAIN b.events /\ number = b.events[at].number /\ Linked(b.events)
          /\ b.events \in Seq(Chained)
      BY <1>1, <1>17
    <2> QED BY <1>16, <2>1, <2>2, RebuiltIs
  <1>19. Rows(c)
    BY <1>1, <1>6, <1>7, <1>8, <1>17, <1>18 DEF Rows, Shaped
  <1>20. Pointed(c)
    BY <1>1, <1>6, <1>7, <1>8 DEF Pointed
  <1>21. Numbered(c)
    BY <1>1, <1>8, <1>9 DEF Numbered, IssuedIn
  <1>22. \A key \in SeriesKeys : CountedUp(c.series[key], ShapeOf(key))
    BY <1>6 DEF Sound
  <1>23. Linked(c.events)
    BY <1>17, <1>18
  <1>24. \E u : Chain(c, u)
    <2>1. ASSUME NEW k \in DOMAIN s
          PROVE  /\ c.events[k].number = c.invoices[s[k]].number
                 /\ c.events[k].total = c.invoices[s[k]].base
      <3>1. /\ s[k] \in InBook(b) /\ k \in DOMAIN r /\ k \in DOMAIN b.events
            /\ b.events[k].number = b.invoices[s[k]].number
            /\ b.events[k].total = b.invoices[s[k]].base
        BY <1>12, <1>18
      <3>2. c.events[k].number = c.invoices[s[k]].number
        BY <1>8, <1>17, <1>18, <3>1
      <3>3. CASE k = at
        BY <1>4, <1>7, <1>13, <1>17, <1>18, <3>1, <3>2, <3>3
      <3>4. CASE k # at
        <4>1. s[k] # i
          BY <1>12, <1>13, <3>4, ListingOrder
        <4> QED BY <1>7, <1>17, <1>18, <3>1, <3>2, <3>4, <4>1
      <3> QED BY <3>3, <3>4
    <2>2. Chain(c, s)
      BY <1>9, <1>12, <1>17, <1>18, <2>1 DEF Chain
    <2> QED BY <2>2
  <1>25. ASSUME NEW k \in SeriesKeys PROVE \E u : Run(c, k, u)
    <2>1. PICK u : Run(b, k, u)
      BY DEF Sound
    <2>2. \A l \in DOMAIN u : u[l] \in InBook(b)
      BY <2>1 DEF Run, Listing, MineIn, IssuedIn
    <2>3. Run(c, k, u)
      BY <1>6, <1>8, <1>10, <2>1, <2>2 DEF Run
    <2> QED BY <2>3
  <1>26. Sound(c)
    BY <1>19, <1>20, <1>21, <1>22, <1>23, <1>24, <1>25 DEF Sound
  <1> QED BY <1>6, <1>7, <1>8, <1>26
-----------------------------------------------------------------------------
(* What leaves the invoices issued here alone. *)

LEMMA IssuedKept ==
    ASSUME NEW b, Sound(b), NEW c, Rows(c), Pointed(c), IssuedIn(c) = IssuedIn(b),
           \A i \in IssuedIn(b) : c.invoices[i] = b.invoices[i],
           c.events = b.events, c.series = b.series
    PROVE  Sound(c)
  <1>1. \A key \in SeriesKeys : MineIn(c, key) = MineIn(b, key)
    BY DEF MineIn
  <1>2. Numbered(c) /\ Linked(c.events) /\ \A key \in SeriesKeys : CountedUp(c.series[key], ShapeOf(key))
    BY DEF Sound, Numbered
  <1>3. \E s : Chain(c, s)
    <2>1. PICK s : Chain(b, s)
      BY DEF Sound
    <2>2. \A k \in DOMAIN s : s[k] \in IssuedIn(b)
      BY <2>1 DEF Chain, Listing
    <2>3. Chain(c, s)
      BY <2>1, <2>2 DEF Chain
    <2> QED BY <2>3
  <1>4. ASSUME NEW key \in SeriesKeys PROVE \E s : Run(c, key, s)
    <2>1. PICK s : Run(b, key, s)
      BY DEF Sound
    <2>2. \A k \in DOMAIN s : s[k] \in IssuedIn(b)
      BY <2>1 DEF Run, Listing, MineIn
    <2>3. Run(c, key, s)
      BY <1>1, <2>1, <2>2 DEF Run
    <2> QED BY <2>3
  <1> QED BY <1>2, <1>3, <1>4 DEF Sound

LEMMA DecideSound ==
    ASSUME NEW b, Sound(b), NEW x \in Extras, NEW s \in ChangeStatus,
           NEW c, c = [b EXCEPT !.extras[x].status = s]
    PROVE  Sound(c) /\ c.next = b.next /\ c.invoices = b.invoices
  <1>1. /\ Rows(b) /\ Pointed(b) /\ b.extras \in [Extras -> ChangeRow]
        /\ b.extras[x] \in ChangeRow
    BY DEF Sound, Rows, Shaped
  <1>2. PICK r : r = [b.extras[x] EXCEPT !.status = s]
    OBVIOUS
  <1>3. r \in ChangeRow /\ r.invoice = b.extras[x].invoice
    BY <1>1, <1>2 DEF ChangeRow
  <1>e. PICK e : e = [b.extras EXCEPT ![x] = r]
    OBVIOUS
  <1>4. c = [invoices |-> b.invoices, events |-> b.events, next |-> b.next,
             series |-> b.series, extras |-> e, milestones |-> b.milestones]
    BY <1>1, <1>2, <1>e, Zenon DEF Rows, Shaped
  <1>5. /\ c = [invoices |-> c.invoices, events |-> c.events, next |-> c.next,
                series |-> c.series, extras |-> c.extras, milestones |-> c.milestones]
        /\ c.invoices = b.invoices /\ c.events = b.events /\ c.next = b.next
        /\ c.series = b.series /\ c.milestones = b.milestones
        /\ c.extras = e
    BY ONLY <1>4
  <1>6. /\ c.extras \in [Extras -> ChangeRow]
        /\ \A z \in Extras : c.extras[z].invoice = b.extras[z].invoice
    <2>1. e \in [Extras -> ChangeRow] /\ \A z \in Extras : e[z].invoice = b.extras[z].invoice
      BY <1>1, <1>3, <1>e
    <2> QED BY <1>5, <2>1
  <1>7. InBook(c) = InBook(b) /\ IssuedIn(c) = IssuedIn(b)
    BY <1>5 DEF InBook, IssuedIn
  <1>8. Rows(c)
    BY <1>1, <1>5, <1>6, <1>7 DEF Rows, Shaped
  <1>9. Pointed(c)
    BY <1>1, <1>5, <1>6, <1>7 DEF Pointed
  <1> QED BY <1>5, <1>7, <1>8, <1>9, IssuedKept

LEMMA RegisterSound ==
    ASSUME NEW b, Sound(b), NEW row \in Invoice, row.external = TRUE, row.extra = None,
           row.milestone = None, row.rectifies = None, NEW c,
           c = [b EXCEPT !.next = @ + 1, !.invoices = WithRow(@, b.next, row)]
    PROVE  /\ Sound(c) /\ c.next = b.next + 1 /\ InBook(c) = InBook(b) \cup {b.next}
           /\ \A i \in InBook(b) : i # b.next /\ c.invoices[i] = b.invoices[i]
  <1>1. /\ Rows(b) /\ Pointed(b) /\ b.next \in Nat \ {0} /\ InBook(b) \subseteq 1..b.next - 1
        /\ b.invoices \in [InBook(b) -> Invoice]
    BY DEF Sound, Rows, Shaped
  <1>2. c = [invoices |-> WithRow(b.invoices, b.next, row), events |-> b.events,
             next |-> b.next + 1, series |-> b.series, extras |-> b.extras,
             milestones |-> b.milestones]
    BY <1>1, Zenon DEF Rows, Shaped
  <1>3. /\ c = [invoices |-> c.invoices, events |-> c.events, next |-> c.next,
                series |-> c.series, extras |-> c.extras, milestones |-> c.milestones]
        /\ c.events = b.events /\ c.next = b.next + 1 /\ c.series = b.series
        /\ c.extras = b.extras /\ c.milestones = b.milestones
        /\ c.invoices = WithRow(b.invoices, b.next, row)
    BY <1>2
  <1>4. /\ InBook(c) = InBook(b) \cup {b.next}
        /\ c.invoices = [k \in InBook(c) |-> IF k = b.next THEN row ELSE b.invoices[k]]
    <2>1. c.invoices = WithRow(b.invoices, b.next, row)
      BY <1>3
    <2> QED BY <2>1 DEF WithRow, InBook
  <1>5. /\ b.next \notin InBook(b) /\ c.invoices[b.next] = row
        /\ \A i \in InBook(b) : i # b.next /\ c.invoices[i] = b.invoices[i]
    BY <1>1, <1>4
  <1>6. Rows(c)
    <2>1. c.next \in Nat \ {0} /\ InBook(c) \subseteq 1..c.next - 1
      <3>1. c.next = b.next + 1 /\ InBook(c) = InBook(b) \cup {b.next}
        BY Zenon, <1>3, <1>4
      <3> QED BY <1>1, <3>1
    <2>2. c.invoices \in [InBook(c) -> Invoice]
      BY <1>1, <1>4
    <2>3. \A i \in InBook(c) : c.invoices[i].external =>
              c.invoices[i].extra = None /\ c.invoices[i].milestone = None
      BY <1>1, <1>4, <1>5 DEF Rows, Shaped
    <2>4. /\ c.events \in Seq(Chained) /\ c.series \in [SeriesKeys -> SeriesRow]
          /\ c.extras \in [Extras -> ChangeRow] /\ c.milestones \in [Milestones -> StageRow]
          /\ c.next \in Nat \ {0}
      BY <1>1, <1>3 DEF Rows, Shaped
    <2>5. c = [invoices |-> c.invoices, events |-> c.events, next |-> c.next,
               series |-> c.series, extras |-> c.extras, milestones |-> c.milestones]
      BY <1>3
    <2> QED BY <2>1, <2>2, <2>3, <2>4, <2>5 DEF Rows, Shaped
  <1>7. Pointed(c)
    <2>1. \A i \in InBook(c) : c.invoices[i].rectifies \in InBook(c) \cup {None}
      <3>1. \A i \in InBook(b) : b.invoices[i].rectifies \in InBook(b) \cup {None}
        BY <1>1 DEF Pointed
      <3> QED BY <1>4, <1>5, <3>1
    <2>2. \A x \in Extras : c.extras[x].invoice # None =>
              c.extras[x].invoice \in InBook(c) /\ c.invoices[c.extras[x].invoice].extra = x
      <3>1. c.extras = b.extras
        BY <1>3
      <3> QED BY <1>1, <1>4, <1>5, <3>1 DEF Pointed
    <2>3. \A m \in Milestones : c.milestones[m].invoice # None =>
              /\ c.milestones[m].invoice \in InBook(c)
              /\ c.invoices[c.milestones[m].invoice].milestone = m
      <3>1. c.milestones = b.milestones
        BY <1>3
      <3> QED BY <1>1, <1>4, <1>5, <3>1 DEF Pointed
    <2> QED BY <2>1, <2>2, <2>3 DEF Pointed
  <1>8. IssuedIn(c) = IssuedIn(b) /\ \A i \in IssuedIn(b) : c.invoices[i] = b.invoices[i]
    BY <1>4, <1>5 DEF IssuedIn
  <1>9. Sound(c)
    BY <1>3, <1>6, <1>7, <1>8, IssuedKept
  <1> QED BY Zenon, <1>3, <1>4, <1>5, <1>9

LEMMA RemoveSound ==
    ASSUME NEW b, Sound(b), NEW i \in InBook(b), b.invoices[i].external, ~Rectified(b, i),
           NEW c, c = [b EXCEPT !.invoices = RowsBut(b, i)]
    PROVE  /\ Sound(c) /\ c.next = b.next /\ InBook(c) = InBook(b) \ {i}
           /\ \A j \in InBook(b) \ {i} : c.invoices[j] = b.invoices[j]
  <1>1. /\ Rows(b) /\ Pointed(b) /\ b.next \in Nat \ {0} /\ InBook(b) \subseteq 1..b.next - 1
        /\ b.invoices \in [InBook(b) -> Invoice]
        /\ b.invoices[i].extra = None /\ b.invoices[i].milestone = None
    BY DEF Sound, Rows, Shaped
  <1>2. c = [invoices |-> RowsBut(b, i), events |-> b.events, next |-> b.next,
             series |-> b.series, extras |-> b.extras, milestones |-> b.milestones]
    BY <1>1, Zenon DEF Rows, Shaped
  <1>3. /\ c = [invoices |-> c.invoices, events |-> c.events, next |-> c.next,
                series |-> c.series, extras |-> c.extras, milestones |-> c.milestones]
        /\ c.events = b.events /\ c.next = b.next /\ c.series = b.series
        /\ c.extras = b.extras /\ c.milestones = b.milestones
        /\ c.invoices = RowsBut(b, i)
    BY <1>2
  <1>4. /\ c.invoices = [j \in InBook(b) \ {i} |-> b.invoices[j]]
        /\ InBook(c) = InBook(b) \ {i}
        /\ \A j \in InBook(b) \ {i} : c.invoices[j] = b.invoices[j]
    <2>1. c.invoices = RowsBut(b, i)
      BY <1>3
    <2>2. c.invoices = [j \in InBook(b) \ {i} |-> b.invoices[j]]
      BY <2>1, RowsButIs
    <2>3. InBook(c) = InBook(b) \ {i}
      BY <2>2 DEF InBook
    <2> QED BY <2>2, <2>3
  <1>5. Rows(c)
    <2>1. InBook(c) \subseteq 1..c.next - 1
      BY <1>1, <1>3, <1>4
    <2>2. c.invoices \in [InBook(c) -> Invoice]
      BY <1>1, <1>4
    <2>3. \A j \in InBook(c) : c.invoices[j].external =>
              c.invoices[j].extra = None /\ c.invoices[j].milestone = None
      BY <1>1, <1>4 DEF Rows, Shaped
    <2>4. /\ c.events \in Seq(Chained) /\ c.series \in [SeriesKeys -> SeriesRow]
          /\ c.extras \in [Extras -> ChangeRow] /\ c.milestones \in [Milestones -> StageRow]
          /\ c.next \in Nat \ {0}
      BY <1>1, <1>3 DEF Rows, Shaped
    <2>5. c = [invoices |-> c.invoices, events |-> c.events, next |-> c.next,
               series |-> c.series, extras |-> c.extras, milestones |-> c.milestones]
      BY <1>3
    <2> QED BY <2>1, <2>2, <2>3, <2>4, <2>5 DEF Rows, Shaped
  <1>6. Pointed(c)
    <2>1. \A j \in InBook(c) : c.invoices[j].rectifies \in InBook(c) \cup {None}
      BY <1>1, <1>4 DEF Pointed, Rectified
    <2>2. \A x \in Extras : b.extras[x].invoice # i
      BY <1>1, NoneAssumption DEF Pointed, None
    <2>3. \A m \in Milestones : b.milestones[m].invoice # i
      BY <1>1, NoneAssumption DEF Pointed, None
    <2>4. \A x \in Extras : c.extras[x].invoice # None =>
              c.extras[x].invoice \in InBook(c) /\ c.invoices[c.extras[x].invoice].extra = x
      <3>1. c.extras = b.extras
        BY <1>3
      <3> QED BY <1>1, <1>4, <2>2, <3>1 DEF Pointed
    <2>5. \A m \in Milestones : c.milestones[m].invoice # None =>
              /\ c.milestones[m].invoice \in InBook(c)
              /\ c.invoices[c.milestones[m].invoice].milestone = m
      <3>1. c.milestones = b.milestones
        BY <1>3
      <3> QED BY <1>1, <1>4, <2>3, <3>1 DEF Pointed
    <2> QED BY <2>1, <2>4, <2>5 DEF Pointed
  <1>7. IssuedIn(c) = IssuedIn(b) /\ \A j \in IssuedIn(b) : c.invoices[j] = b.invoices[j]
    BY <1>4 DEF IssuedIn
  <1>8. Sound(c)
    <2>1. c.events = b.events /\ c.series = b.series
      BY <1>3
    <2> QED BY <1>5, <1>6, <1>7, <2>1, IssuedKept
  <1> QED BY <1>3, <1>4, <1>8
-----------------------------------------------------------------------------
(* Every step of the book. *)

\* What each variable other than the book holds.
Around ==
    /\ payers \subseteq Customers /\ payerOf \in [Chapters -> Customers]
    /\ signed \in BOOLEAN /\ day \in Days /\ calls \in 0..MaxCalls
    /\ mailed \subseteq Printed
    /\ packages \in [Days -> {"none", "sent", "reopened"}]
    /\ collections \in Seq([amount : Bases, to : Nat, allocated : Bases])
    /\ \A k \in DOMAIN collections : collections[k].allocated <= collections[k].amount

\* A collection is allocated to an invoice of the book.
Allocated == \A k \in DOMAIN collections : collections[k].to \in InBook(book)

BookInv == Sound(book) /\ book.next \in 1..MaxInvoices + 1 /\ Around /\ Allocated

LEMMA BookMoves ==
    ASSUME BookInv, Call,
           UNCHANGED <<payers, payerOf, signed, collections, mailed, packages, day>>,
           Sound(book)', (book.next \in 1..MaxInvoices + 1)',
           \A k \in DOMAIN collections : collections[k].to \in InBook(book')
    PROVE  BookInv'
  <1>1. Around'
    BY BookBounds DEF BookInv, Around, Call
  <1>2. Allocated'
    BY DEF Allocated, InBook
  <1> QED BY <1>1, <1>2 DEF BookInv

LEMMA BookStays ==
    ASSUME BookInv, book' = book, Around', Allocated'
    PROVE  BookInv'
  BY DEF BookInv

LEMMA RowIs ==
    ASSUME BookInv, NEW i \in InBook(book)
    PROVE  /\ book.invoices[i] \in Invoice /\ i \in Nat \ {0}
           /\ ~book.invoices[i].external => i \in IssuedIn(book)
  <1>1. PICK b : b = book
    OBVIOUS
  <1>2. Sound(b) /\ i \in InBook(b)
    BY <1>1 DEF BookInv
  <1>3. b.invoices[i] \in Invoice /\ i \in Nat \ {0} /\ (~b.invoices[i].external => i \in IssuedIn(b))
    BY <1>2 DEF Sound, Rows, Shaped, IssuedIn
  <1> QED BY <1>1, <1>3

Money == [amount : Bases, to : Nat, allocated : Bases]

LEMMA CollectionsAre ==
    ASSUME BookInv
    PROVE  /\ collections \in Seq(Money)
           /\ \A k \in DOMAIN collections : collections[k] \in Money
  <1>1. collections \in Seq(Money)
    BY DEF BookInv, Around, Money
  <1> QED BY <1>1

\* Nothing is allocated to an invoice nothing was received for.
LEMMA NothingReceived ==
    ASSUME BookInv, NEW i, ~Received(i)
    PROVE  \A k \in DOMAIN collections : collections[k].to # i
  <1> TAKE k \in DOMAIN collections
  <1>1. PICK r : r = collections[k]
    OBVIOUS
  <1>2. r.allocated > 0
    <2>1. r \in Money
      BY <1>1, CollectionsAre
    <2>2. r.allocated \in Bases
      BY <2>1 DEF Money
    <2>3. Bases \subseteq Nat \ {0}
      BY AmountsAssumption
    <2>4. PICK a : a = r.allocated
      OBVIOUS
    <2>5. a \in Nat /\ a # 0
      BY <2>2, <2>3, <2>4
    <2>6. a > 0
      BY <2>5
    <2> QED BY <2>4, <2>6
  <1> QED BY <1>1, <1>2 DEF Received

\* The drafts a screen opens are ones an invoice can be issued from.
LEMMA DraftsAre == ASSUME BookInv, NEW d \in Drafts PROVE Draftlike(book, d)
  <1>1. CASE d \in {Draft("progress", c, n, None, None, None) : c \in Customers, n \in Bases}
    BY <1>1, AmountsAssumption DEF Draft, Draftlike, Kinds
  <1>2. CASE d \in {Draft("progress", c, Stage[m], None, m, None) : c \in Customers,
                      m \in {m \in Milestones : book.milestones[m].status = "planned"}}
    BY <1>2, AmountsAssumption DEF Draft, Draftlike, Kinds
  <1>3. CASE d \in {Draft("progress", Owner, Price[x], x, None, None) :
                      x \in {x \in Extras : /\ book.extras[x].status \in {"approved", "executed"}
                                            /\ book.extras[x].invoice = None}}
    BY <1>3, AmountsAssumption, OwnerAssumption DEF Draft, Draftlike, Kinds
  <1>4. CASE d \in {CreditOf(book, i) : i \in Bills(book, InBook(book))}
    <2>1. PICK i \in InBook(book) : d = CreditOf(book, i)
      BY <1>4 DEF Bills
    <2>2. book.invoices[i] \in Invoice
      BY RowIs
    <2>3. book.invoices[i].party \in Customers /\ book.invoices[i].base \in Nat
      BY <2>2, InvoiceIs
    <2> QED BY <2>1, <2>3 DEF CreditOf, Draft, Draftlike, Kinds
  <1> QED BY <1>1, <1>2, <1>3, <1>4 DEF Drafts

LEMMA StepIssued ==
    ASSUME ShapesTellApart, BookInv, NEW d \in Drafts, IssueInvoice(d)
    PROVE  BookInv'
  <1>1. PICK b : b = book
    OBVIOUS
  <1>2. PICK c : c = book'
    OBVIOUS
  <1>3. PICK t : t = day
    OBVIOUS
  <1>4. Sound(b) /\ Draftlike(b, d) /\ t \in Days /\ c = Issue(b, d)
    BY <1>1, <1>2, <1>3, DraftsAre DEF BookInv, Around, IssueInvoice
  <1>5. Sound(c) /\ c.next = b.next + 1 /\ InBook(c) = InBook(b) \cup {b.next}
    BY <1>3, <1>4, IssueSound
  <1>6. \A k \in DOMAIN collections : collections[k].to \in InBook(book')
    BY <1>1, <1>2, <1>5 DEF BookInv, Allocated
  <1>7. Sound(book)' /\ (book.next \in 1..MaxInvoices + 1)'
    BY <1>1, <1>2, <1>5, BookBounds DEF BookInv, IssueInvoice
  <1> QED BY <1>6, <1>7, BookMoves DEF IssueInvoice

LEMMA StepUndone ==
    ASSUME ShapesTellApart, BookInv, NEW i \in InBook(book), UndoLastInvoice(i)
    PROVE  BookInv'
  <1>1. PICK b : b = book
    OBVIOUS
  <1>2. PICK c : c = book'
    OBVIOUS
  <1>3. Sound(b) /\ i \in IssuedIn(b) /\ c = Withdraw(b, i)
    BY <1>1, <1>2, RowIs DEF BookInv, UndoLastInvoice
  <1>4. LastIssued(b, i)
    BY <1>1 DEF UndoLastInvoice, MayUndo, LastIssued
  <1>5. Sound(c) /\ c.next = b.next /\ InBook(c) = InBook(b) \ {i}
    BY <1>3, <1>4, WithdrawSound
  <1>6. \A k \in DOMAIN collections : collections[k].to \in InBook(book')
    <2>1. ~Received(i)
      BY DEF UndoLastInvoice, MayUndo
    <2> QED BY <1>1, <1>2, <1>5, <2>1, NothingReceived DEF BookInv, Allocated
  <1>7. Sound(book)' /\ (book.next \in 1..MaxInvoices + 1)'
    BY <1>1, <1>2, <1>5 DEF BookInv
  <1> QED BY <1>6, <1>7, BookMoves DEF UndoLastInvoice

LEMMA StepEdited ==
    ASSUME ShapesTellApart, BookInv, NEW i \in InBook(book), NEW party \in Customers,
           NEW base \in Bases, EditIssuedInvoice(i, party, base)
    PROVE  BookInv'
  <1>1. PICK b : b = book
    OBVIOUS
  <1>2. PICK c : c = book'
    OBVIOUS
  <1>3. Sound(b) /\ i \in IssuedIn(b) /\ c = Edit(b, i, party, base) /\ base \in Nat
    BY <1>1, <1>2, RowIs, AmountsAssumption DEF BookInv, EditIssuedInvoice
  <1>4. Sound(c) /\ c.next = b.next /\ InBook(c) = InBook(b)
    BY <1>3, EditSound
  <1>5. \A k \in DOMAIN collections : collections[k].to \in InBook(book')
    BY <1>1, <1>2, <1>4 DEF BookInv, Allocated
  <1>6. Sound(book)' /\ (book.next \in 1..MaxInvoices + 1)'
    BY <1>1, <1>2, <1>4 DEF BookInv
  <1> QED BY <1>5, <1>6, BookMoves DEF EditIssuedInvoice

LEMMA StepRegistered ==
    ASSUME BookInv, NEW f \in Foreign, NEW party \in Customers, NEW base \in Bases,
           NEW d \in Days, RegisterExternalInvoice(f, party, base, d)
    PROVE  BookInv'
  <1>1. PICK b : b = book
    OBVIOUS
  <1>2. PICK c : c = book'
    OBVIOUS
  <1> DEFINE row == [number |-> f, kind |-> "progress", date |-> d, party |-> party,
                     base |-> base, extra |-> None, milestone |-> None, rectifies |-> None,
                     external |-> TRUE]
  <1>3. Sound(b) /\ c = [b EXCEPT !.next = @ + 1, !.invoices = WithRow(@, b.next, row)]
    BY <1>1, <1>2, Zenon DEF BookInv, RegisterExternalInvoice
  <1>4. /\ row \in Invoice /\ row.external = TRUE /\ row.extra = None
        /\ row.milestone = None /\ row.rectifies = None
    BY AmountsAssumption DEF Invoice, Kinds, None
  <1> HIDE DEF row
  <1>5. Sound(c) /\ c.next = b.next + 1 /\ InBook(c) = InBook(b) \cup {b.next}
    BY Zenon, <1>3, <1>4, RegisterSound
  <1>6. \A k \in DOMAIN collections : collections[k].to \in InBook(book')
    BY <1>1, <1>2, <1>5 DEF BookInv, Allocated
  <1>7. Sound(book)' /\ (book.next \in 1..MaxInvoices + 1)'
    BY <1>1, <1>2, <1>5, BookBounds DEF BookInv, RegisterExternalInvoice
  <1> QED BY <1>6, <1>7, BookMoves DEF RegisterExternalInvoice

LEMMA StepRemoved ==
    ASSUME BookInv, NEW i \in InBook(book), RemoveExternalInvoice(i)
    PROVE  BookInv'
  <1>1. PICK b : b = book
    OBVIOUS
  <1>2. PICK c : c = book'
    OBVIOUS
  <1>3. /\ Sound(b) /\ i \in InBook(b) /\ b.invoices[i].external /\ ~Rectified(b, i)
        /\ c = [b EXCEPT !.invoices = RowsBut(b, i)]
    BY <1>1, <1>2, Zenon DEF BookInv, RemoveExternalInvoice
  <1>4. Sound(c) /\ c.next = b.next /\ InBook(c) = InBook(b) \ {i}
    BY <1>3, RemoveSound
  <1>5. \A k \in DOMAIN collections : collections[k].to \in InBook(book')
    <2>1. ~Received(i)
      BY DEF RemoveExternalInvoice
    <2> QED BY <1>1, <1>2, <1>4, <2>1, NothingReceived DEF BookInv, Allocated
  <1>6. Sound(book)' /\ (book.next \in 1..MaxInvoices + 1)'
    BY <1>1, <1>2, <1>4 DEF BookInv
  <1> QED BY <1>5, <1>6, BookMoves DEF RemoveExternalInvoice

LEMMA StepDecided ==
    ASSUME BookInv, NEW x \in Extras, NEW s \in ChangeStatus, DecideChange(x, s)
    PROVE  BookInv'
  <1>1. PICK b : b = book
    OBVIOUS
  <1>2. PICK c : c = book'
    OBVIOUS
  <1>3. Sound(b) /\ c = [b EXCEPT !.extras[x].status = s]
    BY <1>1, <1>2, Zenon DEF BookInv, DecideChange
  <1>4. Sound(c) /\ c.next = b.next /\ InBook(c) = InBook(b)
    BY <1>3, DecideSound DEF InBook
  <1>5. \A k \in DOMAIN collections : collections[k].to \in InBook(book')
    BY <1>1, <1>2, <1>4 DEF BookInv, Allocated
  <1>6. Sound(book)' /\ (book.next \in 1..MaxInvoices + 1)'
    BY <1>1, <1>2, <1>4 DEF BookInv
  <1> QED BY <1>5, <1>6, BookMoves DEF DecideChange

\* What a re-addressing issues anew, on a book that has lost the invoice or its billing.
LEMMA Reissuing ==
    ASSUME ShapesTellApart, NEW t \in Days, t = day, NEW b, Sound(b), NEW d, Draftlike(b, d),
           NEW c, c = IF MayIssue(b, d) THEN Issue(b, d) ELSE b
    PROVE  /\ Sound(c) /\ InBook(b) \subseteq InBook(c)
           /\ c.next = b.next + 1 \/ c.next = b.next
  <1>1. CASE MayIssue(b, d)
    <2>1. c = Issue(b, d)
      BY <1>1
    <2>2. ShapesTellApart /\ t \in Days /\ t = day /\ Sound(b) /\ Draftlike(b, d)
      OBVIOUS
    <2>3. Sound(c) /\ c.next = b.next + 1 /\ InBook(c) = InBook(b) \cup {b.next}
      BY ONLY <2>1, <2>2, IssueSound
    <2> QED BY <2>3
  <1>2. CASE ~MayIssue(b, d)
    BY <1>2
  <1> QED BY <1>1, <1>2

LEMMA StepReaddressed ==
    ASSUME ShapesTellApart, BookInv, NEW i \in InBook(book), NEW party \in Customers,
           ReassignInvoiceRecipient(i, party)
    PROVE  BookInv'
  <1>1. PICK b : b = book
    OBVIOUS
  <1>2. PICK c : c = book'
    OBVIOUS
  <1>3. PICK t : t = day
    OBVIOUS
  <1>4. PICK inv : inv = book.invoices[i]
    OBVIOUS
  <1>5. PICK again : again = Draft(inv.kind, party, inv.base, inv.extra, inv.milestone, None)
    OBVIOUS
  <1>6. /\ Sound(b) /\ i \in InBook(b) /\ i \in IssuedIn(b) /\ inv \in Invoice
        /\ inv = b.invoices[i] /\ t \in Days /\ i \in Nat \ {0}
        /\ b.next \in 1..MaxInvoices + 1
    <2>1. ~inv.external
      BY <1>4 DEF ReassignInvoiceRecipient
    <2> QED BY <1>1, <1>3, <1>4, <2>1, RowIs DEF BookInv, Around
  <1>7. \A w : Draftlike(w, again)
    BY <1>5, <1>6, InvoiceIs DEF Draft, Draftlike
  <1>8. \/ /\ MayUndo(book, i) /\ book.next <= MaxInvoices
           /\ book' = IF MayIssue(Withdraw(book, i), again)
                      THEN Issue(Withdraw(book, i), again) ELSE Withdraw(book, i)
        \/ /\ book.next < MaxInvoices
           /\ LET h == HandBack(Issue(book, CreditOf(book, i)), i)
              IN book' = IF MayIssue(h, again) THEN Issue(h, again) ELSE h
    BY <1>4, <1>5, Zenon DEF ReassignInvoiceRecipient
  <1>9. CASE /\ MayUndo(book, i) /\ book.next <= MaxInvoices
             /\ book' = IF MayIssue(Withdraw(book, i), again)
                      THEN Issue(Withdraw(book, i), again) ELSE Withdraw(book, i)
    <2>1. PICK w : w = Withdraw(b, i)
      OBVIOUS
    <2>2. c = IF MayIssue(w, again) THEN Issue(w, again) ELSE w
      BY <1>1, <1>2, <1>9, <2>1
    <2>3. LastIssued(b, i)
      BY <1>1, <1>9 DEF MayUndo, LastIssued
    <2>4. Sound(w) /\ w.next = b.next /\ InBook(w) = InBook(b) \ {i}
      BY <1>6, <2>1, <2>3, WithdrawSound
    <2>5. /\ Sound(c) /\ InBook(w) \subseteq InBook(c)
          /\ c.next = w.next + 1 \/ c.next = w.next
      BY <1>3, <1>6, <1>7, <2>2, <2>4, Reissuing
    <2>6. \A k \in DOMAIN collections : collections[k].to \in InBook(book')
      <3>1. ~Received(i)
        BY <1>9 DEF MayUndo
      <3> QED BY <1>1, <1>2, <2>4, <2>5, <3>1, NothingReceived DEF BookInv, Allocated
    <2>7. Sound(book)' /\ (book.next \in 1..MaxInvoices + 1)'
      BY <1>1, <1>2, <1>6, <1>9, <2>4, <2>5, BookBounds
    <2> QED BY <2>6, <2>7, BookMoves DEF ReassignInvoiceRecipient
  <1>10. CASE /\ book.next < MaxInvoices
              /\ LET h == HandBack(Issue(book, CreditOf(book, i)), i)
                 IN book' = IF MayIssue(h, again) THEN Issue(h, again) ELSE h
    <2>1. PICK d : d = CreditOf(b, i)
      OBVIOUS
    <2>2. PICK w : w = Issue(b, d)
      OBVIOUS
    <2>3. PICK h : h = HandBack(w, i)
      OBVIOUS
    <2>4. c = IF MayIssue(h, again) THEN Issue(h, again) ELSE h
      BY <1>1, <1>2, <1>10, <2>1, <2>2, <2>3
    <2>5. Draftlike(b, d)
      BY <1>6, <2>1, InvoiceIs DEF CreditOf, Draft, Draftlike, Kinds
    <2>6. Sound(w) /\ w.next = b.next + 1 /\ InBook(w) = InBook(b) \cup {b.next}
      BY <1>3, <1>6, <2>2, <2>5, IssueSound
    <2>7. Sound(h) /\ h.invoices = w.invoices /\ h.next = w.next
      BY <1>6, <2>3, <2>6, HandBackSound
    <2>8. InBook(h) = InBook(w)
      BY <2>7 DEF InBook
    <2>9. /\ Sound(c) /\ InBook(h) \subseteq InBook(c)
          /\ c.next = h.next + 1 \/ c.next = h.next
      BY <1>3, <1>6, <1>7, <2>4, <2>7, Reissuing
    <2>10. \A k \in DOMAIN collections : collections[k].to \in InBook(book')
      BY <1>1, <1>2, <2>6, <2>8, <2>9 DEF BookInv, Allocated
    <2>11. Sound(book)' /\ (book.next \in 1..MaxInvoices + 1)'
      BY <1>1, <1>2, <1>6, <1>10, <2>6, <2>7, <2>9, BookBounds
    <2> QED BY <2>10, <2>11, BookMoves DEF ReassignInvoiceRecipient
  <1> QED BY <1>8, <1>9, <1>10

LEMMA StepAround ==
    ASSUME BookInv,
           \/ \E c \in Customers : AddProjectPayer(c)
           \/ \E h \in Chapters, c \in Customers : AssignChapterPayer(h, c)
           \/ SignContract
           \/ \E i \in InBook(book) : MailSent(i)
           \/ \E d \in Days : SendPackage(d) \/ ReopenQuarter(d)
           \/ NextDay
    PROVE  BookInv'
  <1>1. Around /\ Allocated /\ calls \in 0..MaxCalls
    BY DEF BookInv, Around
  <1>2. ASSUME Call, book' = book, collections' = collections,
               payers' \subseteq Customers, payerOf' \in [Chapters -> Customers],
               signed' \in BOOLEAN, day' \in Days, mailed' \subseteq Printed,
               packages' \in [Days -> {"none", "sent", "reopened"}]
        PROVE  BookInv'
    <2>1. calls' \in 0..MaxCalls
      BY <1>1, <1>2, BookBounds DEF Call
    <2>2. Around' /\ Allocated'
      BY <1>1, <1>2, <2>1 DEF Around, Allocated, InBook
    <2> QED BY <1>2, <2>2, BookStays
  <1>3. ASSUME NEW c \in Customers, AddProjectPayer(c) PROVE BookInv'
    BY <1>1, <1>2, <1>3 DEF AddProjectPayer, Around
  <1>4. ASSUME NEW h \in Chapters, NEW c \in Customers, AssignChapterPayer(h, c) PROVE BookInv'
    BY <1>1, <1>2, <1>4 DEF AssignChapterPayer, Around
  <1>5. ASSUME SignContract PROVE BookInv'
    BY <1>1, <1>2, <1>5 DEF SignContract, Around
  <1>6. ASSUME NEW i \in InBook(book), MailSent(i) PROVE BookInv'
    <2>1. i \in IssuedIn(book)
      BY <1>6, RowIs DEF MailSent
    <2>2. book.invoices[i].number \in Printed
      BY <2>1 DEF BookInv, Sound, Numbered
    <2> QED BY <1>1, <1>2, <1>6, <2>2 DEF MailSent, Around
  <1>7. ASSUME NEW d \in Days, SendPackage(d) \/ ReopenQuarter(d) PROVE BookInv'
    BY <1>1, <1>2, <1>7 DEF SendPackage, ReopenQuarter, Around
  <1>8. ASSUME NextDay PROVE BookInv'
    BY <1>1, <1>2, <1>8 DEF NextDay, Around
  <1> QED BY <1>3, <1>4, <1>5, <1>6, <1>7, <1>8

LEMMA StepCollected ==
    ASSUME BookInv,
           \/ \E i \in InBook(book), n \in Bases, a \in Bases : RecordCollection(i, n, a)
           \/ \E k \in DOMAIN collections, i \in InBook(book), a \in Bases :
                  AllocateCollection(k, i, a)
           \/ \E k \in DOMAIN collections : VoidCollection(k)
    PROVE  BookInv'
  <1> DEFINE Fine(s) == /\ s \in Seq(Money)
                        /\ \A k \in DOMAIN s : s[k].allocated <= s[k].amount /\ s[k].to \in InBook(book)
  <1>1. Around /\ Fine(collections) /\ calls \in 0..MaxCalls
    BY DEF BookInv, Around, Allocated, Money
  <1>2. ASSUME Call, UNCHANGED <<book, payers, payerOf, signed, mailed, packages, day>>,
               NEW s, s = collections', Fine(s)
        PROVE  BookInv'
    <2>1. calls' \in 0..MaxCalls
      BY <1>1, <1>2, BookBounds DEF Call
    <2>2. Around' /\ Allocated'
      BY <1>1, <1>2, <2>1 DEF Around, Allocated, InBook, Money
    <2> QED BY <1>2, <2>2, BookStays
  <1>3. PICK w : w = collections
    OBVIOUS
  <1>4. w \in Seq(Money) /\ DOMAIN w = 1..Len(w) /\ Len(w) \in Nat
    BY <1>1, <1>3
  <1>5. ASSUME NEW i \in InBook(book), NEW n \in Bases, NEW a \in Bases, RecordCollection(i, n, a)
        PROVE  BookInv'
    <2>1. PICK s : s = collections'
      OBVIOUS
    <2> DEFINE r == [amount |-> n, to |-> i, allocated |-> a]
    <2>2. r \in Money /\ r.allocated <= r.amount /\ r.to = i
      BY <1>5, RowIs DEF RecordCollection, Money
    <2>3. s = Append(w, r)
      BY <1>3, <1>5, <2>1 DEF RecordCollection
    <2> HIDE DEF r
    <2>4. /\ s \in Seq(Money) /\ DOMAIN s = 1..Len(w) + 1 /\ s[Len(w) + 1] = r
          /\ \A k \in 1..Len(w) : s[k] = w[k]
      BY <1>4, <2>2, <2>3
    <2>5. Fine(s)
      BY <1>1, <1>3, <1>4, <2>2, <2>4
    <2> HIDE DEF Fine
    <2> QED BY <1>2, <1>5, <2>1, <2>5 DEF RecordCollection
  <1>6. ASSUME NEW k \in DOMAIN collections, NEW i \in InBook(book), NEW a \in Bases,
               AllocateCollection(k, i, a)
        PROVE  BookInv'
    <2>1. PICK s : s = collections'
      OBVIOUS
    <2>2. PICK r : r = w[k]
      OBVIOUS
    <2>3. k \in DOMAIN w /\ r \in Money /\ r.amount \in Bases /\ r.to \in Nat /\ r.allocated \in Bases
          /\ r = [amount |-> r.amount, to |-> r.to, allocated |-> r.allocated]
      <3>1. k \in DOMAIN w /\ r \in Money
        BY <1>3, <1>4, <2>2
      <3> QED BY <3>1 DEF Money
    <2>4. PICK q : q = [amount |-> r.amount, to |-> i, allocated |-> a]
      OBVIOUS
    <2>5. q \in Money /\ q.allocated <= q.amount /\ q.to = i
      BY Zenon, <1>3, <1>6, <2>2, <2>3, <2>4, RowIs DEF AllocateCollection, Money
    <2>6. s = [w EXCEPT ![k].to = i, ![k].allocated = a]
      BY Zenon, <1>3, <1>6, <2>1 DEF AllocateCollection
    <2>7. PICK p : p = [r EXCEPT !.to = i]
      OBVIOUS
    <2>8. p = [amount |-> r.amount, to |-> i, allocated |-> r.allocated]
      BY <2>3, <2>7
    <2>9. PICK v : v = [p EXCEPT !.allocated = a]
      OBVIOUS
    <2>10. v = q
      BY <2>4, <2>8, <2>9
    <2>11. \A l \in DOMAIN w : s[l] = IF l = k THEN q ELSE w[l]
      BY <2>2, <2>3, <2>6, <2>7, <2>9, <2>10
    <2>12. DOMAIN s = DOMAIN w /\ s = [l \in DOMAIN w |-> s[l]]
      BY <2>6
    <2>13. s \in [1..Len(w) -> Money]
      BY <1>4, <2>3, <2>5, <2>11, <2>12
    <2>14. s \in Seq(Money)
      BY <1>4, <2>13
    <2>15. Fine(s)
      BY <1>1, <1>3, <2>5, <2>11, <2>12, <2>14
    <2> HIDE DEF Fine
    <2> QED BY Zenon, <1>2, <1>6, <2>1, <2>15 DEF AllocateCollection
  <1>7. ASSUME NEW k \in DOMAIN collections, VoidCollection(k)
        PROVE  BookInv'
    <2>1. PICK s : s = collections'
      OBVIOUS
    <2> DEFINE u == SubSeq(w, 1, k - 1)
               v == SubSeq(w, k + 1, Len(w))
    <2>2. s = u \o v
      BY <1>3, <1>7, <2>1 DEF VoidCollection, RemoveAt
    <2>3. k \in 1..Len(w)
      BY <1>3, <1>4
    <2>4. /\ u \in Seq(Money) /\ Len(u) = k - 1 /\ \A l \in 1..k - 1 : u[l] = w[l]
      BY <1>4, <2>3
    <2>5. /\ v \in Seq(Money) /\ Len(v) = Len(w) - k /\ \A l \in 1..Len(w) - k : v[l] = w[k + l]
      BY <1>4, <2>3
    <2> HIDE DEF u, v
    <2>6. /\ s \in Seq(Money) /\ Len(s) = Len(w) - 1 /\ DOMAIN s = 1..Len(w) - 1
          /\ \A l \in 1..Len(w) - 1 : s[l] = IF l <= k - 1 THEN u[l] ELSE v[l - (k - 1)]
      <3>1. /\ s \in Seq(Money) /\ Len(s) = Len(u) + Len(v)
            /\ \A l \in 1..Len(u) + Len(v) : s[l] = IF l <= Len(u) THEN u[l] ELSE v[l - Len(u)]
        <4>1. u \in Seq(Money) /\ v \in Seq(Money)
          BY <2>4, <2>5
        <4>2. /\ u \o v \in Seq(Money) /\ Len(u \o v) = Len(u) + Len(v)
              /\ \A l \in 1..Len(u) + Len(v) :
                     (u \o v)[l] = IF l <= Len(u) THEN u[l] ELSE v[l - Len(u)]
          BY <4>1
        <4> QED BY <2>2, <4>2
      <3>2. Len(u) + Len(v) = Len(w) - 1 /\ k \in Nat /\ Len(w) - 1 \in Nat
        BY <1>4, <2>3, <2>4, <2>5
      <3> QED BY <2>4, <3>1, <3>2
    <2>7. ASSUME NEW l \in DOMAIN s PROVE \E m \in DOMAIN w : s[l] = w[m]
      <3>1. CASE l <= k - 1
        BY <1>4, <2>3, <2>4, <2>6, <3>1
      <3>2. CASE ~(l <= k - 1)
        <4>1. l - (k - 1) \in 1..Len(w) - k /\ k + (l - (k - 1)) = l + 1 /\ l + 1 \in DOMAIN w
          BY <1>4, <2>3, <2>6, <3>2
        <4> QED BY <2>5, <2>6, <3>2, <4>1
      <3> QED BY <3>1, <3>2
    <2>8. Fine(s)
      BY <1>1, <1>3, <2>6, <2>7
    <2> HIDE DEF Fine
    <2> QED BY <1>2, <1>7, <2>1, <2>8 DEF VoidCollection
  <1> QED BY <1>5, <1>6, <1>7

LEMMA StepBook ==
    ASSUME ShapesTellApart, BookInv, BookNext
    PROVE  BookInv'
  BY StepIssued, StepUndone, StepReaddressed, StepEdited, StepRegistered, StepRemoved,
     StepDecided, StepAround, StepCollected DEF BookNext
-----------------------------------------------------------------------------
(* The first book, and what the invariant says of every later one. *)

LEMMA EmptySeries ==
    ASSUME NEW shape \in Patterns
    PROVE  /\ SeriesOf(shape) \in SeriesRow /\ CountedUp(SeriesOf(shape), shape)
           /\ SeriesOf(shape).issued = <<>>
  <1>1. <<>> \in Seq(Printed) /\ [y \in Years |-> NoCount] \in [Years -> Nat \cup {NoCount}]
    BY DEF NoCount
  <1>2. SeriesOf(shape) \in SeriesRow
    BY <1>1 DEF SeriesOf, SeriesRow
  <1>3. CountedUp(SeriesOf(shape), shape)
    BY DEF SeriesOf, CountedUp
  <1> QED BY <1>2, <1>3 DEF SeriesOf

LEMMA BookBegins == ASSUME ShapesTellApart, BookInit PROVE BookInv
  <1>1. PICK b : b = book
    OBVIOUS
  <1> DEFINE xs == [x \in Extras |-> [status |-> "priced", invoice |-> None]]
             ms == [m \in Milestones |-> [status |-> "planned", invoice |-> None]]
             ss == [key \in SeriesKeys |-> SeriesOf(ShapeOf(key))]
  <1>2. b = [invoices |-> <<>>, events |-> <<>>, next |-> 1, series |-> ss, extras |-> xs,
             milestones |-> ms]
    BY <1>1 DEF BookInit
  <1>3. /\ xs \in [Extras -> ChangeRow] /\ \A x \in Extras : xs[x].invoice = None
        /\ ms \in [Milestones -> StageRow] /\ \A m \in Milestones : ms[m].invoice = None
    BY DEF ChangeRow, ChangeStatus, StageRow, None
  <1>4. \A key \in SeriesKeys : ShapeOf(key) \in Patterns
    BY ShapesAssumption DEF ShapeOf
  <1>5. /\ ss \in [SeriesKeys -> SeriesRow]
        /\ \A key \in SeriesKeys : CountedUp(ss[key], ShapeOf(key)) /\ ss[key].issued = <<>>
    BY <1>4, EmptySeries
  <1> HIDE DEF xs, ms, ss
  <1>6. /\ b = [invoices |-> b.invoices, events |-> b.events, next |-> b.next,
                series |-> b.series, extras |-> b.extras, milestones |-> b.milestones]
        /\ b.invoices = <<>> /\ b.events = <<>> /\ b.next = 1 /\ b.series = ss
        /\ b.extras = xs /\ b.milestones = ms
    BY ONLY <1>2
  <1>7. InBook(b) = {} /\ IssuedIn(b) = {} /\ \A key \in SeriesKeys : MineIn(b, key) = {}
    BY <1>6 DEF InBook, IssuedIn, MineIn
  <1>8. b.invoices \in [InBook(b) -> Invoice] /\ b.events \in Seq(Chained)
    BY <1>6, <1>7
  <1>9. Rows(b)
    BY <1>3, <1>5, <1>6, <1>7, <1>8 DEF Rows, Shaped
  <1>10. Pointed(b) /\ Numbered(b) /\ Linked(b.events)
    BY <1>3, <1>6, <1>7 DEF Pointed, Numbered, Linked
  <1>11. Listing(<<>>, {}) /\ Len(<<>>) = 0 /\ DOMAIN <<>> = {}
    BY DEF Listing
  <1>12. Chain(b, <<>>)
    BY <1>6, <1>7, <1>11 DEF Chain
  <1>13. \A key \in SeriesKeys : Run(b, key, <<>>)
    BY <1>5, <1>6, <1>7, <1>11 DEF Run
  <1>14. \A key \in SeriesKeys : CountedUp(b.series[key], ShapeOf(key))
    BY <1>5, <1>6
  <1>15. Sound(b)
    BY <1>9, <1>10, <1>12, <1>13, <1>14 DEF Sound
  <1>16. Around /\ Allocated
    BY BookBounds, CalendarAssumption, OwnerAssumption DEF BookInit, Around, Allocated
  <1>17. b.next \in 1..MaxInvoices + 1
    BY <1>6, BookBounds
  <1> QED BY <1>1, <1>15, <1>16, <1>17 DEF BookInv

LEMMA TheChainVerifies == ASSUME ShapesTellApart, BookInv PROVE BookVerifies
  <1>1. PICK b : b = book
    OBVIOUS
  <1>2. PICK s : Chain(b, s)
    BY <1>1 DEF BookInv, Sound
  <1>3. /\ b.events \in Seq(Chained) /\ Linked(b.events)
    BY <1>1 DEF BookInv, Sound, Rows, Shaped
  <1>4. /\ Listing(s, IssuedIn(b)) /\ Len(s) = Len(b.events) /\ DOMAIN s = DOMAIN b.events
        /\ \A k \in DOMAIN s : /\ b.events[k].number = b.invoices[s[k]].number
                               /\ b.events[k].total = b.invoices[s[k]].base
                               /\ s[k] \in IssuedIn(b)
    BY <1>2, <1>3 DEF Chain, Listing
  <1> DEFINE R == {p \in (DOMAIN b.events) \X IssuedIn(b) :
                    /\ b.events[p[1]].number = b.invoices[p[2]].number
                    /\ b.events[p[1]].total = b.invoices[p[2]].base}
  <1>5. ASSUME NEW p \in R PROVE p[1] \in DOMAIN s /\ p[2] = s[p[1]]
    <2>1. PICK k \in DOMAIN s, i \in IssuedIn(b) : p[1] = k /\ p[2] = i
      BY <1>4
    <2>2. b.invoices[i].number = b.invoices[s[k]].number
      BY <1>4, <2>1
    <2>3. i = s[k]
      BY <1>1, <1>4, <2>1, <2>2, NumbersDiffer DEF BookInv
    <2> QED BY <2>1, <2>3
  <1>6. \A k \in DOMAIN s : <<k, s[k]>> \in R
    BY <1>4
  <1> HIDE DEF R
  <1>7. OneByOne(R, Len(s), IssuedIn(b))
    BY <1>4, <1>5, <1>6, ListedOneByOne
  <1>8. OneByOne(R, Len(b.events), IssuedIn(b))
    BY <1>4, <1>7
  <1>9. \A k \in DOMAIN b.events :
            b.events[k] = Event(HashBefore(b.events, k), b.events[k].number, b.events[k].total)
    BY <1>3 DEF Linked
  <1> QED BY <1>1, <1>8, <1>9, Zenon DEF BookVerifies, R

LEMMA TheSeriesMatch == ASSUME ShapesTellApart, BookInv PROVE SeriesMatchesBook
  <1>1. PICK b : b = book
    OBVIOUS
  <1>2. ASSUME NEW key \in SeriesKeys
        PROVE  LET issued == b.series[key].issued
               IN OneByOne({p \in (DOMAIN issued) \X MineIn(b, key) :
                               issued[p[1]] = b.invoices[p[2]].number},
                           Len(issued), MineIn(b, key))
    <2>1. PICK s : Run(b, key, s)
      BY <1>1 DEF BookInv, Sound
    <2> DEFINE issued == b.series[key].issued
               R == {p \in (DOMAIN issued) \X MineIn(b, key) : issued[p[1]] = b.invoices[p[2]].number}
    <2>2. issued \in Seq(Printed)
      BY <1>1, SeriesRowIs DEF BookInv, Sound, Rows, Shaped
    <2>3. /\ Listing(s, MineIn(b, key)) /\ Len(s) = Len(issued) /\ DOMAIN s = DOMAIN issued
          /\ \A k \in DOMAIN s : issued[k] = b.invoices[s[k]].number /\ s[k] \in MineIn(b, key)
      BY <2>1, <2>2 DEF Run, Listing
    <2> HIDE DEF issued
    <2>4. ASSUME NEW p \in R PROVE p[1] \in DOMAIN s /\ p[2] = s[p[1]]
      <3>1. PICK k \in DOMAIN s, i \in MineIn(b, key) : p[1] = k /\ p[2] = i
        BY <2>3
      <3>2. b.invoices[i].number = b.invoices[s[k]].number
        BY <2>3, <3>1
      <3>3. i \in IssuedIn(b) /\ s[k] \in IssuedIn(b)
        BY <2>3 DEF MineIn
      <3>4. i = s[k]
        BY <1>1, <3>2, <3>3, NumbersDiffer DEF BookInv
      <3> QED BY <3>1, <3>4
    <2>5. \A k \in DOMAIN s : <<k, s[k]>> \in R
      BY <2>3
    <2> HIDE DEF R
    <2>6. OneByOne(R, Len(s), MineIn(b, key))
      BY <2>3, <2>4, <2>5, ListedOneByOne
    <2>7. OneByOne(R, Len(issued), MineIn(b, key))
      BY <2>3, <2>6
    <2> QED BY <2>7 DEF R, issued
  <1> QED BY <1>1, <1>2, Zenon DEF SeriesMatchesBook, MineIn

LEMMA NothingDangles == ASSUME BookInv PROVE NothingPointsNowhere
  <1>1. Pointed(book) /\ Allocated
    BY DEF BookInv, Sound
  <1> QED BY <1>1 DEF NothingPointsNowhere, Pointed, Allocated

LEMMA BookIsTyped == ASSUME BookInv PROVE BookTypeOK
  <1>1. Rows(book) /\ Around /\ book.next \in 1..MaxInvoices + 1
    BY DEF BookInv, Sound
  <1> QED BY <1>1 DEF BookTypeOK, Rows, Shaped, Around

\* After any number of calls, on any number of customers, chapters, changes and
\* instalments and for any amounts: the chain of events verifies and says of every invoice
\* issued here, in order, what it says today, the numbers of each series are those of the
\* invoices standing, and nothing names an invoice that is gone, however they are issued,
\* withdrawn, corrected and re-addressed.  Both series print the year and neither reads
\* the other's numbers.
THEOREM BookKept == ASSUME ShapesTellApart PROVE BookSpec => []BookHolds
  <1>1. BookInit => BookInv
    BY BookBegins
  <1>2. BookInv /\ [BookNext]_bookVars => BookInv'
    <2> SUFFICES ASSUME BookInv, [BookNext]_bookVars PROVE BookInv'
      OBVIOUS
    <2>1. CASE BookNext
      BY <2>1, StepBook
    <2>2. CASE UNCHANGED bookVars
      BY <2>2 DEF bookVars, BookInv, Around, Allocated, InBook
    <2> QED BY <2>1, <2>2
  <1>3. BookInv => BookHolds
    BY BookIsTyped, TheChainVerifies, NothingDangles, TheSeriesMatch DEF BookHolds
  <1> QED BY <1>1, <1>2, <1>3, PTL DEF BookSpec
-----------------------------------------------------------------------------
(* What a step bills, and what a filed period keeps.  Neither depends on the *)
(* patterns of the series: the book need only keep its rows by id. *)

Tidy(b) ==
    /\ Shaped(b) /\ b.next \in Nat \ {0} /\ InBook(b) \subseteq 1..b.next - 1
    /\ b.invoices = [i \in InBook(b) |-> b.invoices[i]]
    /\ \A i \in InBook(b) : Plain(b.invoices[i])

LEMMA PlainRow ==
    ASSUME NEW d, d.kind \in Kinds, d.base \in Nat, NEW n, NEW t
    PROVE  LET r == RowOf(d, n, t)
           IN Plain(r) /\ r.kind = d.kind /\ r.party = d.party /\ r.base = d.base /\ r.extra = d.extra
  BY DEF RowOf, Plain

\* A row more, or another row for an id.
LEMMA TidyGrows ==
    ASSUME NEW b, Tidy(b), NEW r, Plain(r), NEW c, Shaped(c), c.next = b.next + 1,
           c.invoices = WithRow(b.invoices, b.next, r)
    PROVE  /\ Tidy(c) /\ InBook(c) = InBook(b) \cup {b.next} /\ b.next \notin InBook(b)
           /\ \A i \in InBook(b) : c.invoices[i] = b.invoices[i]
           /\ c.invoices[b.next] = r
  <1>1. b.next \in Nat \ {0} /\ InBook(b) \subseteq 1..b.next - 1 /\ b.next \notin InBook(b)
    BY DEF Tidy
  <1>2. /\ InBook(c) = InBook(b) \cup {b.next}
        /\ c.invoices = [k \in InBook(c) |-> IF k = b.next THEN r ELSE b.invoices[k]]
    BY DEF WithRow, InBook
  <1>3. c.invoices[b.next] = r /\ \A i \in InBook(b) : c.invoices[i] = b.invoices[i]
    BY <1>1, <1>2
  <1>4. c.next \in Nat \ {0} /\ InBook(c) \subseteq 1..c.next - 1
    BY <1>1, <1>2
  <1>5. \A i \in InBook(c) : Plain(c.invoices[i])
    BY <1>2, <1>3 DEF Tidy
  <1>6. c.invoices = [k \in InBook(c) |-> c.invoices[k]]
    BY <1>2
  <1> QED BY <1>1, <1>2, <1>3, <1>4, <1>5, <1>6 DEF Tidy

LEMMA TidyIssued ==
    ASSUME NEW b, Tidy(b), NEW d, d.kind \in Kinds, d.base \in Nat,
           NEW c, c = Issue(b, d)
    PROVE  /\ Tidy(c) /\ InBook(c) = InBook(b) \cup {b.next} /\ b.next \notin InBook(b)
           /\ c.next = b.next + 1
           /\ \A i \in InBook(b) : c.invoices[i] = b.invoices[i]
           /\ c.invoices[b.next].kind = d.kind /\ c.invoices[b.next].party = d.party
           /\ c.invoices[b.next].base = d.base /\ c.invoices[b.next].extra = d.extra
           /\ \A x \in Extras : x # d.extra => c.extras[x] = b.extras[x]
  <1>1. PICK t : t = day
    OBVIOUS
  <1> DEFINE key == KeyOf(d.kind)
             n == NextOf(b.series[key], YearOf[t])
             r == RowOf(d, n, t)
  <1>5. Shaped(b)
    BY DEF Tidy
  <1>6. c = [invoices |-> WithRow(b.invoices, b.next, r),
             events |-> Append(b.events,
                            Event(HashBefore(b.events, Len(b.events) + 1), n, d.base)),
             next |-> b.next + 1,
             series |-> [b.series EXCEPT ![key] = Advance(@, YearOf[t])],
             extras |-> [x \in Extras |-> IF x = d.extra
                     THEN [status |-> "invoiced", invoice |-> b.next] ELSE b.extras[x]],
             milestones |-> [m \in Milestones |-> IF m = d.milestone
                     THEN [status |-> "invoiced", invoice |-> b.next] ELSE b.milestones[m]]]
    BY <1>1, <1>5, IssueIs
  <1>8. /\ Plain(r) /\ r.kind = d.kind /\ r.party = d.party /\ r.base = d.base
        /\ r.extra = d.extra
    BY PlainRow
  <1> HIDE DEF key, n, r
  <1>7. /\ Shaped(c) /\ c.next = b.next + 1 /\ c.invoices = WithRow(b.invoices, b.next, r)
        /\ \A x \in Extras : x # d.extra => c.extras[x] = b.extras[x]
    BY ONLY <1>6 DEF Shaped
  <1> QED BY <1>7, <1>8, TidyGrows

LEMMA TidyHandedBack ==
    ASSUME NEW b, Tidy(b), NEW i, NEW h, h = HandBack(b, i)
    PROVE  Tidy(h) /\ h.invoices = b.invoices /\ h.next = b.next
  <1>1. Shaped(b)
    BY DEF Tidy
  <1>2. PICK e, m : h = [invoices |-> b.invoices, events |-> b.events, next |-> b.next,
                         series |-> b.series, extras |-> e, milestones |-> m]
    BY <1>1, HandBackIs
  <1>3. Shaped(h) /\ h.invoices = b.invoices /\ h.next = b.next
    BY ONLY <1>2 DEF Shaped
  <1> QED BY <1>3 DEF Tidy, InBook

\* A row less.
LEMMA TidyShrinks ==
    ASSUME NEW b, Tidy(b), NEW i, NEW c, Shaped(c), c.next = b.next, c.invoices = RowsBut(b, i)
    PROVE  /\ Tidy(c) /\ InBook(c) = InBook(b) \ {i}
           /\ \A j \in InBook(c) : c.invoices[j] = b.invoices[j]
  <1>1. /\ InBook(c) = InBook(b) \ {i}
        /\ c.invoices = [j \in InBook(c) |-> b.invoices[j]]
    <2>1. c.invoices = [j \in InBook(b) \ {i} |-> b.invoices[j]]
      BY RowsButIs
    <2> QED BY <2>1 DEF InBook
  <1>2. \A j \in InBook(c) : c.invoices[j] = b.invoices[j]
    BY <1>1
  <1>3. c.invoices = [k \in InBook(c) |-> c.invoices[k]]
    BY <1>1
  <1> QED BY <1>1, <1>2, <1>3 DEF Tidy

LEMMA TidyWithdrawn ==
    ASSUME NEW b, Tidy(b), NEW i, NEW c, c = Withdraw(b, i)
    PROVE  /\ Tidy(c) /\ InBook(c) = InBook(b) \ {i} /\ c.next = b.next
           /\ \A j \in InBook(c) : c.invoices[j] = b.invoices[j]
  <1>1. Shaped(b)
    BY DEF Tidy
  <1>2. PICK h : h = HandBack(b, i)
    OBVIOUS
  <1>3. PICK v, s : c = [invoices |-> RowsBut(b, i), events |-> v, next |-> b.next,
                         series |-> s, extras |-> h.extras, milestones |-> h.milestones]
    BY <1>1, <1>2, WithdrawIs
  <1>4. Shaped(c) /\ c.invoices = RowsBut(b, i) /\ c.next = b.next
    BY ONLY <1>3 DEF Shaped
  <1> QED BY <1>4, TidyShrinks

LEMMA TidyEdited ==
    ASSUME NEW b, Tidy(b), NEW i \in InBook(b), NEW party, NEW base \in Nat,
           NEW c, c = Edit(b, i, party, base)
    PROVE  /\ Tidy(c) /\ InBook(c) = InBook(b) /\ c.extras = b.extras
           /\ \A j \in InBook(b) \ {i} : c.invoices[j] = b.invoices[j]
           /\ c.invoices[i] = Rewritten(b.invoices[i], party, base)
  <1>1. Shaped(b) /\ Plain(b.invoices[i])
    BY DEF Tidy
  <1>2. PICK r : r = Rewritten(b.invoices[i], party, base)
    OBVIOUS
  <1>3. Plain(r)
    BY <1>1, <1>2 DEF Rewritten, Plain
  <1>4. PICK v : c = [invoices |-> [b.invoices EXCEPT ![i] = r], events |-> v, next |-> b.next,
                      series |-> b.series, extras |-> b.extras, milestones |-> b.milestones]
    BY <1>1, <1>2, EditIs
  <1>5. /\ Shaped(c) /\ c.invoices = [b.invoices EXCEPT ![i] = r] /\ c.next = b.next
        /\ c.extras = b.extras
    BY ONLY <1>4 DEF Shaped
  <1>6. InBook(c) = InBook(b) /\ c.invoices[i] = r
    BY <1>5 DEF InBook
  <1>7. \A j \in InBook(b) \ {i} : c.invoices[j] = b.invoices[j]
    BY <1>5 DEF InBook
  <1>8. c.invoices = [j \in InBook(c) |-> c.invoices[j]]
    BY <1>5 DEF InBook
  <1>9. \A j \in InBook(c) : Plain(c.invoices[j])
    BY <1>3, <1>6, <1>7 DEF Tidy
  <1> QED BY <1>2, <1>5, <1>6, <1>7, <1>8, <1>9 DEF Tidy

\* A step that only changes the statuses of the changes leaves the rows as they are.
LEMMA TidyKept ==
    ASSUME NEW b, Tidy(b), NEW c, Shaped(c), c.next = b.next, c.invoices = b.invoices
    PROVE  Tidy(c) /\ InBook(c) = InBook(b)
  BY DEF Tidy, InBook
-----------------------------------------------------------------------------
(* The ceiling. *)

\* What is billed to a payer from book b to book c, outside the agreed changes.
Newly(b, c, p) ==
    {i \in Bills(c, Scope(c, p, None)) :
        /\ ~c.invoices[i].external /\ c.invoices[i].extra = None
        /\ i \in Scope(b, p, None) => c.invoices[i] # b.invoices[i]}
Covered(c, p) ==
    Net(c, Scope(c, p, None))
    <= Attributed(c, BillsUnder[p]) + Cardinality(Bills(c, Scope(c, p, None)))
Within(b, c) == \A p \in Customers : Newly(b, c, p) # {} => Covered(c, p)

\* A row of book w is of book b, or is nothing a payer is billed.
Old(b, w) ==
    \A i \in InBook(w) :
        \/ w.invoices[i].external \/ w.invoices[i].kind = "creditNote"
        \/ i \in InBook(b) /\ w.invoices[i] = b.invoices[i]

LEMMA NothingNew ==
    ASSUME NEW b, NEW c, Old(b, c)
    PROVE  Within(b, c)
  <1> SUFFICES ASSUME NEW p \in Customers, NEW i \in Newly(b, c, p) PROVE FALSE
    BY DEF Within
  <1>1. /\ i \in InBook(c) /\ i # None /\ c.invoices[i].kind # "creditNote"
        /\ BillsUnder[c.invoices[i].party] = BillsUnder[p] /\ ~c.invoices[i].external
        /\ i \in Scope(b, p, None) => c.invoices[i] # b.invoices[i]
    BY DEF Newly, Bills, Scope
  <1>2. i \in InBook(b) /\ c.invoices[i] = b.invoices[i]
    BY <1>1 DEF Old
  <1> QED BY <1>1, <1>2 DEF Scope

\* What a payer is attributed is an amount, and depends on the status of the changes.
LEMMA AttributedIs ==
    ASSUME NEW b, NEW party
    PROVE  Attributed(b, party) \in Int
  <1>1. ASSUME NEW S \in SUBSET Chapters PROVE SumOn(Sale, S) \in Int
    <2>1. IsFiniteSet(S) /\ \A c \in S : Sale[c] \in Int
      BY FS_Subset, AmountsAssumption
    <2> QED BY <2>1, SumIsInt
  <1>2. ASSUME NEW S \in SUBSET Extras PROVE SumOn(Price, S) \in Int
    <2>1. IsFiniteSet(S) /\ \A x \in S : Price[x] \in Int
      BY FS_Subset, AmountsAssumption
    <2> QED BY <2>1, SumIsInt
  <1> QED BY <1>1, <1>2 DEF Attributed

LEMMA AttributedAlike ==
    ASSUME NEW b, NEW c, \A x \in Extras : c.extras[x] = b.extras[x], NEW party
    PROVE  Attributed(c, party) = Attributed(b, party)
  <1>1. {x \in Extras : c.extras[x].status \in Agreed}
        = {x \in Extras : b.extras[x].status \in Agreed}
    OBVIOUS
  <1> QED BY <1>1 DEF Attributed

LEMMA OneBilled ==
    ASSUME NEW b, Tidy(b), NEW c, NEW n, n # None, InBook(c) = InBook(b) \cup {n},
           \A i \in InBook(b) \ {n} : c.invoices[i] = b.invoices[i],
           c.invoices[n].kind # "creditNote", c.invoices[n].base \in Nat,
           NEW p, NEW q, BillsUnder[p] = BillsUnder[q], c.invoices[n].party = q,
           \A x \in Extras : c.extras[x] = b.extras[x],
           NEW S, S = Scope(b, q, n),
           c.invoices[n].base <= Attributed(b, BillsUnder[q]) - Net(b, S) + Slack(b, S)
    PROVE  Covered(c, p)
  <1> DEFINE T == Scope(c, p, None)
             B == Bills(b, S)
             base == c.invoices[n].base
  <1>1. None \notin InBook(b) /\ IsFiniteSet(InBook(b))
    <2>1. InBook(b) \subseteq 1..b.next - 1 /\ b.next \in Nat
      BY DEF Tidy
    <2>2. IsFiniteSet(1..b.next - 1)
      BY <2>1, FS_Interval
    <2> QED BY <2>1, <2>2, FS_Subset DEF None
  <1>2. S \subseteq InBook(b) /\ n \notin S /\ B \subseteq S
    BY DEF Scope, Bills
  <1>3. T = S \cup {n}
    BY <1>1 DEF Scope
  <1>4. Bills(c, T) = B \cup {n} /\ T \ Bills(c, T) = S \ B
    BY <1>2, <1>3 DEF Bills
  <1>5. IsFiniteSet(B) /\ IsFiniteSet(S \ B) /\ n \notin B /\ Cardinality(B) \in Nat
    BY <1>1, <1>2, FS_Subset, FS_CardinalityType
  <1>6. \A i \in S : BaseIn(b)[i] \in Int /\ BaseIn(b)[i] = BaseIn(c)[i]
    <2>1. ASSUME NEW i \in S PROVE BaseIn(b)[i] \in Int /\ BaseIn(b)[i] = BaseIn(c)[i]
      <3>1. i \in InBook(b) /\ i \in InBook(c) /\ c.invoices[i] = b.invoices[i]
        BY <1>2
      <3>2. BaseIn(b)[i] = b.invoices[i].base /\ BaseIn(c)[i] = c.invoices[i].base
        BY <3>1 DEF BaseIn
      <3>3. b.invoices[i].base \in Nat
        BY <3>1 DEF Tidy, Plain
      <3> QED BY <3>1, <3>2, <3>3
    <2> QED BY <2>1
  <1>7. SumOn(BaseIn(b), B) = SumOn(BaseIn(c), B) /\ SumOn(BaseIn(b), S \ B) = SumOn(BaseIn(c), S \ B)
    BY <1>2, <1>5, <1>6, SumAlike
  <1>8. SumOn(BaseIn(b), B) \in Int /\ SumOn(BaseIn(b), S \ B) \in Int
    BY <1>2, <1>5, <1>6, SumIsInt
  <1>9. SumOn(BaseIn(c), B \cup {n}) = base + SumOn(BaseIn(c), B)
    <2>1. BaseIn(c)[n] = base
      BY DEF BaseIn
    <2>2. \A i \in B \cup {n} : BaseIn(c)[i] \in Int
      BY <1>2, <1>6, <2>1
    <2>3. SumOn(BaseIn(c), B \cup {n}) = BaseIn(c)[n] + SumOn(BaseIn(c), B)
      BY <1>5, <2>2, SumWith
    <2> QED BY <2>1, <2>3
  <1>10. Cardinality(B \cup {n}) = Cardinality(B) + 1
    BY <1>5, FS_AddElement
  <1>11. Net(c, T) = base + SumOn(BaseIn(b), B) - SumOn(BaseIn(b), S \ B)
    <2>1. Net(c, T) = SumOn(BaseIn(c), B \cup {n}) - SumOn(BaseIn(c), S \ B)
      BY <1>4 DEF Net
    <2>2. SumOn(BaseIn(c), B \cup {n}) = base + SumOn(BaseIn(b), B)
      BY <1>7, <1>9
    <2>3. SumOn(BaseIn(c), S \ B) = SumOn(BaseIn(b), S \ B) /\ base \in Int
      BY <1>7
    <2> HIDE DEF T, B, base
    <2> QED BY <1>8, <2>1, <2>2, <2>3
  <1>12. Net(b, S) = SumOn(BaseIn(b), B) - SumOn(BaseIn(b), S \ B)
    BY DEF Net
  <1>13. Slack(b, S) = Cardinality(B) + 1
    BY DEF Slack
  <1>14. Attributed(c, BillsUnder[p]) = Attributed(b, BillsUnder[q]) /\ Attributed(b, BillsUnder[q]) \in Int
    BY AttributedAlike, AttributedIs
  <1>15. Cardinality(Bills(c, T)) = Cardinality(B) + 1
    BY <1>4, <1>10
  <1>16. base \in Nat /\ base <= Attributed(b, BillsUnder[q]) - Net(b, S) + Slack(b, S)
    OBVIOUS
  <1>17. PICK u, v, k, a : /\ u = SumOn(BaseIn(b), B) /\ v = SumOn(BaseIn(b), S \ B)
                           /\ k = Cardinality(B) /\ a = Attributed(b, BillsUnder[q])
    OBVIOUS
  <1> HIDE DEF T, B, base
  <1>18. u \in Int /\ v \in Int /\ k \in Nat /\ a \in Int /\ base <= a - (u - v) + (k + 1)
    BY <1>5, <1>8, <1>12, <1>13, <1>14, <1>16, <1>17
  <1>19. base + u - v <= a + (k + 1)
    BY <1>16, <1>18
  <1>20. Net(c, T) <= Attributed(c, BillsUnder[p]) + Cardinality(Bills(c, T))
    BY <1>11, <1>14, <1>15, <1>17, <1>19
  <1> QED BY <1>20 DEF T, Covered

\* One invoice issued: where the draft was allowed, nobody is billed beyond its scope.
LEMMA IssuedWithin ==
    ASSUME NEW b, NEW w, Tidy(w), NEW d, d.kind \in Kinds, d.base \in Nat, d.editing = None,
           MayIssue(w, d), NEW c, c = Issue(w, d), Old(b, w)
    PROVE  Within(b, c)
  <1> DEFINE n == w.next
  <1>1. /\ Tidy(c) /\ InBook(c) = InBook(w) \cup {n} /\ n \notin InBook(w)
        /\ \A i \in InBook(w) : c.invoices[i] = w.invoices[i]
        /\ c.invoices[n].kind = d.kind /\ c.invoices[n].party = d.party
        /\ c.invoices[n].base = d.base /\ c.invoices[n].extra = d.extra
        /\ \A x \in Extras : x # d.extra => c.extras[x] = w.extras[x]
    BY TidyIssued
  <1>2. n # None /\ None \notin InBook(w)
    BY DEF Tidy, None
  <1>3. Scope(w, d.party, n) = Scope(w, d.party, d.editing)
    BY <1>1, <1>2 DEF Scope
  <1> HIDE DEF n
  <1>4. ASSUME NEW p \in Customers, NEW i \in Newly(b, c, p) PROVE Covered(c, p)
    <2>1. /\ i \in InBook(c) /\ i # None /\ c.invoices[i].kind # "creditNote"
          /\ BillsUnder[c.invoices[i].party] = BillsUnder[p] /\ ~c.invoices[i].external
          /\ c.invoices[i].extra = None
          /\ i \in Scope(b, p, None) => c.invoices[i] # b.invoices[i]
      BY DEF Newly, Bills, Scope
    <2>2. i = n
      <3>1. SUFFICES ASSUME i \in InBook(w) PROVE FALSE
        BY <1>1, <2>1
      <3>2. c.invoices[i] = w.invoices[i]
        BY <1>1, <3>1
      <3>3. i \in InBook(b) /\ c.invoices[i] = b.invoices[i]
        BY <2>1, <3>1, <3>2 DEF Old
      <3> QED BY <2>1, <3>3 DEF Scope
    <2>3. d.kind # "creditNote" /\ d.extra = None /\ BillsUnder[p] = BillsUnder[d.party]
      BY <1>1, <2>1, <2>2
    <2>4. d.base <= Attributed(w, BillsUnder[d.party]) - Net(w, Scope(w, d.party, d.editing))
                    + Slack(w, Scope(w, d.party, d.editing))
      BY <2>3, Zenon DEF MayIssue
    <2>5. \A x \in Extras : c.extras[x] = w.extras[x]
      BY <1>1, <2>3, NoneAssumption
    <2>6. PICK q : q = d.party
      OBVIOUS
    <2>7. PICK S : S = Scope(w, q, n)
      OBVIOUS
    <2>8. c.invoices[n].base <= Attributed(w, BillsUnder[q]) - Net(w, S) + Slack(w, S)
      BY <1>1, <1>3, <2>4, <2>6, <2>7
    <2>9. /\ c.invoices[n].kind # "creditNote" /\ c.invoices[n].base \in Nat
          /\ c.invoices[n].party = q /\ BillsUnder[p] = BillsUnder[q]
      BY <1>1, <2>3, <2>6
    <2>10. InBook(c) = InBook(w) \cup {n} /\ \A j \in InBook(w) \ {n} : c.invoices[j] = w.invoices[j]
      BY <1>1
    <2> QED BY <1>2, <2>5, <2>7, <2>8, <2>9, <2>10, OneBilled
  <1> QED BY <1>4 DEF Within

\* An invoice edited to what it may be issued for.
LEMMA EditedWithin ==
    ASSUME NEW b, Tidy(b), NEW i \in InBook(b), NEW party, NEW base \in Nat, NEW d,
           d.kind = b.invoices[i].kind, d.party = party, d.base = base,
           d.extra = b.invoices[i].extra, d.editing = i, MayIssue(b, d),
           NEW c, c = Edit(b, i, party, base)
    PROVE  Within(b, c)
  <1>1. /\ Tidy(c) /\ InBook(c) = InBook(b) /\ c.extras = b.extras
        /\ \A j \in InBook(b) \ {i} : c.invoices[j] = b.invoices[j]
        /\ c.invoices[i] = Rewritten(b.invoices[i], party, base)
    BY TidyEdited
  <1>2. /\ c.invoices[i].kind = d.kind /\ c.invoices[i].extra = d.extra
        /\ c.invoices[i].base = base /\ c.invoices[i].party = party
    BY <1>1 DEF Rewritten
  <1>3. ASSUME NEW p \in Customers, NEW j \in Newly(b, c, p) PROVE Covered(c, p)
    <2>1. /\ j \in InBook(b) /\ j # None /\ c.invoices[j].kind # "creditNote"
          /\ BillsUnder[c.invoices[j].party] = BillsUnder[p] /\ c.invoices[j].extra = None
          /\ j \in Scope(b, p, None) => c.invoices[j] # b.invoices[j]
      BY <1>1 DEF Newly, Bills, Scope
    <2>2. j = i
      <3>1. SUFFICES ASSUME j # i PROVE FALSE
        OBVIOUS
      <3>2. c.invoices[j] = b.invoices[j]
        BY <1>1, <2>1, <3>1
      <3> QED BY <2>1, <3>2 DEF Scope
    <2>3. d.kind # "creditNote" /\ d.extra = None /\ BillsUnder[p] = BillsUnder[party]
      BY <1>2, <2>1, <2>2
    <2>4. base <= Attributed(b, BillsUnder[party]) - Net(b, Scope(b, party, i))
                  + Slack(b, Scope(b, party, i))
      BY <2>3, Zenon DEF MayIssue
    <2>5. PICK S : S = Scope(b, party, i)
      OBVIOUS
    <2>6. c.invoices[i].base <= Attributed(b, BillsUnder[party]) - Net(b, S) + Slack(b, S)
      BY <1>2, <2>4, <2>5
    <2>7. /\ c.invoices[i].kind # "creditNote" /\ c.invoices[i].base \in Nat
          /\ c.invoices[i].party = party /\ BillsUnder[p] = BillsUnder[party]
      BY <1>2, <2>3
    <2>8. InBook(c) = InBook(b) \cup {i} /\ \A x \in Extras : c.extras[x] = b.extras[x]
      BY <1>1
    <2>9. i # None
      BY DEF Tidy, None
    <2> QED BY <1>1, <2>5, <2>6, <2>7, <2>8, <2>9, OneBilled
  <1> QED BY <1>3 DEF Within
-----------------------------------------------------------------------------
(* Every step, for the ceiling and for the filed periods. *)

Stay(b, c) == \A i \in InBook(b) : i \in InBook(c) /\ c.invoices[i] = b.invoices[i]
Filed(b, c) ==
    \A i \in IssuedIn(b) : packages[b.invoices[i].date] = "sent"
                               => i \in InBook(c) /\ c.invoices[i] = b.invoices[i]
Right(b, c) == Tidy(c) /\ Within(b, c) /\ Filed(b, c)

LEMMA StayingFiled == ASSUME NEW b, NEW c, Stay(b, c) PROVE Filed(b, c)
  BY DEF Stay, Filed, IssuedIn

LEMMA DraftsPlain ==
    ASSUME Tidy(book), NEW d \in Drafts
    PROVE  d.kind \in Kinds /\ d.base \in Nat /\ d.editing = None
  <1>1. CASE d \in {Draft("progress", c, n, None, None, None) : c \in Customers, n \in Bases}
    BY <1>1, AmountsAssumption DEF Draft, Kinds
  <1>2. CASE d \in {Draft("progress", c, Stage[m], None, m, None) : c \in Customers,
                      m \in {m \in Milestones : book.milestones[m].status = "planned"}}
    BY <1>2, AmountsAssumption DEF Draft, Kinds
  <1>3. CASE d \in {Draft("progress", Owner, Price[x], x, None, None) :
                      x \in {x \in Extras : /\ book.extras[x].status \in {"approved", "executed"}
                                            /\ book.extras[x].invoice = None}}
    BY <1>3, AmountsAssumption DEF Draft, Kinds
  <1>4. CASE d \in {CreditOf(book, i) : i \in Bills(book, InBook(book))}
    <2>1. PICK i \in InBook(book) : d = CreditOf(book, i)
      BY <1>4 DEF Bills
    <2>2. book.invoices[i].base \in Nat
      BY DEF Tidy, Plain
    <2> QED BY <2>1, <2>2 DEF CreditOf, Draft, Kinds
  <1> QED BY <1>1, <1>2, <1>3, <1>4 DEF Drafts

LEMMA RightIssued ==
    ASSUME Tidy(book), NEW d \in Drafts, IssueInvoice(d)
    PROVE  Right(book, book')
  <1>1. PICK b : b = book
    OBVIOUS
  <1>2. PICK c : c = book'
    OBVIOUS
  <1>3. /\ Tidy(b) /\ d.kind \in Kinds /\ d.base \in Nat /\ d.editing = None
        /\ MayIssue(b, d) /\ c = Issue(b, d)
    BY <1>1, <1>2, DraftsPlain DEF IssueInvoice
  <1>4. Tidy(c) /\ Stay(b, c) /\ Old(b, b)
    BY <1>3, TidyIssued DEF Stay, Old
  <1>5. Within(b, c)
    BY <1>3, <1>4, IssuedWithin
  <1> QED BY <1>1, <1>2, <1>4, <1>5, StayingFiled DEF Right

LEMMA RightUndone ==
    ASSUME Tidy(book), NEW i \in InBook(book), UndoLastInvoice(i)
    PROVE  Right(book, book')
  <1>1. PICK b : b = book
    OBVIOUS
  <1>2. PICK c : c = book'
    OBVIOUS
  <1>3. Tidy(b) /\ c = Withdraw(b, i) /\ packages[b.invoices[i].date] # "sent"
    BY <1>1, <1>2 DEF UndoLastInvoice, MayUndo
  <1>4. /\ Tidy(c) /\ InBook(c) = InBook(b) \ {i}
        /\ \A j \in InBook(c) : c.invoices[j] = b.invoices[j]
    BY <1>3, TidyWithdrawn
  <1>5. Within(b, c)
    BY <1>4, NothingNew DEF Old
  <1>6. Filed(b, c)
    BY <1>3, <1>4 DEF Filed, IssuedIn
  <1> QED BY <1>1, <1>2, <1>4, <1>5, <1>6 DEF Right

\* What a re-addressing issues anew.
LEMMA ReissuedRight ==
    ASSUME NEW b, NEW w, Tidy(w), Old(b, w), NEW d, d.kind \in Kinds, d.base \in Nat,
           d.editing = None, NEW c, c = IF MayIssue(w, d) THEN Issue(w, d) ELSE w
    PROVE  Tidy(c) /\ Within(b, c) /\ Stay(w, c)
  <1>1. CASE MayIssue(w, d)
    <2>1. c = Issue(w, d)
      BY <1>1
    <2>2. Tidy(c) /\ Stay(w, c)
      BY <2>1, TidyIssued DEF Stay
    <2>3. Within(b, c)
      BY <1>1, <2>1, IssuedWithin
    <2> QED BY <2>2, <2>3
  <1>2. CASE ~MayIssue(w, d)
    <2>1. c = w
      BY <1>2
    <2>2. Within(b, w)
      BY NothingNew
    <2> QED BY <2>1, <2>2 DEF Stay
  <1> QED BY <1>1, <1>2

LEMMA RightReaddressed ==
    ASSUME Tidy(book), NEW i \in InBook(book), NEW party \in Customers,
           ReassignInvoiceRecipient(i, party)
    PROVE  Right(book, book')
  <1>1. PICK b : b = book
    OBVIOUS
  <1>2. PICK c : c = book'
    OBVIOUS
  <1>3. PICK inv : inv = book.invoices[i]
    OBVIOUS
  <1>4. PICK again : again = Draft(inv.kind, party, inv.base, inv.extra, inv.milestone, None)
    OBVIOUS
  <1>5. Tidy(b) /\ i \in InBook(b) /\ inv = b.invoices[i] /\ Plain(inv)
    BY <1>1, <1>3 DEF Tidy
  <1>6. again.kind \in Kinds /\ again.base \in Nat /\ again.editing = None
    BY <1>4, <1>5 DEF Plain, Draft
  <1>7. \/ /\ MayUndo(book, i)
           /\ book' = IF MayIssue(Withdraw(book, i), again)
                      THEN Issue(Withdraw(book, i), again) ELSE Withdraw(book, i)
        \/ LET h == HandBack(Issue(book, CreditOf(book, i)), i)
           IN book' = IF MayIssue(h, again) THEN Issue(h, again) ELSE h
    BY <1>3, <1>4, Zenon DEF ReassignInvoiceRecipient
  <1>8. CASE /\ MayUndo(book, i)
             /\ book' = IF MayIssue(Withdraw(book, i), again)
                      THEN Issue(Withdraw(book, i), again) ELSE Withdraw(book, i)
    <2>1. PICK w : w = Withdraw(b, i)
      OBVIOUS
    <2>2. c = IF MayIssue(w, again) THEN Issue(w, again) ELSE w
      BY <1>1, <1>2, <1>8, <2>1
    <2>3. /\ Tidy(w) /\ InBook(w) = InBook(b) \ {i}
          /\ \A j \in InBook(w) : w.invoices[j] = b.invoices[j]
      BY <1>5, <2>1, TidyWithdrawn
    <2>4. Tidy(c) /\ Within(b, c) /\ Stay(w, c)
      BY <1>6, <2>2, <2>3, ReissuedRight DEF Old
    <2>5. packages[b.invoices[i].date] # "sent"
      BY <1>1, <1>8 DEF MayUndo
    <2>6. Filed(b, c)
      BY <2>3, <2>4, <2>5 DEF Filed, Stay, IssuedIn
    <2> QED BY <1>1, <1>2, <2>4, <2>6 DEF Right
  <1>9. CASE LET h == HandBack(Issue(book, CreditOf(book, i)), i)
             IN book' = IF MayIssue(h, again) THEN Issue(h, again) ELSE h
    <2>1. PICK d : d = CreditOf(b, i)
      OBVIOUS
    <2>2. PICK w : w = Issue(b, d)
      OBVIOUS
    <2>3. PICK h : h = HandBack(w, i)
      OBVIOUS
    <2>4. c = IF MayIssue(h, again) THEN Issue(h, again) ELSE h
      BY <1>1, <1>2, <1>9, <2>1, <2>2, <2>3
    <2>5. d.kind = "creditNote" /\ d.kind \in Kinds /\ d.base \in Nat
      BY <1>5, <2>1 DEF CreditOf, Draft, Kinds, Plain
    <2>6. /\ Tidy(w) /\ InBook(w) = InBook(b) \cup {b.next}
          /\ \A j \in InBook(b) : w.invoices[j] = b.invoices[j]
          /\ w.invoices[b.next].kind = "creditNote"
      BY <1>5, <2>2, <2>5, TidyIssued
    <2>7. Tidy(h) /\ h.invoices = w.invoices
      BY <2>3, <2>6, TidyHandedBack
    <2>8. InBook(h) = InBook(w)
      BY <2>7 DEF InBook
    <2>9. Old(b, h)
      BY <2>6, <2>7, <2>8 DEF Old
    <2>10. Tidy(c) /\ Within(b, c) /\ Stay(h, c)
      BY <1>6, <2>4, <2>7, <2>9, ReissuedRight
    <2>11. Stay(b, c)
      BY <2>6, <2>7, <2>8, <2>10 DEF Stay
    <2> QED BY <1>1, <1>2, <2>10, <2>11, StayingFiled DEF Right
  <1> QED BY <1>7, <1>8, <1>9

LEMMA RightEdited ==
    ASSUME Tidy(book), NEW i \in InBook(book), NEW party \in Customers, NEW base \in Bases,
           EditIssuedInvoice(i, party, base)
    PROVE  Right(book, book')
  <1>1. PICK b : b = book
    OBVIOUS
  <1>2. PICK c : c = book'
    OBVIOUS
  <1>3. PICK inv : inv = b.invoices[i]
    OBVIOUS
  <1>4. PICK d : d = [Draft(inv.kind, party, base, inv.extra, inv.milestone, inv.rectifies)
                        EXCEPT !.editing = i]
    OBVIOUS
  <1>5. /\ Tidy(b) /\ i \in InBook(b) /\ base \in Nat /\ MayIssue(b, d)
        /\ packages[b.invoices[i].date] # "sent" /\ c = Edit(b, i, party, base)
    BY <1>1, <1>2, <1>3, <1>4, AmountsAssumption, Zenon DEF EditIssuedInvoice
  <1>6. /\ d.kind = b.invoices[i].kind /\ d.party = party /\ d.base = base
        /\ d.extra = b.invoices[i].extra /\ d.editing = i
    BY <1>3, <1>4 DEF Draft
  <1>7. /\ Tidy(c) /\ InBook(c) = InBook(b)
        /\ \A j \in InBook(b) \ {i} : c.invoices[j] = b.invoices[j]
    BY <1>5, TidyEdited
  <1>8. Within(b, c)
    BY <1>5, <1>6, EditedWithin
  <1>9. Filed(b, c)
    BY <1>5, <1>7 DEF Filed, IssuedIn
  <1> QED BY <1>1, <1>2, <1>7, <1>8, <1>9 DEF Right

LEMMA RightRegistered ==
    ASSUME Tidy(book), NEW f, NEW party, NEW base \in Bases, NEW d,
           RegisterExternalInvoice(f, party, base, d)
    PROVE  Right(book, book')
  <1>1. PICK b : b = book
    OBVIOUS
  <1>0. Tidy(b)
    BY <1>1
  <1>2. PICK c : c = book'
    OBVIOUS
  <1> DEFINE row == [number |-> f, kind |-> "progress", date |-> d, party |-> party,
                     base |-> base, extra |-> None, milestone |-> None, rectifies |-> None,
                     external |-> TRUE]
  <1>3. Tidy(b) /\ Shaped(b) /\ c = [b EXCEPT !.next = @ + 1, !.invoices = WithRow(@, b.next, row)]
    BY <1>1, <1>2, Zenon DEF Tidy, RegisterExternalInvoice
  <1>4. Plain(row) /\ row.external = TRUE
    BY AmountsAssumption DEF Plain, Kinds
  <1> HIDE DEF row
  <1>5. c = [invoices |-> WithRow(b.invoices, b.next, row), events |-> b.events,
             next |-> b.next + 1, series |-> b.series, extras |-> b.extras,
             milestones |-> b.milestones]
    BY <1>3, Zenon DEF Shaped
  <1>6. Shaped(c) /\ c.next = b.next + 1 /\ c.invoices = WithRow(b.invoices, b.next, row)
    BY ONLY <1>5 DEF Shaped
  <1>7. /\ Tidy(c) /\ InBook(c) = InBook(b) \cup {b.next}
        /\ \A i \in InBook(b) : c.invoices[i] = b.invoices[i]
        /\ c.invoices[b.next] = row
    BY <1>0, <1>4, <1>6, TidyGrows
  <1>8. Old(b, c) /\ Stay(b, c)
    BY <1>4, <1>7 DEF Old, Stay
  <1> QED BY <1>1, <1>2, <1>7, <1>8, NothingNew, StayingFiled DEF Right

LEMMA RightRemoved ==
    ASSUME Tidy(book), NEW i \in InBook(book), RemoveExternalInvoice(i)
    PROVE  Right(book, book')
  <1>1. PICK b : b = book
    OBVIOUS
  <1>0. Tidy(b)
    BY <1>1
  <1>2. PICK c : c = book'
    OBVIOUS
  <1>3. /\ Tidy(b) /\ Shaped(b) /\ b.invoices[i].external
        /\ c = [b EXCEPT !.invoices = RowsBut(b, i)]
    BY <1>1, <1>2, Zenon DEF Tidy, RemoveExternalInvoice
  <1>4. c = [invoices |-> RowsBut(b, i), events |-> b.events, next |-> b.next,
             series |-> b.series, extras |-> b.extras, milestones |-> b.milestones]
    BY <1>3, Zenon DEF Shaped
  <1>5. Shaped(c) /\ c.next = b.next /\ c.invoices = RowsBut(b, i)
    BY ONLY <1>4 DEF Shaped
  <1>6. /\ Tidy(c) /\ InBook(c) = InBook(b) \ {i}
        /\ \A j \in InBook(c) : c.invoices[j] = b.invoices[j]
    BY <1>0, <1>5, TidyShrinks
  <1>7. Old(b, c) /\ Filed(b, c)
    BY <1>3, <1>6 DEF Old, Filed, IssuedIn
  <1> QED BY <1>1, <1>2, <1>6, <1>7, NothingNew DEF Right

LEMMA RightDecided ==
    ASSUME Tidy(book), NEW x, NEW s, DecideChange(x, s)
    PROVE  Right(book, book')
  <1>1. PICK b : b = book
    OBVIOUS
  <1>2. PICK c : c = book'
    OBVIOUS
  <1>3. Tidy(b) /\ Shaped(b) /\ c = [b EXCEPT !.extras[x].status = s]
    BY <1>1, <1>2, Zenon DEF Tidy, DecideChange
  <1>4. PICK e : e = [b.extras EXCEPT ![x].status = s]
    OBVIOUS
  <1>5. c = [invoices |-> b.invoices, events |-> b.events, next |-> b.next,
             series |-> b.series, extras |-> e, milestones |-> b.milestones]
    BY <1>3, <1>4, Zenon DEF Shaped
  <1>6. Shaped(c) /\ c.next = b.next /\ c.invoices = b.invoices
    BY ONLY <1>5 DEF Shaped
  <1>7. Tidy(c) /\ InBook(c) = InBook(b)
    BY <1>3, <1>6, TidyKept
  <1>8. Old(b, c) /\ Stay(b, c)
    BY <1>6, <1>7 DEF Old, Stay
  <1> QED BY <1>1, <1>2, <1>7, <1>8, NothingNew, StayingFiled DEF Right

LEMMA RightStays == ASSUME Tidy(book), book' = book PROVE Right(book, book')
  <1>1. Old(book, book) /\ Stay(book, book)
    BY DEF Old, Stay
  <1>2. Within(book, book) /\ Filed(book, book)
    BY <1>1, NothingNew, StayingFiled
  <1> QED BY <1>2 DEF Right

LEMMA EveryStepIsRight ==
    ASSUME Tidy(book), [BookNext]_bookVars
    PROVE  Right(book, book')
  <1>1. ASSUME NEW d \in Drafts, IssueInvoice(d) PROVE Right(book, book')
    BY <1>1, RightIssued
  <1>2. ASSUME NEW i \in InBook(book), UndoLastInvoice(i) PROVE Right(book, book')
    BY <1>2, RightUndone
  <1>3. ASSUME NEW i \in InBook(book), NEW c \in Customers, ReassignInvoiceRecipient(i, c)
        PROVE  Right(book, book')
    BY <1>3, RightReaddressed
  <1>4. ASSUME NEW i \in InBook(book), NEW c \in Customers, NEW n \in Bases,
               EditIssuedInvoice(i, c, n)
        PROVE  Right(book, book')
    BY <1>4, RightEdited
  <1>5. ASSUME NEW f \in Foreign, NEW c \in Customers, NEW n \in Bases, NEW d \in Days,
               RegisterExternalInvoice(f, c, n, d)
        PROVE  Right(book, book')
    BY <1>5, RightRegistered
  <1>6. ASSUME NEW i \in InBook(book), RemoveExternalInvoice(i) PROVE Right(book, book')
    BY <1>6, RightRemoved
  <1>7. ASSUME NEW x \in Extras, NEW s \in ChangeStatus, DecideChange(x, s)
        PROVE  Right(book, book')
    BY <1>7, RightDecided
  <1>8. ASSUME book' = book PROVE Right(book, book')
    BY <1>8, RightStays
  <1>9. CASE BookNext
    <2>1. \/ \E d \in Drafts : IssueInvoice(d)
          \/ \E i \in InBook(book) : UndoLastInvoice(i)
          \/ \E i \in InBook(book), c \in Customers : ReassignInvoiceRecipient(i, c)
          \/ \E i \in InBook(book), c \in Customers, n \in Bases : EditIssuedInvoice(i, c, n)
          \/ \E f \in Foreign, c \in Customers, n \in Bases, d \in Days :
                 RegisterExternalInvoice(f, c, n, d)
          \/ \E i \in InBook(book) : RemoveExternalInvoice(i)
          \/ \E x \in Extras, s \in ChangeStatus : DecideChange(x, s)
          \/ book' = book
      BY <1>9, Zenon DEF BookNext, AddProjectPayer, AssignChapterPayer, SignContract,
         RecordCollection, AllocateCollection, VoidCollection, MailSent, SendPackage,
         ReopenQuarter, NextDay
    <2> QED BY <1>1, <1>2, <1>3, <1>4, <1>5, <1>6, <1>7, <1>8, <2>1, Zenon
  <1>10. CASE UNCHANGED bookVars
    BY <1>8, <1>10 DEF bookVars
  <1> QED BY <1>9, <1>10

LEMMA TidyBegins == ASSUME BookInit PROVE Tidy(book)
  <1>1. PICK b : b = book
    OBVIOUS
  <1>2. PICK s, x, m : b = [invoices |-> <<>>, events |-> <<>>, next |-> 1, series |-> s,
                            extras |-> x, milestones |-> m]
    BY <1>1 DEF BookInit
  <1>3. Shaped(b) /\ b.invoices = <<>> /\ b.next = 1
    BY ONLY <1>2 DEF Shaped
  <1>4. InBook(b) = {}
    BY <1>3 DEF InBook
  <1>5. b.invoices = [i \in InBook(b) |-> b.invoices[i]]
    BY <1>3, <1>4
  <1>6. Tidy(b)
    BY <1>3, <1>4, <1>5 DEF Tidy
  <1> QED BY <1>1, <1>6

LEMMA AlwaysTidy == BookSpec => []Tidy(book)
  <1>1. Tidy(book) /\ [BookNext]_bookVars => Tidy(book)'
    BY EveryStepIsRight DEF Right
  <1> QED BY <1>1, TidyBegins, PTL DEF BookSpec

\* Nobody is billed for more than it bears: an invoice issued, re-addressed or edited
\* leaves what its payer is billed within the chapters and changes it bears and a cent for
\* each invoice, whatever was credited, withdrawn or registered before (AR-11).
THEOREM NobodyIsBilledBeyond == BookSpec => BilledWithinScope
  <1>1. ASSUME NEW c, Within(book, c), NEW p \in Customers
        PROVE  LET S == Scope(book, p, None)   T == Scope(c, p, None)
               IN (\E i \in Bills(c, T) :
                      /\ ~c.invoices[i].external /\ c.invoices[i].extra = None
                      /\ i \in S => c.invoices[i] # book.invoices[i])
                  => Net(c, T) <= Attributed(c, BillsUnder[p]) + Cardinality(Bills(c, T))
    BY <1>1 DEF Within, Newly, Covered
  <1>2. Tidy(book) /\ [BookNext]_bookVars
        => [\A c \in Customers :
               LET S == Scope(book, c, None)   T == Scope(book', c, None)
               IN (\E i \in Bills(book', T) : NewlyBilled(i, S))
                  => Net(book', T)
                     <= Attributed(book', BillsUnder[c]) + Cardinality(Bills(book', T))]_bookVars
    BY <1>1, EveryStepIsRight DEF Right, NewlyBilled
  <1> QED BY <1>2, AlwaysTidy, PTL DEF BookSpec, BilledWithinScope

\* An invoice of a period the adviser was sent is neither withdrawn nor rewritten, by
\* undoing, re-addressing or editing, until the period is reopened.
THEOREM FiledInvoicesKept == BookSpec => FiledInvoicesStand
  <1>1. Tidy(book) /\ [BookNext]_bookVars
        => [\A i \in IssuedIn(book) :
                packages[book.invoices[i].date] = "sent" => Stands(i)]_bookVars
    BY EveryStepIsRight DEF Right, Filed, Stands
  <1> QED BY <1>1, AlwaysTidy, PTL DEF BookSpec, FiledInvoicesStand
-----------------------------------------------------------------------------
(* Contracts. *)

AnnexRow == [number : Nat, source : Joins, applied : BOOLEAN, signed : BOOLEAN]
MilestoneRow == [annex : Nat, invoice : Nat]
ContractRow ==
    [signed : BOOLEAN, cancelled : BOOLEAN, annexes : Seq(AnnexRow), stages : Seq(MilestoneRow)]
DealSet == [contracts : Seq(ContractRow), holds : Nat, end : Int, dated : BOOLEAN,
            invoices : Seq([contract : Nat, at : Nat]), extras : [Joins -> Extra]]

WellShaped(s) ==
    /\ s \in DealSet
    /\ s.holds \in DOMAIN s.contracts \cup {NoContract}
    /\ s.holds # NoContract => ~s.contracts[s.holds].cancelled
    /\ \A c \in DOMAIN s.contracts : ~(s.contracts[c].signed /\ s.contracts[c].cancelled)

\* The annexes of a contract are numbered in their order, and its milestones are one for
\* each annex in force.
Aligned(con) ==
    /\ \A i \in DOMAIN con.annexes : con.annexes[i].number = i
    /\ \A k \in DOMAIN con.stages :
           /\ con.stages[k].annex \in DOMAIN con.annexes
           /\ con.annexes[con.stages[k].annex].applied
    /\ \A k, l \in DOMAIN con.stages : con.stages[k].annex = con.stages[l].annex => k = l
    /\ \A i \in DOMAIN con.annexes :
           con.annexes[i].applied => \E k \in DOMAIN con.stages : con.stages[k].annex = i
AllAligned(s) == \A c \in DOMAIN s.contracts : Aligned(s.contracts[c])

\* An invoice and its milestone name each other.
Billed(s) ==
    /\ \A id \in DOMAIN s.invoices :
           /\ s.invoices[id].contract \in DOMAIN s.contracts
           /\ s.invoices[id].at \in DOMAIN s.contracts[s.invoices[id].contract].stages
           /\ s.contracts[s.invoices[id].contract].stages[s.invoices[id].at].invoice = id
    /\ \A c \in DOMAIN s.contracts : \A k \in DOMAIN s.contracts[c].stages :
           LET id == s.contracts[c].stages[k].invoice
           IN id # 0 => id \in DOMAIN s.invoices /\ s.invoices[id] = [contract |-> c, at |-> k]

\* An extra has at most one annex, and only once it was accepted.
Joined(s) ==
    \A c \in DOMAIN s.contracts : \A i \in DOMAIN s.contracts[c].annexes :
        /\ s.extras[s.contracts[c].annexes[i].source].status = "accepted"
        /\ \A d \in DOMAIN s.contracts : \A j \in DOMAIN s.contracts[d].annexes :
               s.contracts[d].annexes[j].source = s.contracts[c].annexes[i].source
               => c = d /\ i = j

\* A variation that waits is one of the contract held, counts no days and has no work.
WaitsOnHeld(s) ==
    \A c \in DOMAIN s.contracts : \A i \in DOMAIN s.contracts[c].annexes :
        LET a == s.contracts[c].annexes[i]
        IN ~a.applied /\ a.source \in Variations =>
               c = s.holds /\ s.extras[a.source].applied = 0 /\ ~s.extras[a.source].worked

NotYet(s) ==
    \A e \in Joins : s.extras[e].status # "accepted" =>
        s.extras[e].applied = 0 /\ ~s.extras[e].worked

Orderly(s) ==
    /\ WellShaped(s) /\ AllAligned(s) /\ Billed(s) /\ Joined(s) /\ WaitsOnHeld(s) /\ NotYet(s)

(* What a call does to the one contract it works on. *)
PutIn(con, i) ==
    [con EXCEPT !.annexes[i].applied = TRUE,
                !.stages = Append(@, [annex |-> con.annexes[i].number, invoice |-> 0])]
TakenOut(con, i) ==
    [con EXCEPT !.annexes[i].applied = FALSE,
                !.stages = Only(@, {m \in Range(@) : m.annex # con.annexes[i].number})]
TakenOff(con, n) == [con EXCEPT !.annexes = Only(@, {a \in Range(@) : a.number # n})]
Beside(s, t) == t.holds = s.holds /\ t.invoices = s.invoices /\ t.dated = s.dated
SameButDays(s, t, v) ==
    \A e \in Joins : /\ t.extras[e].status = s.extras[e].status
                     /\ t.extras[e].days = s.extras[e].days
                     /\ t.extras[e].worked = s.extras[e].worked
                     /\ e # v => t.extras[e] = s.extras[e]
-----------------------------------------------------------------------------
LEMMA ExtraTypes ==
    /\ Terms \cup {0} \subseteq 0..MaxEnd /\ MaxEnd \in Nat
    /\ Extra = [status : {"none", "open", "sent", "accepted"}, days : Terms \cup {0},
                applied : 0..MaxEnd, worked : BOOLEAN]
  BY ExtrasAssumption DEF Extra

LEMMA DaysAlone ==
    ASSUME NEW x \in Extra, NEW d
    PROVE  LET y == [x EXCEPT !.applied = d]
           IN /\ y.applied = d /\ y.status = x.status /\ y.days = x.days /\ y.worked = x.worked
              /\ d \in 0..MaxEnd => y \in Extra
              /\ 0 \in 0..MaxEnd
  BY ExtraTypes

LEMMA ExtendedIs ==
    ASSUME NEW s \in DealSet, NEW days \in Int
    PROVE  /\ Extended(s, days) \in DealSet /\ Beside(s, Extended(s, days))
           /\ Extended(s, days).contracts = s.contracts
           /\ Extended(s, days).extras = s.extras
           /\ Extended(s, days).end = IF days > 0 /\ s.dated THEN s.end + days ELSE s.end
  BY DEF Extended, Moves, DealSet, Beside

LEMMA CountedIs ==
    ASSUME NEW s \in DealSet, NEW v \in Variations
    PROVE  LET t == Counted(s, v)
           IN /\ t \in DealSet /\ Beside(s, t) /\ t.contracts = s.contracts
              /\ SameButDays(s, t, v)
              /\ s.extras[v].applied = 0 => t.end - t.extras[v].applied = s.end
  <1> DEFINE days == s.extras[v].days
             u == Extended(s, days)
             w == [u EXCEPT !.extras[v].applied = days]
  <1>1. v \in Joins /\ s.extras[v] \in Extra /\ days \in 0..MaxEnd
    BY ExtraTypes DEF DealSet, Joins
  <1>2. u \in DealSet /\ Beside(s, u) /\ u.contracts = s.contracts /\ u.extras = s.extras
    BY <1>1, ExtendedIs
  <1>3. CASE Moves(s, days)
    <2>0. days \in Int
      BY <1>1, ExtraTypes
    <2> HIDE DEF days
    <2>a. u.end = IF days > 0 /\ s.dated THEN s.end + days ELSE s.end
      BY <2>0, ExtendedIs
    <2>1. u.end = s.end + days /\ s.end \in Int
      BY <2>a, <1>3 DEF Moves, DealSet
    <2> HIDE DEF u
    <2>2. /\ w \in DealSet /\ w.extras = [s.extras EXCEPT ![v].applied = days]
          /\ Beside(s, w) /\ w.contracts = s.contracts /\ w.end = u.end
      BY <1>1, <1>2, ExtraTypes DEF DealSet, Beside
    <2>3. \A e \in Joins : /\ e # v => w.extras[e] = s.extras[e]
                           /\ w.extras[v] = [s.extras[v] EXCEPT !.applied = days]
      BY <1>1, <2>2 DEF DealSet
    <2>4. /\ w.extras[v].applied = days /\ w.extras[v].status = s.extras[v].status
          /\ w.extras[v].days = s.extras[v].days /\ w.extras[v].worked = s.extras[v].worked
      BY <1>1, <2>3, ExtraTypes
    <2>5. Counted(s, v) = w
      BY <1>3 DEF Counted, u, days
    <2>6. SameButDays(s, w, v)
      BY <2>3, <2>4 DEF SameButDays
    <2> HIDE DEF w
    <2>7. w.end - w.extras[v].applied = s.end
      BY <2>0, <2>1, <2>2, <2>4
    <2> QED BY <2>2, <2>5, <2>6, <2>7
  <1>4. CASE ~Moves(s, days)
    <2>1. Counted(s, v) = s
      BY <1>4 DEF Counted
    <2>2. s.end \in Int
      BY DEF DealSet
    <2> QED BY <2>1, <2>2 DEF Beside, SameButDays
  <1> QED BY <1>3, <1>4

\* Equal but for the days of v, whose date is ahead of them by as much as before.
LEMMA RowsAreTyped ==
    ASSUME NEW s \in DealSet, NEW c \in DOMAIN s.contracts
    PROVE  /\ s.contracts[c] \in ContractRow
           /\ s.contracts[c].annexes \in Seq(AnnexRow)
           /\ s.contracts[c].stages \in Seq(MilestoneRow)
           /\ \A i \in DOMAIN s.contracts[c].annexes : s.contracts[c].annexes[i] \in AnnexRow
           /\ \A k \in DOMAIN s.contracts[c].stages : s.contracts[c].stages[k] \in MilestoneRow
  <1>1. s.contracts \in Seq(ContractRow)
    BY DEF DealSet
  <1>2. s.contracts[c] \in ContractRow
    BY <1>1
  <1>3. /\ s.contracts[c].annexes \in Seq(AnnexRow)
        /\ s.contracts[c].stages \in Seq(MilestoneRow)
    BY Zenon, <1>2 DEF ContractRow
  <1> QED BY <1>2, <1>3

LEMMA ApplyIs ==
    ASSUME NEW s \in DealSet, NEW c \in DOMAIN s.contracts,
           NEW i \in DOMAIN s.contracts[c].annexes, ~s.contracts[c].annexes[i].applied
    PROVE  LET t == Apply(s, c, i)
               e == s.contracts[c].annexes[i].source
           IN /\ t \in DealSet /\ Beside(s, t)
              /\ t.contracts = [s.contracts EXCEPT ![c] = PutIn(@, i)]
              /\ PutIn(s.contracts[c], i) \in ContractRow
              /\ SameButDays(s, t, e)
              /\ e \notin Variations => t.end = s.end /\ t.extras = s.extras
              /\ e \in Variations /\ s.extras[e].applied = 0 => t.end - t.extras[e].applied = s.end
  <1> DEFINE con == s.contracts[c]
             a == con.annexes[i]
             u == [s EXCEPT !.contracts[c].annexes[i].applied = TRUE,
                            !.contracts[c].stages = Append(@, [annex |-> a.number, invoice |-> 0])]
  <1>1. con \in ContractRow /\ a \in AnnexRow
    BY RowsAreTyped
  <1>2. PutIn(con, i) \in ContractRow
    <2>1. [annex |-> a.number, invoice |-> 0] \in MilestoneRow
      BY <1>1 DEF AnnexRow, MilestoneRow
    <2>2. Append(con.stages, [annex |-> a.number, invoice |-> 0]) \in Seq(MilestoneRow)
      BY <1>1, <2>1 DEF ContractRow
    <2>3. [con.annexes EXCEPT ![i].applied = TRUE] \in Seq(AnnexRow)
      <3>1. [a EXCEPT !.applied = TRUE] \in AnnexRow
        BY <1>1 DEF AnnexRow
      <3> QED BY <1>1, <3>1 DEF ContractRow
    <2> QED BY <1>1, <2>2, <2>3 DEF PutIn, ContractRow
  <1>3. /\ u = [s EXCEPT !.contracts = [s.contracts EXCEPT ![c] = PutIn(@, i)]]
        /\ u \in DealSet /\ Beside(s, u) /\ u.extras = s.extras /\ u.end = s.end
        /\ u.contracts = [s.contracts EXCEPT ![c] = PutIn(@, i)]
    <2>1. u = [s EXCEPT !.contracts = [s.contracts EXCEPT ![c] = PutIn(@, i)]]
      BY Zenon, <1>1 DEF PutIn, DealSet, ContractRow
    <2> HIDE DEF u
    <2>2. [s.contracts EXCEPT ![c] = PutIn(@, i)] \in Seq(ContractRow)
      BY <1>2 DEF DealSet
    <2> QED BY <2>1, <2>2 DEF DealSet, Beside
  <1>4. Apply(s, c, i) = IF a.source \in Variations THEN Counted(u, a.source) ELSE u
    BY DEF Apply
  <1> HIDE DEF u
  <1>5. s.end \in Int
    BY DEF DealSet
  <1>6. CASE a.source \in Variations
    <2>1. LET t == Counted(u, a.source)
          IN /\ t \in DealSet /\ Beside(u, t) /\ t.contracts = u.contracts
             /\ SameButDays(u, t, a.source)
             /\ u.extras[a.source].applied = 0 => t.end - t.extras[a.source].applied = u.end
      BY Zenon, <1>3, <1>6, CountedIs
    <2>2. Apply(s, c, i) = Counted(u, a.source)
      BY <1>4, <1>6
    <2>3. Beside(s, Apply(s, c, i)) /\ SameButDays(s, Apply(s, c, i), a.source)
      BY Zenon, <1>3, <2>1, <2>2 DEF Beside, SameButDays
    <2> QED BY Zenon, <1>2, <1>3, <1>6, <2>1, <2>2, <2>3
  <1>7. CASE a.source \notin Variations
    <2>1. Apply(s, c, i) = u
      BY <1>4, <1>7
    <2>2. SameButDays(s, u, a.source)
      BY <1>3 DEF SameButDays
    <2> QED BY <1>2, <1>3, <1>7, <2>1, <2>2
  <1> QED BY <1>6, <1>7

LEMMA OnlyInSeq ==
    ASSUME NEW R, NEW rows \in Seq(R), NEW S
    PROVE  Only(rows, S) \in Seq(R)
  <1>1. Only(rows, S) \in Seq(R \cap S)
    BY Zenon, OnlyIsSeq
  <1> QED BY <1>1

LEMMA UnapplyIs ==
    ASSUME NEW s \in DealSet, NEW c \in DOMAIN s.contracts,
           NEW i \in DOMAIN s.contracts[c].annexes, s.contracts[c].annexes[i].applied
    PROVE  LET t == Unapply(s, c, i)
               e == s.contracts[c].annexes[i].source
           IN /\ t \in DealSet /\ Beside(s, t)
              /\ t.contracts = [s.contracts EXCEPT ![c] = TakenOut(@, i)]
              /\ TakenOut(s.contracts[c], i) \in ContractRow
              /\ SameButDays(s, t, e)
              /\ e \notin Variations => t.end = s.end /\ t.extras = s.extras
              /\ e \in Variations => t.extras[e].applied = 0
              /\ e \in Variations /\ s.dated => t.end = s.end - s.extras[e].applied
  <1> DEFINE con == s.contracts[c]
             a == con.annexes[i]
             e == a.source
             u == [s EXCEPT !.contracts[c].annexes[i].applied = FALSE,
                            !.contracts[c].stages = Only(@, {m \in Range(@) : m.annex # a.number})]
             days == u.extras[e].applied
             back == IF Moves(u, days) THEN [u EXCEPT !.end = @ - days] ELSE u
             w == [back EXCEPT !.extras[e].applied = 0]
  <1>1. con \in ContractRow /\ a \in AnnexRow
    BY RowsAreTyped
  <1>2. TakenOut(con, i) \in ContractRow
    <2>1. Only(con.stages, {m \in Range(con.stages) : m.annex # a.number}) \in Seq(MilestoneRow)
      <3>1. con.stages \in Seq(MilestoneRow)
        BY <1>1 DEF ContractRow
      <3> QED BY <3>1, OnlyInSeq
    <2>2. [con.annexes EXCEPT ![i].applied = FALSE] \in Seq(AnnexRow)
      <3>1. [a EXCEPT !.applied = FALSE] \in AnnexRow
        BY <1>1 DEF AnnexRow
      <3> QED BY <1>1, <3>1 DEF ContractRow
    <2> QED BY <1>1, <2>1, <2>2 DEF TakenOut, ContractRow
  <1>3. /\ u \in DealSet /\ Beside(s, u) /\ u.extras = s.extras /\ u.end = s.end
        /\ u.contracts = [s.contracts EXCEPT ![c] = TakenOut(@, i)]
    <2>1. u = [s EXCEPT !.contracts = [s.contracts EXCEPT ![c] = TakenOut(@, i)]]
      BY <1>1 DEF TakenOut, DealSet, ContractRow
    <2> HIDE DEF u
    <2>2. [s.contracts EXCEPT ![c] = TakenOut(@, i)] \in Seq(ContractRow)
      BY <1>2 DEF DealSet
    <2> QED BY <2>1, <2>2 DEF DealSet, Beside
  <1>4. Unapply(s, c, i) = IF e \in Variations THEN w ELSE u
    BY DEF Unapply
  <1> HIDE DEF u
  <1>5. e \in Joins /\ days \in 0..MaxEnd /\ days = s.extras[e].applied /\ MaxEnd \in Nat
    BY <1>1, <1>3, ExtraTypes DEF AnnexRow, DealSet
  <1>6. CASE e \in Variations
    <2> HIDE DEF days
    <2>1. /\ back \in DealSet /\ Beside(u, back) /\ back.contracts = u.contracts
          /\ back.extras = u.extras
          /\ back.end = IF days > 0 /\ u.dated THEN u.end - days ELSE u.end
      <3>1. CASE Moves(u, days)
        <4>1. back = [u EXCEPT !.end = @ - days]
          BY <3>1
        <4>2. u.end - days \in Int /\ days > 0 /\ u.dated
          BY <1>3, <1>5, <3>1 DEF Moves, DealSet
        <4> QED BY <1>3, <4>1, <4>2 DEF DealSet, Beside
      <3>2. CASE ~Moves(u, days)
        <4>1. back = u /\ ~(days > 0 /\ u.dated)
          BY Zenon, <3>2 DEF Moves
        <4> QED BY <1>3, <4>1 DEF Beside
      <3> QED BY <3>1, <3>2
    <2> HIDE DEF back
    <2>2. /\ w \in DealSet /\ Beside(back, w) /\ w.contracts = back.contracts /\ w.end = back.end
          /\ w.extras = [back.extras EXCEPT ![e].applied = 0]
      <3>1. [back.extras EXCEPT ![e].applied = 0] \in [Joins -> Extra]
        <4>1. back.extras \in [Joins -> Extra]
          BY <2>1 DEF DealSet
        <4>2. [back.extras[e] EXCEPT !.applied = 0] \in Extra
          BY Zenon, <4>1, <1>5, DaysAlone
        <4> QED BY <4>1, <4>2, <1>5
      <3> QED BY ZenonT(40), <2>1, <3>1 DEF DealSet, Beside
    <2>3. s.extras \in [Joins -> Extra] /\ back.extras = s.extras
      BY <1>3, <2>1 DEF DealSet
    <2>4. SameButDays(s, w, e) /\ w.extras[e].applied = 0
      <3>1. w.extras[e] = [s.extras[e] EXCEPT !.applied = 0] /\ s.extras[e] \in Extra
        <4>1. w.extras = [s.extras EXCEPT ![e].applied = 0]
          BY <2>2, <2>3
        <4> QED BY Zenon, <1>5, <2>3, <4>1
      <3>2. \A f \in Joins : f # e => w.extras[f] = s.extras[f]
        BY ZenonT(40), <1>5, <2>2, <2>3
      <3>3. /\ w.extras[e].applied = 0 /\ w.extras[e].status = s.extras[e].status
            /\ w.extras[e].days = s.extras[e].days /\ w.extras[e].worked = s.extras[e].worked
        <4> DEFINE y == [s.extras[e] EXCEPT !.applied = 0]
        <4>1. /\ y.applied = 0 /\ y.status = s.extras[e].status
              /\ y.days = s.extras[e].days /\ y.worked = s.extras[e].worked
          BY Zenon, <3>1, DaysAlone
        <4>2. w.extras[e] = y
          BY Zenon, <3>1
        <4> HIDE DEF y
        <4> QED BY Zenon, <4>1, <4>2
      <3> QED BY ZenonT(40), <3>2, <3>3 DEF SameButDays
    <2>5. Beside(s, w) /\ (s.dated => w.end = s.end - days)
      <3>1. s.end \in Int /\ days \in Nat
        BY <1>5 DEF DealSet
      <3> QED BY <1>3, <2>1, <2>2, <3>1 DEF Beside
    <2>6. Unapply(s, c, i) = w
      BY <1>4, <1>6
    <2> HIDE DEF w
    <2>7. w.contracts = [s.contracts EXCEPT ![c] = TakenOut(@, i)]
      BY <1>3, <2>1, <2>2
    <2> QED BY Zenon, <1>2, <1>5, <1>6, <2>2, <2>4, <2>5, <2>6, <2>7
  <1>7. CASE e \notin Variations
    <2>1. Unapply(s, c, i) = u
      BY <1>4, <1>7
    <2>2. SameButDays(s, u, e)
      BY <1>3 DEF SameButDays
    <2> QED BY <1>2, <1>3, <1>7, <2>1, <2>2
  <1> QED BY <1>6, <1>7
-----------------------------------------------------------------------------
\* The annex taken back is the last, and in force its milestone is the last.
Newest(con, n) ==
    /\ con.annexes # <<>> /\ n = Len(con.annexes)
    /\ con.annexes[n].applied => con.stages # <<>> /\ con.stages[Len(con.stages)].annex = n
FrontOf(rows) == [k \in 1..Len(rows) - 1 |-> rows[k]]
Shorter(con) ==
    [con EXCEPT !.annexes = FrontOf(@),
                !.stages = IF con.annexes[Len(con.annexes)].applied THEN FrontOf(@) ELSE @]

LEMMA NumberedIsItsPlace ==
    ASSUME NEW con \in ContractRow, Aligned(con), NEW n \in DOMAIN con.annexes
    PROVE  NumberedAt(con, n) = n
  <1>1. con.annexes[n].number = n /\ \A j \in 1..n - 1 : con.annexes[j].number # n
    BY DEF Aligned, ContractRow
  <1>2. ASSUME NEW i \in DOMAIN con.annexes, con.annexes[i].number = n PROVE i = n
    BY <1>2 DEF Aligned
  <1> QED BY <1>1, <1>2 DEF NumberedAt

LEMMA PutInAligned ==
    ASSUME NEW con \in ContractRow, Aligned(con), NEW i \in DOMAIN con.annexes,
           ~con.annexes[i].applied
    PROVE  /\ Aligned(PutIn(con, i))
           /\ DOMAIN PutIn(con, i).annexes = DOMAIN con.annexes
           /\ \A j \in DOMAIN con.annexes :
                  /\ PutIn(con, i).annexes[j].source = con.annexes[j].source
                  /\ PutIn(con, i).annexes[j].number = con.annexes[j].number
                  /\ PutIn(con, i).annexes[j].applied = (con.annexes[j].applied \/ j = i)
           /\ PutIn(con, i).stages = Append(con.stages, [annex |-> i, invoice |-> 0])
           /\ PutIn(con, i).signed = con.signed /\ PutIn(con, i).cancelled = con.cancelled
  <1> DEFINE new == PutIn(con, i)
             row == [annex |-> i, invoice |-> 0]
             m == Len(con.stages)
  <1>1. /\ con.annexes \in Seq(AnnexRow) /\ con.stages \in Seq(MilestoneRow)
        /\ con.annexes[i] \in AnnexRow /\ con.annexes[i].number = i
    BY DEF ContractRow, Aligned
  <1>2. /\ new.annexes = [con.annexes EXCEPT ![i].applied = TRUE]
        /\ new.stages = Append(con.stages, row)
        /\ new.signed = con.signed /\ new.cancelled = con.cancelled
    BY <1>1 DEF PutIn, ContractRow
  <1> HIDE DEF new
  <1>3. /\ DOMAIN new.annexes = DOMAIN con.annexes
        /\ \A j \in DOMAIN con.annexes :
               /\ new.annexes[j].source = con.annexes[j].source
               /\ new.annexes[j].number = con.annexes[j].number
               /\ new.annexes[j].applied = (con.annexes[j].applied \/ j = i)
    <2>1. DOMAIN new.annexes = DOMAIN con.annexes
      BY <1>1, <1>2
    <2>2. new.annexes[i] = [con.annexes[i] EXCEPT !.applied = TRUE]
      BY <1>1, <1>2
    <2>3. \A j \in DOMAIN con.annexes : j # i => new.annexes[j] = con.annexes[j]
      BY <1>1, <1>2
    <2>4. \A j \in DOMAIN con.annexes : con.annexes[j] \in AnnexRow
      BY <1>1
    <2> QED BY <1>1, <2>1, <2>2, <2>3, <2>4 DEF AnnexRow
  <1>4. /\ m \in Nat /\ DOMAIN con.stages = 1..m /\ DOMAIN new.stages = 1..m + 1
        /\ new.stages[m + 1] = row /\ \A k \in 1..m : new.stages[k] = con.stages[k]
    BY <1>1, <1>2
  <1> HIDE DEF m
  <1>5. \A k \in 1..m : con.stages[k].annex # i
    BY <1>4 DEF Aligned
  <1>6. \A k \in 1..m + 1 : k = m + 1 \/ k \in 1..m
    BY <1>4
  <1>7. Aligned(new)
    <2>1. \A j \in DOMAIN new.annexes : new.annexes[j].number = j
      BY <1>3 DEF Aligned
    <2>2. \A k \in DOMAIN new.stages :
              /\ new.stages[k].annex \in DOMAIN new.annexes
              /\ new.annexes[new.stages[k].annex].applied
      <3> TAKE k \in DOMAIN new.stages
      <3>1. CASE k = m + 1
        <4>1. new.stages[k].annex = i
          BY <3>1, <1>4
        <4>2. i \in DOMAIN new.annexes /\ new.annexes[i].applied
          BY <1>3
        <4> QED BY <4>1, <4>2
      <3>2. CASE k \in 1..m
        BY <3>2, <1>3, <1>4 DEF Aligned
      <3> QED BY <3>1, <3>2, <1>4, <1>6
    <2>3. \A k, l \in DOMAIN new.stages : new.stages[k].annex = new.stages[l].annex => k = l
      <3> TAKE k, l \in DOMAIN new.stages
      <3>1. CASE k \in 1..m /\ l \in 1..m
        BY <3>1, <1>4 DEF Aligned
      <3>2. CASE k = m + 1 \/ l = m + 1
        BY <3>2, <1>4, <1>5, <1>6
      <3> QED BY <3>1, <3>2, <1>4, <1>6
    <2>4. ASSUME NEW j \in DOMAIN new.annexes, new.annexes[j].applied
          PROVE  \E k \in DOMAIN new.stages : new.stages[k].annex = j
      <3>1. CASE j = i
        <4>1. m + 1 \in DOMAIN new.stages /\ new.stages[m + 1].annex = i
          BY <1>4
        <4> QED BY <3>1, <4>1
      <3>2. CASE j # i
        <4>1. PICK k \in DOMAIN con.stages : con.stages[k].annex = j
          BY <3>2, <2>4, <1>3 DEF Aligned
        <4>2. k \in DOMAIN new.stages /\ new.stages[k] = con.stages[k]
          BY <1>4, <4>1
        <4> QED BY <4>1, <4>2
      <3> QED BY <3>1, <3>2
    <2> QED BY <2>1, <2>2, <2>3, <2>4 DEF Aligned
  <1> QED BY <1>2, <1>3, <1>7 DEF new

\* What is left of the milestones when that of the newest annex goes.
LEMMA StagesLeft ==
    ASSUME NEW con \in ContractRow, Aligned(con), NEW number, Newest(con, number),
           con.annexes[number].applied
    PROVE  Only(con.stages, {m \in Range(con.stages) : m.annex # number}) = FrontOf(con.stages)
  <1> DEFINE S == {m \in Range(con.stages) : m.annex # number}
             top == Len(con.stages)
  <1>1. con.stages \in Seq(MilestoneRow) /\ con.stages # <<>> /\ con.stages[top].annex = number
    BY DEF ContractRow, Newest
  <1>2. top \in Nat /\ top > 0 /\ DOMAIN con.stages = 1..top
    BY <1>1
  <1>3. con.stages[top] \notin S
    BY <1>1
  <1>4. ASSUME NEW k \in 1..top - 1 PROVE con.stages[k] \in S
    <2>1. k \in DOMAIN con.stages /\ top \in DOMAIN con.stages /\ k # top
      BY <1>2
    <2>2. con.stages[k].annex # number
      BY <1>1, <2>1 DEF Aligned
    <2>3. con.stages[k] \in Range(con.stages)
      BY <2>1 DEF Range
    <2> QED BY <2>2, <2>3
  <1> HIDE DEF S
  <1>5. Only(con.stages, S) = [k \in 1..Len(con.stages) - 1 |-> con.stages[k]]
    BY <1>1, <1>2, <1>3, <1>4, OnlyButLast
  <1> QED BY <1>5 DEF S, FrontOf

LEMMA AnnexesLeft ==
    ASSUME NEW con \in ContractRow, \A i \in DOMAIN con.annexes : con.annexes[i].number = i,
           con.annexes # <<>>
    PROVE  Only(con.annexes, {a \in Range(con.annexes) : a.number # Len(con.annexes)}) = FrontOf(con.annexes)
  <1> DEFINE S == {a \in Range(con.annexes) : a.number # Len(con.annexes)}
             top == Len(con.annexes)
  <1>1. con.annexes \in Seq(AnnexRow)
    BY DEF ContractRow
  <1>2. top \in Nat /\ top > 0 /\ DOMAIN con.annexes = 1..top
    BY <1>1
  <1>3. con.annexes[top] \notin S
    BY <1>2
  <1>4. ASSUME NEW k \in 1..top - 1 PROVE con.annexes[k] \in S
    <2>1. k \in DOMAIN con.annexes /\ k # top
      BY <1>2
    <2>2. con.annexes[k] \in Range(con.annexes)
      BY <2>1 DEF Range
    <2> QED BY <2>1, <2>2
  <1> HIDE DEF S
  <1>5. Only(con.annexes, S) = [k \in 1..Len(con.annexes) - 1 |-> con.annexes[k]]
    BY <1>1, <1>2, <1>3, <1>4, OnlyButLast
  <1> QED BY <1>5 DEF S, FrontOf

LEMMA FrontIsSeq ==
    ASSUME NEW R, NEW rows \in Seq(R), rows # <<>>
    PROVE  /\ FrontOf(rows) \in Seq(R) /\ Len(FrontOf(rows)) = Len(rows) - 1
           /\ Len(rows) \in Nat /\ Len(rows) > 0
           /\ DOMAIN FrontOf(rows) = 1..Len(rows) - 1
           /\ \A k \in 1..Len(rows) - 1 : k \in DOMAIN rows /\ FrontOf(rows)[k] = rows[k]
  BY DEF FrontOf

\* The milestone alone goes with the signature, the annex stays.
LEMMA TakenOutAligned ==
    ASSUME NEW con \in ContractRow, Aligned(con), NEW n, Newest(con, n),
           con.annexes[n].applied
    PROVE  /\ Aligned(TakenOut(con, n))
           /\ DOMAIN TakenOut(con, n).annexes = DOMAIN con.annexes
           /\ \A j \in DOMAIN con.annexes :
                  /\ TakenOut(con, n).annexes[j].source = con.annexes[j].source
                  /\ TakenOut(con, n).annexes[j].number = con.annexes[j].number
                  /\ TakenOut(con, n).annexes[j].applied = (con.annexes[j].applied /\ j # n)
           /\ TakenOut(con, n).stages = FrontOf(con.stages)
           /\ TakenOut(con, n).signed = con.signed
           /\ TakenOut(con, n).cancelled = con.cancelled
  <1> DEFINE new == TakenOut(con, n)
             m == Len(con.stages)
  <1>0. /\ con.annexes \in Seq(AnnexRow) /\ con.annexes # <<>> /\ n = Len(con.annexes)
        /\ con.stages \in Seq(MilestoneRow) /\ con.stages # <<>>
        /\ con.stages[Len(con.stages)].annex = n
    BY DEF ContractRow, Newest
  <1>1. n \in DOMAIN con.annexes /\ con.annexes[n] \in AnnexRow /\ con.annexes[n].number = n
    <2>1. n \in DOMAIN con.annexes
      BY <1>0
    <2> QED BY <1>0, <2>1 DEF Aligned
  <1>2. /\ new.annexes = [con.annexes EXCEPT ![n].applied = FALSE]
        /\ new.stages = FrontOf(con.stages)
        /\ new.signed = con.signed /\ new.cancelled = con.cancelled
    <2>1. Only(con.stages, {x \in Range(con.stages) : x.annex # con.annexes[n].number})
          = FrontOf(con.stages)
      BY <1>1, StagesLeft
    <2> QED BY <2>1 DEF TakenOut, ContractRow
  <1> HIDE DEF new
  <1>3. /\ DOMAIN new.annexes = DOMAIN con.annexes
        /\ \A j \in DOMAIN con.annexes :
               /\ new.annexes[j].source = con.annexes[j].source
               /\ new.annexes[j].number = con.annexes[j].number
               /\ new.annexes[j].applied = (con.annexes[j].applied /\ j # n)
    <2>1. DOMAIN new.annexes = DOMAIN con.annexes
      BY <1>0, <1>2
    <2>2. new.annexes[n] = [con.annexes[n] EXCEPT !.applied = FALSE]
      BY <1>0, <1>1, <1>2
    <2>3. \A j \in DOMAIN con.annexes : j # n => new.annexes[j] = con.annexes[j]
      BY <1>0, <1>2
    <2>4. \A j \in DOMAIN con.annexes : con.annexes[j].applied \in BOOLEAN
      <3>1. \A j \in DOMAIN con.annexes : con.annexes[j] \in AnnexRow
        BY <1>0
      <3> QED BY <3>1 DEF AnnexRow
    <2>5. /\ new.annexes[n].source = con.annexes[n].source
          /\ new.annexes[n].number = con.annexes[n].number
          /\ new.annexes[n].applied = FALSE
      BY <1>1, <2>2 DEF AnnexRow
    <2> HIDE DEF m
    <2>6. ASSUME NEW j \in DOMAIN con.annexes
          PROVE  /\ new.annexes[j].source = con.annexes[j].source
                 /\ new.annexes[j].number = con.annexes[j].number
                 /\ new.annexes[j].applied = (con.annexes[j].applied /\ j # n)
      <3>1. CASE j = n
        BY <3>1, <2>5, Zenon
      <3>2. CASE j # n
        BY <3>2, <2>3, <2>4, Zenon
      <3> QED BY <3>1, <3>2
    <2> QED BY <2>1, <2>6
  <1>4. /\ m \in Nat /\ m > 0 /\ DOMAIN con.stages = 1..m /\ DOMAIN new.stages = 1..m - 1
        /\ \A k \in 1..m - 1 : k \in 1..m /\ k # m /\ new.stages[k] = con.stages[k]
    BY <1>0, <1>2, FrontIsSeq
  <1>a. con.stages[m].annex = n
    BY <1>0
  <1> HIDE DEF m
  <1>5. ASSUME NEW k \in 1..m - 1 PROVE con.stages[k].annex # n
    <2>1. k \in DOMAIN con.stages /\ m \in DOMAIN con.stages /\ k # m
      BY <1>4
    <2> QED BY <2>1, <1>a DEF Aligned
  <1>6. Aligned(new)
    <2>1. \A j \in DOMAIN new.annexes : new.annexes[j].number = j
      BY <1>3 DEF Aligned
    <2>2. \A k \in DOMAIN new.stages :
              /\ new.stages[k].annex \in DOMAIN new.annexes
              /\ new.annexes[new.stages[k].annex].applied
      <3> TAKE k \in DOMAIN new.stages
      <3>1. /\ k \in 1..m - 1 /\ k \in DOMAIN con.stages
            /\ new.stages[k].annex = con.stages[k].annex
        BY <1>4
      <3>2. con.stages[k].annex \in DOMAIN con.annexes /\ con.annexes[con.stages[k].annex].applied
        BY <3>1 DEF Aligned
      <3> QED BY <3>1, <3>2, <1>3, <1>5
    <2>3. \A k, l \in DOMAIN new.stages : new.stages[k].annex = new.stages[l].annex => k = l
      BY <1>4 DEF Aligned
    <2>4. ASSUME NEW j \in DOMAIN new.annexes, new.annexes[j].applied
          PROVE  \E k \in DOMAIN new.stages : new.stages[k].annex = j
      <3>1. PICK k \in DOMAIN con.stages : con.stages[k].annex = j
        BY <2>4, <1>3 DEF Aligned
      <3>2. k # m
        BY <2>4, <3>1, <1>3, <1>a
      <3>3. k \in 1..m - 1
        BY <3>2, <3>1, <1>4
      <3> QED BY <3>1, <3>3, <1>4
    <2> QED BY <2>1, <2>2, <2>3, <2>4 DEF Aligned
  <1> QED BY <1>2, <1>3, <1>6 DEF new

LEMMA ShorterAligned ==
    ASSUME NEW con \in ContractRow, Aligned(con), NEW n, Newest(con, n)
    PROVE  /\ Shorter(con) \in ContractRow /\ Aligned(Shorter(con))
           /\ n \in Nat /\ n > 0 /\ n \in DOMAIN con.annexes
           /\ DOMAIN Shorter(con).annexes = 1..n - 1
           /\ \A j \in 1..n - 1 :
                  j \in DOMAIN con.annexes /\ Shorter(con).annexes[j] = con.annexes[j]
           /\ Shorter(con).stages =
                  IF con.annexes[n].applied THEN FrontOf(con.stages) ELSE con.stages
           /\ Shorter(con).signed = con.signed /\ Shorter(con).cancelled = con.cancelled
  <1> DEFINE new == Shorter(con)
             m == Len(con.stages)
  <1>0. /\ con.annexes \in Seq(AnnexRow) /\ con.annexes # <<>> /\ n = Len(con.annexes)
        /\ con.stages \in Seq(MilestoneRow)
        /\ con.annexes[n].applied => con.stages # <<>> /\ con.stages[Len(con.stages)].annex = n
    BY DEF ContractRow, Newest
  <1>1. /\ n \in Nat /\ n > 0 /\ DOMAIN con.annexes = 1..n
        /\ FrontOf(con.annexes) \in Seq(AnnexRow) /\ DOMAIN FrontOf(con.annexes) = 1..n - 1
        /\ \A j \in 1..n - 1 : FrontOf(con.annexes)[j] = con.annexes[j]
    <2>1. n \in Nat /\ n > 0 /\ DOMAIN con.annexes = 1..n
      BY <1>0
    <2>2. /\ FrontOf(con.annexes) \in Seq(AnnexRow) /\ DOMAIN FrontOf(con.annexes) = 1..n - 1
          /\ \A j \in 1..n - 1 : FrontOf(con.annexes)[j] = con.annexes[j]
      BY <1>0, FrontIsSeq
    <2> QED BY <2>1, <2>2
  <1>2. /\ new.annexes = FrontOf(con.annexes)
        /\ new.stages = IF con.annexes[n].applied THEN FrontOf(con.stages) ELSE con.stages
        /\ new.signed = con.signed /\ new.cancelled = con.cancelled
    BY <1>0 DEF Shorter, ContractRow
  <1>3. new \in ContractRow
    <2>1. (IF con.annexes[n].applied THEN FrontOf(con.stages) ELSE con.stages) \in Seq(MilestoneRow)
      BY <1>0, FrontIsSeq
    <2> QED BY <1>0, <1>1, <2>1 DEF Shorter, ContractRow
  <1> HIDE DEF new
  <1>4. /\ m \in Nat /\ DOMAIN con.stages = 1..m
        /\ \A k \in DOMAIN new.stages : k \in 1..m /\ new.stages[k] = con.stages[k]
        /\ \A k \in DOMAIN new.stages : con.annexes[n].applied => k # m
        /\ \A k \in 1..m : (con.annexes[n].applied => k # m) => k \in DOMAIN new.stages
    <2>1. CASE con.annexes[n].applied
      <3>1. /\ new.stages = FrontOf(con.stages) /\ DOMAIN FrontOf(con.stages) = 1..m - 1 /\ m > 0
            /\ m \in Nat /\ \A k \in 1..m - 1 : FrontOf(con.stages)[k] = con.stages[k]
        BY <2>1, <1>0, <1>2, FrontIsSeq
      <3>2. DOMAIN con.stages = 1..m
        BY <1>0
      <3> HIDE DEF m
      <3> QED BY <2>1, <3>1, <3>2
    <2>2. CASE ~con.annexes[n].applied
      BY <2>2, <1>0, <1>2
    <2> QED BY <2>1, <2>2
  <1>a. con.annexes[n].applied => m \in DOMAIN con.stages /\ con.stages[m].annex = n
    BY <1>0
  <1> HIDE DEF m
  <1>5. \A k \in DOMAIN new.stages : con.stages[k].annex # n
    BY <1>4, <1>a DEF Aligned
  <1>6. Aligned(new)
    <2>1. \A j \in DOMAIN new.annexes : new.annexes[j].number = j
      BY <1>1, <1>2 DEF Aligned
    <2>2. \A k \in DOMAIN new.stages :
              /\ new.stages[k].annex \in DOMAIN new.annexes
              /\ new.annexes[new.stages[k].annex].applied
      <3> TAKE k \in DOMAIN new.stages
      <3>1. con.stages[k].annex \in 1..n /\ con.annexes[con.stages[k].annex].applied
        BY <1>1, <1>4 DEF Aligned
      <3>2. con.stages[k].annex \in 1..n - 1
        BY <3>1, <1>1, <1>5
      <3> QED BY Zenon, <3>1, <3>2, <1>1, <1>2, <1>4
    <2>3. \A k, l \in DOMAIN new.stages : new.stages[k].annex = new.stages[l].annex => k = l
      BY <1>4 DEF Aligned
    <2>4. ASSUME NEW j \in DOMAIN new.annexes, new.annexes[j].applied
          PROVE  \E k \in DOMAIN new.stages : new.stages[k].annex = j
      <3>0. j \in 1..n - 1 /\ j \in 1..n /\ j # n /\ con.annexes[j].applied
        BY <2>4, <1>1, <1>2
      <3>1. PICK k \in DOMAIN con.stages : con.stages[k].annex = j
        BY <3>0, <1>1 DEF Aligned
      <3>2. con.annexes[n].applied => k # m
        BY <3>0, <3>1, <1>a
      <3>3. k \in DOMAIN new.stages
        BY <3>2, <3>1, <1>4
      <3> QED BY <3>1, <3>3, <1>4
    <2> QED BY <2>1, <2>2, <2>3, <2>4 DEF Aligned
  <1> QED BY <1>1, <1>2, <1>3, <1>6 DEF new
-----------------------------------------------------------------------------
\* One contract is rewritten: it stays as signed as it was, and what was invoiced of it
\* is where it was.
Fits(con, new) ==
    /\ new \in ContractRow /\ Aligned(new)
    /\ new.signed = con.signed /\ new.cancelled = con.cancelled
    /\ \A k \in DOMAIN new.stages : new.stages[k].invoice # 0 =>
           k \in DOMAIN con.stages /\ con.stages[k].invoice = new.stages[k].invoice
    /\ \A k \in DOMAIN con.stages : con.stages[k].invoice # 0 =>
           k \in DOMAIN new.stages /\ new.stages[k].invoice = con.stages[k].invoice
OfTheSame(con, new) ==
    \A j \in DOMAIN new.annexes :
        j \in DOMAIN con.annexes /\ new.annexes[j].source = con.annexes[j].source

LEMMA OneReplaced ==
    ASSUME NEW s \in DealSet, NEW c \in DOMAIN s.contracts, NEW new, NEW t,
           t.contracts = [s.contracts EXCEPT ![c] = new]
    PROVE  /\ DOMAIN t.contracts = DOMAIN s.contracts
           /\ t.contracts[c] = new
           /\ \A d \in DOMAIN s.contracts : d # c => t.contracts[d] = s.contracts[d]
  BY DEF DealSet

LEMMA FitsKeeps ==
    ASSUME NEW s, WellShaped(s), AllAligned(s), Billed(s), NEW c \in DOMAIN s.contracts,
           NEW new, Fits(s.contracts[c], new), NEW t \in DealSet, Beside(s, t),
           t.contracts = [s.contracts EXCEPT ![c] = new]
    PROVE  WellShaped(t) /\ AllAligned(t) /\ Billed(t)
  <1>1. s \in DealSet
    BY DEF WellShaped
  <1>2. /\ DOMAIN t.contracts = DOMAIN s.contracts /\ t.contracts[c] = new
        /\ \A d \in DOMAIN s.contracts : d # c => t.contracts[d] = s.contracts[d]
    BY <1>1, OneReplaced
  <1>3. /\ t.holds = s.holds /\ t.invoices = s.invoices
        /\ new.signed = s.contracts[c].signed /\ new.cancelled = s.contracts[c].cancelled
    BY DEF Beside, Fits
  <1>4. \A d \in DOMAIN s.contracts : /\ t.contracts[d].signed = s.contracts[d].signed
                                      /\ t.contracts[d].cancelled = s.contracts[d].cancelled
    BY <1>2, <1>3
  <1>5. WellShaped(t)
    BY <1>2, <1>3, <1>4 DEF WellShaped, NoContract
  <1>6. AllAligned(t)
    BY <1>2 DEF AllAligned, Fits
  <1>7. /\ \A d \in DOMAIN s.contracts : \A k \in DOMAIN t.contracts[d].stages :
               t.contracts[d].stages[k].invoice # 0 =>
                   /\ k \in DOMAIN s.contracts[d].stages
                   /\ s.contracts[d].stages[k].invoice = t.contracts[d].stages[k].invoice
        /\ \A d \in DOMAIN s.contracts : \A k \in DOMAIN s.contracts[d].stages :
               s.contracts[d].stages[k].invoice # 0 =>
                   /\ k \in DOMAIN t.contracts[d].stages
                   /\ t.contracts[d].stages[k].invoice = s.contracts[d].stages[k].invoice
    BY ZenonT(40), <1>2 DEF Fits
  <1>8. Billed(t)
    <2>1. ASSUME NEW id \in DOMAIN t.invoices
          PROVE  /\ t.invoices[id].contract \in DOMAIN t.contracts
                 /\ t.invoices[id].at \in DOMAIN t.contracts[t.invoices[id].contract].stages
                 /\ t.contracts[t.invoices[id].contract].stages[t.invoices[id].at].invoice = id
      <3> DEFINE d == s.invoices[id].contract
                 k == s.invoices[id].at
      <3>1. id \in DOMAIN s.invoices /\ id # 0
        BY <1>1, <1>3 DEF DealSet
      <3>2. /\ d \in DOMAIN s.contracts /\ k \in DOMAIN s.contracts[d].stages
            /\ s.contracts[d].stages[k].invoice = id
        BY Zenon, <3>1 DEF Billed
      <3>3. t.invoices[id].contract = d /\ t.invoices[id].at = k /\ d \in DOMAIN t.contracts
        BY <1>2, <1>3, <3>2
      <3>4. k \in DOMAIN t.contracts[d].stages /\ t.contracts[d].stages[k].invoice = id
        BY <1>7, <3>1, <3>2
      <3> QED BY <3>3, <3>4
    <2>2. ASSUME NEW d \in DOMAIN t.contracts, NEW k \in DOMAIN t.contracts[d].stages,
                 t.contracts[d].stages[k].invoice # 0
          PROVE  LET id == t.contracts[d].stages[k].invoice
                 IN id \in DOMAIN t.invoices /\ t.invoices[id] = [contract |-> d, at |-> k]
      <3>1. d \in DOMAIN s.contracts
        BY <1>2
      <3>2. /\ k \in DOMAIN s.contracts[d].stages
            /\ s.contracts[d].stages[k].invoice = t.contracts[d].stages[k].invoice
        BY <1>7, <2>2, <3>1
      <3> QED BY <1>3, <2>2, <3>1, <3>2 DEF Billed
    <2> QED BY Zenon, <2>1, <2>2 DEF Billed
  <1> QED BY <1>5, <1>6, <1>8

LEMMA SourcesKept ==
    ASSUME NEW s \in DealSet, Joined(s), NEW c \in DOMAIN s.contracts,
           NEW new, OfTheSame(s.contracts[c], new), NEW t,
           t.contracts = [s.contracts EXCEPT ![c] = new],
           \A e \in Joins : t.extras[e].status = s.extras[e].status
    PROVE  Joined(t)
  <1>1. /\ DOMAIN t.contracts = DOMAIN s.contracts /\ t.contracts[c] = new
        /\ \A d \in DOMAIN s.contracts : d # c => t.contracts[d] = s.contracts[d]
    BY OneReplaced
  <1>2. \A d \in DOMAIN s.contracts : \A j \in DOMAIN t.contracts[d].annexes :
            /\ j \in DOMAIN s.contracts[d].annexes
            /\ t.contracts[d].annexes[j].source = s.contracts[d].annexes[j].source
    BY <1>1 DEF OfTheSame
  <1>3. \A d \in DOMAIN s.contracts : \A j \in DOMAIN s.contracts[d].annexes :
            s.contracts[d].annexes[j].source \in Joins
    BY RowsAreTyped DEF AnnexRow
  <1> QED BY <1>1, <1>2, <1>3 DEF Joined

\* What waits after a call that works on one annex: what waited before, but for it.
ChangesOnly(s, t, c, i, new) ==
    /\ c \in DOMAIN s.contracts /\ i \in DOMAIN s.contracts[c].annexes
    /\ OfTheSame(s.contracts[c], new) /\ Beside(s, t)
    /\ t.contracts = [s.contracts EXCEPT ![c] = new]
    /\ SameButDays(s, t, s.contracts[c].annexes[i].source)
    /\ \A j \in DOMAIN new.annexes :
           j # i => new.annexes[j].applied = s.contracts[c].annexes[j].applied

LEMMA WaitingKept ==
    ASSUME NEW s \in DealSet, Joined(s), WaitsOnHeld(s), NotYet(s),
           NEW c, NEW i, NEW new, NEW t, ChangesOnly(s, t, c, i, new),
           i \in DOMAIN new.annexes /\ ~new.annexes[i].applied /\ new.annexes[i].source \in Variations
               => /\ c = s.holds /\ t.extras[new.annexes[i].source].applied = 0
                  /\ ~t.extras[new.annexes[i].source].worked
    PROVE  WaitsOnHeld(t) /\ NotYet(t)
  <1> USE DEF ChangesOnly
  <1> DEFINE e == s.contracts[c].annexes[i].source
  <1>1. /\ DOMAIN t.contracts = DOMAIN s.contracts /\ t.contracts[c] = new
        /\ \A d \in DOMAIN s.contracts : d # c => t.contracts[d] = s.contracts[d]
    BY Zenon, OneReplaced
  <1>2. /\ e \in Joins /\ s.extras[e].status = "accepted"
        /\ \A d \in DOMAIN s.contracts : \A j \in DOMAIN s.contracts[d].annexes :
               s.contracts[d].annexes[j].source \in Joins
    BY RowsAreTyped DEF AnnexRow, Joined
  <1>3. NotYet(t)
    <2>1. ASSUME NEW f \in Joins, t.extras[f].status # "accepted"
          PROVE  t.extras[f].applied = 0 /\ ~t.extras[f].worked
      <3>1. s.extras[f].status # "accepted" /\ f # e
        BY <1>2, <2>1 DEF SameButDays
      <3>2. t.extras[f] = s.extras[f]
        <4> HIDE DEF ChangesOnly
        <4> QED BY Zenon, <3>1 DEF SameButDays, ChangesOnly
      <3> QED BY <3>1, <3>2 DEF NotYet
    <2> QED BY <2>1 DEF NotYet
  <1>4. ASSUME NEW d \in DOMAIN t.contracts, NEW j \in DOMAIN t.contracts[d].annexes,
               ~t.contracts[d].annexes[j].applied, t.contracts[d].annexes[j].source \in Variations
        PROVE  LET a == t.contracts[d].annexes[j]
               IN d = t.holds /\ t.extras[a.source].applied = 0 /\ ~t.extras[a.source].worked
    <2>1. t.holds = s.holds
      BY DEF Beside
    <2>2. CASE d = c /\ j = i
      BY <1>1, <1>4, <2>1, <2>2
    <2>3. CASE ~(d = c /\ j = i)
      <3>1. /\ j \in DOMAIN s.contracts[d].annexes /\ d \in DOMAIN s.contracts
            /\ t.contracts[d].annexes[j].source = s.contracts[d].annexes[j].source
            /\ ~s.contracts[d].annexes[j].applied
        BY <1>1, <1>4, <2>3 DEF OfTheSame
      <3>2. s.contracts[d].annexes[j].source # e
        BY <2>3, <3>1 DEF Joined
      <3>3. t.extras[s.contracts[d].annexes[j].source] = s.extras[s.contracts[d].annexes[j].source]
        BY Zenon, <1>2, <3>1, <3>2 DEF SameButDays
      <3>4. LET a == s.contracts[d].annexes[j]
            IN d = s.holds /\ s.extras[a.source].applied = 0 /\ ~s.extras[a.source].worked
        <4> HIDE DEF ChangesOnly
        <4> QED BY ZenonT(40), <1>4, <3>1 DEF WaitsOnHeld
      <3>5. LET a == s.contracts[d].annexes[j]
            IN d = t.holds /\ t.extras[a.source].applied = 0 /\ ~t.extras[a.source].worked
        BY <2>1, <3>3, <3>4
      <3> QED BY <3>1, <3>5, Zenon
    <2> QED BY <2>2, <2>3
  <1> QED BY Zenon, <1>3, <1>4 DEF WaitsOnHeld
-----------------------------------------------------------------------------
\* The date of a job less the days remembered as counted.
Worth(s) == s.end - AppliedDays(s)
\* A call that works on annexes: what it keeps.
KeepsOrder(s, t) ==
    /\ Orderly(t) /\ Beside(s, t)
    /\ \A e \in Joins : t.extras[e].status = s.extras[e].status
    /\ DOMAIN t.contracts = DOMAIN s.contracts
    /\ s.dated => Worth(t) = Worth(s)

LEMMA AppliedAre ==
    ASSUME NEW s \in DealSet
    PROVE  /\ AppliedDays(s) \in Int /\ Worth(s) \in Int
           /\ \A v \in Variations : s.extras[v].applied \in Int /\ s.extras[v] \in Extra
  <1>1. \A v \in Variations : s.extras[v].applied \in Int /\ s.extras[v] \in Extra
    <2>1. \A v \in Variations : s.extras[v] \in Extra
      BY DEF DealSet, Joins
    <2> QED BY <2>1, ExtraTypes
  <1> DEFINE f == [v \in Variations |-> s.extras[v].applied]
  <1>2. \A v \in Variations : f[v] \in Int
    BY <1>1
  <1>3. AppliedDays(s) = SumOn(f, Variations)
    BY DEF AppliedDays
  <1> HIDE DEF f
  <1>4. AppliedDays(s) \in Int
    BY <1>2, <1>3, ExtrasAssumption, SumIsInt
  <1> QED BY <1>1, <1>4 DEF Worth, DealSet

\* Only the days of v may have changed.
LEMMA WorthMoves ==
    ASSUME NEW s \in DealSet, NEW t \in DealSet, NEW v \in Variations,
           \A e \in Variations : e # v => t.extras[e].applied = s.extras[e].applied
    PROVE  AppliedDays(t) - AppliedDays(s) = t.extras[v].applied - s.extras[v].applied
  <1> DEFINE f == [e \in Variations |-> s.extras[e].applied]
             g == [e \in Variations |-> t.extras[e].applied]
             rest == Variations \ {v}
  <1>1. AppliedDays(s) = SumOn(f, Variations) /\ AppliedDays(t) = SumOn(g, Variations)
    BY DEF AppliedDays
  <1>2. \A e \in Variations : f[e] \in Int /\ g[e] \in Int /\ (e # v => f[e] = g[e])
    BY AppliedAre
  <1>3. f[v] = s.extras[v].applied /\ g[v] = t.extras[v].applied
    OBVIOUS
  <1> HIDE DEF f, g
  <1>4. SumOn(f, Variations) = f[v] + SumOn(f, rest) /\ SumOn(g, Variations) = g[v] + SumOn(g, rest)
    BY <1>2, ExtrasAssumption, SumOut
  <1>5. IsFiniteSet(rest) /\ \A e \in rest : f[e] \in Int /\ f[e] = g[e] /\ g[e] \in Int
    BY <1>2, ExtrasAssumption, FS_Subset
  <1>6. SumOn(f, rest) = SumOn(g, rest) /\ SumOn(f, rest) \in Int
    BY <1>5, SumAlike, SumIsInt
  <1> HIDE DEF rest
  <1> QED BY <1>1, <1>2, <1>3, <1>4, <1>6

LEMMA WorthAlike ==
    ASSUME NEW s \in DealSet, NEW t \in DealSet,
           \A e \in Variations : t.extras[e].applied = s.extras[e].applied
    PROVE  AppliedDays(t) = AppliedDays(s)
  <1> DEFINE f == [e \in Variations |-> s.extras[e].applied]
             g == [e \in Variations |-> t.extras[e].applied]
  <1>1. f = g
    OBVIOUS
  <1> QED BY <1>1 DEF AppliedDays

\* A date that moved by as much as the days of v keeps its distance.
LEMMA WorthKept ==
    ASSUME NEW s \in DealSet, NEW t \in DealSet, NEW v \in Joins, SameButDays(s, t, v),
           v \notin Variations => t.end = s.end,
           v \in Variations => t.end - t.extras[v].applied = s.end - s.extras[v].applied
    PROVE  Worth(t) = Worth(s)
  <1>0. s.end \in Int /\ t.end \in Int /\ AppliedDays(s) \in Int /\ AppliedDays(t) \in Int
    BY AppliedAre DEF DealSet
  <1>1. CASE v \in Variations
    <2>1. AppliedDays(t) - AppliedDays(s) = t.extras[v].applied - s.extras[v].applied
      BY <1>1, WorthMoves DEF SameButDays, Joins
    <2>2. s.extras[v].applied \in Int /\ t.extras[v].applied \in Int
      BY <1>1, AppliedAre
    <2>3. t.end - t.extras[v].applied = s.end - s.extras[v].applied
      BY <1>1
    <2> QED BY <1>0, <2>1, <2>2, <2>3 DEF Worth
  <1>2. CASE v \notin Variations
    <2>1. \A e \in Variations : t.extras[e].applied = s.extras[e].applied
      BY <1>2 DEF SameButDays, Joins
    <2>2. AppliedDays(t) = AppliedDays(s)
      BY <2>1, WorthAlike
    <2> QED BY <1>2, <2>2 DEF Worth
  <1> QED BY <1>1, <1>2

LEMMA ApplyKeeps ==
    ASSUME NEW s, Orderly(s), NEW c \in DOMAIN s.contracts,
           NEW i \in DOMAIN s.contracts[c].annexes
    PROVE  KeepsOrder(s, Apply(s, c, i))
  <1> DEFINE con == s.contracts[c]
             t == Apply(s, c, i)
             e == con.annexes[i].source
             new == PutIn(con, i)
  <1>0. s \in DealSet /\ con \in ContractRow /\ con.annexes[i] \in AnnexRow
    BY RowsAreTyped DEF Orderly, WellShaped
  <1>1. CASE con.annexes[i].applied
    BY <1>1 DEF Apply, KeepsOrder, Beside
  <1>2. CASE ~con.annexes[i].applied
    <2>1. /\ t \in DealSet /\ Beside(s, t)
          /\ t.contracts = [s.contracts EXCEPT ![c] = new]
          /\ new \in ContractRow
          /\ SameButDays(s, t, e)
          /\ e \notin Variations => t.end = s.end /\ t.extras = s.extras
          /\ e \in Variations /\ s.extras[e].applied = 0 => t.end - t.extras[e].applied = s.end
      BY <1>0, <1>2, ApplyIs
    <2>2. e \in Joins /\ Aligned(con)
      BY <1>0 DEF AnnexRow, Orderly, AllAligned
    <2>3. /\ Aligned(new)
          /\ DOMAIN new.annexes = DOMAIN con.annexes
          /\ \A j \in DOMAIN con.annexes :
                  /\ new.annexes[j].source = con.annexes[j].source
                  /\ new.annexes[j].applied = (con.annexes[j].applied \/ j = i)
          /\ new.stages = Append(con.stages, [annex |-> i, invoice |-> 0])
          /\ new.signed = con.signed /\ new.cancelled = con.cancelled
      BY Zenon, <1>0, <1>2, <2>2, PutInAligned
    <2> HIDE DEF new, t
    <2>4. Fits(con, new)
      <3>1. con.stages \in Seq(MilestoneRow)
        BY <1>0 DEF ContractRow
      <3>2. /\ DOMAIN con.stages = 1..Len(con.stages) /\ DOMAIN new.stages = 1..Len(con.stages) + 1
            /\ Len(con.stages) \in Nat
            /\ \A k \in 1..Len(con.stages) : new.stages[k] = con.stages[k]
            /\ new.stages[Len(con.stages) + 1].invoice = 0
        BY <2>3, <3>1
      <3>3. \A k \in DOMAIN new.stages : k = Len(con.stages) + 1 \/ k \in DOMAIN con.stages
        BY <3>2
      <3> QED BY <2>1, <2>3, <3>2, <3>3 DEF Fits
    <2>5. OfTheSame(con, new)
      BY <2>3 DEF OfTheSame
    <2>6. \A f \in Joins : t.extras[f].status = s.extras[f].status
      BY <2>1 DEF SameButDays
    <2>7. WellShaped(t) /\ AllAligned(t) /\ Billed(t)
      BY <2>1, <2>4, FitsKeeps DEF Orderly
    <2>8. Joined(t)
      BY Zenon, <1>0, <2>1, <2>5, <2>6, SourcesKept DEF Orderly
    <2>9. WaitsOnHeld(t) /\ NotYet(t)
      <3>1. \A j \in DOMAIN new.annexes : j # i => new.annexes[j].applied = con.annexes[j].applied
        <4>1. \A j \in DOMAIN con.annexes : con.annexes[j] \in AnnexRow
          BY <1>0, RowsAreTyped
        <4> QED BY <2>3, <4>1 DEF AnnexRow
      <3>2. new.annexes[i].applied
        BY <2>3
      <3> QED BY <1>0, <2>1, <2>5, <3>1, <3>2, WaitingKept DEF Orderly, ChangesOnly
    <2>10. DOMAIN t.contracts = DOMAIN s.contracts
      BY <1>0, <2>1, OneReplaced
    <2>11. Worth(t) = Worth(s)
      <3>1. e \in Variations => s.extras[e].applied = 0
        BY <1>2 DEF Orderly, WaitsOnHeld
      <3>2. s.end \in Int
        BY <1>0 DEF DealSet
      <3> QED BY <1>0, <2>1, <2>2, <3>1, <3>2, WorthKept
    <2> QED BY <2>1, <2>6, <2>7, <2>8, <2>9, <2>10, <2>11 DEF KeepsOrder, Orderly, t
  <1> QED BY <1>1, <1>2
-----------------------------------------------------------------------------
\* The milestone of the newest annex, in force and not invoiced, can go.
LEMMA MilestoneFree ==
    ASSUME NEW s, Orderly(s), NEW c \in DOMAIN s.contracts,
           NEW n, Newest(s.contracts[c], n), ~Refuses(s, c, n)
    PROVE  /\ n \in Nat /\ n > 0 /\ n \in DOMAIN s.contracts[c].annexes
           /\ s.contracts[c].annexes[n] \in AnnexRow /\ s.contracts[c].annexes[n].number = n
           /\ s.contracts[c].annexes[n].applied =>
                 /\ s.contracts[c].stages[Len(s.contracts[c].stages)].invoice = 0
                 /\ s.contracts[c].annexes[n].source \in Variations =>
                       ~s.extras[s.contracts[c].annexes[n].source].worked
  <1> DEFINE con == s.contracts[c]
             m == Len(con.stages)
  <1>1. /\ con \in ContractRow /\ con.annexes \in Seq(AnnexRow) /\ con.stages \in Seq(MilestoneRow)
        /\ con.annexes # <<>> /\ n = Len(con.annexes) /\ Aligned(con)
    BY RowsAreTyped DEF Orderly, WellShaped, AllAligned, Newest
  <1>2. n \in Nat /\ n > 0 /\ n \in DOMAIN con.annexes /\ con.annexes[n] \in AnnexRow
    BY <1>1
  <1>3. con.annexes[n].number = n
    BY <1>1, <1>2 DEF Aligned
  <1>4. ASSUME con.annexes[n].applied
        PROVE  con.stages[m].invoice = 0
    <2>1. con.stages # <<>> /\ con.stages[m].annex = n
      BY <1>4 DEF Newest
    <2>2. m \in DOMAIN con.stages
      BY <1>1, <2>1
    <2> QED BY <1>3, <1>4, <2>1, <2>2 DEF Refuses
  <1>5. con.annexes[n].applied /\ con.annexes[n].source \in Variations
            => ~s.extras[con.annexes[n].source].worked
    BY DEF Refuses
  <1> QED BY <1>2, <1>3, <1>4, <1>5

LEMMA FrontFits ==
    ASSUME NEW con \in ContractRow, con.stages # <<>>,
           con.stages[Len(con.stages)].invoice = 0,
           NEW new \in ContractRow, Aligned(new), new.stages = FrontOf(con.stages),
           new.signed = con.signed, new.cancelled = con.cancelled
    PROVE  Fits(con, new)
  <1> DEFINE m == Len(con.stages)
  <1>1. con.stages \in Seq(MilestoneRow)
    BY DEF ContractRow
  <1>2. /\ m \in Nat /\ DOMAIN con.stages = 1..m /\ DOMAIN new.stages = 1..m - 1
        /\ \A k \in 1..m - 1 : k \in 1..m /\ new.stages[k] = con.stages[k]
    BY <1>1, FrontIsSeq
  <1>3. \A k \in 1..m : k = m \/ k \in 1..m - 1
    BY <1>2
  <1>4. con.stages[m].invoice = 0
    OBVIOUS
  <1> HIDE DEF m
  <1> QED BY <1>2, <1>3, <1>4 DEF Fits

\* Taking the newest annex out of force, on the contract the job holds.
LEMMA UnapplyKeeps ==
    ASSUME NEW s, Orderly(s), NEW c \in DOMAIN s.contracts, c = s.holds,
           NEW n, Newest(s.contracts[c], n), ~Refuses(s, c, n)
    PROVE  KeepsOrder(s, Unapply(s, c, n))
  <1> DEFINE con == s.contracts[c]
             t == Unapply(s, c, n)
             e == con.annexes[n].source
             new == TakenOut(con, n)
  <1>0. /\ s \in DealSet /\ con \in ContractRow /\ con.annexes[n] \in AnnexRow
        /\ n \in DOMAIN con.annexes
    BY Zenon, RowsAreTyped, MilestoneFree DEF Orderly, WellShaped
  <1>1. CASE ~con.annexes[n].applied
    BY ZenonT(40), <1>1 DEF Unapply, KeepsOrder, Beside
  <1>2. CASE con.annexes[n].applied
    <2>1. /\ t \in DealSet /\ Beside(s, t)
          /\ t.contracts = [s.contracts EXCEPT ![c] = new]
          /\ new \in ContractRow
          /\ SameButDays(s, t, e)
          /\ e \notin Variations => t.end = s.end /\ t.extras = s.extras
          /\ e \in Variations => t.extras[e].applied = 0
          /\ e \in Variations /\ s.dated => t.end = s.end - s.extras[e].applied
      BY <1>0, <1>2, UnapplyIs
    <2>2. e \in Joins /\ Aligned(con)
      BY <1>0 DEF AnnexRow, Orderly, AllAligned
    <2>3. /\ Aligned(new)
          /\ DOMAIN new.annexes = DOMAIN con.annexes
          /\ \A j \in DOMAIN con.annexes :
                  /\ new.annexes[j].source = con.annexes[j].source
                  /\ new.annexes[j].applied = (con.annexes[j].applied /\ j # n)
          /\ new.stages = FrontOf(con.stages)
          /\ new.signed = con.signed /\ new.cancelled = con.cancelled
      BY <1>0, <1>2, <2>2, TakenOutAligned
    <2> HIDE DEF new, t
    <2>4. Fits(con, new)
      <3>1. con.stages # <<>> /\ con.stages[Len(con.stages)].invoice = 0
        BY <1>2, MilestoneFree DEF Newest
      <3> QED BY Zenon, <1>0, <2>1, <2>3, <3>1, FrontFits
    <2>5. OfTheSame(con, new)
      BY Zenon, <2>3 DEF OfTheSame
    <2>6. \A f \in Joins : t.extras[f].status = s.extras[f].status
      BY Zenon, <2>1 DEF SameButDays
    <2>7. WellShaped(t) /\ AllAligned(t) /\ Billed(t)
      BY ZenonT(40), <2>1, <2>4, FitsKeeps DEF Orderly
    <2>8. Joined(t)
      <3>1. Joined(s)
        BY Zenon DEF Orderly
      <3> QED BY <1>0, <2>1, <2>5, <2>6, <3>1, SourcesKept
    <2>9. WaitsOnHeld(t) /\ NotYet(t)
      <3>1. \A j \in DOMAIN new.annexes : j # n => new.annexes[j].applied = con.annexes[j].applied
        <4>1. \A j \in DOMAIN con.annexes : con.annexes[j] \in AnnexRow
          BY <1>0, RowsAreTyped
        <4> QED BY <2>3, <4>1 DEF AnnexRow
      <3>2. new.annexes[n].source = e
        BY <1>0, <2>3
      <3>3. e \in Variations => t.extras[e].applied = 0 /\ ~t.extras[e].worked
        <4>1. e \in Variations => ~s.extras[e].worked
          BY <1>2, MilestoneFree
        <4>2. t.extras[e].worked = s.extras[e].worked
          BY Zenon, <2>1, <2>2 DEF SameButDays
        <4> QED BY Zenon, <2>1, <4>1, <4>2
      <3>4. n \in DOMAIN new.annexes /\ ~new.annexes[n].applied /\ new.annexes[n].source \in Variations
              => /\ c = s.holds /\ t.extras[new.annexes[n].source].applied = 0
                 /\ ~t.extras[new.annexes[n].source].worked
        BY <3>2, <3>3
      <3>5. Joined(s) /\ WaitsOnHeld(s) /\ NotYet(s)
        BY Zenon DEF Orderly
      <3>6. s \in DealSet /\ n \in DOMAIN s.contracts[c].annexes /\ OfTheSame(s.contracts[c], new)
        BY <1>0, <2>5
      <3>7. /\ Beside(s, t) /\ t.contracts = [s.contracts EXCEPT ![c] = new]
            /\ SameButDays(s, t, s.contracts[c].annexes[n].source)
        BY <2>1
      <3> HIDE DEF con, e
      <3>8. \A j \in DOMAIN new.annexes :
                j # n => new.annexes[j].applied = s.contracts[c].annexes[j].applied
        BY <3>1 DEF con
      <3>9. ChangesOnly(s, t, c, n, new)
        BY ZenonT(40), <1>0, <3>6, <3>7, <3>8 DEF ChangesOnly
      <3> QED BY Zenon, <3>4, <3>5, <3>6, <3>9, WaitingKept
    <2>10. DOMAIN t.contracts = DOMAIN s.contracts
      BY <1>0, <2>1, OneReplaced
    <2>11. s.dated => Worth(t) = Worth(s)
      <3>1. s.end \in Int /\ (e \in Variations => s.extras[e].applied \in Int)
        BY <1>0, AppliedAre DEF DealSet
      <3>2. e \in Variations /\ s.dated
              => t.end - t.extras[e].applied = s.end - s.extras[e].applied
        <4> HIDE DEF e
        <4> QED BY <2>1, <3>1
      <3> QED BY Zenon, <1>0, <2>1, <2>2, <3>2, WorthKept
    <2> QED BY Zenon, <2>1, <2>6, <2>7, <2>8, <2>9, <2>10, <2>11 DEF KeepsOrder, Orderly, t
  <1> QED BY <1>1, <1>2

LEMMA RemovedIs ==
    ASSUME NEW s, Orderly(s), NEW c \in DOMAIN s.contracts,
           NEW n, Newest(s.contracts[c], n), ~Refuses(s, c, n)
    PROVE  LET t == Removed(s, c, n)
               u == Unapply(s, c, n)
           IN /\ t \in DealSet /\ Beside(s, t)
              /\ t.contracts = [s.contracts EXCEPT ![c] = Shorter(@)]
              /\ t.extras = u.extras /\ t.end = u.end
  <1> DEFINE con == s.contracts[c]
             u == Unapply(s, c, n)
             t == Removed(s, c, n)
             mid == IF con.annexes[n].applied THEN TakenOut(con, n) ELSE con
  <1>0. /\ s \in DealSet /\ con \in ContractRow /\ con.annexes[n] \in AnnexRow
        /\ n \in DOMAIN con.annexes /\ Aligned(con)
    BY RowsAreTyped, MilestoneFree DEF Orderly, WellShaped, AllAligned
  <1>1. /\ u \in DealSet /\ Beside(s, u) /\ mid \in ContractRow
        /\ u.contracts = [s.contracts EXCEPT ![c] = mid]
    <2>1. CASE con.annexes[n].applied
      BY <1>0, <2>1, UnapplyIs
    <2>2. CASE ~con.annexes[n].applied
      BY <1>0, <2>2 DEF Unapply, Beside, DealSet
    <2> QED BY <2>1, <2>2
  <1>2. /\ \A j \in DOMAIN mid.annexes : mid.annexes[j].number = j
        /\ mid.annexes # <<>> /\ Len(mid.annexes) = n
        /\ FrontOf(mid.annexes) = FrontOf(con.annexes)
        /\ mid.stages = IF con.annexes[n].applied THEN FrontOf(con.stages) ELSE con.stages
        /\ mid.signed = con.signed /\ mid.cancelled = con.cancelled
    <2>1. CASE con.annexes[n].applied
      <3>1. mid = TakenOut(con, n)
        BY <2>1
      <3>2. /\ Aligned(mid) /\ mid.stages = FrontOf(con.stages)
            /\ mid.signed = con.signed /\ mid.cancelled = con.cancelled
        BY <1>0, <2>1, <3>1, TakenOutAligned
      <3>3. mid.annexes = [con.annexes EXCEPT ![n].applied = FALSE]
        BY <1>0, <3>1 DEF TakenOut, ContractRow
      <3>4. con.annexes \in Seq(AnnexRow) /\ n \in Nat /\ n > 0
        BY <1>0, MilestoneFree DEF ContractRow
      <3> HIDE DEF mid
      <3>5. Len(mid.annexes) = n /\ \A j \in 1..n - 1 : mid.annexes[j] = con.annexes[j]
        BY <3>3, <3>4 DEF Newest
      <3>6. FrontOf(mid.annexes) = FrontOf(con.annexes)
        BY <3>4, <3>5 DEF FrontOf, Newest
      <3>7. mid.annexes # <<>>
        BY <3>4, <3>5
      <3> QED BY <2>1, <3>2, <3>5, <3>6, <3>7 DEF Aligned
    <2>2. CASE ~con.annexes[n].applied
      BY <1>0, <2>2 DEF Aligned, Newest
    <2> QED BY <2>1, <2>2
  <1>3. t = [u EXCEPT !.contracts[c].annexes = Only(@, {a \in Range(@) : a.number # n})]
    <2>1. NumberedAt(con, n) = n
      BY <1>0, NumberedIsItsPlace
    <2> QED BY <2>1 DEF Removed
  <1> HIDE DEF t, u, mid
  <1>4. u.contracts[c] = mid /\ c \in DOMAIN u.contracts /\ u.contracts \in Seq(ContractRow)
    BY <1>0, <1>1, OneReplaced DEF DealSet
  <1>5. Only(mid.annexes, {a \in Range(mid.annexes) : a.number # n}) = FrontOf(con.annexes)
    <2>1. {a \in Range(mid.annexes) : a.number # n}
          = {a \in Range(mid.annexes) : a.number # Len(mid.annexes)}
      BY <1>2
    <2> QED BY <1>1, <1>2, <2>1, AnnexesLeft
  <1>6. t.contracts = [u.contracts EXCEPT ![c] = [mid EXCEPT !.annexes = FrontOf(con.annexes)]]
    BY <1>1, <1>3, <1>4, <1>5 DEF DealSet
  <1>7. [mid EXCEPT !.annexes = FrontOf(con.annexes)] = Shorter(con)
    BY <1>0, <1>1, <1>2 DEF Shorter, ContractRow, Newest
  <1>8. t.contracts = [s.contracts EXCEPT ![c] = Shorter(con)]
    BY <1>0, <1>1, <1>6, <1>7 DEF DealSet
  <1>9. Shorter(con) \in ContractRow
    BY <1>0, ShorterAligned
  <1>10. t.contracts \in Seq(ContractRow)
    BY <1>0, <1>8, <1>9 DEF DealSet
  <1>11. /\ t.extras = u.extras /\ t.end = u.end /\ t.holds = u.holds /\ t.dated = u.dated
         /\ t.invoices = u.invoices /\ t = [u EXCEPT !.contracts = t.contracts]
    BY <1>1, <1>3 DEF DealSet
  <1>12. t \in DealSet /\ Beside(s, t)
    BY <1>1, <1>10, <1>11 DEF DealSet, Beside
  <1> QED BY <1>8, <1>11, <1>12 DEF t, u
-----------------------------------------------------------------------------
\* Taking the newest annex off a contract.
LEMMA RemovedKeeps ==
    ASSUME NEW s, Orderly(s), NEW c \in DOMAIN s.contracts,
           NEW n, Newest(s.contracts[c], n), ~Refuses(s, c, n)
    PROVE  /\ KeepsOrder(s, Removed(s, c, n))
           /\ Removed(s, c, n).contracts = [s.contracts EXCEPT ![c] = Shorter(@)]
  <1> DEFINE con == s.contracts[c]
             t == Removed(s, c, n)
             u == Unapply(s, c, n)
             e == con.annexes[n].source
             new == Shorter(con)
  <1>0. /\ s \in DealSet /\ con \in ContractRow /\ con.annexes[n] \in AnnexRow
        /\ n \in DOMAIN con.annexes
    BY RowsAreTyped, MilestoneFree DEF Orderly, WellShaped
  <1>1. /\ t \in DealSet /\ Beside(s, t)
        /\ t.contracts = [s.contracts EXCEPT ![c] = new]
        /\ t.extras = u.extras /\ t.end = u.end
    BY Zenon, RemovedIs
  <1>2. /\ SameButDays(s, t, e)
        /\ e \notin Variations => t.end = s.end
        /\ e \in Variations /\ s.dated => t.end - t.extras[e].applied = s.end - s.extras[e].applied
    <2>1. CASE con.annexes[n].applied
      <3>1. /\ SameButDays(s, u, e)
            /\ e \notin Variations => u.end = s.end
            /\ e \in Variations => u.extras[e].applied = 0
            /\ e \in Variations /\ s.dated => u.end = s.end - s.extras[e].applied
        BY <1>0, <2>1, UnapplyIs
      <3>2. s.end \in Int /\ (e \in Variations => s.extras[e].applied \in Int)
        BY <1>0, AppliedAre DEF DealSet
      <3> HIDE DEF e, u, t
      <3>3. e \in Variations /\ s.dated => t.end - t.extras[e].applied = s.end - s.extras[e].applied
        BY <1>1, <3>1, <3>2
      <3> QED BY Zenon, <1>1, <3>1, <3>3 DEF SameButDays
    <2>2. CASE ~con.annexes[n].applied
      <3>1. u = s
        BY <2>2 DEF Unapply
      <3> HIDE DEF u, t
      <3> QED BY <1>1, <3>1 DEF SameButDays
    <2> QED BY <2>1, <2>2
  <1>3. e \in Joins /\ Aligned(con)
    BY <1>0 DEF AnnexRow, Orderly, AllAligned
  <1>4. /\ new \in ContractRow /\ Aligned(new) /\ n \in Nat
        /\ DOMAIN new.annexes = 1..n - 1
        /\ \A j \in 1..n - 1 : j \in DOMAIN con.annexes /\ new.annexes[j] = con.annexes[j]
        /\ new.stages = IF con.annexes[n].applied THEN FrontOf(con.stages) ELSE con.stages
        /\ new.signed = con.signed /\ new.cancelled = con.cancelled
    BY <1>0, <1>3, ShorterAligned
  <1> HIDE DEF new, t, u
  <1>5. Fits(con, new)
    <2>1. CASE con.annexes[n].applied
      <3>1. con.stages # <<>> /\ con.stages[Len(con.stages)].invoice = 0
        BY <2>1, MilestoneFree DEF Newest
      <3>2. new.stages = FrontOf(con.stages)
        BY <1>4, <2>1
      <3> QED BY <1>0, <1>4, <3>1, <3>2, FrontFits
    <2>2. CASE ~con.annexes[n].applied
      BY <1>4, <2>2 DEF Fits
    <2> QED BY <2>1, <2>2
  <1>6. OfTheSame(con, new)
    BY <1>4 DEF OfTheSame
  <1>7. \A f \in Joins : t.extras[f].status = s.extras[f].status
    BY <1>2 DEF SameButDays
  <1>8. WellShaped(t) /\ AllAligned(t) /\ Billed(t)
    BY <1>1, <1>5, FitsKeeps DEF Orderly
  <1>9. Joined(t)
    BY Zenon, <1>0, <1>1, <1>6, <1>7, SourcesKept DEF Orderly
  <1>10. WaitsOnHeld(t) /\ NotYet(t)
    <2>1. Joined(s) /\ WaitsOnHeld(s) /\ NotYet(s)
      BY DEF Orderly
    <2>2. \A j \in DOMAIN new.annexes : j # n => new.annexes[j].applied = con.annexes[j].applied
      BY <1>4
    <2>3. n \notin DOMAIN new.annexes
      BY <1>4
    <2> QED BY <1>0, <1>1, <1>2, <1>6, <2>1, <2>2, <2>3, WaitingKept DEF ChangesOnly
  <1>11. DOMAIN t.contracts = DOMAIN s.contracts
    BY <1>0, <1>1, OneReplaced
  <1>12. s.dated => Worth(t) = Worth(s)
    BY <1>0, <1>1, <1>2, <1>3, WorthKept
  <1>13. KeepsOrder(s, t)
    BY <1>1, <1>7, <1>8, <1>9, <1>10, <1>11, <1>12 DEF KeepsOrder, Orderly
  <1> QED BY <1>1, <1>13 DEF t, new

\* One turn of removeAllContractAnnexes, and the turns up to the k-th.
OneLess(s, c, k, r) ==
    LET t == r.deal
        n == s.contracts[c].annexes[Len(s.contracts[c].annexes) - k + 1].number
    IN IF r.stopped \/ Refuses(t, c, NumberedAt(t.contracts[c], n))
       THEN [deal |-> t, stopped |-> TRUE]
       ELSE [deal |-> Removed(t, c, n), stopped |-> FALSE]
TurnsOf(s, c, F) ==
    F = [k \in 0..Len(s.contracts[c].annexes) |->
            IF k = 0 THEN [deal |-> s, stopped |-> FALSE] ELSE OneLess(s, c, k, F[k - 1])]
Turns(s, c) == CHOOSE F : TurnsOf(s, c, F)

LEMMA EmptiedIsTurns ==
    ASSUME NEW s, NEW c
    PROVE  Emptied(s, c) = Turns(s, c)[Len(s.contracts[c].annexes)].deal
  BY DEF Emptied, Turns, TurnsOf, OneLess

LEMMA TurnsExist ==
    ASSUME NEW s, NEW c, Len(s.contracts[c].annexes) \in Nat
    PROVE  TurnsOf(s, c, Turns(s, c))
  <1> DEFINE Start == [deal |-> s, stopped |-> FALSE]
             Upto(n, F) == F = [m \in 0..n |-> IF m = 0 THEN Start ELSE OneLess(s, c, m, F[m - 1])]
             Known == {n \in Nat : \E F : Upto(n, F)}
  <1> HIDE DEF Start
  <1>1. 0 \in Known
    <2> DEFINE F == [m \in 0..0 |-> Start]
    <2>1. F = [m \in 0..0 |-> IF m = 0 THEN Start ELSE OneLess(s, c, m, F[m - 1])]
      OBVIOUS
    <2> HIDE DEF F
    <2> QED BY <2>1
  <1>2. ASSUME NEW n \in Nat, n \in Known PROVE n + 1 \in Known
    <2>1. PICK F : Upto(n, F)
      BY <1>2
    <2> DEFINE G == [m \in 0..n + 1 |-> IF m = 0 THEN Start ELSE OneLess(s, c, m, F[m - 1])]
    <2>2. \A m \in 0..n : G[m] = F[m]
      <3> TAKE m \in 0..n
      <3>1. m \in 0..n + 1
        OBVIOUS
      <3>2. F[m] = IF m = 0 THEN Start ELSE OneLess(s, c, m, F[m - 1])
        BY <2>1, Zenon
      <3> QED BY <3>1, <3>2
    <2>3. ASSUME NEW m \in 0..n + 1, m # 0 PROVE G[m - 1] = F[m - 1]
      <3>1. m - 1 \in 0..n
        BY <2>3
      <3> HIDE DEF G
      <3> QED BY <2>2, <3>1
    <2>4. G = [m \in 0..n + 1 |-> IF m = 0 THEN Start ELSE OneLess(s, c, m, G[m - 1])]
      BY <2>3
    <2> HIDE DEF G
    <2> QED BY <2>4
  <1>3. Len(s.contracts[c].annexes) \in Known
    <2> HIDE DEF Known
    <2>2. Nat \subseteq Known
      BY <1>1, <1>2, EveryNat
    <2> QED BY <2>2
  <1>4. \E F : Upto(Len(s.contracts[c].annexes), F)
    BY <1>3
  <1> QED BY <1>4 DEF TurnsOf, Turns, Start

LEMMA TurnAt ==
    ASSUME NEW s, NEW c, Len(s.contracts[c].annexes) \in Nat,
           NEW k \in 0..Len(s.contracts[c].annexes)
    PROVE  Turns(s, c)[k] = IF k = 0 THEN [deal |-> s, stopped |-> FALSE]
                            ELSE OneLess(s, c, k, Turns(s, c)[k - 1])
  <1> DEFINE F == Turns(s, c)
  <1>1. F = [m \in 0..Len(s.contracts[c].annexes) |->
               IF m = 0 THEN [deal |-> s, stopped |-> FALSE] ELSE OneLess(s, c, m, F[m - 1])]
    BY TurnsExist DEF TurnsOf
  <1> HIDE DEF F
  <1>2. F[k] = IF k = 0 THEN [deal |-> s, stopped |-> FALSE] ELSE OneLess(s, c, k, F[k - 1])
    BY <1>1, Zenon
  <1> QED BY <1>2 DEF F

\* The milestones of a contract follow the order of its annexes.
Ascending(con) ==
    \A k, l \in DOMAIN con.stages : k < l => con.stages[k].annex < con.stages[l].annex

LEMMA AscendingNewest ==
    ASSUME NEW con \in ContractRow, Aligned(con), Ascending(con), NEW n, n = Len(con.annexes),
           n # 0
    PROVE  /\ Newest(con, n) /\ Ascending(Shorter(con))
           /\ Len(Shorter(con).annexes) = n - 1 /\ n \in Nat
  <1>1. /\ con.annexes \in Seq(AnnexRow) /\ con.stages \in Seq(MilestoneRow) /\ con.annexes # <<>>
        /\ n \in Nat /\ n \in DOMAIN con.annexes /\ DOMAIN con.annexes = 1..n
    <2>1. con.annexes \in Seq(AnnexRow) /\ con.stages \in Seq(MilestoneRow)
      BY DEF ContractRow
    <2> QED BY <2>1
  <1>2. /\ Len(con.stages) \in Nat /\ DOMAIN con.stages = 1..Len(con.stages)
        /\ \A k \in DOMAIN con.stages : con.stages[k].annex \in 1..n
    BY <1>1 DEF Aligned
  <1>3. ASSUME con.annexes[n].applied
        PROVE  con.stages # <<>> /\ con.stages[Len(con.stages)].annex = n
    <2>1. PICK k \in DOMAIN con.stages : con.stages[k].annex = n
      BY <1>1, <1>3 DEF Aligned
    <2>2. con.stages # <<>> /\ Len(con.stages) \in DOMAIN con.stages
      BY <1>1, <1>2, <2>1
    <2>3. k = Len(con.stages)
      <3>1. SUFFICES ASSUME k < Len(con.stages) PROVE FALSE
        BY <1>2, <2>1
      <3>2. n < con.stages[Len(con.stages)].annex
        BY <2>1, <2>2, <3>1 DEF Ascending
      <3> QED BY <1>1, <1>2, <2>2, <3>2
    <2> QED BY <2>1, <2>2, <2>3
  <1>4. Newest(con, n)
    BY <1>1, <1>3 DEF Newest
  <1>5. Len(Shorter(con).annexes) = n - 1
    <2>1. Shorter(con).annexes = FrontOf(con.annexes)
      BY DEF Shorter, ContractRow
    <2> QED BY <1>1, <2>1, FrontIsSeq
  <1>6. Ascending(Shorter(con))
    <2>1. Shorter(con).stages = IF con.annexes[n].applied THEN FrontOf(con.stages) ELSE con.stages
      BY <1>4, ShorterAligned
    <2>2. CASE con.annexes[n].applied
      <3>1. /\ Shorter(con).stages = FrontOf(con.stages) /\ con.stages # <<>>
        BY <1>3, <2>1, <2>2
      <3>2. /\ DOMAIN Shorter(con).stages = 1..Len(con.stages) - 1
            /\ \A k \in 1..Len(con.stages) - 1 :
                   k \in DOMAIN con.stages /\ Shorter(con).stages[k] = con.stages[k]
        BY <1>1, <3>1, FrontIsSeq
      <3> QED BY <3>2 DEF Ascending
    <2>3. CASE ~con.annexes[n].applied
      BY <2>1, <2>3 DEF Ascending
    <2> QED BY <2>2, <2>3
  <1> QED BY <1>1, <1>4, <1>5, <1>6

LEMMA OrderKeptOn ==
    ASSUME NEW s, NEW t, NEW u, KeepsOrder(s, t), KeepsOrder(t, u)
    PROVE  KeepsOrder(s, u)
  BY DEF KeepsOrder, Beside

LEMMA EmptiedKeeps ==
    ASSUME NEW s, Orderly(s), NEW c \in DOMAIN s.contracts, Ascending(s.contracts[c])
    PROVE  KeepsOrder(s, Emptied(s, c))
  <1> DEFINE con == s.contracts[c]
             N == Len(con.annexes)
             F == Turns(s, c)
             Left(k, r) == /\ KeepsOrder(s, r.deal)
                           /\ ~r.stopped => /\ Ascending(r.deal.contracts[c])
                                            /\ Len(r.deal.contracts[c].annexes) = N - k
             Known == {k \in Nat : k <= N => Left(k, F[k])}
  <1>1. con \in ContractRow /\ Aligned(con) /\ N \in Nat
    <2>1. con \in ContractRow /\ con.annexes \in Seq(AnnexRow) /\ Aligned(con)
      BY RowsAreTyped DEF Orderly, WellShaped, AllAligned
    <2> QED BY <2>1
  <1>2. \A k \in 0..N : F[k] = IF k = 0 THEN [deal |-> s, stopped |-> FALSE]
                               ELSE OneLess(s, c, k, F[k - 1])
    BY <1>1, TurnAt
  <1>3. \A i \in 1..N : con.annexes[i].number = i
    <2>1. con.annexes \in Seq(AnnexRow)
      BY <1>1 DEF ContractRow
    <2> QED BY <1>1, <2>1 DEF Aligned
  <1> HIDE DEF F
  <1>4. 0 \in Known
    <2>1. F[0] = [deal |-> s, stopped |-> FALSE]
      <3>1. 0 \in 0..N
        BY <1>1
      <3> QED BY <1>2, <3>1
    <2>2. KeepsOrder(s, s)
      BY DEF KeepsOrder, Beside
    <2>3. Left(0, F[0])
      BY <1>1, <2>1, <2>2
    <2> QED BY <2>3
  <1>5. ASSUME NEW k \in Nat, k \in Known PROVE k + 1 \in Known
    <2> HIDE DEF Left
    <2>1. SUFFICES ASSUME k + 1 <= N PROVE Left(k + 1, F[k + 1])
      OBVIOUS
    <2> USE DEF Left
    <2> DEFINE r == F[k]
               t == r.deal
               n == N - k
    <2> HIDE DEF N
    <2>2. k <= N /\ n \in 1..N /\ n # 0 /\ k + 1 \in 0..N /\ k + 1 # 0 /\ N - (k + 1) + 1 = n
          /\ (k + 1) - 1 = k /\ N - (k + 1) = n - 1
      BY <1>1, <2>1
    <2>3. Left(k, r)
      BY <1>5, <2>2
    <2>4. F[k + 1] = OneLess(s, c, k + 1, r)
      BY <1>2, <2>2
    <2>5. con.annexes[N - (k + 1) + 1].number = n
      BY <1>3, <2>2
    <2> HIDE DEF r, n
    <2>6. OneLess(s, c, k + 1, r) =
            IF r.stopped \/ Refuses(t, c, NumberedAt(t.contracts[c], n))
            THEN [deal |-> t, stopped |-> TRUE] ELSE [deal |-> Removed(t, c, n), stopped |-> FALSE]
      BY <2>5 DEF OneLess, N
    <2>7. CASE r.stopped \/ Refuses(t, c, NumberedAt(t.contracts[c], n))
      <3>1. F[k + 1] = [deal |-> t, stopped |-> TRUE]
        BY <2>4, <2>6, <2>7
      <3> QED BY <2>3, <3>1
    <2>8. CASE ~(r.stopped \/ Refuses(t, c, NumberedAt(t.contracts[c], n)))
      <3>1. F[k + 1] = [deal |-> Removed(t, c, n), stopped |-> FALSE]
        BY <2>4, <2>6, <2>8
      <3>2. /\ KeepsOrder(s, t) /\ Ascending(t.contracts[c]) /\ Len(t.contracts[c].annexes) = n
        BY <2>3, <2>8 DEF n
      <3>3. Orderly(t) /\ c \in DOMAIN t.contracts
        BY <3>2 DEF KeepsOrder
      <3>4. t.contracts[c] \in ContractRow /\ Aligned(t.contracts[c]) /\ t \in DealSet
        BY <3>3, RowsAreTyped DEF Orderly, WellShaped, AllAligned
      <3>5. /\ Newest(t.contracts[c], n) /\ Ascending(Shorter(t.contracts[c]))
            /\ Len(Shorter(t.contracts[c]).annexes) = n - 1
        BY <2>2, <3>2, <3>4, AscendingNewest
      <3>6. NumberedAt(t.contracts[c], n) = n
        <4>1. n \in DOMAIN t.contracts[c].annexes
          <5>1. t.contracts[c].annexes \in Seq(AnnexRow)
            BY <3>4 DEF ContractRow
          <5> QED BY <2>2, <3>2, <5>1
        <4> QED BY <3>4, <4>1, NumberedIsItsPlace
      <3>7. /\ KeepsOrder(t, Removed(t, c, n))
            /\ Removed(t, c, n).contracts = [t.contracts EXCEPT ![c] = Shorter(t.contracts[c])]
        BY <2>8, <3>3, <3>5, <3>6, RemovedKeeps
      <3>8. Removed(t, c, n).contracts[c] = Shorter(t.contracts[c])
        BY <3>3, <3>4, <3>7, OneReplaced
      <3>9. KeepsOrder(s, Removed(t, c, n))
        BY <3>2, <3>7, OrderKeptOn
      <3> QED BY <2>2, <3>1, <3>5, <3>8, <3>9
    <2> QED BY <2>7, <2>8
  <1>6. N \in Known
    <2> HIDE DEF Known, N
    <2>1. Nat \subseteq Known
      BY <1>4, <1>5, EveryNat
    <2> QED BY <1>1, <2>1
  <1>7. KeepsOrder(s, F[N].deal)
    BY <1>1, <1>6
  <1> QED BY <1>7, EmptiedIsTurns DEF F
-----------------------------------------------------------------------------
LEMMA UnappliedWaits ==
    ASSUME NEW s, Orderly(s), NEW c \in DOMAIN s.contracts,
           NEW i \in DOMAIN s.contracts[c].annexes, ~s.contracts[c].annexes[i].applied,
           s.contracts[c].annexes[i].source \in Variations
    PROVE  c = s.holds /\ Waiting(s, s.contracts[c].annexes[i].source)
  <1>1. c = s.holds
    BY DEF Orderly, WaitsOnHeld
  <1>2. s.holds # NoContract
    BY <1>1 DEF Orderly, WellShaped, DealSet, NoContract
  <1> QED BY <1>1, <1>2 DEF Waiting

\* Calls that change the extras and no contract.
LEMMA ExtrasChanged ==
    ASSUME NEW s, Orderly(s), NEW t \in DealSet, Beside(s, t), t.contracts = s.contracts,
           \A e \in Joins : s.extras[e].status = "accepted" => t.extras[e].status = "accepted",
           NotYet(t),
           \A v \in Variations : Waiting(s, v) =>
               /\ t.extras[v].applied = s.extras[v].applied
               /\ t.extras[v].worked = s.extras[v].worked
    PROVE  Orderly(t)
  <1>1. t.holds = s.holds /\ t.invoices = s.invoices
    BY Zenon DEF Beside
  <1>2. WellShaped(t) /\ AllAligned(t) /\ Billed(t)
    BY <1>1 DEF Orderly, WellShaped, AllAligned, Billed
  <1>3. Joined(t)
    <2>1. \A c \in DOMAIN s.contracts : \A i \in DOMAIN s.contracts[c].annexes :
              s.contracts[c].annexes[i].source \in Joins
      BY RowsAreTyped DEF AnnexRow, Orderly, WellShaped
    <2> QED BY <2>1 DEF Orderly, Joined
  <1>4. ASSUME NEW c \in DOMAIN s.contracts, NEW i \in DOMAIN s.contracts[c].annexes,
               ~s.contracts[c].annexes[i].applied, s.contracts[c].annexes[i].source \in Variations
        PROVE  LET a == s.contracts[c].annexes[i]
               IN c = t.holds /\ t.extras[a.source].applied = 0 /\ ~t.extras[a.source].worked
    <2> DEFINE v == s.contracts[c].annexes[i].source
    <2>1. c = s.holds /\ Waiting(s, v)
      BY <1>4, UnappliedWaits
    <2>2. s.extras[v].applied = 0 /\ ~s.extras[v].worked
      BY ZenonT(40), <1>4 DEF Orderly, WaitsOnHeld
    <2> HIDE DEF v
    <2>3. t.extras[v].applied = s.extras[v].applied /\ t.extras[v].worked = s.extras[v].worked
      BY <1>4, <2>1 DEF v
    <2> QED BY Zenon, <1>1, <2>1, <2>2, <2>3 DEF v
  <1>5. WaitsOnHeld(t)
    BY <1>4 DEF WaitsOnHeld
  <1> QED BY <1>2, <1>3, <1>5 DEF Orderly

LEMMA AlignedAlike ==
    ASSUME NEW a, NEW b, Aligned(a), b.annexes = a.annexes,
           DOMAIN b.stages = DOMAIN a.stages,
           \A k \in DOMAIN a.stages : b.stages[k].annex = a.stages[k].annex
    PROVE  Aligned(b)
  BY DEF Aligned

\* Calls that change who holds the job, or how far a contract has got.
LEMMA HolderChanged ==
    ASSUME NEW s, Orderly(s), NEW t, WellShaped(t), NEW c \in DOMAIN s.contracts, NEW new,
           t.contracts = [s.contracts EXCEPT ![c] = new],
           new.annexes = s.contracts[c].annexes, new.stages = s.contracts[c].stages,
           t.invoices = s.invoices, t.extras = s.extras,
           t.holds = s.holds \/ \A v \in Variations : ~Waiting(s, v)
    PROVE  Orderly(t)
  <1>0. s \in DealSet
    BY DEF Orderly, WellShaped
  <1>1. /\ DOMAIN t.contracts = DOMAIN s.contracts
        /\ \A d \in DOMAIN s.contracts : /\ t.contracts[d].annexes = s.contracts[d].annexes
                                         /\ t.contracts[d].stages = s.contracts[d].stages
    BY <1>0, OneReplaced
  <1>2. AllAligned(t) /\ Billed(t)
    <2>1. AllAligned(t)
      <3>1. ASSUME NEW d \in DOMAIN s.contracts PROVE Aligned(t.contracts[d])
        <4>1. Aligned(s.contracts[d])
          BY DEF Orderly, AllAligned
        <4>2. /\ t.contracts[d].annexes = s.contracts[d].annexes
              /\ t.contracts[d].stages = s.contracts[d].stages
          BY ZenonT(40), <1>1
        <4> QED BY <4>1, <4>2, AlignedAlike
      <3> QED BY <1>1, <3>1 DEF AllAligned
    <2>2. Billed(t)
      <3>1. Billed(s)
        BY DEF Orderly
      <3> QED BY <1>1, <3>1 DEF Billed
    <2> QED BY <2>1, <2>2
  <1>3. Joined(t) /\ NotYet(t)
    BY <1>1 DEF Orderly, Joined, NotYet
  <1>4. WaitsOnHeld(t)
    <2>1. CASE t.holds = s.holds
      BY <1>1, <2>1 DEF Orderly, WaitsOnHeld
    <2>2. CASE \A v \in Variations : ~Waiting(s, v)
      <3>1. \A d \in DOMAIN s.contracts : \A i \in DOMAIN s.contracts[d].annexes :
                ~(~s.contracts[d].annexes[i].applied /\ s.contracts[d].annexes[i].source \in Variations)
        BY <2>2, UnappliedWaits
      <3> QED BY <1>1, <3>1 DEF WaitsOnHeld
    <2> QED BY <2>1, <2>2
  <1> QED BY <1>2, <1>3, <1>4 DEF Orderly

\* A signature changes nothing else of an annex.
WithSignature(s, c, i, b) == [s EXCEPT !.contracts[c].annexes[i].signed = b]
LEMMA SignatureKeeps ==
    ASSUME NEW s, Orderly(s), NEW c \in DOMAIN s.contracts,
           NEW i \in DOMAIN s.contracts[c].annexes, NEW b \in BOOLEAN
    PROVE  /\ KeepsOrder(s, WithSignature(s, c, i, b))
           /\ DOMAIN WithSignature(s, c, i, b).contracts[c].annexes
              = DOMAIN s.contracts[c].annexes
  <1> DEFINE con == s.contracts[c]
             t == WithSignature(s, c, i, b)
             new == [con EXCEPT !.annexes[i].signed = b]
             e == con.annexes[i].source
  <1>0. /\ s \in DealSet /\ con \in ContractRow /\ con.annexes[i] \in AnnexRow
        /\ con.annexes \in Seq(AnnexRow)
    BY RowsAreTyped DEF Orderly, WellShaped
  <1>1. /\ new.annexes = [con.annexes EXCEPT ![i].signed = b] /\ new.stages = con.stages
        /\ new.signed = con.signed /\ new.cancelled = con.cancelled
    BY <1>0 DEF ContractRow
  <1>2. new \in ContractRow
    <2>1. [con.annexes[i] EXCEPT !.signed = b] \in AnnexRow
      BY <1>0 DEF AnnexRow
    <2>2. [con.annexes EXCEPT ![i].signed = b] \in Seq(AnnexRow)
      BY <1>0, <2>1
    <2> QED BY <1>0, <2>2 DEF ContractRow
  <1>3. t = [s EXCEPT !.contracts = [s.contracts EXCEPT ![c] = new]]
    BY <1>0 DEF DealSet, ContractRow, WithSignature
  <1>4. [s.contracts EXCEPT ![c] = new] \in Seq(ContractRow)
    BY <1>0, <1>2 DEF DealSet
  <1> HIDE DEF t
  <1>5. /\ t \in DealSet /\ Beside(s, t) /\ t.extras = s.extras /\ t.end = s.end
        /\ t.contracts = [s.contracts EXCEPT ![c] = new]
    BY <1>0, <1>3, <1>4 DEF DealSet, Beside
  <1>6. /\ DOMAIN new.annexes = DOMAIN con.annexes
        /\ \A j \in DOMAIN con.annexes : /\ new.annexes[j].source = con.annexes[j].source
                                         /\ new.annexes[j].number = con.annexes[j].number
                                         /\ new.annexes[j].applied = con.annexes[j].applied
    <2>1. DOMAIN new.annexes = DOMAIN con.annexes
      BY <1>0, <1>1
    <2>2. new.annexes[i] = [con.annexes[i] EXCEPT !.signed = b]
      BY <1>0, <1>1
    <2>3. \A j \in DOMAIN con.annexes : j # i => new.annexes[j] = con.annexes[j]
      BY <1>0, <1>1
    <2> HIDE DEF new
    <2>4. /\ new.annexes[i].source = con.annexes[i].source
          /\ new.annexes[i].number = con.annexes[i].number
          /\ new.annexes[i].applied = con.annexes[i].applied
      BY <1>0, <2>2 DEF AnnexRow
    <2> QED BY <2>1, <2>3, <2>4
  <1> HIDE DEF new
  <1>7. Aligned(con)
    BY Zenon DEF Orderly, AllAligned
  <1>8. Aligned(new)
    BY <1>1, <1>6, <1>7 DEF Aligned
  <1>9. Fits(con, new) /\ OfTheSame(con, new)
    BY <1>1, <1>2, <1>6, <1>8 DEF Fits, OfTheSame
  <1>10. WellShaped(t) /\ AllAligned(t) /\ Billed(t)
    BY <1>5, <1>9, FitsKeeps DEF Orderly
  <1>11. Joined(t)
    BY <1>0, <1>5, <1>9, SourcesKept DEF Orderly
  <1>12. WaitsOnHeld(t) /\ NotYet(t)
    <2>1. Joined(s) /\ WaitsOnHeld(s) /\ NotYet(s) /\ SameButDays(s, t, e)
      BY Zenon, <1>5 DEF Orderly, SameButDays
    <2>2. ~new.annexes[i].applied /\ new.annexes[i].source \in Variations =>
              /\ c = s.holds /\ t.extras[new.annexes[i].source].applied = 0
              /\ ~t.extras[new.annexes[i].source].worked
      BY <1>5, <1>6, <2>1 DEF WaitsOnHeld
    <2>3. \A j \in DOMAIN new.annexes : j # i => new.annexes[j].applied = con.annexes[j].applied
      BY <1>6
    <2>4. i \in DOMAIN new.annexes /\ ~new.annexes[i].applied /\ new.annexes[i].source \in Variations
            => /\ c = s.holds /\ t.extras[new.annexes[i].source].applied = 0
               /\ ~t.extras[new.annexes[i].source].worked
      BY <2>2
    <2> QED BY <1>0, <1>5, <1>9, <2>1, <2>3, <2>4, WaitingKept DEF ChangesOnly
  <1>13. /\ DOMAIN t.contracts = DOMAIN s.contracts /\ t.contracts[c] = new
    BY <1>0, <1>5, OneReplaced
  <1>14. Worth(t) = Worth(s)
    BY <1>5 DEF Worth, AppliedDays
  <1>15. KeepsOrder(s, t)
    BY <1>5, <1>10, <1>11, <1>12, <1>13, <1>14 DEF KeepsOrder, Orderly
  <1> QED BY <1>6, <1>13, <1>15 DEF t

\* A fresh annex at the end of a contract.
LEMMA AppendedAligned ==
    ASSUME NEW con \in ContractRow, Aligned(con), NEW e \in Joins
    PROVE  LET a == [number |-> Len(con.annexes) + 1, source |-> e, applied |-> FALSE,
                     signed |-> FALSE]
               new == [con EXCEPT !.annexes = Append(@, a)]
           IN /\ Fits(con, new)
              /\ DOMAIN new.annexes = 1..Len(con.annexes) + 1 /\ Len(con.annexes) \in Nat
              /\ DOMAIN con.annexes = 1..Len(con.annexes)
              /\ new.annexes[Len(con.annexes) + 1] = a
              /\ \A j \in DOMAIN con.annexes : new.annexes[j] = con.annexes[j]
              /\ Len(new.annexes) = Len(con.annexes) + 1
  <1> DEFINE N == Len(con.annexes)
             a == [number |-> N + 1, source |-> e, applied |-> FALSE, signed |-> FALSE]
             new == [con EXCEPT !.annexes = Append(@, a)]
  <1>1. con.annexes \in Seq(AnnexRow) /\ N \in Nat /\ DOMAIN con.annexes = 1..N
    BY DEF ContractRow
  <1>2. a \in AnnexRow /\ a.number = N + 1 /\ a.applied = FALSE
    BY <1>1 DEF AnnexRow
  <1> HIDE DEF a
  <1>3. /\ new.annexes = Append(con.annexes, a) /\ new.stages = con.stages
        /\ new.signed = con.signed /\ new.cancelled = con.cancelled /\ new \in ContractRow
    BY <1>1, <1>2 DEF ContractRow
  <1> HIDE DEF new
  <1>4. /\ DOMAIN new.annexes = 1..N + 1 /\ new.annexes[N + 1] = a
        /\ \A j \in 1..N : new.annexes[j] = con.annexes[j]
        /\ Len(new.annexes) = N + 1 /\ \A j \in 1..N + 1 : j \in 1..N \/ j = N + 1
    BY <1>1, <1>2, <1>3
  <1> HIDE DEF N
  <1>5. Aligned(new)
    <2>1. \A j \in DOMAIN new.annexes : new.annexes[j].number = j
      BY <1>1, <1>2, <1>4 DEF Aligned
    <2>2. \A k \in DOMAIN con.stages :
              con.stages[k].annex \in 1..N /\ con.annexes[con.stages[k].annex].applied
      BY <1>1 DEF Aligned
    <2>3. \A k \in DOMAIN new.stages :
              /\ new.stages[k].annex \in DOMAIN new.annexes
              /\ new.annexes[new.stages[k].annex].applied
      <3> TAKE k \in DOMAIN new.stages
      <3>1. con.stages[k].annex \in 1..N /\ con.annexes[con.stages[k].annex].applied
        BY <1>3, <2>2
      <3>2. new.annexes[con.stages[k].annex] = con.annexes[con.stages[k].annex]
        BY <1>4, <3>1
      <3>3. con.stages[k].annex \in 1..N + 1
        BY <1>1, <3>1
      <3> QED BY <1>3, <1>4, <3>1, <3>2, <3>3
    <2>4. \A k, l \in DOMAIN new.stages : new.stages[k].annex = new.stages[l].annex => k = l
      BY <1>3 DEF Aligned
    <2>5. ASSUME NEW j \in DOMAIN new.annexes, new.annexes[j].applied
          PROVE  \E k \in DOMAIN new.stages : new.stages[k].annex = j
      <3>1. j \in 1..N
        BY <1>2, <1>4, <2>5
      <3> QED BY <1>1, <1>3, <1>4, <2>5, <3>1 DEF Aligned
    <2> QED BY <2>1, <2>3, <2>4, <2>5 DEF Aligned
  <1>6. Fits(con, new)
    BY <1>3, <1>5 DEF Fits
  <1> QED BY <1>1, <1>4, <1>6 DEF new, a, N

\* An annex is written for an extra that has none, has counted no days and has no work.
LEMMA WrittenKeeps ==
    ASSUME NEW s, Orderly(s), NEW e \in Joins, s.extras[e].status = "accepted",
           \A c \in DOMAIN s.contracts : \A i \in DOMAIN s.contracts[c].annexes :
               s.contracts[c].annexes[i].source # e,
           s.extras[e].applied = 0, ~s.extras[e].worked
    PROVE  /\ Orderly(Written(s, e)) /\ Beside(s, Written(s, e))
           /\ DOMAIN Written(s, e).contracts = DOMAIN s.contracts
           /\ Written(s, e).extras = s.extras /\ Written(s, e).end = s.end
           /\ s.holds # NoContract =>
                 LET con == Written(s, e).contracts[s.holds]
                 IN /\ Len(con.annexes) \in DOMAIN con.annexes
                    /\ con.annexes[Len(con.annexes)].source = e
  <1> DEFINE t == Written(s, e)
  <1>0. s \in DealSet
    BY DEF Orderly, WellShaped
  <1>1. CASE s.holds = NoContract
    <2>1. t = s
      BY <1>1 DEF Written
    <2> QED BY <1>1, <2>1 DEF Beside
  <1>2. CASE s.holds # NoContract
    <2> DEFINE c == s.holds
               con == s.contracts[c]
               N == Len(con.annexes)
               a == [number |-> N + 1, source |-> e, applied |-> FALSE, signed |-> FALSE]
               new == [con EXCEPT !.annexes = Append(@, a)]
    <2>1. c \in DOMAIN s.contracts /\ con \in ContractRow /\ Aligned(con)
      BY <1>2, <1>0, RowsAreTyped DEF Orderly, WellShaped, AllAligned
    <2>2. t = [s EXCEPT !.contracts[c].annexes = Append(@, a)]
      BY <1>2, <2>1 DEF Written, HasAnnex
    <2>3. /\ Fits(con, new) /\ DOMAIN new.annexes = 1..N + 1 /\ N \in Nat
          /\ DOMAIN con.annexes = 1..N /\ new.annexes[N + 1] = a
          /\ \A j \in DOMAIN con.annexes : new.annexes[j] = con.annexes[j]
          /\ Len(new.annexes) = N + 1
      BY <2>1, AppendedAligned
    <2>4. t = [s EXCEPT !.contracts = [s.contracts EXCEPT ![c] = new]]
      BY <1>0, <2>1, <2>2 DEF DealSet, ContractRow
    <2>5. a.source = e /\ ~a.applied
      OBVIOUS
    <2> HIDE DEF t, new, a
    <2>6. /\ t.contracts = [s.contracts EXCEPT ![c] = new] /\ t \in DealSet /\ Beside(s, t)
          /\ t.extras = s.extras /\ t.end = s.end
      <3>1. new \in ContractRow
        BY <2>3 DEF Fits
      <3>2. [s.contracts EXCEPT ![c] = new] \in Seq(ContractRow)
        BY <1>0, <2>1, <3>1 DEF DealSet
      <3> QED BY <1>0, <2>4, <3>2 DEF DealSet, Beside
    <2>7. WellShaped(t) /\ AllAligned(t) /\ Billed(t)
      BY <2>1, <2>3, <2>6, FitsKeeps DEF Orderly
    <2>8. /\ DOMAIN t.contracts = DOMAIN s.contracts /\ t.contracts[c] = new
          /\ \A d \in DOMAIN s.contracts : d # c => t.contracts[d] = s.contracts[d]
      BY <1>0, <2>1, <2>6, OneReplaced
    <2>9. \A d \in DOMAIN t.contracts : \A j \in DOMAIN t.contracts[d].annexes :
              \/ /\ j \in DOMAIN s.contracts[d].annexes
                 /\ t.contracts[d].annexes[j] = s.contracts[d].annexes[j]
              \/ d = c /\ j = N + 1 /\ t.contracts[d].annexes[j] = a
      <3>1. \A j \in 1..N + 1 : j \in 1..N \/ j = N + 1
        BY <2>3
      <3> HIDE DEF con, N, c
      <3> QED BY <2>3, <2>8, <3>1 DEF con
    <2> HIDE DEF con, N, c
    <2>10. Joined(t)
      <3> DEFINE Src(d, j) == t.contracts[d].annexes[j].source
      <3>1. ASSUME NEW d \in DOMAIN t.contracts, NEW j \in DOMAIN t.contracts[d].annexes
            PROVE  /\ t.extras[Src(d, j)].status = "accepted"
                   /\ \A f \in DOMAIN t.contracts : \A k \in DOMAIN t.contracts[f].annexes :
                          Src(f, k) = Src(d, j) => f = d /\ k = j
        <4>1. Joined(s)
          BY DEF Orderly
        <4>2. CASE d = c /\ j = N + 1 /\ t.contracts[d].annexes[j] = a
          BY <2>5, <2>6, <2>8, <2>9, <4>2
        <4>3. CASE /\ j \in DOMAIN s.contracts[d].annexes
                   /\ t.contracts[d].annexes[j] = s.contracts[d].annexes[j]
          <5>1. d \in DOMAIN s.contracts
            BY <2>8
          <5>2. Src(d, j) # e /\ s.extras[Src(d, j)].status = "accepted"
            BY <4>1, <4>3, <5>1 DEF Joined
          <5>3. ASSUME NEW f \in DOMAIN t.contracts, NEW k \in DOMAIN t.contracts[f].annexes,
                       Src(f, k) = Src(d, j)
                PROVE  f = d /\ k = j
            <6>1. /\ k \in DOMAIN s.contracts[f].annexes /\ f \in DOMAIN s.contracts
                  /\ t.contracts[f].annexes[k] = s.contracts[f].annexes[k]
              BY <2>5, <2>8, <2>9, <5>2, <5>3
            <6> QED BY <4>1, <4>3, <5>1, <5>3, <6>1 DEF Joined
          <5> QED BY <2>6, <5>2, <5>3
        <4> QED BY <2>9, <4>2, <4>3
      <3> QED BY <3>1 DEF Joined
    <2>11. WaitsOnHeld(t) /\ NotYet(t)
      <3>1. ASSUME NEW d \in DOMAIN t.contracts, NEW j \in DOMAIN t.contracts[d].annexes,
                   ~t.contracts[d].annexes[j].applied,
                   t.contracts[d].annexes[j].source \in Variations
            PROVE  LET b == t.contracts[d].annexes[j]
                   IN d = t.holds /\ t.extras[b.source].applied = 0 /\ ~t.extras[b.source].worked
        <4>1. WaitsOnHeld(s) /\ t.holds = s.holds
          BY <2>6 DEF Orderly, Beside
        <4>2. CASE d = c /\ j = N + 1 /\ t.contracts[d].annexes[j] = a
          BY Zenon, <2>5, <2>6, <4>1, <4>2 DEF c
        <4>3. CASE /\ j \in DOMAIN s.contracts[d].annexes
                   /\ t.contracts[d].annexes[j] = s.contracts[d].annexes[j]
          BY <2>6, <2>8, <3>1, <4>1, <4>3 DEF WaitsOnHeld
        <4> QED BY <2>9, <4>2, <4>3
      <3>2. NotYet(t)
        BY <2>6 DEF Orderly, NotYet
      <3> QED BY <3>1, <3>2 DEF WaitsOnHeld
    <2>12. Orderly(t)
      BY <2>7, <2>10, <2>11 DEF Orderly
    <2>13. /\ Len(t.contracts[c].annexes) \in DOMAIN t.contracts[c].annexes
           /\ t.contracts[c].annexes[Len(t.contracts[c].annexes)].source = e
      <3>1. /\ t.contracts[c].annexes = new.annexes /\ Len(new.annexes) = N + 1
            /\ N + 1 \in DOMAIN new.annexes /\ new.annexes[N + 1] = a
        BY <2>3, <2>8
      <3> QED BY <2>5, <3>1
    <2> QED BY <2>6, <2>8, <2>12, <2>13 DEF c, t
  <1> QED BY <1>1, <1>2
-----------------------------------------------------------------------------
\* Days set on a variation: the difference moves the date once it is in scope.
LEMMA ScheduleKeeps ==
    ASSUME NEW s, Orderly(s), NEW v \in Variations, NEW days \in Terms
    PROVE  LET t == ScheduleDays(s, v, days)
           IN /\ Orderly(t) /\ Beside(s, t) /\ t.contracts = s.contracts
              /\ \A e \in Joins : t.extras[e].status = s.extras[e].status
              /\ s.dated /\ days >= s.extras[v].applied => Worth(t) = Worth(s)
  <1> DEFINE u == [s EXCEPT !.extras[v].days = days]
             more == days - s.extras[v].applied
             w == Extended(u, more)
             x == [w EXCEPT !.extras[v].applied = days]
             t == ScheduleDays(s, v, days)
  <1>0. /\ s \in DealSet /\ v \in Joins /\ s.extras \in [Joins -> Extra] /\ s.extras[v] \in Extra
        /\ days \in 0..MaxEnd /\ days \in Int /\ more \in Int /\ s.extras[v].applied \in Int
        /\ s.end \in Int
    <2>1. s \in DealSet /\ v \in Joins
      BY DEF Orderly, WellShaped, Joins
    <2>2. s.extras \in [Joins -> Extra] /\ s.extras[v] \in Extra /\ s.end \in Int
      BY <2>1 DEF DealSet
    <2>3. days \in 0..MaxEnd /\ MaxEnd \in Nat /\ s.extras[v].applied \in 0..MaxEnd
      BY <2>2, ExtraTypes
    <2> QED BY <2>1, <2>2, <2>3
  <1>1. /\ u \in DealSet /\ Beside(s, u) /\ u.contracts = s.contracts /\ u.end = s.end
        /\ u.extras = [s.extras EXCEPT ![v] = [s.extras[v] EXCEPT !.days = days]]
    <2>1. [s.extras[v] EXCEPT !.days = days] \in Extra
      BY <1>0, ExtraTypes
    <2>2. [s.extras EXCEPT ![v] = [s.extras[v] EXCEPT !.days = days]] \in [Joins -> Extra]
      BY <1>0, <2>1
    <2> QED BY <1>0, <2>2 DEF DealSet, Beside
  <1> HIDE DEF u
  <1>2. /\ \A e \in Joins : e # v => u.extras[e] = s.extras[e]
        /\ u.extras[v].status = s.extras[v].status /\ u.extras[v].worked = s.extras[v].worked
        /\ u.extras[v].applied = s.extras[v].applied /\ u.extras \in [Joins -> Extra]
        /\ u.extras[v] \in Extra
    <2>1. u.extras[v] = [s.extras[v] EXCEPT !.days = days]
      BY <1>0, <1>1
    <2>2. u.extras \in [Joins -> Extra]
      BY <1>1 DEF DealSet
    <2> QED BY <1>0, <1>1, <2>1, <2>2, ExtraTypes
  <1>3. ASSUME NEW y \in DealSet, Beside(s, y), y.contracts = s.contracts,
               \A e \in Joins : e # v => y.extras[e] = s.extras[e],
               y.extras[v].status = s.extras[v].status, y.extras[v].worked = s.extras[v].worked,
               y.extras[v].applied = s.extras[v].applied \/ InScope(s, v)
        PROVE  Orderly(y) /\ \A e \in Joins : y.extras[e].status = s.extras[e].status
    <2>1. \A e \in Joins : /\ y.extras[e].status = s.extras[e].status
                           /\ y.extras[e].worked = s.extras[e].worked
      BY <1>3
    <2>2. NotYet(y)
      BY <1>3, <2>1 DEF Orderly, NotYet, InScope
    <2>3. \A f \in Variations : Waiting(s, f) => y.extras[f].applied = s.extras[f].applied
      BY <1>3 DEF InScope, Joins
    <2>4. \A f \in Variations : f \in Joins
      BY DEF Joins
    <2> QED BY <1>3, <2>1, <2>2, <2>3, <2>4, ExtrasChanged
  <1>4. CASE ~InScope(s, v) \/ days = s.extras[v].applied
    <2>1. t = u
      BY <1>4 DEF ScheduleDays, u
    <2>2. Orderly(u) /\ \A e \in Joins : u.extras[e].status = s.extras[e].status
      BY <1>1, <1>2, <1>3
    <2>3. Worth(u) = Worth(s)
      <3>1. \A e \in Variations : u.extras[e].applied = s.extras[e].applied
        BY <1>2 DEF Joins
      <3>2. AppliedDays(u) = AppliedDays(s)
        BY <1>0, <1>1, <3>1, WorthAlike
      <3> QED BY <1>1, <3>2 DEF Worth
    <2> HIDE DEF t
    <2>4. /\ Orderly(t) /\ Beside(s, t) /\ t.contracts = s.contracts
          /\ \A e \in Joins : t.extras[e].status = s.extras[e].status
          /\ Worth(t) = Worth(s)
      BY <1>1, <2>1, <2>2, <2>3
    <2> QED BY <2>4 DEF t
  <1>5. CASE InScope(s, v) /\ days # s.extras[v].applied
    <2>1. t = x
      BY <1>5 DEF ScheduleDays, u
    <2>2. /\ w \in DealSet /\ Beside(u, w) /\ w.contracts = u.contracts /\ w.extras = u.extras
          /\ w.end = IF more > 0 /\ u.dated THEN u.end + more ELSE u.end
      BY <1>0, <1>1, ExtendedIs
    <2> HIDE DEF w
    <2>3. /\ x \in DealSet /\ Beside(w, x) /\ x.contracts = w.contracts /\ x.end = w.end
          /\ x.extras = [u.extras EXCEPT ![v] = [u.extras[v] EXCEPT !.applied = days]]
      <3>1. [u.extras[v] EXCEPT !.applied = days] \in Extra
        BY <1>0, <1>2, ExtraTypes
      <3>2. [u.extras EXCEPT ![v] = [u.extras[v] EXCEPT !.applied = days]] \in [Joins -> Extra]
        BY <1>0, <1>2, <3>1
      <3> QED BY <1>0, <2>2, <3>2 DEF DealSet, Beside
    <2> HIDE DEF x
    <2>4. /\ \A e \in Joins : e # v => x.extras[e] = s.extras[e]
          /\ x.extras[v].status = s.extras[v].status /\ x.extras[v].worked = s.extras[v].worked
          /\ x.extras[v].applied = days
      <3>1. x.extras[v] = [u.extras[v] EXCEPT !.applied = days]
        BY <1>0, <1>2, <2>3
      <3> QED BY <1>0, <1>2, <2>3, <3>1, ExtraTypes
    <2>5. Beside(s, x) /\ x.contracts = s.contracts
      BY <1>1, <2>2, <2>3 DEF Beside
    <2>6. Orderly(x) /\ \A e \in Joins : x.extras[e].status = s.extras[e].status
      BY <1>3, <1>5, <2>3, <2>4, <2>5
    <2>7. ASSUME s.dated, days >= s.extras[v].applied PROVE Worth(x) = Worth(s)
      <3>1. u.dated
        BY <1>1, <2>7 DEF Beside
      <3>2. \A e \in Variations : e # v => x.extras[e].applied = s.extras[e].applied
        BY <2>4 DEF Joins
      <3>3. AppliedDays(x) - AppliedDays(s) = x.extras[v].applied - s.extras[v].applied
        BY <1>0, <2>3, <3>2, WorthMoves
      <3>4. x.end = s.end + more
        BY <1>0, <1>1, <1>5, <2>2, <2>3, <2>7, <3>1
      <3>5. AppliedDays(x) \in Int /\ AppliedDays(s) \in Int
        BY <1>0, <2>3, AppliedAre
      <3> QED BY <1>0, <2>4, <3>3, <3>4, <3>5 DEF Worth
    <2> HIDE DEF t
    <2>8. /\ Orderly(t) /\ Beside(s, t) /\ t.contracts = s.contracts
          /\ \A e \in Joins : t.extras[e].status = s.extras[e].status
          /\ s.dated /\ days >= s.extras[v].applied => Worth(t) = Worth(s)
      BY <2>1, <2>5, <2>6, <2>7
    <2> QED BY <2>8 DEF t
  <1> QED BY <1>4, <1>5

\* The days of a variation nobody has an annex for.
LEMMA CountedKeeps ==
    ASSUME NEW s, Orderly(s), NEW v \in Variations, s.extras[v].status = "accepted",
           ~Waiting(s, v), s.extras[v].applied = 0
    PROVE  /\ KeepsOrder(s, Counted(s, v))
  <1> DEFINE t == Counted(s, v)
  <1>0. s \in DealSet /\ v \in Joins /\ s.end \in Int
    BY DEF Orderly, WellShaped, Joins, DealSet
  <1>1. /\ t \in DealSet /\ Beside(s, t) /\ t.contracts = s.contracts
        /\ SameButDays(s, t, v)
        /\ t.end - t.extras[v].applied = s.end
    BY <1>0, CountedIs
  <1> HIDE DEF t
  <1>2. NotYet(t)
    BY <1>1 DEF Orderly, NotYet, SameButDays
  <1>3. \A f \in Variations : Waiting(s, f) => /\ t.extras[f].applied = s.extras[f].applied
                                               /\ t.extras[f].worked = s.extras[f].worked
    BY <1>1 DEF SameButDays, Joins
  <1>4. \A e \in Joins : t.extras[e].status = s.extras[e].status
    BY <1>1 DEF SameButDays
  <1>5. Orderly(t)
    BY <1>1, <1>2, <1>3, <1>4, ExtrasChanged
  <1>6. Worth(t) = Worth(s)
    BY <1>0, <1>1, WorthKept
  <1>7. KeepsOrder(s, t)
    BY <1>1, <1>4, <1>5, <1>6 DEF KeepsOrder
  <1> QED BY <1>7 DEF t
-----------------------------------------------------------------------------
(* The calls, one by one: what each keeps of the order, and of the days. *)
Level(s, t) ==
    /\ \A e \in Changes : t.extras[e].status = "accepted" <=> s.extras[e].status = "accepted"
    /\ s.dated => Worth(t) = Worth(s)
Goes(s, t) == Orderly(t) /\ ("grow" \in Habits => Level(s, t))

LEMMA OrderlyGoes ==
    ASSUME NEW s, NEW t, KeepsOrder(s, t)
    PROVE  Goes(s, t)
  BY DEF Goes, Level, KeepsOrder, Joins

\* When the extras and the date are what they were.
LEMMA SameExtrasGo ==
    ASSUME NEW s, NEW t, Orderly(t), t.extras = s.extras, t.end = s.end
    PROVE  Goes(s, t)
  BY DEF Goes, Level, Worth, AppliedDays

LEMMA OrderlyTypes ==
    ASSUME Orderly(deal)
    PROVE  /\ deal \in DealSet
           /\ Handed = DOMAIN deal.contracts
           /\ deal.holds \in Handed \cup {NoContract}
           /\ \A c \in Handed :
                /\ InContract(c) = deal.contracts[c]
                /\ deal.contracts[c] \in ContractRow /\ Aligned(deal.contracts[c])
                /\ deal.contracts[c].annexes \in Seq(AnnexRow)
                /\ deal.contracts[c].stages \in Seq(MilestoneRow)
                /\ c # NoContract
  <1>1. deal \in DealSet /\ deal.holds \in DOMAIN deal.contracts \cup {NoContract}
    BY DEF Orderly, WellShaped
  <1>2. \A c \in DOMAIN deal.contracts : c # NoContract
    BY <1>1 DEF DealSet, NoContract
  <1> QED BY <1>1, <1>2, RowsAreTyped DEF Orderly, AllAligned, Handed, InContract

LEMMA CreateGoes == ASSUME Orderly(deal), CreateContract PROVE Goes(deal, deal')
  <1> DEFINE row == [signed |-> FALSE, cancelled |-> FALSE, annexes |-> <<>>, stages |-> <<>>]
             N == Len(deal.contracts)
  <1>1. /\ row \in ContractRow /\ Aligned(row) /\ row.annexes = <<>> /\ row.stages = <<>>
        /\ ~row.signed /\ ~row.cancelled
    BY DEF ContractRow, Aligned
  <1> HIDE DEF row
  <1>2. /\ deal \in DealSet /\ deal.contracts \in Seq(ContractRow) /\ N \in Nat
        /\ DOMAIN deal.contracts = 1..N
    BY OrderlyTypes DEF DealSet
  <1>3. /\ deal'.contracts = Append(deal.contracts, row)
        /\ deal'.holds = IF deal.holds = NoContract THEN N + 1 ELSE deal.holds
        /\ deal'.invoices = deal.invoices /\ deal'.extras = deal.extras /\ deal'.end = deal.end
        /\ deal'.dated = deal.dated
    BY <1>2 DEF CreateContract, row, DealSet
  <1>4. /\ deal'.contracts \in Seq(ContractRow) /\ DOMAIN deal'.contracts = 1..N + 1
        /\ deal'.contracts[N + 1] = row
        /\ \A c \in 1..N : deal'.contracts[c] = deal.contracts[c]
        /\ \A c \in 1..N + 1 : c \in 1..N \/ c = N + 1
    BY <1>1, <1>2, <1>3
  <1>5. deal' \in DealSet
    <2> DEFINE cs == Append(deal.contracts, row)
               h == IF deal.holds = NoContract THEN N + 1 ELSE deal.holds
    <2>1. deal' = [deal EXCEPT !.contracts = cs, !.holds = h]
      BY <1>2 DEF CreateContract, row, DealSet
    <2>2. cs \in Seq(ContractRow) /\ h \in Nat
      BY <1>2, <1>3, <1>4 DEF DealSet
    <2> HIDE DEF cs, h
    <2> QED BY <1>2, <2>1, <2>2 DEF DealSet
  <1> HIDE DEF N
  <1>6. WellShaped(deal')
    BY <1>1, <1>2, <1>3, <1>4, <1>5 DEF Orderly, WellShaped, NoContract
  <1>7. AllAligned(deal')
    BY <1>1, <1>2, <1>4 DEF Orderly, AllAligned
  <1>8. \A c \in DOMAIN deal'.contracts :
            /\ \A i \in DOMAIN deal'.contracts[c].annexes :
                   c \in DOMAIN deal.contracts /\ deal'.contracts[c] = deal.contracts[c]
            /\ \A k \in DOMAIN deal'.contracts[c].stages :
                   c \in DOMAIN deal.contracts /\ deal'.contracts[c] = deal.contracts[c]
    <2>1. TAKE c \in DOMAIN deal'.contracts
    <2>2. CASE c \in 1..N
      BY <1>2, <1>4, <2>2
    <2>3. CASE c = N + 1
      <3>1. DOMAIN deal'.contracts[c].annexes = {} /\ DOMAIN deal'.contracts[c].stages = {}
        BY <1>1, <1>4, <2>3
      <3> QED BY <3>1
    <2> QED BY <1>4, <2>2, <2>3
  <1>9. Billed(deal')
    <2>1. Billed(deal) /\ \A c \in DOMAIN deal.contracts : c \in DOMAIN deal'.contracts
      <3>1. Billed(deal)
        BY Zenon DEF Orderly
      <3>2. \A c \in 1..N : c \in 1..N + 1
        BY <1>2
      <3> QED BY <1>2, <1>4, <3>1, <3>2
    <2>2. \A id \in DOMAIN deal'.invoices :
              /\ deal'.invoices[id].contract \in DOMAIN deal'.contracts
              /\ deal'.invoices[id].at \in DOMAIN deal'.contracts[deal'.invoices[id].contract].stages
              /\ deal'.contracts[deal'.invoices[id].contract].stages[deal'.invoices[id].at].invoice
                 = id
      BY <1>2, <1>3, <1>4, <2>1 DEF Billed
    <2>3. \A c \in DOMAIN deal'.contracts : \A k \in DOMAIN deal'.contracts[c].stages :
              LET id == deal'.contracts[c].stages[k].invoice
              IN id # 0 => id \in DOMAIN deal'.invoices
                           /\ deal'.invoices[id] = [contract |-> c, at |-> k]
      BY <1>3, <1>8, <2>1 DEF Billed
    <2> QED BY <2>2, <2>3 DEF Billed
  <1>10. Joined(deal') /\ NotYet(deal')
    BY <1>3, <1>8 DEF Orderly, Joined, NotYet
  <1>11. WaitsOnHeld(deal')
    <2>1. ASSUME NEW c \in DOMAIN deal'.contracts, NEW i \in DOMAIN deal'.contracts[c].annexes,
                 ~deal'.contracts[c].annexes[i].applied,
                 deal'.contracts[c].annexes[i].source \in Variations
          PROVE  LET a == deal'.contracts[c].annexes[i]
                 IN c = deal'.holds /\ deal'.extras[a.source].applied = 0
                    /\ ~deal'.extras[a.source].worked
      <3>1. c \in DOMAIN deal.contracts /\ deal'.contracts[c] = deal.contracts[c]
        BY <1>8
      <3>2. LET a == deal.contracts[c].annexes[i]
            IN c = deal.holds /\ deal.extras[a.source].applied = 0 /\ ~deal.extras[a.source].worked
        BY <2>1, <3>1 DEF Orderly, WaitsOnHeld
      <3>3. c # NoContract
        BY <3>1, OrderlyTypes
      <3> QED BY <1>3, <3>1, <3>2, <3>3
    <2> QED BY Zenon, <2>1 DEF WaitsOnHeld
  <1> QED BY <1>3, <1>6, <1>7, <1>9, <1>10, <1>11, SameExtrasGo DEF Orderly

LEMMA SignGoes ==
    ASSUME "hold" \in Habits, Orderly(deal), NEW c \in Handed, SignTheContract(c)
    PROVE  Goes(deal, deal')
  <1> DEFINE con == deal.contracts[c]
             new == [con EXCEPT !.signed = TRUE]
  <1>1. /\ deal \in DealSet /\ con \in ContractRow /\ c \in DOMAIN deal.contracts
        /\ ~con.cancelled /\ deal.contracts \in Seq(ContractRow)
        /\ deal.holds \in DOMAIN deal.contracts \cup {NoContract}
    BY OrderlyTypes DEF SignTheContract, DealSet
  <1>2. /\ new \in ContractRow /\ new.annexes = con.annexes /\ new.stages = con.stages
        /\ ~new.cancelled
    BY <1>1 DEF ContractRow
  <1>3. /\ deal'.contracts = [deal.contracts EXCEPT ![c] = new]
        /\ deal'.holds = Claimed(c)
        /\ deal'.invoices = deal.invoices /\ deal'.extras = deal.extras /\ deal'.end = deal.end
        /\ deal'.dated = deal.dated
    BY <1>1 DEF SignTheContract, DealSet
  <1>4. Claimed(c) = c \/ (Claimed(c) = deal.holds /\ deal.holds # NoContract)
    BY Zenon DEF Claimed
  <1>5. deal'.contracts \in Seq(ContractRow)
    BY <1>1, <1>2, <1>3
  <1> HIDE DEF new
  <1>6. /\ DOMAIN deal'.contracts = DOMAIN deal.contracts /\ deal'.contracts[c] = new
        /\ \A d \in DOMAIN deal.contracts : d # c => deal'.contracts[d] = deal.contracts[d]
    BY <1>1, <1>3, OneReplaced
  <1>7. deal' \in DealSet
    <2> DEFINE cs == [deal.contracts EXCEPT ![c] = new]
    <2>1. deal' = [deal EXCEPT !.contracts = cs, !.holds = Claimed(c)]
      BY <1>1 DEF SignTheContract, new, DealSet
    <2>2. cs \in Seq(ContractRow) /\ Claimed(c) \in Nat
      BY <1>1, <1>3, <1>4, <1>5 DEF DealSet, NoContract
    <2> HIDE DEF cs
    <2> QED BY <1>1, <2>1, <2>2 DEF DealSet
  <1>8. WellShaped(deal')
    BY <1>1, <1>2, <1>3, <1>4, <1>6, <1>7 DEF Orderly, WellShaped
  <1>9. deal'.holds = deal.holds \/ \A v \in Variations : ~Waiting(deal, v)
    BY <1>3 DEF SignTheContract, MayLetGo
  <1>10. Orderly(deal')
    BY <1>1, <1>2, <1>3, <1>8, <1>9, HolderChanged
  <1> QED BY <1>3, <1>10, SameExtrasGo

LEMMA LinkGoes ==
    ASSUME "hold" \in Habits, Orderly(deal), NEW c \in Handed, LinkContractToProject(c)
    PROVE  Goes(deal, deal')
  <1>1. /\ deal \in DealSet /\ c \in DOMAIN deal.contracts /\ ~deal.contracts[c].cancelled
        /\ deal.contracts[c] \in ContractRow /\ deal.contracts \in Seq(ContractRow)
    BY OrderlyTypes DEF LinkContractToProject, DealSet
  <1>2. /\ deal'.contracts = deal.contracts /\ deal'.holds = c
        /\ deal'.invoices = deal.invoices /\ deal'.extras = deal.extras /\ deal'.end = deal.end
        /\ deal' \in DealSet
    <2>1. deal' = [deal EXCEPT !.holds = c]
      BY DEF LinkContractToProject
    <2>2. c \in Nat
      BY <1>1
    <2> QED BY <1>1, <2>1, <2>2 DEF DealSet
  <1>3. WellShaped(deal')
    BY <1>1, <1>2 DEF Orderly, WellShaped
  <1>4. deal'.contracts = [deal.contracts EXCEPT ![c] = deal.contracts[c]]
    BY <1>1, <1>2
  <1>5. \A v \in Variations : ~Waiting(deal, v)
    BY DEF LinkContractToProject, MayLetGo
  <1>6. Orderly(deal')
    BY <1>1, <1>2, <1>3, <1>4, <1>5, HolderChanged
  <1> QED BY <1>2, <1>6, SameExtrasGo

LEMMA CancelGoes ==
    ASSUME "hold" \in Habits, Orderly(deal), NEW c \in Handed, CancelContract(c)
    PROVE  Goes(deal, deal')
  <1> DEFINE con == deal.contracts[c]
             new == [con EXCEPT !.cancelled = TRUE]
  <1>1. /\ deal \in DealSet /\ con \in ContractRow /\ c \in DOMAIN deal.contracts
        /\ ~con.signed /\ deal.contracts \in Seq(ContractRow)
        /\ deal.holds \in DOMAIN deal.contracts \cup {NoContract}
    BY OrderlyTypes DEF CancelContract, DealSet
  <1>2. /\ new \in ContractRow /\ new.annexes = con.annexes /\ new.stages = con.stages
        /\ ~new.signed
    BY <1>1 DEF ContractRow
  <1>3. /\ deal'.contracts = [deal.contracts EXCEPT ![c] = new]
        /\ deal'.holds = Released(c)
        /\ deal'.invoices = deal.invoices /\ deal'.extras = deal.extras /\ deal'.end = deal.end
        /\ deal'.dated = deal.dated
    BY <1>1 DEF CancelContract, DealSet
  <1>4. Released(c) # c /\ (Released(c) = NoContract \/ Released(c) = deal.holds)
    BY OrderlyTypes DEF Released
  <1>5. deal'.contracts \in Seq(ContractRow)
    BY <1>1, <1>2, <1>3
  <1> HIDE DEF new
  <1>6. /\ DOMAIN deal'.contracts = DOMAIN deal.contracts /\ deal'.contracts[c] = new
        /\ \A d \in DOMAIN deal.contracts : d # c => deal'.contracts[d] = deal.contracts[d]
    BY <1>1, <1>3, OneReplaced
  <1>7. deal' \in DealSet
    <2> DEFINE cs == [deal.contracts EXCEPT ![c] = new]
    <2>1. deal' = [deal EXCEPT !.contracts = cs, !.holds = Released(c)]
      BY <1>1 DEF CancelContract, new, DealSet
    <2>2. cs \in Seq(ContractRow) /\ Released(c) \in Nat
      BY <1>1, <1>3, <1>4, <1>5 DEF DealSet, NoContract
    <2> HIDE DEF cs
    <2> QED BY <1>1, <2>1, <2>2 DEF DealSet
  <1>8. WellShaped(deal')
    BY <1>1, <1>2, <1>3, <1>4, <1>6, <1>7 DEF Orderly, WellShaped
  <1>9. deal'.holds = deal.holds \/ \A v \in Variations : ~Waiting(deal, v)
    BY <1>3 DEF CancelContract, MayLetGo, Released
  <1>10. Orderly(deal')
    BY <1>1, <1>2, <1>3, <1>8, <1>9, HolderChanged
  <1> QED BY <1>3, <1>10, SameExtrasGo

\* What an extra may become: accepted stays accepted.
LEMMA ExtraIs ==
    ASSUME NEW s, Orderly(s), NEW e \in Joins, NEW row \in Extra,
           NEW t, t = [s EXCEPT !.extras = [s.extras EXCEPT ![e] = row]],
           s.extras[e].status = "accepted" => row.status = "accepted",
           row.status # "accepted" => row.applied = 0 /\ ~row.worked,
           e \in Variations /\ Waiting(s, e) =>
               row.applied = s.extras[e].applied /\ row.worked = s.extras[e].worked
    PROVE  /\ Orderly(t) /\ t \in DealSet /\ Beside(s, t)
           /\ t.contracts = s.contracts /\ t.end = s.end
           /\ t.extras[e] = row /\ \A f \in Joins : f # e => t.extras[f] = s.extras[f]
  <1>0. s \in DealSet /\ s.extras \in [Joins -> Extra]
    BY DEF Orderly, WellShaped, DealSet
  <1> DEFINE extras == [s.extras EXCEPT ![e] = row]
  <1>1. /\ extras \in [Joins -> Extra] /\ extras[e] = row
        /\ \A f \in Joins : f # e => extras[f] = s.extras[f]
    BY <1>0
  <1> HIDE DEF extras
  <1>2. t = [s EXCEPT !.extras = extras]
    BY DEF extras
  <1>3. /\ t \in DealSet /\ Beside(s, t) /\ t.contracts = s.contracts /\ t.end = s.end
        /\ t.extras = extras
    BY <1>0, <1>1, <1>2 DEF DealSet, Beside
  <1>4. t.extras[e] = row /\ \A f \in Joins : f # e => t.extras[f] = s.extras[f]
    BY <1>1, <1>3
  <1>5. NotYet(t)
    BY <1>4 DEF Orderly, NotYet
  <1>6. \A f \in Joins : s.extras[f].status = "accepted" => t.extras[f].status = "accepted"
    BY <1>4
  <1>7. \A v \in Variations : Waiting(s, v) => /\ t.extras[v].applied = s.extras[v].applied
                                               /\ t.extras[v].worked = s.extras[v].worked
    BY <1>4 DEF Joins
  <1>8. Orderly(t)
    BY <1>3, <1>5, <1>6, <1>7, ExtrasChanged
  <1> QED BY <1>3, <1>4, <1>8

LEMMA ExtraRow ==
    ASSUME Orderly(deal), NEW e \in Joins
    PROVE  /\ deal.extras \in [Joins -> Extra] /\ deal.extras[e] \in Extra
           /\ deal.extras[e].applied \in 0..MaxEnd /\ deal.extras[e].worked \in BOOLEAN
           /\ deal.extras[e].days \in 0..MaxEnd
           /\ deal.extras[e].status # "accepted" =>
                  deal.extras[e].applied = 0 /\ ~deal.extras[e].worked
  <1>1. deal.extras \in [Joins -> Extra]
    BY DEF Orderly, WellShaped, DealSet
  <1>2. deal.extras[e] \in Extra
    BY <1>1
  <1> QED BY <1>1, <1>2, ExtraTypes DEF Orderly, NotYet

\* Nobody has an annex yet for what was not accepted.
LEMMA NotAnnexed ==
    ASSUME Orderly(deal), NEW e \in Joins, deal.extras[e].status # "accepted"
    PROVE  /\ \A c \in DOMAIN deal.contracts : \A i \in DOMAIN deal.contracts[c].annexes :
                  deal.contracts[c].annexes[i].source # e
           /\ ~Waiting(deal, e)
  <1>1. \A c \in DOMAIN deal.contracts : \A i \in DOMAIN deal.contracts[c].annexes :
            deal.contracts[c].annexes[i].source # e
    BY DEF Orderly, Joined
  <1>2. deal.holds # NoContract => deal.holds \in DOMAIN deal.contracts
    BY DEF Orderly, WellShaped
  <1> QED BY <1>1, <1>2 DEF Waiting

LEMMA DraftGoes ==
    ASSUME Orderly(deal), NEW e \in Joins, NEW days \in Terms, DraftExtra(e, days)
    PROVE  Goes(deal, deal')
  <1> DEFINE row == [deal.extras[e] EXCEPT !.status = "open", !.days = days]
  <1>1. /\ deal.extras[e].status = "none" /\ deal.extras[e] \in Extra
        /\ deal.extras[e].applied = 0 /\ ~deal.extras[e].worked
        /\ deal.extras \in [Joins -> Extra]
    BY ExtraRow DEF DraftExtra
  <1>2. /\ row \in Extra /\ row.status = "open" /\ row.applied = deal.extras[e].applied
        /\ row.worked = deal.extras[e].worked
    BY <1>1, ExtraTypes
  <1>3. deal' = [deal EXCEPT !.extras = [deal.extras EXCEPT ![e] = row]]
    BY <1>1, OrderlyTypes DEF DraftExtra, DealSet
  <1> HIDE DEF row
  <1>4. /\ Orderly(deal') /\ deal' \in DealSet /\ deal'.end = deal.end
        /\ deal'.extras[e] = row /\ \A f \in Joins : f # e => deal'.extras[f] = deal.extras[f]
    BY <1>1, <1>2, <1>3, ExtraIs
  <1>5. /\ \A v \in Variations : deal'.extras[v].applied = deal.extras[v].applied
        /\ \A f \in Changes : deal'.extras[f].status = "accepted" <=> deal.extras[f].status = "accepted"
    BY <1>1, <1>2, <1>4 DEF Joins
  <1>6. AppliedDays(deal') = AppliedDays(deal)
    BY <1>4, <1>5, OrderlyTypes, WorthAlike
  <1> QED BY <1>4, <1>5, <1>6 DEF Goes, Level, Worth

LEMMA SendGoes ==
    ASSUME Orderly(deal), NEW e \in Joins, SendExtra(e)
    PROVE  Goes(deal, deal')
  <1> DEFINE row == [deal.extras[e] EXCEPT !.status = "sent"]
  <1>1. /\ deal.extras[e].status = "open" /\ deal.extras[e] \in Extra
        /\ deal.extras[e].applied = 0 /\ ~deal.extras[e].worked
        /\ deal.extras \in [Joins -> Extra]
    BY ExtraRow DEF SendExtra
  <1>2. /\ row \in Extra /\ row.status = "sent" /\ row.applied = deal.extras[e].applied
        /\ row.worked = deal.extras[e].worked
    BY <1>1, ExtraTypes
  <1>3. deal' = [deal EXCEPT !.extras = [deal.extras EXCEPT ![e] = row]]
    BY <1>1, OrderlyTypes DEF SendExtra, DealSet
  <1> HIDE DEF row
  <1>4. /\ Orderly(deal') /\ deal' \in DealSet /\ deal'.end = deal.end
        /\ deal'.extras[e] = row /\ \A f \in Joins : f # e => deal'.extras[f] = deal.extras[f]
    BY <1>1, <1>2, <1>3, ExtraIs
  <1>5. /\ \A v \in Variations : deal'.extras[v].applied = deal.extras[v].applied
        /\ \A f \in Changes : deal'.extras[f].status = "accepted" <=> deal.extras[f].status = "accepted"
    BY <1>1, <1>2, <1>4 DEF Joins
  <1>6. AppliedDays(deal') = AppliedDays(deal)
    BY <1>4, <1>5, OrderlyTypes, WorthAlike
  <1> QED BY <1>4, <1>5, <1>6 DEF Goes, Level, Worth

\* Work is marked on what is in scope, so on nothing that waits.
LEMMA MarkGoes ==
    ASSUME Orderly(deal), NEW v \in Variations, NEW on \in BOOLEAN, MarkLineProgress(v, on)
    PROVE  Goes(deal, deal')
  <1> DEFINE row == [deal.extras[v] EXCEPT !.worked = on]
  <1>0. v \in Joins
    BY DEF Joins
  <1>1. /\ deal.extras[v].status = "accepted" /\ ~Waiting(deal, v)
        /\ deal.extras[v] \in Extra /\ deal.extras \in [Joins -> Extra]
    BY <1>0, ExtraRow DEF MarkLineProgress, InScope
  <1>2. /\ row \in Extra /\ row.status = "accepted" /\ row.applied = deal.extras[v].applied
    BY <1>1, ExtraTypes
  <1>3. deal' = [deal EXCEPT !.extras = [deal.extras EXCEPT ![v] = row]]
    BY <1>0, <1>1, OrderlyTypes DEF MarkLineProgress, DealSet
  <1> HIDE DEF row
  <1>4. /\ Orderly(deal') /\ deal' \in DealSet /\ deal'.end = deal.end
        /\ deal'.extras[v] = row /\ \A f \in Joins : f # v => deal'.extras[f] = deal.extras[f]
    BY <1>0, <1>1, <1>2, <1>3, ExtraIs
  <1>5. /\ \A w \in Variations : deal'.extras[w].applied = deal.extras[w].applied
        /\ \A f \in Changes : deal'.extras[f].status = "accepted" <=> deal.extras[f].status = "accepted"
    BY <1>1, <1>2, <1>4 DEF Joins
  <1>6. AppliedDays(deal') = AppliedDays(deal)
    BY <1>4, <1>5, OrderlyTypes, WorthAlike
  <1> QED BY <1>4, <1>5, <1>6 DEF Goes, Level, Worth

\* A date set by hand is the only call that changes no more than the date.
LEMMA DateGoes ==
    ASSUME Orderly(deal), NEW n \in 0..MaxEnd, UpdateProject(n)
    PROVE  Orderly(deal')
  <1>1. deal \in DealSet /\ n \in Int
    BY OrderlyTypes, ExtraTypes
  <1>2. deal' = [deal EXCEPT !.end = n, !.dated = TRUE]
    BY DEF UpdateProject
  <1>3. /\ deal' \in DealSet /\ deal'.contracts = deal.contracts /\ deal'.holds = deal.holds
        /\ deal'.invoices = deal.invoices /\ deal'.extras = deal.extras
    BY <1>1, <1>2 DEF DealSet
  <1>4. WellShaped(deal')
    BY <1>3 DEF Orderly, WellShaped
  <1>5. AllAligned(deal') /\ Billed(deal')
    BY <1>3 DEF Orderly, AllAligned, Billed
  <1>6. Joined(deal') /\ WaitsOnHeld(deal') /\ NotYet(deal')
    BY <1>3 DEF Orderly, Joined, WaitsOnHeld, NotYet
  <1> QED BY <1>4, <1>5, <1>6 DEF Orderly

LEMMA AcceptGoes ==
    ASSUME Orderly(deal), NEW v \in Joins, AcceptVersion(v)
    PROVE  Goes(deal, deal')
  <1> DEFINE row == [deal.extras[v] EXCEPT !.status = "accepted"]
             s == [deal EXCEPT !.extras = [deal.extras EXCEPT ![v] = row]]
  <1>1. /\ v \in Variations /\ deal.extras[v].status = "sent" /\ deal.extras[v] \in Extra
        /\ deal.extras[v].applied = 0 /\ ~deal.extras[v].worked
        /\ deal.extras \in [Joins -> Extra]
    BY ExtraRow DEF AcceptVersion
  <1>2. /\ row \in Extra /\ row.status = "accepted" /\ row.applied = deal.extras[v].applied
        /\ row.worked = deal.extras[v].worked
    BY <1>1, ExtraTypes
  <1>3. s = [deal EXCEPT !.extras[v].status = "accepted"]
    BY <1>1, OrderlyTypes DEF DealSet
  <1>4. deal' = IF s.holds = NoContract THEN Counted(s, v) ELSE Written(s, v)
    BY <1>3 DEF AcceptVersion
  <1> HIDE DEF row
  <1>a. s = [deal EXCEPT !.extras = [deal.extras EXCEPT ![v] = row]]
    OBVIOUS
  <1> HIDE DEF s
  <1>5. /\ Orderly(s) /\ s \in DealSet /\ Beside(deal, s) /\ s.end = deal.end
        /\ s.contracts = deal.contracts
        /\ s.extras[v] = row /\ \A f \in Joins : f # v => s.extras[f] = deal.extras[f]
    BY <1>1, <1>2, <1>a, ExtraIs
  <1>6. /\ s.extras[v].status = "accepted" /\ s.extras[v].applied = 0 /\ ~s.extras[v].worked
    BY <1>1, <1>2, <1>5
  <1>7. /\ \A w \in Variations : s.extras[w].applied = deal.extras[w].applied
        /\ \A f \in Changes : s.extras[f].status = "accepted" <=> deal.extras[f].status = "accepted"
    <2>1. v \notin Changes
      BY <1>1, ExtrasAssumption
    <2> QED BY <1>1, <1>2, <1>5, <2>1 DEF Joins
  <1>8. Worth(s) = Worth(deal) /\ s.dated = deal.dated
    <2>1. AppliedDays(s) = AppliedDays(deal)
      BY <1>5, <1>7, OrderlyTypes, WorthAlike
    <2> QED BY <1>5, <2>1 DEF Worth, Beside
  <1>9. CASE s.holds = NoContract
    <2>1. deal' = Counted(s, v)
      BY <1>4, <1>9
    <2>2. ~Waiting(s, v)
      BY <1>9 DEF Waiting
    <2>3. KeepsOrder(s, deal')
      BY <1>1, <1>5, <1>6, <2>1, <2>2, CountedKeeps
    <2> QED BY <1>7, <1>8, <2>3 DEF Goes, Level, KeepsOrder, Joins
  <1>10. CASE s.holds # NoContract
    <2>1. deal' = Written(s, v)
      BY <1>4, <1>10
    <2>2. \A c \in DOMAIN s.contracts : \A i \in DOMAIN s.contracts[c].annexes :
              s.contracts[c].annexes[i].source # v
      BY <1>1, <1>5, NotAnnexed
    <2>3. Orderly(deal') /\ deal'.extras = s.extras /\ deal'.end = s.end
      BY <1>5, <1>6, <2>1, <2>2, WrittenKeeps
    <2>4. Goes(s, deal')
      BY <2>3, SameExtrasGo
    <2> QED BY <1>7, <1>8, <2>4 DEF Goes, Level
  <1> QED BY <1>9, <1>10

\* The days of a change count in the step that approves it.
Tallied(s, t) ==
    s.dated => t.end - AppliedDays(t)
               = s.end - AppliedDays(s) + DaysOf(s, Approved(t) \ Approved(s))

LEMMA ApproveGoes ==
    ASSUME Orderly(deal), NEW e \in Joins, ApproveChange(e)
    PROVE  Orderly(deal') /\ Tallied(deal, deal')
  <1> DEFINE row == [deal.extras[e] EXCEPT !.status = "accepted"]
             r == [deal EXCEPT !.extras = [deal.extras EXCEPT ![e] = row]]
             s == Written(r, e)
             t == IF s.holds = NoContract THEN s
                  ELSE Apply(s, s.holds, Len(s.contracts[s.holds].annexes))
             days == deal.extras[e].days
  <1>1. /\ e \in Changes /\ deal.extras[e].status # "accepted" /\ deal.extras[e] \in Extra
        /\ deal.extras[e].applied = 0 /\ ~deal.extras[e].worked
        /\ deal.extras \in [Joins -> Extra] /\ e \notin Variations
        /\ days \in 0..MaxEnd /\ days \in Int
    BY ExtraRow, ExtrasAssumption DEF ApproveChange
  <1>2. /\ row \in Extra /\ row.status = "accepted" /\ row.applied = deal.extras[e].applied
        /\ row.worked = deal.extras[e].worked
    BY <1>1, ExtraTypes
  <1>3. r = [deal EXCEPT !.extras[e].status = "accepted"]
    BY <1>1, OrderlyTypes DEF DealSet
  <1>4. deal' = Extended(t, days)
    BY <1>3 DEF ApproveChange
  <1> HIDE DEF row
  <1>a. r = [deal EXCEPT !.extras = [deal.extras EXCEPT ![e] = row]]
    OBVIOUS
  <1> HIDE DEF r, days
  <1>5. /\ Orderly(r) /\ r \in DealSet /\ Beside(deal, r) /\ r.end = deal.end
        /\ r.contracts = deal.contracts
        /\ r.extras[e] = row /\ \A f \in Joins : f # e => r.extras[f] = deal.extras[f]
    BY <1>1, <1>2, <1>a, ExtraIs
  <1>6. /\ r.extras[e].status = "accepted" /\ r.extras[e].applied = 0 /\ ~r.extras[e].worked
    BY <1>1, <1>2, <1>5
  <1>7. \A c \in DOMAIN r.contracts : \A i \in DOMAIN r.contracts[c].annexes :
            r.contracts[c].annexes[i].source # e
    BY <1>1, <1>5, NotAnnexed
  <1>8. /\ Orderly(s) /\ Beside(r, s) /\ s.extras = r.extras /\ s.end = r.end
        /\ r.holds # NoContract =>
              LET con == s.contracts[r.holds]
              IN /\ Len(con.annexes) \in DOMAIN con.annexes
                 /\ con.annexes[Len(con.annexes)].source = e
    BY <1>5, <1>6, <1>7, WrittenKeeps
  <1> HIDE DEF s
  <1>9. s.holds = r.holds /\ s.dated = r.dated /\ r.dated = deal.dated
    BY <1>5, <1>8 DEF Beside
  <1>10. Orderly(t) /\ Beside(s, t) /\ t.extras = s.extras /\ t.end = s.end
    <2>1. CASE s.holds = NoContract
      BY <1>8, <2>1 DEF Beside
    <2>2. CASE s.holds # NoContract
      <3> DEFINE c == s.holds
                 i == Len(s.contracts[c].annexes)
      <3>1. c \in DOMAIN s.contracts /\ s \in DealSet
        BY <1>8, <2>2 DEF Orderly, WellShaped
      <3>2. i \in DOMAIN s.contracts[c].annexes /\ s.contracts[c].annexes[i].source = e
        BY <1>8, <1>9, <2>2
      <3> HIDE DEF i
      <3>3. t = Apply(s, c, i)
        BY <2>2 DEF i
      <3> HIDE DEF t, c
      <3>4. KeepsOrder(s, t)
        BY <1>8, <3>1, <3>2, <3>3, ApplyKeeps
      <3>5. t.extras = s.extras /\ t.end = s.end
        <4>1. CASE s.contracts[c].annexes[i].applied
          BY <3>3, <4>1 DEF Apply
        <4>2. CASE ~s.contracts[c].annexes[i].applied
          BY <1>1, <3>1, <3>2, <3>3, <4>2, ApplyIs
        <4> QED BY <4>1, <4>2
      <3> QED BY <3>4, <3>5 DEF KeepsOrder
    <2> QED BY <2>1, <2>2
  <1> HIDE DEF t
  <1>11. t \in DealSet /\ t.end \in Int /\ t.dated = deal.dated /\ t.end = deal.end
         /\ deal.end \in Int /\ t.extras = r.extras
    <2>1. t \in DealSet /\ deal \in DealSet
      BY <1>10, OrderlyTypes DEF Orderly, WellShaped
    <2> QED BY <1>5, <1>8, <1>9, <1>10, <2>1 DEF DealSet, Beside
  <1>12. /\ deal' \in DealSet /\ Beside(t, deal') /\ deal'.contracts = t.contracts
         /\ deal'.extras = t.extras
         /\ deal'.end = IF days > 0 /\ t.dated THEN t.end + days ELSE t.end
    BY <1>1, <1>4, <1>11, ExtendedIs
  <1>13. Orderly(deal')
    BY <1>10, <1>12, ExtrasChanged DEF Orderly, NotYet
  <1>14. AppliedDays(deal') = AppliedDays(deal)
    <2>1. \A v \in Variations : deal'.extras[v].applied = deal.extras[v].applied
      BY <1>1, <1>5, <1>11, <1>12 DEF Joins
    <2> QED BY <1>12, <2>1, OrderlyTypes, WorthAlike
  <1>15. Approved(deal') \ Approved(deal) = {e}
    <2>1. \A f \in Changes : f # e => deal'.extras[f].status = deal.extras[f].status
      BY <1>5, <1>11, <1>12 DEF Joins
    <2>2. deal'.extras[e].status = "accepted"
      BY <1>6, <1>11, <1>12
    <2> QED BY <1>1, <2>1, <2>2 DEF Approved
  <1>16. DaysOf(deal, {e}) = days
    <2> DEFINE f == [x \in {e} |-> deal.extras[x].days]
    <2>1. f[e] = days
      BY DEF days
    <2>2. DaysOf(deal, {e}) = SumOn(f, {e})
      BY DEF DaysOf
    <2> HIDE DEF f
    <2>3. SumOn(f, {} \cup {e}) = f[e] + SumOn(f, {})
      BY <1>1, <2>1, FS_EmptySet, SumWith
    <2>4. {} \cup {e} = {e}
      OBVIOUS
    <2> QED BY <1>1, <2>1, <2>2, <2>3, <2>4, SumOfNone
  <1>17. Tallied(deal, deal')
    <2>1. AppliedDays(deal) \in Int /\ days >= 0
      BY <1>1, ExtraTypes, AppliedAre, OrderlyTypes
    <2>2. deal.dated => deal'.end = deal.end + days
      BY <1>1, <1>11, <1>12, <2>1
    <2>3. DaysOf(deal, Approved(deal') \ Approved(deal)) = days
      BY <1>15, <1>16
    <2>4. ASSUME deal.dated
          PROVE  deal'.end - AppliedDays(deal') = deal.end - AppliedDays(deal) + days
      BY <1>1, <1>11, <1>14, <2>1, <2>2, <2>4
    <2> QED BY <2>3, <2>4 DEF Tallied
  <1> QED BY <1>13, <1>17

\* Where an annex of a contract is: at its number.
LEMMA PlaceOf ==
    ASSUME Orderly(deal), NEW c \in Handed, NEW a \in Range(InContract(c).annexes)
    PROVE  /\ a.number \in DOMAIN deal.contracts[c].annexes
           /\ NumberedAt(InContract(c), a.number) = a.number
           /\ deal.contracts[c].annexes[a.number] \in AnnexRow
           /\ c \in DOMAIN deal.contracts
  <1>1. PICK i \in DOMAIN deal.contracts[c].annexes : deal.contracts[c].annexes[i] = a
    BY DEF Range, InContract
  <1>2. /\ deal.contracts[c] \in ContractRow /\ Aligned(deal.contracts[c])
        /\ deal.contracts[c].annexes \in Seq(AnnexRow) /\ c \in DOMAIN deal.contracts
        /\ InContract(c) = deal.contracts[c]
    BY OrderlyTypes
  <1>3. a.number = i
    BY <1>1, <1>2 DEF Aligned
  <1>4. NumberedAt(deal.contracts[c], i) = i
    BY <1>1, <1>2, NumberedIsItsPlace
  <1>5. deal.contracts[c].annexes[i] \in AnnexRow
    BY <1>1, <1>2
  <1> QED BY <1>1, <1>2, <1>3, <1>4, <1>5

\* What people keep to when they take an annex back: it is the newest.
LEMMA TakenBackIsNewest ==
    ASSUME "newest" \in Habits, Orderly(deal), NEW c \in Handed,
           NEW a \in Range(InContract(c).annexes), MayTakeBack(InContract(c), a.number)
    PROVE  Newest(deal.contracts[c], a.number)
  <1> DEFINE con == deal.contracts[c]
             n == a.number
  <1>1. /\ InContract(c) = con /\ Aligned(con) /\ con.annexes \in Seq(AnnexRow)
        /\ con.stages \in Seq(MilestoneRow)
    BY OrderlyTypes
  <1>2. n \in DOMAIN con.annexes /\ NumberedAt(con, n) = n
    BY <1>1, PlaceOf
  <1>3. n = Last(con.annexes).number /\ (NumberedIn(con, n).applied => n = Last(con.stages).annex)
    BY <1>1 DEF MayTakeBack
  <1>4. con.annexes # <<>> /\ Len(con.annexes) \in DOMAIN con.annexes
    BY <1>1, <1>2
  <1>5. con.annexes[Len(con.annexes)].number = Len(con.annexes)
    BY <1>1, <1>4 DEF Aligned
  <1>6. n = Len(con.annexes)
    BY <1>3, <1>5 DEF Last
  <1>7. ASSUME con.annexes[n].applied
        PROVE  con.stages # <<>> /\ con.stages[Len(con.stages)].annex = n
    <2>1. PICK k \in DOMAIN con.stages : con.stages[k].annex = n
      BY <1>1, <1>2, <1>7 DEF Aligned
    <2>2. con.stages # <<>>
      BY <1>1, <2>1
    <2>3. n = con.stages[Len(con.stages)].annex
      BY <1>2, <1>3, <1>7 DEF Last, NumberedIn
    <2> QED BY <2>2, <2>3
  <1> QED BY <1>4, <1>6, <1>7 DEF Newest

LEMMA SetDaysGoes ==
    ASSUME Orderly(deal), NEW v \in Variations, NEW days \in Terms,
           SetVariationScheduleDays(v, days)
    PROVE  Goes(deal, deal')
  <1>1. deal' = ScheduleDays(deal, v, days) /\ MayLower(v, days)
    BY DEF SetVariationScheduleDays
  <1>2. /\ Orderly(deal')
        /\ \A e \in Joins : deal'.extras[e].status = deal.extras[e].status
        /\ deal.dated /\ days >= deal.extras[v].applied => Worth(deal') = Worth(deal)
    BY <1>1, ScheduleKeeps
  <1> QED BY <1>1, <1>2 DEF Goes, Level, MayLower, Joins

LEMMA SignAnnexGoes ==
    ASSUME Orderly(deal), NEW c \in Handed, NEW a \in Range(InContract(c).annexes),
           NEW days \in Terms, SignContractAnnex(c, a.number, days)
    PROVE  Goes(deal, deal')
  <1> DEFINE i == a.number
             e == deal.contracts[c].annexes[i].source
             s == IF e \in Variations THEN ScheduleDays(deal, e, days) ELSE deal
             u == WithSignature(s, c, i, TRUE)
  <1>1. /\ i \in DOMAIN deal.contracts[c].annexes /\ NumberedAt(InContract(c), i) = i
        /\ InContract(c) = deal.contracts[c] /\ c \in DOMAIN deal.contracts
    BY PlaceOf, OrderlyTypes
  <1>2. deal' = Apply(u, c, i) /\ (e \in Variations => MayLower(e, days))
    BY ZenonT(40), <1>1 DEF SignContractAnnex, WithSignature
  <1>3. /\ Orderly(s) /\ s.contracts = deal.contracts
        /\ \A f \in Joins : s.extras[f].status = deal.extras[f].status
        /\ "grow" \in Habits => (deal.dated => Worth(s) = Worth(deal)) /\ s.dated = deal.dated
    <2>1. CASE e \in Variations
      <3>1. s = ScheduleDays(deal, e, days)
        BY ZenonT(40), <2>1
      <3> HIDE DEF s
      <3>2. /\ Orderly(s) /\ Beside(deal, s) /\ s.contracts = deal.contracts
            /\ \A f \in Joins : s.extras[f].status = deal.extras[f].status
            /\ deal.dated /\ days >= deal.extras[e].applied => Worth(s) = Worth(deal)
        BY <2>1, <3>1, ScheduleKeeps
      <3> QED BY <1>2, <2>1, <3>2 DEF MayLower, Beside
    <2>2. CASE e \notin Variations
      BY <2>2
    <2> QED BY <2>1, <2>2
  <1> HIDE DEF s
  <1> HIDE DEF i
  <1>a. c \in DOMAIN s.contracts /\ i \in DOMAIN s.contracts[c].annexes /\ TRUE \in BOOLEAN
    BY <1>1, <1>3
  <1>4. /\ KeepsOrder(s, u) /\ DOMAIN u.contracts[c].annexes = DOMAIN s.contracts[c].annexes
    BY <1>3, <1>a, SignatureKeeps
  <1> HIDE DEF u
  <1>5. Orderly(u) /\ c \in DOMAIN u.contracts /\ i \in DOMAIN u.contracts[c].annexes
    BY <1>1, <1>3, <1>4 DEF KeepsOrder
  <1>6. KeepsOrder(u, deal')
    BY <1>2, <1>5, ApplyKeeps
  <1>7. KeepsOrder(s, deal')
    BY <1>4, <1>6, OrderKeptOn
  <1> QED BY <1>3, <1>7 DEF Goes, Level, KeepsOrder, Joins

LEMMA ClearGoes ==
    ASSUME {"newest", "hold"} \subseteq Habits, Orderly(deal), NEW c \in Handed,
           NEW a \in Range(InContract(c).annexes), ClearContractAnnexSignature(c, a.number)
    PROVE  Goes(deal, deal')
  <1> DEFINE i == a.number
             u == Unapply(deal, c, i)
  <1>1. /\ i \in DOMAIN deal.contracts[c].annexes /\ NumberedAt(InContract(c), i) = i
        /\ c \in DOMAIN deal.contracts
    BY PlaceOf
  <1>2. /\ deal' = WithSignature(u, c, i, FALSE)
        /\ c = deal.holds /\ ~Refuses(deal, c, i) /\ MayTakeBack(InContract(c), i)
    BY <1>1 DEF ClearContractAnnexSignature, MayWorkOn, WithSignature
  <1>3. Newest(deal.contracts[c], i)
    BY <1>2, TakenBackIsNewest
  <1>4. KeepsOrder(deal, u)
    BY <1>1, <1>2, <1>3, UnapplyKeeps
  <1>5. DOMAIN u.contracts[c].annexes = DOMAIN deal.contracts[c].annexes /\ c \in DOMAIN u.contracts
    <2> DEFINE con == deal.contracts[c]
    <2>1. con \in ContractRow /\ Aligned(con) /\ deal \in DealSet
      BY OrderlyTypes
    <2>2. CASE con.annexes[i].applied
      <3>1. /\ u.contracts = [deal.contracts EXCEPT ![c] = TakenOut(con, i)]
        BY <1>1, <2>1, <2>2, UnapplyIs
      <3>2. DOMAIN TakenOut(con, i).annexes = DOMAIN con.annexes
        BY Zenon, <1>3, <2>1, <2>2, TakenOutAligned
      <3> QED BY Zenon, <1>1, <2>1, <3>1, <3>2, OneReplaced
    <2>3. CASE ~con.annexes[i].applied
      BY <1>1, <2>3 DEF Unapply
    <2> QED BY <2>2, <2>3
  <1> HIDE DEF u, i
  <1>6. KeepsOrder(u, deal')
    <2>1. Orderly(u) /\ i \in DOMAIN u.contracts[c].annexes /\ FALSE \in BOOLEAN
      BY <1>1, <1>4, <1>5 DEF KeepsOrder
    <2>2. KeepsOrder(u, WithSignature(u, c, i, FALSE))
      BY <1>5, <2>1, SignatureKeeps
    <2> QED BY <1>2, <2>2
  <1> QED BY <1>4, <1>6, OrderKeptOn, OrderlyGoes

LEMMA RemoveGoes ==
    ASSUME "newest" \in Habits, Orderly(deal), NEW c \in Handed,
           NEW a \in Range(InContract(c).annexes), RemoveContractAnnex(c, a.number)
    PROVE  Goes(deal, deal')
  <1> DEFINE i == a.number
  <1>1. NumberedAt(InContract(c), i) = i /\ c \in DOMAIN deal.contracts
    BY PlaceOf
  <1>2. deal' = Removed(deal, c, i) /\ ~Refuses(deal, c, i) /\ MayTakeBack(InContract(c), i)
    BY <1>1 DEF RemoveContractAnnex
  <1>3. Newest(deal.contracts[c], i)
    BY <1>2, TakenBackIsNewest
  <1> HIDE DEF i
  <1>4. KeepsOrder(deal, deal')
    BY <1>1, <1>2, <1>3, RemovedKeeps
  <1> QED BY <1>4, OrderlyGoes

LEMMA RemoveAllGoes ==
    ASSUME "newest" \in Habits, Orderly(deal), NEW c \in Handed, RemoveAllContractAnnexes(c)
    PROVE  Goes(deal, deal')
  <1>1. c \in DOMAIN deal.contracts /\ InContract(c) = deal.contracts[c]
    BY OrderlyTypes
  <1>2. deal' = Emptied(deal, c) /\ InOrder(InContract(c))
    BY DEF RemoveAllContractAnnexes
  <1>3. Ascending(deal.contracts[c])
    BY <1>1, <1>2 DEF InOrder, Ascending
  <1> QED BY <1>1, <1>2, <1>3, EmptiedKeeps, OrderlyGoes

\* One milestone is invoiced, or is free again: the rest of its contract is as it was.
Restaged(s, c, k, id, invoices) ==
    [s EXCEPT !.contracts[c].stages[k].invoice = id, !.invoices = invoices]
LEMMA StageRewritten ==
    ASSUME NEW s, Orderly(s), NEW c \in DOMAIN s.contracts,
           NEW k \in DOMAIN s.contracts[c].stages, NEW id \in Nat, NEW invoices,
           NEW t, t = Restaged(s, c, k, id, invoices),
           invoices \in Seq([contract : Nat, at : Nat])
    PROVE  /\ WellShaped(t) /\ AllAligned(t) /\ Joined(t) /\ WaitsOnHeld(t) /\ NotYet(t)
           /\ t.invoices = invoices /\ t.extras = s.extras /\ t.end = s.end
           /\ DOMAIN t.contracts = DOMAIN s.contracts
           /\ \A d \in DOMAIN s.contracts :
                  /\ DOMAIN t.contracts[d].stages = DOMAIN s.contracts[d].stages
                  /\ \A l \in DOMAIN s.contracts[d].stages :
                         t.contracts[d].stages[l].invoice =
                             IF d = c /\ l = k THEN id ELSE s.contracts[d].stages[l].invoice
  <1> DEFINE con == s.contracts[c]
             new == [con EXCEPT !.stages[k].invoice = id]
  <1>0. /\ s \in DealSet /\ con \in ContractRow /\ con.stages \in Seq(MilestoneRow)
        /\ con.stages[k] \in MilestoneRow /\ Aligned(con)
    BY RowsAreTyped DEF Orderly, WellShaped, AllAligned
  <1>1. /\ new.stages = [con.stages EXCEPT ![k].invoice = id] /\ new.annexes = con.annexes
        /\ new.signed = con.signed /\ new.cancelled = con.cancelled
    BY <1>0 DEF ContractRow
  <1>2. new \in ContractRow
    <2>1. [con.stages[k] EXCEPT !.invoice = id] \in MilestoneRow
      BY <1>0 DEF MilestoneRow
    <2>2. [con.stages EXCEPT ![k].invoice = id] \in Seq(MilestoneRow)
      BY <1>0, <2>1
    <2> QED BY <1>0, <2>2 DEF ContractRow
  <1>3. t = [s EXCEPT !.contracts = [s.contracts EXCEPT ![c] = new], !.invoices = invoices]
    BY <1>0 DEF DealSet, ContractRow, Restaged
  <1>4. [s.contracts EXCEPT ![c] = new] \in Seq(ContractRow)
    BY <1>0, <1>2 DEF DealSet
  <1>5. /\ t \in DealSet /\ t.extras = s.extras /\ t.end = s.end /\ t.holds = s.holds
        /\ t.contracts = [s.contracts EXCEPT ![c] = new] /\ t.invoices = invoices
    BY <1>0, <1>3, <1>4 DEF DealSet
  <1>6. /\ DOMAIN new.stages = DOMAIN con.stages
        /\ \A l \in DOMAIN con.stages :
               /\ new.stages[l].annex = con.stages[l].annex
               /\ new.stages[l].invoice = IF l = k THEN id ELSE con.stages[l].invoice
    <2>1. DOMAIN new.stages = DOMAIN con.stages
      BY <1>0, <1>1
    <2>2. new.stages[k] = [con.stages[k] EXCEPT !.invoice = id]
      BY <1>0, <1>1
    <2>3. \A l \in DOMAIN con.stages : l # k => new.stages[l] = con.stages[l]
      BY <1>0, <1>1
    <2> HIDE DEF new
    <2>4. new.stages[k].annex = con.stages[k].annex /\ new.stages[k].invoice = id
      BY <1>0, <2>2 DEF MilestoneRow
    <2> QED BY <2>1, <2>3, <2>4
  <1> HIDE DEF new
  <1>7. Aligned(new)
    BY <1>0, <1>1, <1>6, AlignedAlike
  <1>8. /\ DOMAIN t.contracts = DOMAIN s.contracts /\ t.contracts[c] = new
        /\ \A d \in DOMAIN s.contracts : d # c => t.contracts[d] = s.contracts[d]
    BY <1>0, <1>5, OneReplaced
  <1>9. \A d \in DOMAIN s.contracts : /\ t.contracts[d].annexes = s.contracts[d].annexes
                                      /\ t.contracts[d].signed = s.contracts[d].signed
                                      /\ t.contracts[d].cancelled = s.contracts[d].cancelled
    BY <1>1, <1>8
  <1>10. WellShaped(t)
    BY <1>5, <1>8, <1>9 DEF Orderly, WellShaped, NoContract
  <1>11. AllAligned(t)
    BY <1>7, <1>8 DEF Orderly, AllAligned
  <1>12. Joined(t) /\ WaitsOnHeld(t) /\ NotYet(t)
    <2>1. Joined(s) /\ WaitsOnHeld(s) /\ NotYet(s)
      BY DEF Orderly
    <2>2. Joined(t)
      BY <1>5, <1>8, <1>9, <2>1 DEF Joined
    <2>3. WaitsOnHeld(t)
      BY <1>5, <1>8, <1>9, <2>1 DEF WaitsOnHeld
    <2> QED BY <1>5, <2>1, <2>2, <2>3 DEF NotYet
  <1>13. \A d \in DOMAIN s.contracts :
             /\ DOMAIN t.contracts[d].stages = DOMAIN s.contracts[d].stages
             /\ \A l \in DOMAIN s.contracts[d].stages :
                    t.contracts[d].stages[l].invoice =
                        IF d = c /\ l = k THEN id ELSE s.contracts[d].stages[l].invoice
    BY <1>6, <1>8
  <1> QED BY <1>5, <1>8, <1>10, <1>11, <1>12, <1>13

LEMMA IssueGoes ==
    ASSUME Orderly(deal), NEW c \in Handed, NEW k \in DOMAIN InContract(c).stages,
           IssueForStage(c, k)
    PROVE  Goes(deal, deal')
  <1> DEFINE N == Len(deal.invoices)
             inv == [contract |-> c, at |-> k]
             invoices == Append(deal.invoices, inv)
  <1>1. /\ InContract(c) = deal.contracts[c] /\ c \in DOMAIN deal.contracts
        /\ deal \in DealSet /\ deal.contracts[c].stages \in Seq(MilestoneRow)
        /\ k \in DOMAIN deal.contracts[c].stages /\ deal.contracts[c].stages[k].invoice = 0
    BY OrderlyTypes DEF IssueForStage
  <1>2. deal.invoices \in Seq([contract : Nat, at : Nat]) /\ N \in Nat /\ DOMAIN deal.invoices = 1..N
    BY <1>1 DEF DealSet
  <1>3. inv \in [contract : Nat, at : Nat] /\ inv.contract = c /\ inv.at = k
    BY <1>1 DEF DealSet
  <1>a. deal' = Restaged(deal, c, k, N + 1, invoices)
    BY <1>1 DEF IssueForStage, DealSet, Restaged
  <1>b. inv = [contract |-> c, at |-> k]
    OBVIOUS
  <1> HIDE DEF inv
  <1>4. /\ invoices \in Seq([contract : Nat, at : Nat]) /\ DOMAIN invoices = 1..N + 1
        /\ invoices[N + 1] = inv /\ \A id \in 1..N : invoices[id] = deal.invoices[id]
        /\ \A id \in 1..N + 1 : id \in 1..N \/ id = N + 1
        /\ N + 1 \in Nat /\ N + 1 # 0 /\ N + 1 \in 1..N + 1
    BY <1>2, <1>3
  <1> HIDE DEF invoices, N
  <1>5. /\ WellShaped(deal') /\ AllAligned(deal') /\ Joined(deal') /\ WaitsOnHeld(deal') /\ NotYet(deal')
        /\ deal'.invoices = invoices /\ deal'.extras = deal.extras /\ deal'.end = deal.end
        /\ DOMAIN deal'.contracts = DOMAIN deal.contracts
        /\ \A d \in DOMAIN deal.contracts :
               /\ DOMAIN deal'.contracts[d].stages = DOMAIN deal.contracts[d].stages
               /\ \A l \in DOMAIN deal.contracts[d].stages :
                      deal'.contracts[d].stages[l].invoice =
                          IF d = c /\ l = k THEN N + 1 ELSE deal.contracts[d].stages[l].invoice
    BY <1>1, <1>4, <1>a, StageRewritten
  <1>6. Billed(deal)
    BY DEF Orderly
  <1>7. ASSUME NEW id \in 1..N + 1
        PROVE  /\ invoices[id].contract \in DOMAIN deal'.contracts
               /\ invoices[id].at \in DOMAIN deal'.contracts[invoices[id].contract].stages
               /\ deal'.contracts[invoices[id].contract].stages[invoices[id].at].invoice = id
    <2>1. CASE id = N + 1
      BY <1>1, <1>3, <1>4, <1>5, <2>1
    <2>2. CASE id \in 1..N
      <3> DEFINE d == deal.invoices[id].contract
                 l == deal.invoices[id].at
      <3>1. /\ d \in DOMAIN deal.contracts /\ l \in DOMAIN deal.contracts[d].stages
            /\ deal.contracts[d].stages[l].invoice = id
        BY <1>2, <1>6, <2>2 DEF Billed
      <3>2. ~(d = c /\ l = k) /\ invoices[id] = deal.invoices[id]
        <4>1. invoices[id] = deal.invoices[id] /\ id # 0
          BY <1>4, <2>2
        <4>2. ~(d = c /\ l = k)
          BY <1>1, <3>1, <4>1
        <4> QED BY <4>1, <4>2
      <3> QED BY Zenon, <1>5, <3>1, <3>2
    <2> QED BY <1>4, <2>1, <2>2
  <1>8. ASSUME NEW d \in DOMAIN deal'.contracts, NEW l \in DOMAIN deal'.contracts[d].stages,
               deal'.contracts[d].stages[l].invoice # 0
        PROVE  LET id == deal'.contracts[d].stages[l].invoice
               IN id \in 1..N + 1 /\ invoices[id] = [contract |-> d, at |-> l]
    <2>1. CASE d = c /\ l = k
      BY <1>1, <1>4, <1>5, <1>b, <2>1
    <2>2. CASE ~(d = c /\ l = k)
      <3>1. /\ d \in DOMAIN deal.contracts /\ l \in DOMAIN deal.contracts[d].stages
            /\ deal'.contracts[d].stages[l].invoice = deal.contracts[d].stages[l].invoice
        BY <1>5, <2>2
      <3>2. LET id == deal.contracts[d].stages[l].invoice
            IN id \in 1..N /\ deal.invoices[id] = [contract |-> d, at |-> l]
        BY Zenon, <1>2, <1>6, <1>8, <3>1 DEF Billed
      <3>3. \A id \in 1..N : id \in 1..N + 1
        BY <1>2
      <3> QED BY <1>4, <3>1, <3>2, <3>3
    <2> QED BY <2>1, <2>2
  <1>9. Billed(deal')
    BY <1>4, <1>5, <1>7, <1>8 DEF Billed
  <1>10. Orderly(deal')
    BY <1>5, <1>9 DEF Orderly
  <1> QED BY <1>5, <1>10, SameExtrasGo

LEMMA ButTheLast ==
    ASSUME NEW R, NEW rows \in Seq(R), rows # <<>>
    PROVE  /\ Front(rows) \in Seq(R) /\ DOMAIN Front(rows) = 1..Len(rows) - 1
           /\ \A k \in 1..Len(rows) - 1 : k \in 1..Len(rows) /\ k # Len(rows)
                                         /\ Front(rows)[k] = rows[k]
  <1>1. PICK n \in Nat : n = Len(rows) /\ DOMAIN rows = 1..n /\ n > 0
    OBVIOUS
  <1>2. PICK f : f = SubSeq(rows, 1, n - 1)
    OBVIOUS
  <1>3. f \in Seq(R) /\ Len(f) = n - 1 /\ \A k \in 1..n - 1 : f[k] = rows[k]
    BY <1>1, <1>2
  <1> QED BY <1>1, <1>2, <1>3 DEF Front

\* The place the last invoice notes is still that of its milestone.
LEMMA UndoGoes == ASSUME Orderly(deal), UndoForStage PROVE Goes(deal, deal')
  <1> DEFINE N == Len(deal.invoices)
             inv == deal.invoices[N]
             c == inv.contract
             k == inv.at
             invoices == Front(deal.invoices)
  <1>1. /\ deal \in DealSet /\ deal.invoices \in Seq([contract : Nat, at : Nat])
        /\ deal.invoices # <<>> /\ Billed(deal)
    BY OrderlyTypes DEF DealSet, UndoForStage, Orderly
  <1>2. N \in Nat /\ N # 0 /\ DOMAIN deal.invoices = 1..N /\ N \in 1..N
    BY <1>1
  <1>3. /\ invoices \in Seq([contract : Nat, at : Nat]) /\ DOMAIN invoices = 1..N - 1
        /\ \A id \in 1..N - 1 : id \in 1..N /\ id # N /\ invoices[id] = deal.invoices[id]
    BY <1>1, <1>2, ButTheLast
  <1>4. /\ c \in DOMAIN deal.contracts /\ k \in DOMAIN deal.contracts[c].stages
        /\ deal.contracts[c].stages[k].invoice = N
    BY <1>1, <1>2 DEF Billed
  <1>5. deal' = [[deal EXCEPT !.invoices = invoices] EXCEPT !.contracts[c].stages[k].invoice = 0]
    BY Zenon, <1>4 DEF UndoForStage, InContract
  <1> HIDE DEF invoices, c, k
  <1>6. deal' = Restaged(deal, c, k, 0, invoices)
    BY <1>1, <1>5 DEF DealSet, Restaged
  <1>7. /\ WellShaped(deal') /\ AllAligned(deal') /\ Joined(deal') /\ WaitsOnHeld(deal') /\ NotYet(deal')
        /\ deal'.invoices = invoices /\ deal'.extras = deal.extras /\ deal'.end = deal.end
        /\ DOMAIN deal'.contracts = DOMAIN deal.contracts
        /\ \A d \in DOMAIN deal.contracts :
               /\ DOMAIN deal'.contracts[d].stages = DOMAIN deal.contracts[d].stages
               /\ \A l \in DOMAIN deal.contracts[d].stages :
                      deal'.contracts[d].stages[l].invoice =
                          IF d = c /\ l = k THEN 0 ELSE deal.contracts[d].stages[l].invoice
    BY <1>3, <1>4, <1>6, StageRewritten
  <1>8. ASSUME NEW id \in 1..N - 1
        PROVE  /\ invoices[id].contract \in DOMAIN deal'.contracts
               /\ invoices[id].at \in DOMAIN deal'.contracts[invoices[id].contract].stages
               /\ deal'.contracts[invoices[id].contract].stages[invoices[id].at].invoice = id
    <2> DEFINE d == deal.invoices[id].contract
               l == deal.invoices[id].at
    <2>1. /\ d \in DOMAIN deal.contracts /\ l \in DOMAIN deal.contracts[d].stages
          /\ deal.contracts[d].stages[l].invoice = id /\ id # N
          /\ invoices[id] = deal.invoices[id]
      BY <1>1, <1>2, <1>3 DEF Billed
    <2>2. ~(d = c /\ l = k)
      BY <1>4, <2>1
    <2> QED BY Zenon, <1>7, <2>1, <2>2
  <1>9. ASSUME NEW d \in DOMAIN deal'.contracts, NEW l \in DOMAIN deal'.contracts[d].stages,
               deal'.contracts[d].stages[l].invoice # 0
        PROVE  LET id == deal'.contracts[d].stages[l].invoice
               IN id \in 1..N - 1 /\ invoices[id] = [contract |-> d, at |-> l]
    <2>1. ~(d = c /\ l = k)
      BY <1>4, <1>7, <1>9
    <2>2. /\ d \in DOMAIN deal.contracts /\ l \in DOMAIN deal.contracts[d].stages
          /\ deal'.contracts[d].stages[l].invoice = deal.contracts[d].stages[l].invoice
      BY Zenon, <1>7, <2>1
    <2> DEFINE id == deal.contracts[d].stages[l].invoice
    <2>3. id \in 1..N /\ deal.invoices[id] = [contract |-> d, at |-> l]
      BY <1>1, <1>2, <1>9, <2>2 DEF Billed
    <2>4. id # N
      <3>1. SUFFICES ASSUME id = N PROVE FALSE
        OBVIOUS
      <3>2. deal.invoices[N] = [contract |-> d, at |-> l]
        BY <2>3, <3>1
      <3>3. d = c /\ l = k
        BY <3>2 DEF c, k
      <3> QED BY <2>1, <3>3
    <2> HIDE DEF id, N
    <2>5. id \in 1..N - 1
      BY <1>2, <2>3, <2>4
    <2>6. invoices[id] = [contract |-> d, at |-> l]
      BY <1>3, <2>3, <2>5
    <2>7. deal'.contracts[d].stages[l].invoice = id
      BY Zenon, <2>2 DEF id
    <2> QED BY <2>5, <2>6, <2>7
  <1>10. Billed(deal')
    BY <1>3, <1>7, <1>8, <1>9 DEF Billed
  <1>11. Orderly(deal')
    BY <1>7, <1>10 DEF Orderly
  <1> QED BY <1>7, <1>11, SameExtrasGo
-----------------------------------------------------------------------------
LEMMA InitOrderly == ASSUME ContractsInit PROVE Orderly(deal) /\ deal.end \in 0..MaxEnd
  <1> DEFINE none == [e \in Joins |-> [status |-> "none", days |-> 0, applied |-> 0, worked |-> FALSE]]
  <1>1. none \in [Joins -> Extra]
    BY ExtraTypes
  <1>2. \A e \in Joins : none[e].applied = 0 /\ ~none[e].worked
    OBVIOUS
  <1>3. /\ deal = [contracts |-> <<>>, holds |-> NoContract, end |-> 0, dated |-> FALSE,
                   invoices |-> <<>>, extras |-> none]
    BY DEF ContractsInit
  <1> HIDE DEF none
  <1>4. /\ deal.contracts = <<>> /\ deal.holds = 0 /\ deal.end = 0 /\ deal.invoices = <<>>
        /\ deal.extras = none /\ deal \in DealSet
    BY <1>1, <1>3 DEF DealSet, NoContract
  <1>5. DOMAIN deal.contracts = {} /\ DOMAIN deal.invoices = {}
    BY <1>4
  <1>6. WellShaped(deal) /\ AllAligned(deal) /\ Billed(deal)
    BY <1>4, <1>5 DEF WellShaped, AllAligned, Billed, NoContract
  <1>7. Joined(deal) /\ WaitsOnHeld(deal) /\ NotYet(deal)
    BY <1>2, <1>4, <1>5 DEF Joined, WaitsOnHeld, NotYet
  <1> QED BY <1>4, <1>6, <1>7, ExtraTypes DEF Orderly

LEMMA LevelTallies ==
    ASSUME NEW s \in DealSet, NEW t, Goes(s, t)
    PROVE  "grow" \in Habits => Tallied(s, t)
  <1>1. SUFFICES ASSUME Level(s, t), s.dated
                 PROVE  t.end - AppliedDays(t)
                        = s.end - AppliedDays(s) + DaysOf(s, Approved(t) \ Approved(s))
    BY DEF Goes, Tallied
  <1>2. Approved(t) \ Approved(s) = {}
    BY <1>1 DEF Level, Approved
  <1>3. DaysOf(s, {}) = 0
    BY SumOfNone DEF DaysOf
  <1>4. Worth(t) = Worth(s)
    BY <1>1 DEF Level
  <1>5. t.end - AppliedDays(t) = s.end - AppliedDays(s) /\ s.end - AppliedDays(s) \in Int
    BY <1>4, AppliedAre DEF Worth
  <1>6. s.end - AppliedDays(s) + 0 = s.end - AppliedDays(s)
    BY <1>5
  <1> QED BY <1>2, <1>3, <1>5, <1>6

(* One call of a person who keeps to "newest" and "hold". *)
LEMMA CallsKeepOrder ==
    ASSUME {"newest", "hold"} \subseteq Habits, Orderly(deal), ContractsNext
    PROVE  /\ Orderly(deal') /\ deal'.end \in 0..MaxEnd
           /\ (\A n \in 0..MaxEnd : ~UpdateProject(n)) /\ "grow" \in Habits => Tallied(deal, deal')
  <1> DEFINE Good == Orderly(deal') /\ ("grow" \in Habits => Tallied(deal, deal'))
  <1>0. deal \in DealSet
    BY OrderlyTypes
  <1>a. Goes(deal, deal') => Good
    BY <1>0, LevelTallies DEF Goes
  <1>b. "hold" \in Habits /\ "newest" \in Habits
    OBVIOUS
  <1>1. CASE CreateContract
    BY <1>1, <1>a, CreateGoes DEF CreateContract, Step
  <1>2. ASSUME NEW c \in Handed, SignTheContract(c) \/ LinkContractToProject(c) \/ CancelContract(c)
        PROVE  Good /\ Step
    BY Zenon, <1>2, <1>a, <1>b, SignGoes, LinkGoes, CancelGoes
       DEF SignTheContract, LinkContractToProject, CancelContract
  <1>3. ASSUME NEW n \in 0..MaxEnd, UpdateProject(n)
        PROVE  Orderly(deal') /\ Step
    BY Zenon, <1>3, DateGoes DEF UpdateProject
  <1>4. ASSUME NEW e \in Joins, NEW d \in Terms, DraftExtra(e, d)
        PROVE  Good /\ Step
    BY Zenon, <1>4, <1>a, DraftGoes DEF DraftExtra
  <1>5. ASSUME NEW e \in Joins, SendExtra(e) \/ AcceptVersion(e) \/ ApproveChange(e)
        PROVE  Good /\ Step
    <2>1. CASE SendExtra(e)
      BY <2>1, <1>a, SendGoes DEF SendExtra
    <2>2. CASE AcceptVersion(e)
      BY ZenonT(40), <2>2, <1>a, AcceptGoes DEF AcceptVersion
    <2>3. CASE ApproveChange(e)
      BY <2>3, ApproveGoes DEF ApproveChange
    <2> QED BY <1>5, <2>1, <2>2, <2>3
  <1>6. ASSUME NEW v \in Variations, NEW d \in Terms, SetVariationScheduleDays(v, d)
        PROVE  Good /\ Step
    BY <1>6, <1>a, SetDaysGoes DEF SetVariationScheduleDays
  <1>7. ASSUME NEW c \in Handed, NEW a \in Range(InContract(c).annexes), NEW d \in Terms,
               SignContractAnnex(c, a.number, d)
        PROVE  Good /\ Step
    BY ZenonT(40), <1>7, <1>a, SignAnnexGoes DEF SignContractAnnex
  <1>8. ASSUME NEW c \in Handed, NEW a \in Range(InContract(c).annexes),
               ClearContractAnnexSignature(c, a.number) \/ RemoveContractAnnex(c, a.number)
        PROVE  Good /\ Step
    BY <1>8, <1>a, <1>b, ClearGoes, RemoveGoes DEF ClearContractAnnexSignature, RemoveContractAnnex
  <1>9. ASSUME NEW c \in Handed, RemoveAllContractAnnexes(c)
        PROVE  Good /\ Step
    BY <1>9, <1>a, <1>b, RemoveAllGoes DEF RemoveAllContractAnnexes
  <1>10. ASSUME NEW c \in Handed, NEW k \in DOMAIN InContract(c).stages, IssueForStage(c, k)
         PROVE  Good /\ Step
    BY ZenonT(40), <1>10, <1>a, IssueGoes DEF IssueForStage
  <1>11. CASE UndoForStage
    BY <1>11, <1>a, UndoGoes DEF UndoForStage, Step
  <1>12. ASSUME NEW v \in Variations, NEW on \in BOOLEAN, MarkLineProgress(v, on)
         PROVE  Good /\ Step
    BY <1>12, <1>a, MarkGoes DEF MarkLineProgress
  <1> HIDE DEF Good
  <1>13. \/ Good /\ deal'.end \in 0..MaxEnd
         \/ \E n \in 0..MaxEnd : UpdateProject(n) /\ Orderly(deal') /\ deal'.end \in 0..MaxEnd
    BY <1>1, <1>2, <1>3, <1>4, <1>5, <1>6, <1>7, <1>8, <1>9, <1>10, <1>11, <1>12
       DEF ContractsNext, Step, Good
  <1> QED BY <1>13 DEF Good
(* The calls that work on annexes and days leave the job with its holder. *)
Held(s, t) == "holds" \in DOMAIN t /\ t.holds = s.holds
LEMMA CallsHold ==
    ASSUME NEW s, "holds" \in DOMAIN s
    PROVE  /\ \A days : Held(s, Extended(s, days))
           /\ \A v : Held(s, Counted(s, v)) /\ Held(s, Written(s, v))
           /\ \A c, i : Held(s, Apply(s, c, i)) /\ Held(s, Unapply(s, c, i))
           /\ \A c, n : Held(s, Removed(s, c, n))
           /\ \A v, days : Held(s, ScheduleDays(s, v, days))
  <1>1. ASSUME NEW t, "holds" \in DOMAIN t, NEW days PROVE Held(t, Extended(t, days))
    BY <1>1 DEF Extended, Held
  <1>2. ASSUME NEW t, "holds" \in DOMAIN t, NEW v PROVE Held(t, Counted(t, v))
    <2>1. Held(t, Extended(t, t.extras[v].days))
      BY <1>1, <1>2
    <2> QED BY <1>2, <2>1 DEF Counted, Held
  <1>3. ASSUME NEW v PROVE Held(s, Written(s, v))
    BY DEF Written, Held
  <1>4. ASSUME NEW c, NEW i PROVE Held(s, Apply(s, c, i))
    <2> DEFINE a == s.contracts[c].annexes[i]
               t == [s EXCEPT !.contracts[c].annexes[i].applied = TRUE,
                              !.contracts[c].stages = Append(@, [annex |-> a.number, invoice |-> 0])]
    <2>1. Held(s, t)
      BY DEF Held
    <2>2. Apply(s, c, i) = IF a.applied THEN s ELSE IF a.source \in Variations THEN Counted(t, a.source) ELSE t
      BY DEF Apply
    <2> HIDE DEF t
    <2>3. Held(t, Counted(t, a.source))
      BY <1>2, <2>1 DEF Held
    <2> QED BY <2>1, <2>2, <2>3 DEF Held
  <1>5. ASSUME NEW c, NEW i PROVE Held(s, Unapply(s, c, i))
    BY DEF Unapply, Held
  <1>6. ASSUME NEW c, NEW n PROVE Held(s, Removed(s, c, n))
    <2>1. Held(s, Unapply(s, c, NumberedAt(s.contracts[c], n)))
      BY <1>5
    <2> QED BY <2>1 DEF Removed, Held
  <1>7. ASSUME NEW v, NEW days PROVE Held(s, ScheduleDays(s, v, days))
    <2> DEFINE t == [s EXCEPT !.extras[v].days = days]
               u == Extended(t, days - s.extras[v].applied)
    <2>1. Held(s, t)
      BY DEF Held
    <2>2. ScheduleDays(s, v, days) = IF ~InScope(s, v) \/ days = s.extras[v].applied THEN t
                                     ELSE [u EXCEPT !.extras[v].applied = days]
      BY DEF ScheduleDays
    <2> HIDE DEF t
    <2>3. Held(t, u)
      BY <1>1, <2>1 DEF Held
    <2> HIDE DEF u
    <2> QED BY <2>1, <2>2, <2>3 DEF Held
  <1> QED BY <1>1, <1>2, <1>3, <1>4, <1>5, <1>6, <1>7

LEMMA CallsKeepTheJob ==
    ASSUME {"newest", "hold"} \subseteq Habits, Orderly(deal), [ContractsNext]_dealVars,
           deal.holds # NoContract, InContract(deal.holds).signed,
           \A c \in Handed : ~LinkContractToProject(c)
    PROVE  deal'.holds = deal.holds
  <1>0. deal \in DealSet /\ "holds" \in DOMAIN deal
    <2>1. deal \in DealSet
      BY OrderlyTypes
    <2> QED BY <2>1 DEF DealSet
  <1>1. CASE CreateContract
    BY <1>0, <1>1 DEF CreateContract
  <1>2. ASSUME NEW c \in Handed, SignTheContract(c) PROVE deal'.holds = deal.holds
    BY <1>0, <1>2 DEF SignTheContract, Claimed
  <1>3. ASSUME NEW c \in Handed, CancelContract(c) PROVE deal'.holds = deal.holds
    BY <1>0, <1>3 DEF CancelContract, Released
  <1>4. ASSUME NEW n \in 0..MaxEnd, UpdateProject(n) PROVE deal'.holds = deal.holds
    BY <1>0, <1>4 DEF UpdateProject
  <1>5. ASSUME NEW e \in Joins, NEW d \in Terms, DraftExtra(e, d) PROVE deal'.holds = deal.holds
    BY <1>0, <1>5 DEF DraftExtra
  <1>6. ASSUME NEW e \in Joins, SendExtra(e) PROVE deal'.holds = deal.holds
    BY <1>0, <1>6 DEF SendExtra
  <1>7. ASSUME NEW e \in Joins, AcceptVersion(e) PROVE deal'.holds = deal.holds
    <2> DEFINE s == [deal EXCEPT !.extras[e].status = "accepted"]
    <2>1. Held(deal, s)
      BY <1>0 DEF Held
    <2>2. deal' = IF s.holds = NoContract THEN Counted(s, e) ELSE Written(s, e)
      BY <1>7 DEF AcceptVersion
    <2> HIDE DEF s
    <2>3. Held(s, Counted(s, e)) /\ Held(s, Written(s, e))
      BY <2>1, CallsHold DEF Held
    <2> QED BY <2>1, <2>2, <2>3 DEF Held
  <1>8. ASSUME NEW e \in Joins, ApproveChange(e) PROVE deal'.holds = deal.holds
    <2> DEFINE r == [deal EXCEPT !.extras[e].status = "accepted"]
               s == Written(r, e)
               t == IF s.holds = NoContract THEN s
                    ELSE Apply(s, s.holds, Len(s.contracts[s.holds].annexes))
    <2>1. Held(deal, r)
      BY <1>0 DEF Held
    <2>2. deal' = Extended(t, deal.extras[e].days)
      BY <1>8 DEF ApproveChange
    <2> HIDE DEF r
    <2>3. Held(r, s)
      BY <2>1, CallsHold DEF Held
    <2> HIDE DEF s
    <2>4. Held(s, t)
      BY <2>3, CallsHold DEF Held
    <2> HIDE DEF t
    <2>5. Held(t, deal')
      BY <2>2, <2>4, CallsHold DEF Held
    <2> QED BY <2>1, <2>3, <2>4, <2>5 DEF Held
  <1>9. ASSUME NEW v \in Variations, NEW d \in Terms, SetVariationScheduleDays(v, d)
        PROVE  deal'.holds = deal.holds
    BY <1>0, <1>9, CallsHold DEF SetVariationScheduleDays, Held
  <1>10. ASSUME NEW c \in Handed, NEW n, NEW d \in Terms, SignContractAnnex(c, n, d)
         PROVE  deal'.holds = deal.holds
    <2> DEFINE i == NumberedAt(InContract(c), n)
               e == InContract(c).annexes[i].source
               s == IF e \in Variations THEN ScheduleDays(deal, e, d) ELSE deal
               t == [s EXCEPT !.contracts[c].annexes[i].signed = TRUE]
    <2>1. deal' = Apply(t, c, i)
      BY Zenon, <1>10 DEF SignContractAnnex
    <2>2. Held(deal, s)
      BY <1>0, CallsHold DEF Held
    <2> HIDE DEF s, i
    <2>3. Held(s, t)
      BY <2>2 DEF Held
    <2> HIDE DEF t
    <2>4. Held(t, deal')
      BY <2>1, <2>3, CallsHold DEF Held
    <2> QED BY Zenon, <2>2, <2>3, <2>4 DEF Held
  <1>11. ASSUME NEW c \in Handed, NEW n, ClearContractAnnexSignature(c, n)
         PROVE  deal'.holds = deal.holds
    <2> DEFINE i == NumberedAt(InContract(c), n)
               u == Unapply(deal, c, i)
    <2>1. deal' = [u EXCEPT !.contracts[c].annexes[i].signed = FALSE]
      BY <1>11 DEF ClearContractAnnexSignature
    <2>2. Held(deal, u)
      BY <1>0, CallsHold
    <2> HIDE DEF u, i
    <2> QED BY <2>1, <2>2 DEF Held
  <1>12. ASSUME NEW c \in Handed, NEW n, RemoveContractAnnex(c, n) PROVE deal'.holds = deal.holds
    BY <1>0, <1>12, CallsHold DEF RemoveContractAnnex, Held
  <1>13. ASSUME NEW c \in Handed, RemoveAllContractAnnexes(c) PROVE deal'.holds = deal.holds
    <2>1. /\ deal' = Emptied(deal, c) /\ Ascending(deal.contracts[c])
          /\ c \in DOMAIN deal.contracts
      BY <1>13, OrderlyTypes DEF RemoveAllContractAnnexes, InOrder, Ascending
    <2> QED BY <2>1, EmptiedKeeps DEF KeepsOrder, Beside
  <1>14. ASSUME NEW c \in Handed, NEW k, IssueForStage(c, k) PROVE deal'.holds = deal.holds
    BY <1>0, <1>14 DEF IssueForStage
  <1>15. CASE UndoForStage
    <2> DEFINE t == [deal EXCEPT !.invoices = Front(@)]
               inv == deal.invoices[Len(deal.invoices)]
    <2>1. t.holds = deal.holds /\ "holds" \in DOMAIN t
      BY Zenon, <1>0
    <2>2. \/ deal' = t
          \/ deal' = [t EXCEPT !.contracts[inv.contract].stages[inv.at].invoice = 0]
      BY <1>15 DEF UndoForStage
    <2> HIDE DEF t
    <2> QED BY Zenon, <2>1, <2>2
  <1>16. ASSUME NEW v \in Variations, NEW on \in BOOLEAN, MarkLineProgress(v, on)
         PROVE  deal'.holds = deal.holds
    BY <1>0, <1>16 DEF MarkLineProgress
  <1>17. CASE UNCHANGED dealVars
    BY <1>17 DEF dealVars
  <1> QED BY <1>1, <1>2, <1>3, <1>4, <1>5, <1>6, <1>7, <1>8, <1>9, <1>10, <1>11, <1>12, <1>13,
             <1>14, <1>15, <1>16, <1>17 DEF ContractsNext
-----------------------------------------------------------------------------
LEMMA JoinsAreFew ==
    /\ IsFiniteSet(Joins) /\ Cardinality(Joins) \in Nat
  <1>1. IsFiniteSet(Joins)
    BY ExtrasAssumption, FS_Union DEF Joins
  <1> QED BY <1>1, FS_CardinalityType

\* No contract has more annexes than there are extras.
LEMMA FewAnnexes ==
    ASSUME NEW s, Orderly(s), NEW c \in DOMAIN s.contracts,
           NEW n \in DOMAIN s.contracts[c].annexes
    PROVE  n \in 1..Cardinality(Joins) + 1
  <1> DEFINE rows == s.contracts[c].annexes
             N == Len(rows)
             f == [j \in 1..N |-> rows[j].source]
  <1>1. s \in DealSet /\ rows \in Seq(AnnexRow) /\ N \in Nat /\ DOMAIN rows = 1..N
    <2>1. s \in DealSet
      BY DEF Orderly, WellShaped
    <2>2. rows \in Seq(AnnexRow)
      BY <2>1, RowsAreTyped
    <2> QED BY <2>1, <2>2
  <1>2. \A j \in 1..N : rows[j].source \in Joins
    <2>1. \A j \in 1..N : rows[j] \in AnnexRow
      BY <1>1
    <2> QED BY <2>1 DEF AnnexRow
  <1>3. \A i, j \in 1..N : rows[i].source = rows[j].source => i = j
    BY <1>1 DEF Orderly, Joined
  <1> HIDE DEF rows
  <1>4. f \in [1..N -> Joins] /\ \A i, j \in 1..N : f[i] = f[j] => i = j
    BY <1>2, <1>3
  <1>5. f \in Injection(1..N, Joins)
    BY <1>4, Fun_IsInj
  <1> HIDE DEF f, N
  <1>6. IsFiniteSet(1..N) /\ Cardinality(1..N) = N
    BY <1>1, FS_Interval
  <1>7. Cardinality(1..N) <= Cardinality(Joins)
    BY <1>5, JoinsAreFew, FS_Injection
  <1>8. n \in 1..N
    BY <1>1 DEF rows
  <1> QED BY <1>1, <1>6, <1>7, <1>8, JoinsAreFew

LEMMA OrderlyMatches == ASSUME Orderly(deal) PROVE StagesMatchAnnexes
  <1>1. SUFFICES ASSUME NEW c \in Handed
                 PROVE  LET numbers == {a.number : a \in {a \in Range(InContract(c).annexes) : a.applied}}
                            stages == InContract(c).stages
                        IN /\ numbers = {stages[k].annex : k \in DOMAIN stages}
                           /\ Cardinality(numbers) = Len(stages)
    BY DEF StagesMatchAnnexes
  <1> DEFINE rows == deal.contracts[c].annexes
             stages == deal.contracts[c].stages
             numbers == {a.number : a \in {a \in Range(rows) : a.applied}}
             M == Len(stages)
             f == [k \in 1..M |-> stages[k].annex]
  <1>2. /\ c \in DOMAIN deal.contracts /\ deal \in DealSet /\ Aligned(deal.contracts[c])
        /\ InContract(c) = deal.contracts[c]
    BY OrderlyTypes DEF Orderly, AllAligned, InContract, Handed
  <1>3. stages \in Seq(MilestoneRow) /\ rows \in Seq(AnnexRow) /\ M \in Nat /\ DOMAIN stages = 1..M
    <2>1. stages \in Seq(MilestoneRow) /\ rows \in Seq(AnnexRow)
      BY <1>2, RowsAreTyped
    <2> QED BY <2>1
  <1> HIDE DEF M
  <1>4. /\ \A i \in DOMAIN rows : rows[i].number = i
        /\ \A k \in DOMAIN stages : stages[k].annex \in DOMAIN rows /\ rows[stages[k].annex].applied
        /\ \A k, l \in DOMAIN stages : stages[k].annex = stages[l].annex => k = l
        /\ \A i \in DOMAIN rows : rows[i].applied => \E k \in DOMAIN stages : stages[k].annex = i
    BY <1>2 DEF Aligned
  <1> HIDE DEF rows, stages
  <1>5. numbers = {i \in DOMAIN rows : rows[i].applied}
    BY <1>4 DEF Range
  <1>6. numbers = {stages[k].annex : k \in DOMAIN stages}
    BY <1>4, <1>5
  <1>7. f \in [1..M -> numbers]
    BY <1>3, <1>6
  <1>8. \A k, l \in 1..M : f[k] = f[l] => k = l
    BY <1>3, <1>4
  <1>9. \A n \in numbers : \E k \in 1..M : f[k] = n
    BY <1>3, <1>6
  <1> HIDE DEF f, numbers
  <1>10. f \in Injection(1..M, numbers) /\ f \in Surjection(1..M, numbers)
    BY <1>7, <1>8, <1>9, Fun_IsInj, Fun_IsSurj
  <1>11. IsFiniteSet(1..M) /\ Cardinality(1..M) = M
    BY <1>3, FS_Interval
  <1>12. Cardinality(numbers) = M
    BY <1>10, <1>11, FS_Surjection
  <1> QED BY <1>2, <1>6, <1>12 DEF numbers, rows, stages, M

LEMMA OrderlyKnows == ASSUME Orderly(deal) PROVE StagesKnowTheirInvoices
  <1>1. Billed(deal)
    BY DEF Orderly
  <1> QED BY <1>1 DEF Billed, StagesKnowTheirInvoices, InContract, Handed

LEMMA OrderlyScope == ASSUME Orderly(deal) PROVE WorkedIsInScope
  <1>1. SUFFICES ASSUME NEW v \in Variations, deal.extras[v].worked PROVE InScope(deal, v)
    BY DEF WorkedIsInScope
  <1>2. deal.extras[v].status = "accepted"
    BY <1>1 DEF Orderly, NotYet, Joins
  <1>3. ~Waiting(deal, v)
    <2>1. deal.holds \in DOMAIN deal.contracts \cup {NoContract}
      BY DEF Orderly, WellShaped
    <2> QED BY <1>1, <2>1 DEF Orderly, WaitsOnHeld, Waiting
  <1> QED BY <1>2, <1>3 DEF InScope

LEMMA OrderlyTyped ==
    ASSUME Orderly(deal), deal.end \in 0..MaxEnd
    PROVE  ContractsTypeOK
  <1>1. deal \in DealSet /\ WellShaped(deal)
    BY DEF Orderly, WellShaped
  <1>2. /\ deal.holds = NoContract \/ ~InContract(deal.holds).cancelled
        /\ deal.dated \in BOOLEAN /\ deal.extras \in [Joins -> Extra]
    BY <1>1 DEF WellShaped, DealSet, InContract
  <1>3. ASSUME NEW c \in Handed
        PROVE  /\ InContract(c).signed \in BOOLEAN /\ InContract(c).cancelled \in BOOLEAN
               /\ ~(InContract(c).signed /\ InContract(c).cancelled)
    <2>1. c \in DOMAIN deal.contracts /\ deal.contracts[c] \in ContractRow
      BY <1>1, RowsAreTyped DEF Handed
    <2> QED BY <1>1, <2>1 DEF WellShaped, ContractRow, InContract
  <1>4. ASSUME NEW c \in Handed, NEW i \in DOMAIN InContract(c).annexes
        PROVE  InContract(c).annexes[i] \in Annex
    <2>1. c \in DOMAIN deal.contracts /\ i \in DOMAIN deal.contracts[c].annexes
      BY DEF Handed, InContract
    <2>2. deal.contracts[c].annexes[i] \in AnnexRow /\ deal.contracts[c].annexes[i].number = i
      BY <1>1, <2>1, RowsAreTyped DEF Orderly, AllAligned, Aligned
    <2>3. i \in 1..Cardinality(Joins) + 1
      BY <2>1, FewAnnexes
    <2> QED BY <2>2, <2>3 DEF AnnexRow, Annex, InContract
  <1> QED BY <1>2, <1>3, <1>4 DEF ContractsTypeOK

ContractsInv == Orderly(deal) /\ deal.end \in 0..MaxEnd

LEMMA ContractsInvKept ==
    ASSUME {"newest", "hold"} \subseteq Habits, ContractsInv, [ContractsNext]_dealVars
    PROVE  ContractsInv'
  <1>1. CASE ContractsNext
    <2>1. Orderly(deal') /\ deal'.end \in 0..MaxEnd
      BY Zenon, <1>1, CallsKeepOrder DEF ContractsInv
    <2>2. ContractsInv' <=> Orderly(deal') /\ deal'.end \in 0..MaxEnd
      BY ZenonT(40) DEF ContractsInv, Orderly, WellShaped, AllAligned, Billed, Joined, WaitsOnHeld, NotYet
    <2> QED BY <2>1, <2>2
  <1>2. CASE UNCHANGED dealVars
    <2>1. deal' = deal
      BY <1>2 DEF dealVars
    <2> QED BY <2>1 DEF ContractsInv, Orderly, WellShaped, AllAligned, Billed, Joined, WaitsOnHeld, NotYet
  <1> QED BY <1>1, <1>2

(* While only the annex put in force last is taken back and no contract is   *)
(* let go with an annex waiting, a contract keeps what it promises: one       *)
(* milestone for each annex in force, milestones and invoices that name each *)
(* other, no work out of scope (signContractAnnex, _unapplyContractAnnex,     *)
(* removeContractAnnex, issueInvoice, undoLastInvoice).  Days may be lowered. *)
THEOREM ContractsKept ==
    ASSUME {"newest", "hold"} \subseteq Habits
    PROVE  ContractsSpec => []ContractsHold
  <1>1. ContractsInit => ContractsInv
    BY InitOrderly DEF ContractsInv
  <1>2. ContractsInv /\ [ContractsNext]_dealVars => ContractsInv'
    BY ContractsInvKept
  <1>3. ContractsInv => ContractsHold
    BY OrderlyTyped, OrderlyMatches, OrderlyKnows, OrderlyScope DEF ContractsInv, ContractsHold
  <1> QED BY <1>1, <1>2, <1>3, PTL DEF ContractsSpec

(* With all three habits, the date of the job moves by what the extras that   *)
(* join or leave it add and by nothing twice (_applyContractAnnex,            *)
(* setVariationScheduleDays, approveChange, extendProjectDeadline).           *)
THEOREM DaysCountedOnceKept ==
    ASSUME {"newest", "hold", "grow"} \subseteq Habits
    PROVE  ContractsSpec => DaysCountedOnce
  <1> DEFINE Counts == deal.dated /\ (\A n \in 0..MaxEnd : ~UpdateProject(n))
                       => deal'.end - AppliedDays(deal')
                          = deal.end - AppliedDays(deal)
                            + DaysOf(deal, Approved(deal') \ Approved(deal))
  <1>1. ContractsInit => ContractsInv
    BY InitOrderly DEF ContractsInv
  <1>2. ContractsInv /\ [ContractsNext]_dealVars => ContractsInv'
    BY ContractsInvKept
  <1>3. ContractsInv /\ [ContractsNext]_dealVars => [Counts]_dealVars
    BY CallsKeepOrder DEF ContractsInv, Tallied
  <1> QED BY <1>1, <1>2, <1>3, PTL DEF ContractsSpec, DaysCountedOnce

(* A signed contract loses its job only to a person who links another one     *)
(* (signContract, cancelContract). *)
THEOREM SignedKeepsItsJobKept ==
    ASSUME {"newest", "hold"} \subseteq Habits
    PROVE  ContractsSpec => SignedKeepsItsJob
  <1> DEFINE Keeps == deal.holds # NoContract /\ InContract(deal.holds).signed
                      => \/ deal'.holds = deal.holds
                         \/ \E c \in Handed : LinkContractToProject(c)
  <1>1. ContractsInit => ContractsInv
    BY InitOrderly DEF ContractsInv
  <1>2. ContractsInv /\ [ContractsNext]_dealVars => ContractsInv'
    BY ContractsInvKept
  <1>3. ContractsInv /\ [ContractsNext]_dealVars => [Keeps]_dealVars
    BY CallsKeepTheJob DEF ContractsInv
  <1> QED BY <1>1, <1>2, <1>3, PTL DEF ContractsSpec, SignedKeepsItsJob
=============================================================================
