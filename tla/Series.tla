------------------------------- MODULE Series -------------------------------
(***************************************************************************)
(* One series of the browser's engine over the years: documents are        *)
(* numbered, the last one is withdrawn and its number given back, and the  *)
(* company changes the shape and the starting point of the series          *)
(* (site/erp-engine.js: ensureSeries, nextNumber, configureSeries and the  *)
(* give-back of undoLastInvoice).                                          *)
(***************************************************************************)
EXTENDS Numbering

CONSTANTS Default,      \* the pattern a new series starts with
          Reshape,      \* may the shape change once documents were issued?
          MaxIssued,    \* bound on the documents in the series
          MaxStart      \* bound on the number a configuration asks for

ASSUME DefaultAssumption == Default \in Patterns
ASSUME FirstYearAssumption == \E y \in Years : \A z \in Years : y <= z

VARIABLES series,       \* state.series[type]
          dates,        \* the year each document of the series is dated
          year,         \* the year of state.today
          jumped        \* history: was the counter moved over documents already issued?

seriesVars == <<series, dates, year, jumped>>

SeriesTypeOK ==
    /\ series \in [pattern : Patterns, yearly : BOOLEAN, next : Nat \ {0},
                   byYear : [Years -> Nat \cup {NoCount}], issued : Seq(Printed)]
    /\ dates \in Seq(Years)
    /\ Len(dates) = Len(series.issued)
    /\ year \in Years
    /\ jumped \in BOOLEAN

SeriesInit ==
    /\ series = SeriesOf(Default)
    /\ dates = <<>>
    /\ year = CHOOSE y \in Years : \A z \in Years : y <= z
    /\ jumped = FALSE

(* nextNumber *)
NextNumber ==
    /\ Len(dates) < MaxIssued
    /\ series' = Advance(series, year)
    /\ dates' = Append(dates, year)
    /\ UNCHANGED <<year, jumped>>

(* undoLastInvoice, as far as the series is concerned *)
GiveBackLast ==
    /\ dates # <<>>
    /\ series' = GiveBack(series, dates[Len(dates)])
    /\ dates' = SubSeq(dates, 1, Len(dates) - 1)
    /\ UNCHANGED <<year, jumped>>

(* configureSeries: start is 0 when the call names no next number *)
ConfigureSeries(pattern, yearly, start) ==
    LET draft == [pattern |-> pattern, yearly |-> yearly,
                  next |-> IF start = 0 THEN series.next ELSE start]
    IN /\ ~Collides(series, draft, year)
       /\ Reshape \/ dates = <<>> \/ (pattern = series.pattern /\ yearly = series.yearly)
       /\ series' = Configured(series, draft, start # 0, year)
       /\ jumped' = (jumped \/ dates # <<>>)
       /\ UNCHANGED <<dates, year>>

NewYear ==
    /\ year + 1 \in Years
    /\ year' = year + 1
    /\ UNCHANGED <<series, dates, jumped>>

SeriesNext ==
    \/ NextNumber
    \/ GiveBackLast
    \/ \E p \in Patterns, b \in BOOLEAN, n \in 0..MaxStart : ConfigureSeries(p, b, n)
    \/ NewYear

SeriesSpec == SeriesInit /\ [][SeriesNext]_seriesVars
-----------------------------------------------------------------------------
(* No two documents of a series carry the same number, whatever was given    *)
(* back and wherever the counter was moved: the rule configureSeries states. *)
NoNumberTwice ==
    \A i, j \in DOMAIN series.issued :
        series.issued[i] = series.issued[j] => i = j

(* A series nobody moved has no gap: every number given back by withdrawing  *)
(* the last document is the one the next document takes, over the turn of a  *)
(* year as well. *)
OnlyJumpsLeaveGaps == ~jumped => Gaps(series) = {}

(* Withdrawing and issuing again in the same year prints the same number, so *)
(* correcting a document never renames it (invoiceCorrectBlock counts on it). *)
CorrectionKeepsNumber ==
    dates # <<>> /\ dates[Len(dates)] = year /\ ~jumped
        => NextOf(GiveBack(series, year), year) = series.issued[Len(dates)]

\* What a series promises over any sequence of documents, corrections and changes of
\* its shape: no number names two documents, only the owner's jump leaves a gap, and a
\* document taken back and issued again in its year has its old number.
NumbersRunOn ==
    /\ SeriesTypeOK
    /\ NoNumberTwice
    /\ OnlyJumpsLeaveGaps
    /\ CorrectionKeepsNumber
=============================================================================
