------------------------------- MODULE Tables -------------------------------
(***************************************************************************)
(* The tables of the register: rows by id, and what the values of a        *)
(* function or of a sequence come to.                                      *)
(***************************************************************************)
EXTENDS Integers, Sequences, Functions

WithRow(table, id, row) ==
    [k \in DOMAIN table \cup {id} |-> IF k = id THEN row ELSE table[k]]

\* The rows of a sequence that are in a set, in their order.
Only(rows, S) ==
    LET kept[n \in 0..Len(rows)] ==
            IF n = 0 THEN <<>>
            ELSE IF rows[n] \in S THEN Append(kept[n - 1], rows[n]) ELSE kept[n - 1]
    IN kept[Len(rows)]

SumOn(f, S) == FoldFunctionOnSet(+, 0, f, S)
=============================================================================
