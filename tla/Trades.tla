------------------------------- MODULE Trades -------------------------------
(***************************************************************************)
(* The partidas of the price book and the subpartidas filed under them:    *)
(* a partida is created, renamed, retired, brought back and deleted, and a *)
(* subpartida is filed under any of them, while budgets name partidas by   *)
(* their words (erp-engine.js 1796-2146; the drawers of erp.html).         *)
(***************************************************************************)
EXTENDS Naturals, Sequences, FiniteSets, SequencesExt

CONSTANTS Codes,       \* codes of partidas
          Words,       \* names
          Subpartidas, \* the catalogue
          Untidy,      \* liberties the code takes that a run allows
          MaxFilings

VARIABLES list,      \* lists.itemChapters: code -> [name, active]
          filed,     \* itemPartidaLinks: code -> the rows of that partida as stored
          spoken,    \* the names of the chapters of the budgets
          filings

tradeVars == <<list, filed, spoken, filings>>

Row == [item : Subpartidas, order : 0..Cardinality(Subpartidas)]
Items(rows) == {rows[k].item : k \in DOMAIN rows}

TradesTypeOK ==
    /\ DOMAIN list \subseteq Codes
    /\ \A c \in DOMAIN list : list[c] \in [name : Words, active : BOOLEAN]
    /\ filed \in [Codes -> Seq(Row)]
    /\ \A c \in Codes : Len(filed[c]) = Cardinality(Items(filed[c]))
    /\ spoken \subseteq Words

TradesInit ==
    /\ list = <<>> /\ filed = [c \in Codes |-> <<>>] /\ spoken = {} /\ filings = 0

Filing == filings < MaxFilings /\ filings' = filings + 1
OnList == Filing /\ UNCHANGED <<filed, spoken>>

(* partidaItems: a stable sort of the rows by their order. *)
PartidaItems(rows) ==
    LET before(j, k) == rows[j].order < rows[k].order
                        \/ (rows[j].order = rows[k].order /\ j < k)
        place(k) == Cardinality({j \in DOMAIN rows : before(j, k)}) + 1
    IN [n \in DOMAIN rows |-> rows[CHOOSE k \in DOMAIN rows : place(k) = n].item]

(* addListEntry, updateListEntry, setListEntryActive: the lists of the price *)
(* book may be left with nothing active. *)
AddEntry(c, w) ==
    /\ c \notin DOMAIN list
    /\ list' = [x \in DOMAIN list \cup {c} |-> IF x = c THEN [name |-> w, active |-> TRUE]
                                                         ELSE list[x]]
    /\ OnList
UpdateEntry(c, w) ==
    /\ "renamed" \notin Untidy => list[c].name \notin spoken
    /\ list' = [list EXCEPT ![c].name = w] /\ OnList
SetActive(c) == list' = [list EXCEPT ![c].active = ~@] /\ OnList

(* removePartida: held by its subpartidas, and by the budgets that say its *)
(* name. *)
MayRemove(c) == filed[c] = <<>> /\ list[c].name \notin spoken
RemovePartida(c) ==
    MayRemove(c) /\ list' = [x \in DOMAIN list \ {c} |-> list[x]] /\ OnList

(* setItemPartidas, for the rows of one partida: the subpartida's own row is *)
(* kept as it is behind the others, a new one counts them. *)
Refiled(rows, i, ticked) ==
    LET others == SelectSeq(rows, LAMBDA r : r.item # i)
        mine == SelectSeq(rows, LAMBDA r : r.item = i)
    IN IF ~ticked THEN others
       ELSE others \o (IF mine # <<>> THEN mine
                       ELSE <<[item |-> i, order |-> Len(others)]>>)
AtTheEnd(rows, i) == rows # <<>> => Last(PartidaItems(rows)) = i
SetItemPartidas(i, S) ==
    /\ "out of the middle" \notin Untidy =>
           \A c \in DOMAIN list \ S : i \in Items(filed[c]) => AtTheEnd(filed[c], i)
    /\ filed' = [c \in Codes |-> Refiled(filed[c], i, c \in S)]
    /\ Filing /\ UNCHANGED <<list, spoken>>

(* A chapter of a budget takes the name of an active partida; it is removed. *)
Speak(c) ==
    /\ list[c].active
    /\ spoken' = spoken \cup {list[c].name} /\ Filing
    /\ UNCHANGED <<list, filed>>
Unsay(w) == spoken' = spoken \ {w} /\ Filing /\ UNCHANGED <<list, filed>>

TradesNext ==
    \/ \E c \in Codes, w \in Words : AddEntry(c, w)
    \/ \E c \in DOMAIN list, w \in Words : UpdateEntry(c, w)
    \/ \E c \in DOMAIN list : SetActive(c) \/ RemovePartida(c) \/ Speak(c)
    \/ \E i \in Subpartidas : \E S \in SUBSET DOMAIN list : SetItemPartidas(i, S)
    \/ \E w \in spoken : Unsay(w)
-----------------------------------------------------------------------------
(* Rows are only ever filed under a partida that is there, retired or not.   *)
FiledUnderWhatIs == \A c \in Codes : filed[c] # <<>> => c \in DOMAIN list

(* removePartida: "a partida that has been used stays for ever, because      *)
(* listLabel has to keep resolving": the name a budget says is a partida's.  *)
SpokenResolves == \A w \in spoken : \E c \in DOMAIN list : list[c].name = w

(* setItemPartidas: "a subpartida joins each partida at the END of its run,  *)
(* so ticking a box here never silently reorders a partida somebody else     *)
(* arranged". *)
FilingKeepsOrder ==
    [][\A c \in Codes :
        LET was == PartidaItems(filed[c])   is == PartidaItems(filed'[c])
            stay == Items(filed[c]) \cap Items(filed'[c])
        IN is = SelectSeq(was, LAMBDA i : i \in stay)
                \o SelectSeq(is, LAMBDA i : i \notin stay)]_tradeVars

\* What the price book promises after any sequence of filing, renaming, retiring and
\* deleting: rows and budgets name partidas that are there.
TradesHold ==
    /\ TradesTypeOK
    /\ FiledUnderWhatIs
    /\ SpokenResolves
=============================================================================
