-------------------------------- MODULE Crew --------------------------------
(***************************************************************************)
(* The phone of a site account: it is shown its own rows of the register    *)
(* and never sends the document back.  Each of its writes is one command,   *)
(* run by the server on the document it finds, and the answer carries the   *)
(* document as it is read again afterwards (site/erp-store.js command,      *)
(* site/erp.html commandMutate, api/[tenant]/erp/command).                  *)
(*                                                                         *)
(* Commands are not queued: the button may be pressed again while one is    *)
(* on the wire.  Who may do what is ErpState's subject.                     *)
(***************************************************************************)
EXTENDS Naturals, FiniteSetsExt

CONSTANTS Phones,        \* one account each
          Shifts,        \* what hours are about: a job and a day
          AtOnce,        \* bounds: commands a phone has on the wire,
          MaxIds,        \* rows recorded,
          MaxSaves,      \* versions of the register,
          MaxFailed      \* and answers lost

VARIABLES register,   \* [rows, version]; a row is [phone, shift]
          phones,     \* each phone's rows and version, and what it says
          onWire,     \* the commands each phone has sent, and their answers
          ids,        \* the row ids handed out
          failed

crewVars == <<register, phones, onWire, ids, failed>>

Recorded == [phone : Phones, shift : Shifts]

CrewTypeOK ==
    /\ \A i \in DOMAIN register.rows : i \in 1..ids /\ register.rows[i] \in Recorded
    /\ \A p \in Phones :
        /\ phones[p].version <= register.version
        /\ \A i \in DOMAIN phones[p].rows : phones[p].rows[i].phone = p

\* redactForWorker
Mine(p, rows) == [i \in {k \in DOMAIN rows : rows[k].phone = p} |-> rows[i]]

CrewInit ==
    /\ register = [rows |-> <<>>, version |-> 0]
    /\ phones = [p \in Phones |-> [rows |-> <<>>, version |-> 0, says |-> ""]]
    /\ onWire = [p \in Phones |-> {}]
    /\ ids = 0 /\ failed = 0

(* commandMutate: the button sends a command; nothing is applied here. *)
Shown(p) == {phones[p].rows[i].shift : i \in DOMAIN phones[p].rows}
Waiting(p) == {c \in onWire[p] : c.heard}
SendCommand(p, name, id, shift) ==
    /\ Cardinality(Waiting(p)) < AtOnce
    /\ LET tag == Min((1..AtOnce + MaxFailed) \ {c.tag : c \in onWire[p]})
       IN onWire' = [onWire EXCEPT ![p] = @ \cup
               {[name |-> name, id |-> id, shift |-> shift, version |-> phones[p].version,
                 tag |-> tag, answer |-> "none", told |-> 0, rows |-> <<>>, heard |-> TRUE]}]
    /\ UNCHANGED <<register, phones, ids, failed>>
PressRecord(p, s) ==
    s \notin Shown(p) /\ SendCommand(p, "recordHours", 0, s)
PressCorrect(p, i, s) ==
    s \notin Shown(p) /\ SendCommand(p, "correctHours", i, s)
PressDelete(p, i) ==
    SendCommand(p, "deleteHours", i, phones[p].rows[i].shift)

\* Fault: the command is run on whatever version there is.
InTimeAlways(c) == TRUE
InTime(c) == c.version = register.version
Exists(c) == c.name = "recordHours" \/ c.id \in DOMAIN register.rows
Applied(p, c) ==
    CASE c.name = "recordHours" -> [i \in DOMAIN register.rows \cup {ids + 1} |->
             IF i = ids + 1 THEN [phone |-> p, shift |-> c.shift] ELSE register.rows[i]]
      [] c.name = "correctHours" -> [register.rows EXCEPT ![c.id].shift = c.shift]
      [] OTHER -> [i \in DOMAIN register.rows \ {c.id} |-> register.rows[i]]
Answers(p, c, answered) ==
    onWire' = [onWire EXCEPT ![p] = (@ \ {c}) \cup IF c.heard THEN {answered} ELSE {}]

Named == register.version + 1
(* runCommand *)
RunCommand(p) ==
    \E c \in onWire[p] :
        /\ c.answer = "none" /\ InTime(c) /\ Exists(c) /\ register.version < MaxSaves
        /\ c.name = "recordHours" => ids < MaxIds
        /\ register' = [rows |-> Applied(p, c), version |-> register.version + 1]
        /\ ids' = IF c.name = "recordHours" THEN ids + 1 ELSE ids
        /\ Answers(p, c, [c EXCEPT !.answer = "run", !.told = Named])
        /\ UNCHANGED <<phones, failed>>
RefuseCommand(p) ==
    \E c \in onWire[p] :
        /\ c.answer = "none" /\ ~(InTime(c) /\ Exists(c))
        /\ Answers(p, c, [c EXCEPT !.answer = "refused"])
        /\ UNCHANGED <<register, phones, ids, failed>>
(* include=state: the document is read again, in a transaction of its own. *)
ReadAgain(p) ==
    \E c \in onWire[p] :
        /\ c.answer = "run"
        /\ Answers(p, c, [c EXCEPT !.answer = "ok", !.rows = Mine(p, register.rows)])
        /\ UNCHANGED <<register, phones, ids, failed>>

Drawn(p, c) ==
    IF c.answer = "ok" THEN [rows |-> c.rows, version |-> c.told, says |-> "saved"]
    ELSE [phones[p] EXCEPT !.says = "not saved"]
AnswerArrives(p) ==
    \E c \in onWire[p] :
        /\ c.answer \in {"ok", "refused"}
        /\ phones' = [phones EXCEPT ![p] = Drawn(p, c)]
        /\ onWire' = [onWire EXCEPT ![p] = @ \ {c}]
        /\ UNCHANGED <<register, ids, failed>>
(* No answer: the command may still be under way, for nobody. *)
NoAnswer(p) ==
    \E c \in Waiting(p) :
        /\ failed < MaxFailed /\ failed' = failed + 1
        /\ phones' = [phones EXCEPT ![p].says = "not saved"]
        /\ onWire' = [onWire EXCEPT ![p] = (@ \ {c}) \cup
               IF c.answer = "none" THEN {[c EXCEPT !.heard = FALSE]} ELSE {}]
        /\ UNCHANGED <<register, ids>>
ReloadPage(p) ==
    /\ phones' = [phones EXCEPT ![p] = [rows |-> Mine(p, register.rows),
                                        version |-> register.version, says |-> ""]]
    /\ phones' # phones
    /\ UNCHANGED <<register, onWire, ids, failed>>

(* The office saves the whole document, with or without a row of the crew. *)
OfficeSaves ==
    /\ register.version < MaxSaves
    /\ \E gone \in {{}} \cup {{i} : i \in DOMAIN register.rows} :
        register' = [rows |-> [i \in DOMAIN register.rows \ gone |-> register.rows[i]],
                     version |-> register.version + 1]
    /\ UNCHANGED <<phones, onWire, ids, failed>>

CrewNext ==
    \/ \E p \in Phones :
        \/ \E s \in Shifts : PressRecord(p, s)
        \/ \E i \in DOMAIN phones[p].rows : PressDelete(p, i)
        \/ \E i \in DOMAIN phones[p].rows, s \in Shifts : PressCorrect(p, i, s)
        \/ RunCommand(p) \/ RefuseCommand(p) \/ ReadAgain(p) \/ AnswerArrives(p)
        \/ NoAnswer(p) \/ ReloadPage(p)
    \/ OfficeSaves
-----------------------------------------------------------------------------
(* A shift is in the register once, however often the button was pressed,    *)
(* answers were lost and pages read again: the version refuses the second. *)
NoShiftTwice ==
    \A i, k \in DOMAIN register.rows : register.rows[i] = register.rows[k] => i = k

(* commandMutate: "what is drawn is what the database actually holds, so a   *)
(* refusal cannot leave a row behind that only this phone believes in".  A   *)
(* phone that holds the version in force draws the rows in force, unless     *)
(* its answer was read after a later save. *)
DrawnIsStored ==
    \A p \in Phones : phones[p].version = register.version
                      => phones[p].rows = Mine(p, register.rows)

\* What the commands of a crew account promise with answers lost and repeated: a shift
\* is recorded once, and a screen at rest draws what is stored.
CrewHolds ==
    /\ CrewTypeOK
    /\ NoShiftTwice
    /\ DrawnIsStored
=============================================================================
