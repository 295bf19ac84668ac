------------------------------ MODULE ErpState ------------------------------
(***************************************************************************)
(* The server side of a company's documents: the routes under              *)
(* app/api/[tenant]/erp, lib/erp-runtime.ts and PrismaErpStateStore.       *)
(*                                                                         *)
(* Each document is one row of the table erp_state with a version.  Every  *)
(* writer works in two transactions, a load and a save that quotes the     *)
(* version it loaded, with nothing held in between, so the steps of any    *)
(* number of requests interleave.  A request may be killed at any point    *)
(* and its answer may be lost; the client cannot tell which, and may ask   *)
(* again while the first request is still being worked on.                 *)
(*                                                                         *)
(* A document is abstracted to the set of edits it reflects.  An edit is   *)
(* one thing a person did (recorded hours, deleted a line, issued an       *)
(* invoice); what it does to the rows of the register is left out.         *)
(***************************************************************************)
EXTENDS Naturals, Sequences

CONSTANTS
    Clients,    \* open sessions: a browser tab with a signed-in account
    Edits,      \* the edits these sessions can make
    Author,     \* [Edits -> Clients]
    Approvals,  \* the edits that approve a site worker's week
    Grants,     \* [Clients -> SUBSET Permissions], from the account's role
    Kinds,      \* the request kinds that are made
    Slots,      \* requests the server can be working on at once
    NoSlot,
    MaxSends    \* bound: requests sent over a behaviour

Permissions == {"erp.read.all", "erp.write", "erp.write.site"}
AllKinds == {"put", "command", "hours", "import", "aux", "settings"}
Documents == {"state", "aux", "settings"}

ASSUME AuthorAssumption == Author \in [Edits -> Clients]
ASSUME ApprovalAssumption == Approvals \subseteq Edits
ASSUME KindsAssumption == Kinds \subseteq AllKinds
ASSUME SlotAssumption == NoSlot \notin Slots
ASSUME BoundAssumption == MaxSends \in Nat

\* The table of roles: every role that may save the register reads all of it.
ASSUME GrantsAssumption ==
    /\ Grants \in [Clients -> SUBSET Permissions]
    /\ \A c \in Clients : "erp.write" \in Grants[c] => "erp.read.all" \in Grants[c]

VARIABLES
    rows,       \* [Documents -> [version, edits]]; version 0 is "no row"
    copies,     \* what each client holds of each document, and under what version
    req,        \* the request in each slot
    listening,  \* the slot whose answer each client is waiting for
    sends,      \* requests sent so far
    accepted    \* history: the accepted writes of each document, in order

vars == <<rows, copies, req, listening, sends, accepted>>

Held == [version : Nat, edits : SUBSET Edits]
Phases == {"sent", "work", "conflict", "saved", "reread", "refused"}

\* asked is the expectedVersion of the body; basis the version the save will
\* quote; told the version the answer names (0 when it names none).
Request == [phase : Phases, client : Clients, kind : AllKinds, edit : Edits,
            asked : Nat, overwrite : BOOLEAN, basis : Nat,
            payload : SUBSET Edits, told : Nat,
            why : {"", "forbidden", "stale", "invalid"}]
Free == [phase |-> "free"]
Write == [kind : AllKinds, edit : Edits, client : Clients, asked : Nat,
          overwrite : BOOLEAN, basis : Nat, edits : SUBSET Edits]

TypeOK ==
    /\ rows \in [Documents -> Held]
    /\ copies \in [Clients -> [Documents -> Held]]
    /\ req \in [Slots -> Request \cup {Free}]
    /\ listening \in [Clients -> Slots \cup {NoSlot}]
    /\ sends \in 0..MaxSends
    /\ accepted \in [Documents -> Seq(Write)]

-----------------------------------------------------------------------------
(* What the requests are about. *)

\* STATE_KEY, AUX_DOCUMENTS[name], and the settings documents.
DocumentOf(kind) == CASE kind = "aux" -> "aux"
                      [] kind = "settings" -> "settings"
                      [] OTHER -> "state"

\* Fault: the door of the whole-document save is left open to everybody.
PermittedOpenDoor(c, kind) == kind = "hours" => "erp.write.site" \in Grants[c]

\* PUT /erp/state asks for erp.write, as does a command unless its entry
\* carries erp.write.site; the other routes ask for a session only.
Permitted(c, kind) ==
    /\ kind \in {"put", "command"} => "erp.write" \in Grants[c]
    /\ kind = "hours" => "erp.write.site" \in Grants[c]

SiteOnly(c) == "erp.write" \notin Grants[c]

\* redactForWorker: an account without erp.read.all is sent what is its own.
View(c, document, edits) ==
    IF document = "state" /\ "erp.read.all" \notin Grants[c]
    THEN {e \in edits : Author[e] = c}
    ELSE edits

WeekApproved(edits) == edits \cap Approvals # {}

Absent == [version |-> 0, edits |-> {}]

Init ==
    /\ rows = [d \in Documents |-> Absent]
    /\ copies = [c \in Clients |-> [d \in Documents |-> Absent]]
    /\ req = [s \in Slots |-> Free]
    /\ listening = [c \in Clients |-> NoSlot]
    /\ sends = 0
    /\ accepted = [d \in Documents |-> << >>]

-----------------------------------------------------------------------------
(* The clients. *)

\* GET /erp/state or /erp/doc/<key>: the stored document replaces the copy.
Read(c, d) ==
    /\ listening[c] = NoSlot
    /\ d # "settings"
    /\ copies' = [copies EXCEPT ![c][d] =
                    [version |-> rows[d].version,
                     edits |-> View(c, d, rows[d].edits)]]
    /\ UNCHANGED <<rows, req, listening, sends, accepted>>

\* A whole-document save sends what the client holds with the edit applied to
\* it; the copy keeps the edit whatever the answer.  A command sends only the
\* edit, one the client does not see done already: a first attempt, or the
\* repetition of one whose answer never came.
Send(c, s, kind, e, overwrite) ==
    LET d    == DocumentOf(kind)
        held == copies[c][d].edits \cup {e}
    IN  /\ listening[c] = NoSlot
        /\ req[s].phase = "free"
        /\ sends < MaxSends
        /\ kind \in Kinds
        /\ Author[e] = c
        /\ e \in Approvals => "erp.write" \in Grants[c]
        /\ kind \in {"command", "hours"} => e \notin copies[c][d].edits
        /\ overwrite => kind = "import"
        /\ req' = [req EXCEPT ![s] =
                    [phase |-> "sent", client |-> c, kind |-> kind, edit |-> e,
                     asked |-> copies[c][d].version, overwrite |-> overwrite,
                     basis |-> 0,
                     payload |-> IF kind \in {"put", "aux"} THEN held ELSE {e},
                     told |-> 0, why |-> ""]]
        /\ copies' = IF kind \in {"put", "aux"}
                     THEN [copies EXCEPT ![c][d].edits = held]
                     ELSE copies
        /\ listening' = [listening EXCEPT ![c] = s]
        /\ sends' = sends + 1
        /\ UNCHANGED <<rows, accepted>>

\* The connection drops, or the page is left: the request goes on unheard.
HangUp(c) ==
    /\ listening[c] # NoSlot
    /\ listening' = [listening EXCEPT ![c] = NoSlot]
    /\ UNCHANGED <<rows, copies, req, sends, accepted>>

-----------------------------------------------------------------------------
(* The server. *)

Refuse(s, why, told) ==
    req' = [req EXCEPT ![s].phase = "refused", ![s].why = why, ![s].told = told]

\* The handler goes on to the save, which will quote `basis`.
Work(s, basis, payload) ==
    req' = [req EXCEPT ![s].phase = "work", ![s].basis = basis, ![s].payload = payload]

Forbid(s) ==
    /\ req[s].phase = "sent"
    /\ ~Permitted(req[s].client, req[s].kind)
    /\ Refuse(s, "forbidden", 0)
    /\ UNCHANGED <<rows, copies, listening, sends, accepted>>

\* saveErpDocument and saveAuxDocument up to the save: the first transaction
\* and the comparison of its version with the one the client quoted.
LoadForSave(s) ==
    LET r   == req[s]
        row == rows[DocumentOf(r.kind)]
    IN  /\ r.phase = "sent"
        /\ r.kind \in {"put", "aux"}
        /\ Permitted(r.client, r.kind)
        /\ IF row.version # r.asked
           THEN Refuse(s, "stale", row.version)
           ELSE Work(s, r.asked, r.payload)
        /\ UNCHANGED <<rows, copies, listening, sends, accepted>>

\* Fault: a command's expected version defaults to whatever is current.
LoadForCommandBlind(s) ==
    LET r   == req[s]
        row == rows["state"]
    IN  /\ r.phase = "sent"
        /\ r.kind \in {"command", "hours"}
        /\ Permitted(r.client, r.kind)
        /\ IF r.kind = "hours" /\ SiteOnly(r.client) /\ WeekApproved(row.edits)
           THEN Refuse(s, "forbidden", 0)
           ELSE Work(s, row.version, row.edits \cup {r.edit})
        /\ UNCHANGED <<rows, copies, listening, sends, accepted>>

\* runCommand up to the save: the command is applied to the document loaded
\* here, after refuseOutsideOwnHours has looked at that same document.
LoadForCommand(s) ==
    LET r   == req[s]
        row == rows["state"]
    IN  /\ r.phase = "sent"
        /\ r.kind \in {"command", "hours"}
        /\ Permitted(r.client, r.kind)
        /\ IF row.version # r.asked
           THEN Refuse(s, "stale", row.version)
           ELSE IF r.kind = "hours" /\ SiteOnly(r.client) /\ WeekApproved(row.edits)
           THEN Refuse(s, "forbidden", 0)
           ELSE Work(s, r.asked, row.edits \cup {r.edit})
        /\ UNCHANGED <<rows, copies, listening, sends, accepted>>

\* POST /erp/import up to the save, which quotes the version loaded here.
LoadForImport(s) ==
    LET r       == req[s]
        current == rows["state"].version
    IN  /\ r.phase = "sent"
        /\ r.kind = "import"
        /\ IF current > 0 /\ ~r.overwrite
           THEN Refuse(s, "invalid", current)
           ELSE IF current > 0 /\ r.asked # current
           THEN Refuse(s, "stale", current)
           ELSE Work(s, current, r.payload)
        /\ UNCHANGED <<rows, copies, listening, sends, accepted>>

\* saveMailSettings, saveUiSettings: no version comes from the client.
LoadForSettings(s) ==
    /\ req[s].phase = "sent"
    /\ req[s].kind = "settings"
    /\ Work(s, rows["settings"].version, req[s].payload)
    /\ UNCHANGED <<rows, copies, listening, sends, accepted>>

\* The migration ladder finds a document newer than this build, or the engine
\* refuses the command.
Throw(s) ==
    /\ req[s].phase = "work"
    /\ req[s].kind \notin {"aux", "settings"}
    /\ Refuse(s, "invalid", 0)
    /\ UNCHANGED <<rows, copies, listening, sends, accepted>>

\* What an accepted save does to the row, and the version its answer names.
Store(s) ==
    LET r == req[s]
        d == DocumentOf(r.kind)
    IN  /\ rows' = [rows EXCEPT ![d] = [version |-> rows[d].version + 1,
                                        edits |-> r.payload]]
        /\ req' = [req EXCEPT ![s].phase = "saved", ![s].told = r.basis + 1]
        /\ accepted' = [accepted EXCEPT ![d] = Append(@,
                          [kind |-> r.kind, edit |-> r.edit, client |-> r.client,
                           asked |-> r.asked, overwrite |-> r.overwrite,
                           basis |-> rows[d].version, edits |-> r.payload])]
        /\ UNCHANGED <<copies, listening, sends>>

\* Fault: the first save is an upsert.
CreateUpsert(s) ==
    /\ req[s].phase = "work"
    /\ req[s].basis = 0
    /\ Store(s)

\* save(expected = 0): the row is created, and its key is unique.
Create(s) ==
    /\ req[s].phase = "work"
    /\ req[s].basis = 0
    /\ rows[DocumentOf(req[s].kind)].version = 0
    /\ Store(s)

\* Fault: the update is not restricted to the version that was loaded.
UpdateBlind(s) ==
    /\ req[s].phase = "work"
    /\ req[s].basis > 0
    /\ Store(s)

\* save(expected > 0): updateMany where version = expected.
Update(s) ==
    /\ req[s].phase = "work"
    /\ req[s].basis > 0
    /\ rows[DocumentOf(req[s].kind)].version = req[s].basis
    /\ Store(s)

\* P2002 on the create, or no row matched the update.
Conflict(s) ==
    /\ req[s].phase = "work"
    /\ rows[DocumentOf(req[s].kind)].version # req[s].basis
    /\ req' = [req EXCEPT ![s].phase = "conflict"]
    /\ UNCHANGED <<rows, copies, listening, sends, accepted>>

\* Fault: the refusal repeats the version the save quoted.
NameCurrentFromRequest(s) ==
    /\ req[s].phase = "conflict"
    /\ Refuse(s, "stale", req[s].basis)
    /\ UNCHANGED <<rows, copies, listening, sends, accepted>>

\* stale(): a transaction of its own, to name the version to reload.
NameCurrent(s) ==
    /\ req[s].phase = "conflict"
    /\ Refuse(s, "stale", rows[DocumentOf(req[s].kind)].version)
    /\ UNCHANGED <<rows, copies, listening, sends, accepted>>

\* include=state: the document is loaded again for the answer to a command.
ReRead(s) ==
    /\ req[s].phase = "saved"
    /\ req[s].kind \in {"command", "hours"}
    /\ req' = [req EXCEPT ![s].phase = "reread", ![s].payload = rows["state"].edits]
    /\ UNCHANGED <<rows, copies, listening, sends, accepted>>

\* Fault: a handler that threw sends no response.
AnsweredIfStored(r) == \/ r.phase = "reread"
                       \/ r.phase = "saved" /\ r.kind \notin {"command", "hours"}

Answered(r) == \/ r.phase \in {"refused", "reread"}
               \/ r.phase = "saved" /\ r.kind \notin {"command", "hours"}

\* What a client that hears the answer holds afterwards.
Adopt(r) ==
    LET c == r.client
        d == DocumentOf(r.kind)
    IN  IF r.phase = "refused" \/ r.kind \in {"import", "settings"}
        THEN copies[c][d]
        ELSE [version |-> r.told,
              edits |-> IF r.phase = "reread" THEN View(c, d, r.payload)
                                              ELSE copies[c][d].edits]

Answer(s) ==
    LET r == req[s]
        c == r.client
    IN  /\ r.phase # "free"
        /\ Answered(r)
        /\ req' = [req EXCEPT ![s] = Free]
        /\ IF listening[c] = s
           THEN /\ copies' = [copies EXCEPT ![c][DocumentOf(r.kind)] = Adopt(r)]
                /\ listening' = [listening EXCEPT ![c] = NoSlot]
           ELSE UNCHANGED <<copies, listening>>
        /\ UNCHANGED <<rows, sends, accepted>>

\* The instance serving the request dies; the client sees its fetch fail.
Crash(s) ==
    /\ req[s].phase # "free"
    /\ req' = [req EXCEPT ![s] = Free]
    /\ listening' = [c \in Clients |-> IF listening[c] = s THEN NoSlot ELSE listening[c]]
    /\ UNCHANGED <<rows, copies, sends, accepted>>

-----------------------------------------------------------------------------
Handle(s) ==
    \/ Forbid(s)
    \/ LoadForSave(s)
    \/ LoadForCommand(s)
    \/ LoadForImport(s)
    \/ LoadForSettings(s)
    \/ Throw(s)
    \/ Create(s)
    \/ Update(s)
    \/ Conflict(s)
    \/ NameCurrent(s)
    \/ ReRead(s)
    \/ Answer(s)

ClientStep(c) ==
    \/ \E d \in Documents : Read(c, d)
    \/ \E s \in Slots, kind \in AllKinds, e \in Edits, overwrite \in BOOLEAN :
           Send(c, s, kind, e, overwrite)
    \/ HangUp(c)

Next == \/ \E c \in Clients : ClientStep(c)
        \/ \E s \in Slots : Handle(s) \/ Crash(s)

\* Nothing obliges a client to act; a handler that is running goes on.
Fairness == \A s \in Slots : WF_vars(Handle(s))

Spec == Init /\ [][Next]_vars
FairSpec == Spec /\ Fairness

-----------------------------------------------------------------------------
(* Properties. *)

Commands == {"command", "hours"}

LastIsImport(log) == log # << >> /\ log[Len(log)].kind = "import"

\* The register is shared without loss: every accepted save or command keeps
\* all the edits of the version it replaces, and only an import removes any
\* (saveErpDocument, runCommand and PrismaErpStateStore.save together).
Register == INSTANCE SharedDocument WITH
    Items <- Edits, Replaceable <- TRUE,
    document <- rows["state"].edits, version <- rows["state"].version,
    imported <- LastIsImport(accepted["state"])
RegisterIsShared == Register!SharedSpec

\* The same of an auxiliary document, which has no import (saveAuxDocument).
Auxiliary == INSTANCE SharedDocument WITH
    Items <- Edits, Replaceable <- FALSE,
    document <- rows["aux"].edits, version <- rows["aux"].version,
    imported <- LastIsImport(accepted["aux"])
AuxiliaryIsShared == Auxiliary!SharedSpec

\* The version an answer names is the one this request wrote, with this
\* request's document in it, although save() computes it as expected + 1 and
\* others may have saved since.
SavedAsTold ==
    \A s \in Slots : req[s].phase = "saved" =>
        LET log == accepted[DocumentOf(req[s].kind)]
        IN  /\ req[s].told \in 1..Len(log)
            /\ log[req[s].told].client = req[s].client
            /\ log[req[s].told].edit = req[s].edit
            /\ log[req[s].told].edits = req[s].payload

\* Nobody is told that the record changed unless it did: a stale-write refusal
\* names a version later than the one the request was based on, including when
\* it is read in a third transaction after the save failed (stale()).
StaleIsGenuine ==
    \A s \in Slots : (req[s].phase = "refused" /\ req[s].why = "stale") =>
        req[s].told > (IF req[s].kind = "settings" THEN req[s].basis ELSE req[s].asked)

\* A command repeated because its answer was lost is never applied twice,
\* whether the first attempt is finished, dead or still running; only an
\* import in between, which removed it, lets it in again.
AppliedOnce ==
    LET log == accepted["state"]
    IN  \A i, j \in 1..Len(log) :
            (i < j /\ log[i].edit = log[j].edit /\ log[j].kind \in Commands) =>
                \E k \in i+1..j-1 : log[k].kind = "import"

\* Once the office has approved the week, no hours of an account that may only
\* write its own get into the register: refuseOutsideOwnHours looks at a
\* document loaded earlier, and the version check covers the gap.
ApprovedWeekIsClosed ==
    LET log == accepted["state"]
    IN  \A i \in 2..Len(log) :
            (log[i].kind = "hours" /\ SiteOnly(log[i].client)) => ~WeekApproved(log[i-1].edits)

\* An import that replaced a register was told to, by somebody who named the
\* very version it replaced; an import onto an empty tenant replaced nothing.
ImportNamesWhatItReplaces ==
    LET log == accepted["state"]
    IN  \A i \in 2..Len(log) :
            log[i].kind = "import" => log[i].overwrite /\ log[i].asked = i - 1

\* Every request is disposed of, so no client waits for an answer for ever.
RequestsEnd == \A s \in Slots : req[s].phase = "sent" ~> req[s].phase = "free"
=============================================================================
