--------------------------- MODULE ErpState_proofs ---------------------------
(***************************************************************************)
(* Proofs about ErpState, for every set of clients, edits, grants, request *)
(* kinds and slots:                                                        *)
(*   - TypeCorrect: the type invariant;                                    *)
(*   - RegisterRefinement, AuxiliaryRefinement: the register and the       *)
(*     auxiliary documents are shared without loss;                        *)
(*   - AnswersAreTrue: the version an answer names is the one this request *)
(*     wrote, with this request's document in it;                          *)
(*   - RefusalsAreGenuine: a stale-write refusal names a later version;    *)
(*   - CommandsApplyOnce, ApprovedWeeksStayClosed, ImportsNameTheirVersion:*)
(*     what the history of the accepted writes can never show.             *)
(* Both refinements rest on one inductive invariant: whatever a client     *)
(* holds, or a request carries, under the CURRENT version of a document    *)
(* contains all of that document; anything older will be refused.  The     *)
(* last three theorems add what a request still worked on may do to the    *)
(* register it will meet, and what every client holds of its own edits in  *)
(* the current register.                                                   *)
(***************************************************************************)
EXTENDS ErpState, TLAPS

\* A slot in use holds a request.
LEMMA Busy ==
    ASSUME TypeOK, NEW s \in Slots, req[s].phase # "free"
    PROVE  req[s] \in Request
  BY DEF TypeOK, Free

\* A refusal leaves a request in the slot.
LEMMA RefuseType ==
    ASSUME TypeOK, NEW s \in Slots, req[s].phase # "free",
           NEW why \in {"", "forbidden", "stale", "invalid"}, NEW told \in Nat,
           Refuse(s, why, told)
    PROVE  req' \in [Slots -> Request \cup {Free}]
  <1>1. req[s] \in Request
    BY Busy
  <1>2. [req[s] EXCEPT !.phase = "refused", !.why = why, !.told = told] \in Request
    BY <1>1 DEF Request, Phases
  <1>. QED
    BY <1>2 DEF TypeOK, Refuse

\* So does going on to the save.
LEMMA WorkType ==
    ASSUME TypeOK, NEW s \in Slots, req[s].phase # "free",
           NEW basis \in Nat, NEW payload \in SUBSET Edits,
           Work(s, basis, payload)
    PROVE  req' \in [Slots -> Request \cup {Free}]
  <1>1. req[s] \in Request
    BY Busy
  <1>2. [req[s] EXCEPT !.phase = "work", !.basis = basis, !.payload = payload] \in Request
    BY <1>1 DEF Request, Phases
  <1>. QED
    BY <1>2 DEF TypeOK, Work

\* Every kind of request is about one of the documents.
LEMMA DocumentType == \A kind \in AllKinds : DocumentOf(kind) \in Documents
  BY DEF AllKinds, DocumentOf, Documents

\* What a client is sent of a document is part of it.
LEMMA ViewType ==
    ASSUME NEW c \in Clients, NEW d \in Documents, NEW edits \in SUBSET Edits
    PROVE  View(c, d, edits) \in SUBSET Edits
  BY DEF View

-----------------------------------------------------------------------------
LEMMA InitType == Init => TypeOK
  <1> SUFFICES ASSUME Init PROVE TypeOK
    OBVIOUS
  <1>1. Absent \in Held
    BY DEF Absent, Held
  <1>2. << >> \in Seq(Write)
    OBVIOUS
  <1>. QED
    BY <1>1, <1>2, BoundAssumption DEF Init, TypeOK, Free

LEMMA ReadType ==
    ASSUME TypeOK, NEW c \in Clients, NEW d \in Documents, Read(c, d)
    PROVE  TypeOK'
  <1>1. [version |-> rows[d].version, edits |-> View(c, d, rows[d].edits)] \in Held
    BY ViewType DEF TypeOK, Held
  <1>2. copies' \in [Clients -> [Documents -> Held]]
    BY <1>1 DEF TypeOK, Read
  <1>. QED
    BY <1>2 DEF TypeOK, Read

LEMMA SendType ==
    ASSUME TypeOK, NEW c \in Clients, NEW s \in Slots, NEW kind \in AllKinds,
           NEW e \in Edits, NEW overwrite \in BOOLEAN, Send(c, s, kind, e, overwrite)
    PROVE  TypeOK'
  <1> DEFINE d == DocumentOf(kind)
             held == copies[c][d].edits \cup {e}
             sent == [phase |-> "sent", client |-> c, kind |-> kind, edit |-> e,
                      asked |-> copies[c][d].version, overwrite |-> overwrite,
                      basis |-> 0,
                      payload |-> IF kind \in {"put", "aux"} THEN held ELSE {e},
                      told |-> 0, why |-> ""]
  <1>1. d \in Documents /\ copies[c][d] \in Held
    BY DocumentType DEF TypeOK
  <1>2. held \in SUBSET Edits /\ copies[c][d].version \in Nat
    BY <1>1 DEF Held
  <1>3. sent \in Request
    BY <1>2 DEF Request, Phases
  <1>4. req' = [req EXCEPT ![s] = sent]
    BY DEF Send
  <1>5. req' \in [Slots -> Request \cup {Free}]
    BY <1>3, <1>4 DEF TypeOK
  <1>6. [copies[c][d] EXCEPT !.edits = held] \in Held
    BY <1>1, <1>2 DEF Held
  <1>7. copies' \in [Clients -> [Documents -> Held]]
    <2>1. CASE kind \in {"put", "aux"}
      <3>1. copies' = [copies EXCEPT ![c][d].edits = held]
        BY <2>1 DEF Send
      <3>. QED
        BY <3>1, <1>6, <1>1 DEF TypeOK
    <2>2. CASE kind \notin {"put", "aux"}
      BY <2>2 DEF Send, TypeOK
    <2>. QED
      BY <2>1, <2>2
  <1>8. sends' \in 0..MaxSends /\ listening' \in [Clients -> Slots \cup {NoSlot}]
    <2>1. /\ sends < MaxSends /\ sends' = sends + 1
          /\ listening' = [listening EXCEPT ![c] = s]
      BY DEF Send
    <2>. QED
      BY <2>1, BoundAssumption DEF TypeOK
  <1>. QED
    BY <1>5, <1>7, <1>8 DEF TypeOK, Send

LEMMA LoadType ==
    ASSUME TypeOK, NEW s \in Slots,
           \/ Forbid(s) \/ LoadForSave(s) \/ LoadForCommand(s)
           \/ LoadForImport(s) \/ LoadForSettings(s)
    PROVE  TypeOK'
  <1>1. req[s].phase = "sent"
    BY DEF Forbid, LoadForSave, LoadForCommand, LoadForImport, LoadForSettings
  <1>2. req[s] \in Request
    BY <1>1, Busy
  <1>3. /\ req[s].asked \in Nat /\ req[s].payload \in SUBSET Edits
        /\ req[s].edit \in Edits /\ req[s].kind \in AllKinds
    BY <1>2 DEF Request
  <1>4. \A d \in Documents : rows[d].version \in Nat /\ rows[d].edits \in SUBSET Edits
    BY DEF TypeOK, Held
  <1>5. DocumentOf(req[s].kind) \in Documents /\ "state" \in Documents /\ "settings" \in Documents
    BY <1>3, DocumentType DEF Documents
  <1>6. req' \in [Slots -> Request \cup {Free}]
    <2>1. CASE Forbid(s)
      BY <2>1, <1>1, RefuseType DEF Forbid
    <2>2. CASE LoadForSave(s)
      BY <2>2, <1>1, <1>3, <1>4, <1>5, RefuseType, WorkType DEF LoadForSave
    <2>3. CASE LoadForCommand(s)
      <3>1. \/ Refuse(s, "stale", rows["state"].version)
            \/ Refuse(s, "forbidden", 0)
            \/ Work(s, req[s].asked, rows["state"].edits \cup {req[s].edit})
        BY <2>3 DEF LoadForCommand
      <3>2. rows["state"].edits \cup {req[s].edit} \in SUBSET Edits
        BY <1>3, <1>4, <1>5
      <3>3. CASE Refuse(s, "stale", rows["state"].version)
        BY <3>3, <1>1, <1>4, <1>5, RefuseType
      <3>4. CASE Refuse(s, "forbidden", 0)
        BY <3>4, <1>1, RefuseType
      <3>5. CASE Work(s, req[s].asked, rows["state"].edits \cup {req[s].edit})
        BY <3>5, <3>2, <1>1, <1>3, WorkType
      <3>. QED
        BY <3>1, <3>3, <3>4, <3>5
    <2>4. CASE LoadForImport(s)
      BY <2>4, <1>1, <1>3, <1>4, <1>5, RefuseType, WorkType DEF LoadForImport
    <2>5. CASE LoadForSettings(s)
      BY <2>5, <1>1, <1>3, <1>4, <1>5, WorkType DEF LoadForSettings
    <2>. QED
      BY <2>1, <2>2, <2>3, <2>4, <2>5
  <1>. QED
    BY <1>6 DEF TypeOK, Forbid, LoadForSave, LoadForCommand, LoadForImport, LoadForSettings

LEMMA StoreType ==
    ASSUME TypeOK, NEW s \in Slots, req[s].phase = "work", Store(s)
    PROVE  TypeOK'
  <1> DEFINE r == req[s]
             d == DocumentOf(r.kind)
             entry == [kind |-> r.kind, edit |-> r.edit, client |-> r.client,
                       asked |-> r.asked, overwrite |-> r.overwrite,
                       basis |-> rows[d].version, edits |-> r.payload]
  <1>1. r \in Request
    BY Busy
  <1>2. d \in Documents
    BY <1>1, DocumentType DEF Request
  <1>3. rows[d].version \in Nat
    BY <1>2 DEF TypeOK, Held
  <1>4. rows' \in [Documents -> Held]
    <2>1. rows' = [rows EXCEPT ![d] = [version |-> rows[d].version + 1,
                                       edits |-> r.payload]]
      BY DEF Store
    <2>2. r.payload \in SUBSET Edits
      BY <1>1 DEF Request
    <2>3. [version |-> rows[d].version + 1, edits |-> r.payload] \in Held
      BY <2>2, <1>3 DEF Held
    <2>. HIDE DEF d, r
    <2>. QED
      BY <2>1, <2>3 DEF TypeOK
  <1>5. [req[s] EXCEPT !.phase = "saved", !.told = req[s].basis + 1] \in Request
    <2>1. r.basis + 1 \in Nat
      <3>1. r.basis \in Nat
        BY <1>1 DEF Request
      <3>. QED
        BY <3>1
    <2>. HIDE DEF r
    <2>2. [r EXCEPT !.phase = "saved", !.told = r.basis + 1] \in Request
      BY <1>1, <2>1 DEF Request, Phases
    <2>. QED
      BY <2>2 DEF r
  <1>6. req' \in [Slots -> Request \cup {Free}]
    BY <1>5 DEF Store, TypeOK
  <1>7. entry \in Write
    BY <1>1, <1>3 DEF Write, Request
  <1>8. accepted' = [accepted EXCEPT ![d] = Append(@, entry)]
    BY DEF Store
  <1>9. Append(accepted[d], entry) \in Seq(Write)
    BY <1>2, <1>7 DEF TypeOK
  <1>10. accepted' \in [Documents -> Seq(Write)]
    BY <1>8, <1>9 DEF TypeOK
  <1>. QED
    BY <1>4, <1>6, <1>10 DEF TypeOK, Store

LEMMA AnswerType ==
    ASSUME TypeOK, NEW s \in Slots, Answer(s)
    PROVE  TypeOK'
  <1> DEFINE r == req[s]
             c == r.client
             d == DocumentOf(r.kind)
  <1>1. r \in Request
    BY Busy DEF Answer
  <1>2. c \in Clients /\ d \in Documents /\ r.told \in Nat /\ r.payload \in SUBSET Edits
    BY <1>1, DocumentType DEF Request
  <1>3. copies[c][d] \in Held
    BY <1>2 DEF TypeOK
  <1>4. Adopt(r) \in Held
    BY <1>2, <1>3, ViewType DEF Adopt, Held
  <1>5. copies' \in [Clients -> [Documents -> Held]]
    <2>1. CASE listening[c] = s
      <3>1. copies' = [copies EXCEPT ![c][d] = Adopt(r)]
        BY <2>1 DEF Answer
      <3>. QED
        BY <3>1, <1>2, <1>4 DEF TypeOK
    <2>2. CASE listening[c] # s
      BY <2>2 DEF Answer, TypeOK
    <2>. QED
      BY <2>1, <2>2
  <1>6. listening' \in [Clients -> Slots \cup {NoSlot}]
    BY <1>2 DEF Answer, TypeOK
  <1>7. req' \in [Slots -> Request \cup {Free}]
    BY DEF Answer, TypeOK
  <1>. QED
    BY <1>5, <1>6, <1>7 DEF TypeOK, Answer

LEMMA HandleType ==
    ASSUME TypeOK, NEW s \in Slots, Handle(s)
    PROVE  TypeOK'
  <1>1. CASE \/ Forbid(s) \/ LoadForSave(s) \/ LoadForCommand(s)
             \/ LoadForImport(s) \/ LoadForSettings(s)
    BY <1>1, LoadType
  <1>2. CASE Throw(s)
    <2>1. req' \in [Slots -> Request \cup {Free}]
      BY <1>2, RefuseType DEF Throw
    <2>. QED
      BY <1>2, <2>1 DEF Throw, TypeOK
  <1>3. CASE Create(s) \/ Update(s)
    BY <1>3, StoreType DEF Create, Update
  <1>4. CASE Conflict(s)
    <2>1. req[s] \in Request
      BY <1>4, Busy DEF Conflict
    <2>2. [req[s] EXCEPT !.phase = "conflict"] \in Request
      BY <2>1 DEF Request, Phases
    <2>. QED
      BY <1>4, <2>2 DEF Conflict, TypeOK
  <1>5. CASE NameCurrent(s)
    <2>1. req[s] \in Request
      BY <1>5, Busy DEF NameCurrent
    <2>2. rows[DocumentOf(req[s].kind)].version \in Nat
      BY <2>1, DocumentType DEF Request, TypeOK, Held
    <2>3. req' \in [Slots -> Request \cup {Free}]
      BY <1>5, <2>2, RefuseType DEF NameCurrent
    <2>. QED
      BY <1>5, <2>3 DEF NameCurrent, TypeOK
  <1>6. CASE ReRead(s)
    <2>1. req[s] \in Request
      BY <1>6, Busy DEF ReRead
    <2>2. rows["state"].edits \in SUBSET Edits
      BY DEF TypeOK, Held, Documents
    <2>3. [req[s] EXCEPT !.phase = "reread", !.payload = rows["state"].edits] \in Request
      BY <2>1, <2>2 DEF Request, Phases
    <2>. QED
      BY <1>6, <2>3 DEF ReRead, TypeOK
  <1>7. CASE Answer(s)
    BY <1>7, AnswerType
  <1>. QED
    BY <1>1, <1>2, <1>3, <1>4, <1>5, <1>6, <1>7 DEF Handle

LEMMA NextType == TypeOK /\ [Next]_vars => TypeOK'
  <1> SUFFICES ASSUME TypeOK, [Next]_vars PROVE TypeOK'
    OBVIOUS
  <1>1. ASSUME NEW c \in Clients, ClientStep(c) PROVE TypeOK'
    <2>1. CASE HangUp(c)
      BY <2>1 DEF HangUp, TypeOK
    <2>. QED
      BY <1>1, <2>1, ReadType, SendType DEF ClientStep
  <1>2. ASSUME NEW s \in Slots, Handle(s) PROVE TypeOK'
    BY <1>2, HandleType
  <1>3. ASSUME NEW s \in Slots, Crash(s) PROVE TypeOK'
    BY <1>3 DEF Crash, TypeOK
  <1>4. CASE UNCHANGED vars
    BY <1>4 DEF vars, TypeOK
  <1>. QED
    BY <1>1, <1>2, <1>3, <1>4 DEF Next

\* The variables keep their types: every request in a slot is well formed,
\* every version is a natural number, every accepted write is recorded.
THEOREM TypeCorrect == Spec => []TypeOK
  BY InitType, NextType, PTL DEF Spec

-----------------------------------------------------------------------------
(* The inductive invariant. *)

\* A document held under `version` is either out of date or complete.
Covers(row, version, edits) ==
    /\ version <= row.version
    /\ version = row.version => row.edits \subseteq edits

ReadsAll(c, d) == d = "state" => "erp.read.all" \in Grants[c]

\* What the clients that see a whole document hold of it.
CopiesCover ==
    \A c \in Clients, d \in {"state", "aux"} :
        ReadsAll(c, d) => Covers(rows[d], copies[c][d].version, copies[c][d].edits)

\* What the requests carry, at each point where it matters.
RequestCovers(r) ==
    LET row == rows[DocumentOf(r.kind)]
    IN  /\ (/\ r.phase = "sent"
            /\ r.kind \in {"put", "aux"}
            /\ Permitted(r.client, r.kind)) => Covers(row, r.asked, r.payload)
        /\ (r.phase = "work" /\ r.kind \notin {"import", "settings"}) =>
              Covers(row, r.basis, r.payload)
        /\ (r.phase \in {"saved", "reread"} /\ r.kind \notin {"import", "settings"}) =>
              Covers(row, r.told, r.payload)
        /\ r.kind \in {"import", "settings"} => r.payload = {r.edit}

RequestsCover == \A s \in Slots : req[s].phase # "free" => RequestCovers(req[s])

\* A client that waits, waits for its own request, and has kept what it sent.
ListenersWait ==
    \A c \in Clients : listening[c] # NoSlot =>
        LET r == req[listening[c]]
        IN  /\ r.phase # "free"
            /\ r.client = c
            /\ r.kind \in {"put", "aux"} =>
                 r.payload \subseteq copies[c][DocumentOf(r.kind)].edits

\* A command's document is loaded again only for the answer.
RereadIsCommand ==
    \A s \in Slots : req[s].phase = "reread" => req[s].kind \in Commands

IInv == TypeOK /\ CopiesCover /\ RequestsCover /\ ListenersWait /\ RereadIsCommand

\* Later versions are covered by whatever covers, and outdate the rest.
RowsAdvance == \A d \in Documents, v \in Nat, held \in SUBSET Edits :
                   Covers(rows[d], v, held) => Covers(rows'[d], v, held)

LEMMA RowsUnchanged == ASSUME TypeOK, UNCHANGED rows PROVE RowsAdvance
  BY DEF RowsAdvance

\* An accepted save outdates what others hold and covers what it stored.
LEMMA StoreAdvances ==
    ASSUME TypeOK, NEW s \in Slots, req[s].phase = "work", Store(s),
           rows[DocumentOf(req[s].kind)].version = req[s].basis
    PROVE  /\ RowsAdvance
           /\ Covers(rows'[DocumentOf(req[s].kind)], req'[s].told, req[s].payload)
           /\ req'[s] = [req[s] EXCEPT !.phase = "saved", !.told = req[s].basis + 1]
  <1> DEFINE d == DocumentOf(req[s].kind)
  <1>1. req[s] \in Request
    BY Busy
  <1>2. d \in Documents /\ rows[d].version \in Nat
    BY <1>1, DocumentType DEF Request, TypeOK, Held
  <1>3. rows' = [rows EXCEPT ![d] = [version |-> rows[d].version + 1,
                                     edits |-> req[s].payload]]
    BY DEF Store
  <1>4. req'[s] = [req[s] EXCEPT !.phase = "saved", !.told = req[s].basis + 1]
    BY DEF Store, TypeOK
  <1>5. rows'[d] = [version |-> rows[d].version + 1, edits |-> req[s].payload]
    BY <1>2, <1>3 DEF TypeOK
  <1>6. req'[s].told = rows[d].version + 1
    BY <1>4, <1>1 DEF Request
  <1>7. Covers(rows'[d], req'[s].told, req[s].payload)
    BY <1>2, <1>5, <1>6 DEF Covers
  <1>8. RowsAdvance
    <2> SUFFICES ASSUME NEW x \in Documents, NEW v \in Nat, NEW held \in SUBSET Edits,
                        Covers(rows[x], v, held)
                 PROVE  Covers(rows'[x], v, held)
      BY DEF RowsAdvance
    <2>1. CASE x = d
      BY <2>1, <1>2, <1>5 DEF Covers
    <2>2. CASE x # d
      <3>1. rows'[x] = rows[x]
        BY <2>2, <1>3 DEF TypeOK
      <3>. QED
        BY <3>1
    <2>. QED
      BY <2>1, <2>2
  <1>. QED
    BY <1>4, <1>7, <1>8

\* Requests that a step leaves alone go on covering.
LEMMA OtherRequests ==
    ASSUME TypeOK, RequestsCover, RowsAdvance, NEW s \in Slots,
           \A t \in Slots \ {s} : req'[t] = req[t],
           req'[s].phase # "free" => RequestCovers(req[s])'
    PROVE  RequestsCover'
  <1> SUFFICES ASSUME NEW t \in Slots, req'[t].phase # "free"
               PROVE  RequestCovers(req[t])'
    BY DEF RequestsCover
  <1>1. CASE t = s
    BY <1>1
  <1>2. CASE t # s
    <2>1. req'[t] = req[t] /\ req[t] \in Request /\ RequestCovers(req[t])
      BY <1>2, Busy DEF RequestsCover
    <2>2. /\ DocumentOf(req[t].kind) \in Documents
          /\ req[t].asked \in Nat /\ req[t].basis \in Nat /\ req[t].told \in Nat
          /\ req[t].payload \in SUBSET Edits
      BY <2>1, DocumentType DEF Request
    <2>3. \A v \in Nat : Covers(rows[DocumentOf(req[t].kind)], v, req[t].payload) =>
                          Covers(rows'[DocumentOf(req[t].kind)], v, req[t].payload)
      BY <2>2 DEF RowsAdvance
    <2>. QED
      BY <2>1, <2>2, <2>3 DEF RequestCovers
  <1>. QED
    BY <1>1, <1>2

\* So do the copies of the clients.
LEMMA OtherCopies ==
    ASSUME TypeOK, CopiesCover, RowsAdvance, UNCHANGED copies
    PROVE  CopiesCover'
  <1> SUFFICES ASSUME NEW c \in Clients, NEW d \in {"state", "aux"}, ReadsAll(c, d)
               PROVE  Covers(rows'[d], copies[c][d].version, copies[c][d].edits)
    BY DEF CopiesCover, ReadsAll
  <1>1. d \in Documents
    BY DEF Documents
  <1>2. copies[c][d] \in Held
    BY <1>1 DEF TypeOK
  <1>3. Covers(rows[d], copies[c][d].version, copies[c][d].edits)
    BY DEF CopiesCover
  <1>. QED
    BY <1>1, <1>2, <1>3 DEF RowsAdvance, Held

-----------------------------------------------------------------------------
LEMMA InitIInv == Init => IInv
  <1> SUFFICES ASSUME Init PROVE IInv
    OBVIOUS
  <1>1. TypeOK
    BY InitType
  <1>2. CopiesCover
    BY DEF Init, CopiesCover, Covers, Absent, Documents
  <1>3. RequestsCover /\ RereadIsCommand
    BY DEF Init, RequestsCover, RereadIsCommand, Free
  <1>4. ListenersWait
    BY DEF Init, ListenersWait
  <1>. QED
    BY <1>1, <1>2, <1>3, <1>4 DEF IInv

LEMMA ReadIInv ==
    ASSUME IInv, NEW c \in Clients, NEW d \in Documents, Read(c, d)
    PROVE  IInv'
  <1> USE DEF IInv
  <1>1. TypeOK'
    BY ReadType
  <1>2. copies' = [copies EXCEPT ![c][d] = [version |-> rows[d].version,
                                           edits |-> View(c, d, rows[d].edits)]]
    BY DEF Read
  <1>3. CopiesCover'
    <2> SUFFICES ASSUME NEW c2 \in Clients, NEW d2 \in {"state", "aux"}, ReadsAll(c2, d2)
                 PROVE  Covers(rows[d2], copies'[c2][d2].version, copies'[c2][d2].edits)
      BY DEF CopiesCover, ReadsAll, Read
    <2>1. d2 \in Documents /\ rows[d2] \in Held
      BY DEF Documents, TypeOK
    <2>2. CASE c2 = c /\ d2 = d
      <3>1. copies'[c2][d2] = [version |-> rows[d2].version, edits |-> rows[d2].edits]
        BY <1>2, <2>2 DEF TypeOK, View, ReadsAll
      <3>. QED
        BY <3>1, <2>1 DEF Covers, Held
    <2>3. CASE ~(c2 = c /\ d2 = d)
      <3>1. copies'[c2][d2] = copies[c2][d2]
        BY <1>2, <2>1, <2>3 DEF TypeOK
      <3>. QED
        BY <3>1 DEF CopiesCover
    <2>. QED
      BY <2>2, <2>3
  <1>4. RequestsCover'
    BY DEF Read, RequestsCover, RequestCovers
  <1>5. ListenersWait'
    <2> SUFFICES ASSUME NEW c2 \in Clients, listening[c2] # NoSlot
                 PROVE  /\ req[listening[c2]].phase # "free"
                        /\ req[listening[c2]].client = c2
                        /\ req[listening[c2]].kind \in {"put", "aux"} =>
                             req[listening[c2]].payload
                                \subseteq copies'[c2][DocumentOf(req[listening[c2]].kind)].edits
      BY DEF ListenersWait, Read
    <2>1. c2 # c
      BY DEF Read
    <2>2. copies'[c2] = copies[c2]
      BY <1>2, <2>1 DEF TypeOK
    <2>. QED
      BY <2>2 DEF ListenersWait
  <1>6. RereadIsCommand'
    BY DEF Read, RereadIsCommand
  <1>. QED
    BY <1>1, <1>3, <1>4, <1>5, <1>6

LEMMA HangUpIInv ==
    ASSUME IInv, NEW c \in Clients, HangUp(c)
    PROVE  IInv'
  <1> USE DEF IInv
  <1>1. TypeOK'
    BY DEF HangUp, TypeOK
  <1>2. CopiesCover' /\ RequestsCover' /\ RereadIsCommand'
    BY DEF HangUp, CopiesCover, RequestsCover, RequestCovers, RereadIsCommand
  <1>3. ListenersWait'
    <2> SUFFICES ASSUME NEW c2 \in Clients, listening'[c2] # NoSlot
                 PROVE  listening'[c2] = listening[c2]
      BY DEF ListenersWait, HangUp
    <2>. QED
      BY DEF HangUp, TypeOK
  <1>. QED
    BY <1>1, <1>2, <1>3

\* A step of a handler that touches nothing but its own request.
LEMMA HandlerStep ==
    ASSUME IInv, TypeOK', NEW s \in Slots, req[s].phase # "free",
           UNCHANGED <<rows, copies, listening>>,
           NEW q \in Request, req' = [req EXCEPT ![s] = q],
           q.client = req[s].client, q.kind = req[s].kind,
           q.kind \in {"put", "aux"} => q.payload = req[s].payload,
           q.phase = "reread" => q.kind \in Commands,
           RequestCovers(q)
    PROVE  IInv'
  <1> USE DEF IInv
  <1>1. req'[s] = q /\ \A t \in Slots \ {s} : req'[t] = req[t]
    BY DEF TypeOK
  <1>2. RowsAdvance
    BY RowsUnchanged
  <1>3. RequestCovers(req[s])'
    BY <1>1 DEF RequestCovers
  <1>4. RequestsCover'
    BY <1>1, <1>2, <1>3, OtherRequests
  <1>5. CopiesCover'
    BY <1>2, OtherCopies
  <1>6. q.phase # "free"
    BY DEF Request, Phases
  <1>7. ListenersWait'
    <2> SUFFICES ASSUME NEW c \in Clients, listening[c] # NoSlot
                 PROVE  /\ req'[listening[c]].phase # "free"
                        /\ req'[listening[c]].client = c
                        /\ req'[listening[c]].kind \in {"put", "aux"} =>
                             req'[listening[c]].payload
                                \subseteq copies[c][DocumentOf(req'[listening[c]].kind)].edits
      BY DEF ListenersWait
    <2>1. listening[c] \in Slots
      BY DEF TypeOK
    <2>2. CASE listening[c] = s
      BY <2>2, <1>1, <1>6 DEF ListenersWait
    <2>3. CASE listening[c] # s
      BY <2>1, <2>3, <1>1 DEF ListenersWait
    <2>. QED
      BY <2>2, <2>3
  <1>8. RereadIsCommand'
    BY <1>1 DEF RereadIsCommand
  <1>. QED
    BY <1>4, <1>5, <1>7, <1>8

LEMMA RefuseIInv ==
    ASSUME IInv, TypeOK', NEW s \in Slots, req[s].phase # "free",
           UNCHANGED <<rows, copies, listening>>,
           NEW why \in {"", "forbidden", "stale", "invalid"}, NEW told \in Nat,
           Refuse(s, why, told)
    PROVE  IInv'
  <1> DEFINE q == [req[s] EXCEPT !.phase = "refused", !.why = why, !.told = told]
  <1>1. req[s] \in Request
    BY Busy DEF IInv
  <1>2. q \in Request
    BY <1>1 DEF Request, Phases
  <1>3. /\ q.phase = "refused" /\ q.client = req[s].client /\ q.kind = req[s].kind
        /\ q.payload = req[s].payload /\ q.edit = req[s].edit
    BY <1>1 DEF Request
  <1>4. req' = [req EXCEPT ![s] = q]
    BY DEF Refuse
  <1>5. RequestCovers(req[s])
    BY DEF IInv, RequestsCover
  <1>. HIDE DEF q
  <1>6. RequestCovers(q)
    BY <1>3, <1>5 DEF RequestCovers
  <1>. QED
    BY <1>2, <1>3, <1>4, <1>6, HandlerStep

LEMMA WorkIInv ==
    ASSUME IInv, TypeOK', NEW s \in Slots, req[s].phase # "free",
           UNCHANGED <<rows, copies, listening>>,
           NEW basis \in Nat, NEW payload \in SUBSET Edits, Work(s, basis, payload),
           req[s].kind \in {"put", "aux", "import", "settings"} => payload = req[s].payload,
           req[s].kind \notin {"import", "settings"} =>
              Covers(rows[DocumentOf(req[s].kind)], basis, payload)
    PROVE  IInv'
  <1> DEFINE q == [req[s] EXCEPT !.phase = "work", !.basis = basis, !.payload = payload]
  <1>1. req[s] \in Request
    BY Busy DEF IInv
  <1>2. q \in Request
    BY <1>1 DEF Request, Phases
  <1>3. /\ q.phase = "work" /\ q.client = req[s].client /\ q.kind = req[s].kind
        /\ q.payload = payload /\ q.edit = req[s].edit /\ q.basis = basis
    BY <1>1 DEF Request
  <1>4. req' = [req EXCEPT ![s] = q]
    BY DEF Work
  <1>5. RequestCovers(req[s])
    BY DEF IInv, RequestsCover
  <1>. HIDE DEF q
  <1>6. RequestCovers(q)
    BY <1>3, <1>5 DEF RequestCovers
  <1>. QED
    BY <1>2, <1>3, <1>4, <1>6, HandlerStep

LEMMA SendIInv ==
    ASSUME IInv, NEW c \in Clients, NEW s \in Slots, NEW kind \in AllKinds,
           NEW e \in Edits, NEW overwrite \in BOOLEAN, Send(c, s, kind, e, overwrite)
    PROVE  IInv'
  <1> USE DEF IInv
  <1> DEFINE d == DocumentOf(kind)
             held == copies[c][d].edits \cup {e}
             sent == [phase |-> "sent", client |-> c, kind |-> kind, edit |-> e,
                      asked |-> copies[c][d].version, overwrite |-> overwrite,
                      basis |-> 0,
                      payload |-> IF kind \in {"put", "aux"} THEN held ELSE {e},
                      told |-> 0, why |-> ""]
  <1>1. TypeOK'
    BY SendType
  <1>2. d \in Documents /\ copies[c][d] \in Held
    BY DocumentType DEF TypeOK
  <1>3. /\ req[s].phase = "free" /\ listening[c] = NoSlot
        /\ req' = [req EXCEPT ![s] = sent]
        /\ listening' = [listening EXCEPT ![c] = s]
        /\ UNCHANGED rows
    BY DEF Send
  <1>4. req'[s] = sent /\ \A t \in Slots \ {s} : req'[t] = req[t]
    BY <1>3 DEF TypeOK
  <1>5. RowsAdvance
    BY <1>3, RowsUnchanged
  <1>6. \A c2 \in Clients, d2 \in Documents :
           /\ copies'[c2][d2].version = copies[c2][d2].version
           /\ copies[c2][d2].edits \subseteq copies'[c2][d2].edits
    <2>1. CASE kind \in {"put", "aux"}
      <3>1. copies' = [copies EXCEPT ![c][d].edits = held]
        BY <2>1 DEF Send
      <3>. HIDE DEF d
      <3>2. copies' = [copies EXCEPT ![c] =
                         [copies[c] EXCEPT ![d] = [copies[c][d] EXCEPT !.edits = held]]]
        BY <3>1, <1>2 DEF TypeOK
      <3>3. TAKE c2 \in Clients, d2 \in Documents
      <3>4. CASE c2 = c /\ d2 = d
        <4>1. copies'[c2][d2] = [copies[c][d] EXCEPT !.edits = held]
          BY <3>2, <3>4, <1>2 DEF TypeOK
        <4>. QED
          BY <4>1, <3>4, <1>2 DEF Held
      <3>5. CASE ~(c2 = c /\ d2 = d)
        <4>1. copies'[c2][d2] = copies[c2][d2]
          BY <3>2, <3>5, <1>2 DEF TypeOK
        <4>. QED
          BY <4>1
      <3>. QED
        BY <3>4, <3>5
    <2>2. CASE kind \notin {"put", "aux"}
      BY <2>2 DEF Send
    <2>. QED
      BY <2>1, <2>2
  <1>7. CopiesCover'
    <2> SUFFICES ASSUME NEW c2 \in Clients, NEW d2 \in {"state", "aux"}, ReadsAll(c2, d2)
                 PROVE  Covers(rows[d2], copies'[c2][d2].version, copies'[c2][d2].edits)
      BY <1>3 DEF CopiesCover, ReadsAll
    <2>1. d2 \in Documents
      BY DEF Documents
    <2>2. Covers(rows[d2], copies[c2][d2].version, copies[c2][d2].edits)
      BY DEF CopiesCover
    <2>. QED
      BY <2>1, <2>2, <1>6 DEF Covers
  <1>8. RequestCovers(req[s])'
    <2>1. /\ sent.phase = "sent" /\ sent.kind = kind /\ sent.edit = e
          /\ sent.client = c /\ sent.asked = copies[c][d].version
          /\ sent.payload = IF kind \in {"put", "aux"} THEN held ELSE {e}
      OBVIOUS
    <2>2. (kind \in {"put", "aux"} /\ Permitted(c, kind)) =>
             Covers(rows[d], sent.asked, sent.payload)
      <3> SUFFICES ASSUME kind \in {"put", "aux"}, Permitted(c, kind)
                   PROVE  Covers(rows[d], copies[c][d].version, held)
        BY <2>1
      <3>1. ReadsAll(c, d) /\ d \in {"state", "aux"}
        BY GrantsAssumption DEF ReadsAll, Permitted, DocumentOf
      <3>2. Covers(rows[d], copies[c][d].version, copies[c][d].edits)
        BY <3>1 DEF CopiesCover
      <3>. QED
        BY <3>2 DEF Covers
    <2>3. kind \in {"import", "settings"} => sent.payload = {e}
      BY <2>1
    <2>. HIDE DEF sent, d, held
    <2>. QED
      BY <2>1, <2>2, <2>3, <1>3, <1>4 DEF RequestCovers, d
  <1>9. RequestsCover'
    BY <1>4, <1>5, <1>8, OtherRequests
  <1>10. ListenersWait'
    <2> SUFFICES ASSUME NEW c2 \in Clients, listening'[c2] # NoSlot
                 PROVE  /\ req'[listening'[c2]].phase # "free"
                        /\ req'[listening'[c2]].client = c2
                        /\ req'[listening'[c2]].kind \in {"put", "aux"} =>
                             req'[listening'[c2]].payload
                                \subseteq copies'[c2][DocumentOf(req'[listening'[c2]].kind)].edits
      BY DEF ListenersWait
    <2>1. CASE c2 = c
      <3>1. listening'[c2] = s
        BY <2>1, <1>3 DEF TypeOK
      <3>2. sent.phase # "free" /\ sent.client = c /\ sent.kind = kind
        OBVIOUS
      <3>3. kind \in {"put", "aux"} => sent.payload \subseteq copies'[c][d].edits
        <4> SUFFICES ASSUME kind \in {"put", "aux"}
                     PROVE  held \subseteq copies'[c][d].edits
          OBVIOUS
        <4>1. copies' = [copies EXCEPT ![c][d].edits = held]
          BY DEF Send
        <4>. HIDE DEF d, held
        <4>2. copies'[c][d] = [copies[c][d] EXCEPT !.edits = held]
          BY <4>1, <1>2 DEF TypeOK
        <4>. QED
          BY <4>2, <1>2 DEF Held
      <3>. HIDE DEF sent
      <3>. QED
        BY <3>1, <3>2, <3>3, <2>1, <1>4
    <2>2. CASE c2 # c
      <3> DEFINE t == listening[c2]
      <3>1. listening'[c2] = t /\ t \in Slots
        BY <2>2, <1>3 DEF TypeOK
      <3>2. /\ req[t].phase # "free" /\ req[t].client = c2
            /\ req[t].kind \in {"put", "aux"} =>
                 req[t].payload \subseteq copies[c2][DocumentOf(req[t].kind)].edits
        BY <3>1 DEF ListenersWait
      <3>3. t # s /\ req'[t] = req[t]
        BY <3>1, <3>2, <1>3, <1>4
      <3>4. req[t] \in Request
        BY <3>1, <3>2, Busy
      <3>5. DocumentOf(req[t].kind) \in Documents
        BY <3>4, DocumentType DEF Request
      <3>. HIDE DEF t
      <3>6. copies[c2][DocumentOf(req[t].kind)].edits
               \subseteq copies'[c2][DocumentOf(req[t].kind)].edits
        BY <3>5, <1>6
      <3>. QED
        BY <3>1, <3>2, <3>3, <3>6
    <2>. QED
      BY <2>1, <2>2
  <1>11. RereadIsCommand'
    <2>1. sent.phase = "sent"
      OBVIOUS
    <2>. HIDE DEF sent
    <2>. QED
      BY <2>1, <1>4 DEF RereadIsCommand
  <1>. QED
    BY <1>1, <1>7, <1>9, <1>10, <1>11

LEMMA LoadIInv ==
    ASSUME IInv, NEW s \in Slots,
           \/ Forbid(s) \/ LoadForSave(s) \/ LoadForCommand(s)
           \/ LoadForImport(s) \/ LoadForSettings(s)
    PROVE  IInv'
  <1> USE DEF IInv
  <1> DEFINE row == rows[DocumentOf(req[s].kind)]
  <1>1. /\ req[s].phase = "sent"
        /\ UNCHANGED <<rows, copies, listening>>
    BY DEF Forbid, LoadForSave, LoadForCommand, LoadForImport, LoadForSettings
  <1>2. req[s] \in Request
    BY <1>1, Busy
  <1>3. TypeOK'
    BY LoadType
  <1>4. /\ req[s].asked \in Nat /\ req[s].payload \in SUBSET Edits
        /\ req[s].edit \in Edits /\ req[s].kind \in AllKinds
    BY <1>2 DEF Request
  <1>5. \A d \in Documents : rows[d].version \in Nat /\ rows[d].edits \in SUBSET Edits
    BY DEF TypeOK, Held
  <1>6. DocumentOf(req[s].kind) \in Documents /\ "state" \in Documents /\ "settings" \in Documents
    BY <1>4, DocumentType DEF Documents
  <1>7. RequestCovers(req[s])
    BY <1>1 DEF RequestsCover
  <1>8. CASE Forbid(s)
    BY <1>8, <1>1, <1>3, RefuseIInv DEF Forbid
  <1>9. CASE LoadForSave(s)
    <2>1. /\ req[s].kind \in {"put", "aux"} /\ Permitted(req[s].client, req[s].kind)
          /\ Refuse(s, "stale", row.version) \/ Work(s, req[s].asked, req[s].payload)
      BY <1>9 DEF LoadForSave
    <2>2. Covers(row, req[s].asked, req[s].payload)
      BY <1>1, <1>7, <2>1 DEF RequestCovers
    <2>3. CASE Refuse(s, "stale", row.version)
      BY <2>3, <1>1, <1>3, <1>5, <1>6, RefuseIInv
    <2>4. CASE Work(s, req[s].asked, req[s].payload)
      BY <2>2, <2>4, <1>1, <1>3, <1>4, WorkIInv
    <2>. QED
      BY <2>1, <2>3, <2>4
  <1>10. CASE LoadForCommand(s)
    <2> DEFINE applied == rows["state"].edits \cup {req[s].edit}
    <2>1. /\ req[s].kind \in {"command", "hours"}
          /\ \/ Refuse(s, "stale", rows["state"].version)
             \/ Refuse(s, "forbidden", 0)
             \/ rows["state"].version = req[s].asked /\ Work(s, req[s].asked, applied)
      BY <1>10 DEF LoadForCommand
    <2>2. CASE Refuse(s, "stale", rows["state"].version)
      BY <2>2, <1>1, <1>3, <1>5, <1>6, RefuseIInv
    <2>3. CASE Refuse(s, "forbidden", 0)
      BY <2>3, <1>1, <1>3, RefuseIInv
    <2>4. CASE rows["state"].version = req[s].asked /\ Work(s, req[s].asked, applied)
      <3>1. DocumentOf(req[s].kind) = "state"
        BY <2>1 DEF DocumentOf
      <3>2. Covers(rows["state"], req[s].asked, applied)
        BY <2>4, <1>5, <1>6 DEF Covers
      <3>3. applied \in SUBSET Edits
        BY <1>4, <1>5, <1>6
      <3>. HIDE DEF applied
      <3>. QED
        BY <3>1, <3>2, <3>3, <2>1, <2>4, <1>1, <1>3, <1>4, WorkIInv
    <2>. QED
      BY <2>1, <2>2, <2>3, <2>4
  <1>11. CASE LoadForImport(s)
    <2> DEFINE current == rows["state"].version
    <2>1. /\ req[s].kind = "import"
          /\ \/ Refuse(s, "invalid", current) \/ Refuse(s, "stale", current)
             \/ Work(s, current, req[s].payload)
      BY <1>11 DEF LoadForImport
    <2>2. current \in Nat
      BY <1>5, <1>6
    <2>3. CASE Refuse(s, "invalid", current) \/ Refuse(s, "stale", current)
      BY <2>2, <2>3, <1>1, <1>3, RefuseIInv
    <2>4. CASE Work(s, current, req[s].payload)
      BY <2>1, <2>2, <2>4, <1>1, <1>3, <1>4, WorkIInv
    <2>. QED
      BY <2>1, <2>3, <2>4
  <1>12. CASE LoadForSettings(s)
    <2>1. /\ req[s].kind = "settings"
          /\ Work(s, rows["settings"].version, req[s].payload)
      BY <1>12 DEF LoadForSettings
    <2>. QED
      BY <2>1, <1>1, <1>3, <1>4, <1>5, <1>6, WorkIInv
  <1>. QED
    BY <1>8, <1>9, <1>10, <1>11, <1>12

LEMMA StoreIInv ==
    ASSUME IInv, NEW s \in Slots, req[s].phase = "work", Store(s),
           rows[DocumentOf(req[s].kind)].version = req[s].basis
    PROVE  IInv'
  <1> USE DEF IInv
  <1> DEFINE d == DocumentOf(req[s].kind)
  <1>1. TypeOK'
    BY StoreType
  <1>2. /\ RowsAdvance
        /\ Covers(rows'[d], req'[s].told, req[s].payload)
        /\ req'[s] = [req[s] EXCEPT !.phase = "saved", !.told = req[s].basis + 1]
    BY StoreAdvances
  <1>3. req[s] \in Request
    BY Busy
  <1>4. /\ req'[s].phase = "saved" /\ req'[s].kind = req[s].kind
        /\ req'[s].payload = req[s].payload /\ req'[s].edit = req[s].edit
        /\ req'[s].client = req[s].client
    BY <1>2, <1>3 DEF Request
  <1>5. \A t \in Slots \ {s} : req'[t] = req[t]
    BY DEF Store, TypeOK
  <1>6. UNCHANGED <<copies, listening>>
    BY DEF Store
  <1>7. CopiesCover'
    BY <1>2, <1>6, OtherCopies
  <1>8. RequestCovers(req[s])
    BY DEF RequestsCover
  <1>9. RequestCovers(req[s])'
    BY <1>2, <1>4, <1>8 DEF RequestCovers
  <1>10. RequestsCover'
    BY <1>2, <1>5, <1>9, OtherRequests
  <1>11. ListenersWait'
    <2> SUFFICES ASSUME NEW c \in Clients, listening[c] # NoSlot
                 PROVE  /\ req'[listening[c]].phase # "free"
                        /\ req'[listening[c]].client = c
                        /\ req'[listening[c]].kind \in {"put", "aux"} =>
                             req'[listening[c]].payload
                                \subseteq copies[c][DocumentOf(req'[listening[c]].kind)].edits
      BY <1>6 DEF ListenersWait
    <2>1. listening[c] \in Slots
      BY DEF TypeOK
    <2>2. CASE listening[c] = s
      BY <2>2, <1>4 DEF ListenersWait
    <2>3. CASE listening[c] # s
      BY <2>1, <2>3, <1>5 DEF ListenersWait
    <2>. QED
      BY <2>2, <2>3
  <1>12. RereadIsCommand'
    BY <1>4, <1>5 DEF RereadIsCommand
  <1>. QED
    BY <1>1, <1>7, <1>10, <1>11, <1>12

LEMMA AnswerIInv ==
    ASSUME IInv, NEW s \in Slots, Answer(s)
    PROVE  IInv'
  <1> USE DEF IInv
  <1> DEFINE c == req[s].client
             d == DocumentOf(req[s].kind)
  <1>1. TypeOK'
    BY AnswerType
  <1>2. /\ req[s].phase # "free" /\ Answered(req[s])
        /\ req' = [req EXCEPT ![s] = Free] /\ UNCHANGED rows
    BY DEF Answer
  <1>3. req[s] \in Request
    BY <1>2, Busy
  <1>4. c \in Clients /\ d \in Documents
    BY <1>3, DocumentType DEF Request
  <1>5. req'[s].phase = "free" /\ \A t \in Slots \ {s} : req'[t] = req[t]
    BY <1>2 DEF TypeOK, Free
  <1>6. RowsAdvance
    BY <1>2, RowsUnchanged
  <1>7. RequestsCover'
    BY <1>5, <1>6, OtherRequests
  <1>8. RequestCovers(req[s])
    BY <1>2 DEF RequestsCover
  <1>9. CopiesCover'
    <2>1. CASE listening[c] # s
      <3>1. UNCHANGED copies
        BY <2>1 DEF Answer
      <3>. QED
        BY <3>1, <1>6, OtherCopies
    <2>2. CASE listening[c] = s
      <3>1. copies' = [copies EXCEPT ![c][d] = Adopt(req[s])]
        BY <2>2 DEF Answer
      <3>2. (ReadsAll(c, d) /\ d \in {"state", "aux"}) =>
               Covers(rows[d], Adopt(req[s]).version, Adopt(req[s]).edits)
        <4> SUFFICES ASSUME ReadsAll(c, d), d \in {"state", "aux"}
                     PROVE  Covers(rows[d], Adopt(req[s]).version, Adopt(req[s]).edits)
          OBVIOUS
        <4>1. CASE req[s].phase = "refused" \/ req[s].kind \in {"import", "settings"}
          <5>1. Adopt(req[s]) = copies[c][d]
            BY <4>1 DEF Adopt
          <5>. QED
            BY <5>1, <1>4 DEF CopiesCover
        <4>2. CASE req[s].phase = "reread" /\ req[s].kind \notin {"import", "settings"}
          <5>1. Adopt(req[s]) = [version |-> req[s].told,
                                 edits |-> View(c, d, req[s].payload)]
            BY <4>2 DEF Adopt
          <5>2. View(c, d, req[s].payload) = req[s].payload
            BY DEF View, ReadsAll
          <5>3. Covers(rows[d], req[s].told, req[s].payload)
            BY <4>2, <1>8 DEF RequestCovers
          <5>. QED
            BY <5>1, <5>2, <5>3
        <4>3. CASE req[s].phase = "saved" /\ req[s].kind \notin {"import", "settings"}
          <5>1. req[s].kind \in {"put", "aux"}
            BY <4>3, <1>2, <1>3 DEF Answered, Request, AllKinds
          <5>2. Adopt(req[s]) = [version |-> req[s].told, edits |-> copies[c][d].edits]
            BY <4>3 DEF Adopt
          <5>3. req[s].payload \subseteq copies[c][d].edits
            <6>1. listening[c] # NoSlot
              BY <2>2, SlotAssumption
            <6>. QED
              BY <6>1, <2>2, <1>4, <5>1 DEF ListenersWait
          <5>4. Covers(rows[d], req[s].told, req[s].payload)
            BY <4>3, <1>8 DEF RequestCovers
          <5>. QED
            BY <5>2, <5>3, <5>4 DEF Covers
        <4>. QED
          BY <4>1, <4>2, <4>3, <1>2 DEF Answered
      <3> SUFFICES ASSUME NEW c2 \in Clients, NEW d2 \in {"state", "aux"}, ReadsAll(c2, d2)
                   PROVE  Covers(rows[d2], copies'[c2][d2].version, copies'[c2][d2].edits)
        BY <1>2 DEF CopiesCover, ReadsAll
      <3>. HIDE DEF c, d
      <3>3. CASE c2 = c /\ d2 = d
        <4>1. copies'[c2][d2] = Adopt(req[s])
          BY <3>1, <3>3, <1>4 DEF TypeOK
        <4>. QED
          BY <4>1, <3>2, <3>3
      <3>4. CASE ~(c2 = c /\ d2 = d)
        <4>1. d2 \in Documents
          BY DEF Documents
        <4>2. copies'[c2][d2] = copies[c2][d2]
          BY <3>1, <3>4, <4>1, <1>4 DEF TypeOK
        <4>. QED
          BY <4>2 DEF CopiesCover
      <3>. QED
        BY <3>3, <3>4
    <2>. QED
      BY <2>1, <2>2
  <1>10. ListenersWait'
    <2> SUFFICES ASSUME NEW c2 \in Clients, listening'[c2] # NoSlot
                 PROVE  /\ req'[listening'[c2]].phase # "free"
                        /\ req'[listening'[c2]].client = c2
                        /\ req'[listening'[c2]].kind \in {"put", "aux"} =>
                             req'[listening'[c2]].payload
                                \subseteq copies'[c2][DocumentOf(req'[listening'[c2]].kind)].edits
      BY DEF ListenersWait
    <2> DEFINE t == listening[c2]
    <2>1. listening'[c2] = t /\ t # NoSlot
      BY <1>4 DEF Answer, TypeOK
    <2>2. t \in Slots
      BY <2>1 DEF TypeOK
    <2>3. /\ req[t].phase # "free" /\ req[t].client = c2
          /\ req[t].kind \in {"put", "aux"} =>
               req[t].payload \subseteq copies[c2][DocumentOf(req[t].kind)].edits
      BY <2>1 DEF ListenersWait
    <2>4. t # s
      <3> SUFFICES ASSUME t = s PROVE FALSE
        OBVIOUS
      <3>1. c2 = c
        BY <2>3
      <3>2. listening'[c2] = NoSlot
        BY <3>1, <1>4 DEF Answer, TypeOK
      <3>. QED
        BY <3>2
    <2>5. req'[t] = req[t]
      BY <2>2, <2>4, <1>5
    <2>6. copies'[c2] = copies[c2]
      <3>1. CASE c2 = c
        <4>1. UNCHANGED copies
          BY <3>1, <2>4 DEF Answer
        <4>. QED
          BY <4>1
      <3>2. CASE c2 # c
        <4>1. copies' = copies \/ copies' = [copies EXCEPT ![c][d] = Adopt(req[s])]
          BY DEF Answer
        <4>. HIDE DEF c, d
        <4>. QED
          BY <4>1, <3>2, <1>4 DEF TypeOK
      <3>. QED
        BY <3>1, <3>2
    <2>. HIDE DEF t
    <2>. QED
      BY <2>1, <2>3, <2>5, <2>6
  <1>11. RereadIsCommand'
    BY <1>5 DEF RereadIsCommand
  <1>. QED
    BY <1>1, <1>7, <1>9, <1>10, <1>11

LEMMA CrashIInv ==
    ASSUME IInv, NEW s \in Slots, Crash(s)
    PROVE  IInv'
  <1> USE DEF IInv
  <1>1. TypeOK'
    BY DEF Crash, TypeOK
  <1>2. req'[s].phase = "free" /\ \A t \in Slots \ {s} : req'[t] = req[t]
    BY DEF Crash, TypeOK, Free
  <1>3. UNCHANGED <<rows, copies>> /\ RowsAdvance
    BY RowsUnchanged DEF Crash
  <1>4. CopiesCover' /\ RequestsCover'
    BY <1>2, <1>3, OtherCopies, OtherRequests
  <1>5. ListenersWait'
    <2> SUFFICES ASSUME NEW c \in Clients, listening'[c] # NoSlot
                 PROVE  listening'[c] = listening[c] /\ req'[listening[c]] = req[listening[c]]
      BY <1>3 DEF ListenersWait
    <2>1. listening[c] # s /\ listening'[c] = listening[c]
      BY DEF Crash
    <2>2. listening[c] \in Slots
      BY <2>1 DEF TypeOK
    <2>. QED
      BY <2>1, <2>2, <1>2
  <1>6. RereadIsCommand'
    BY <1>2 DEF RereadIsCommand
  <1>. QED
    BY <1>1, <1>4, <1>5, <1>6

LEMMA HandleIInv ==
    ASSUME IInv, NEW s \in Slots, Handle(s)
    PROVE  IInv'
  <1> USE DEF IInv
  <1>0. TypeOK'
    BY HandleType
  <1>1. CASE \/ Forbid(s) \/ LoadForSave(s) \/ LoadForCommand(s)
             \/ LoadForImport(s) \/ LoadForSettings(s)
    BY <1>1, LoadIInv
  <1>2. CASE Throw(s)
    BY <1>0, <1>2, RefuseIInv DEF Throw
  <1>3. CASE Create(s) \/ Update(s)
    <2>1. /\ req[s].phase = "work" /\ Store(s)
          /\ rows[DocumentOf(req[s].kind)].version = req[s].basis
      BY <1>3 DEF Create, Update
    <2>. QED
      BY <2>1, StoreIInv
  <1>4. CASE Conflict(s)
    <2> DEFINE q == [req[s] EXCEPT !.phase = "conflict"]
    <2>1. req[s].phase = "work" /\ req[s] \in Request /\ RequestCovers(req[s])
      BY <1>4, Busy DEF Conflict, RequestsCover
    <2>2. q \in Request
      BY <2>1 DEF Request, Phases
    <2>3. /\ q.phase = "conflict" /\ q.client = req[s].client /\ q.kind = req[s].kind
          /\ q.payload = req[s].payload /\ q.edit = req[s].edit
      BY <2>1 DEF Request
    <2>4. req' = [req EXCEPT ![s] = q] /\ UNCHANGED <<rows, copies, listening>>
      BY <1>4 DEF Conflict
    <2>. HIDE DEF q
    <2>5. RequestCovers(q)
      BY <2>1, <2>3 DEF RequestCovers
    <2>. QED
      BY <1>0, <2>1, <2>2, <2>3, <2>4, <2>5, HandlerStep
  <1>5. CASE NameCurrent(s)
    <2>1. req[s].phase = "conflict" /\ req[s] \in Request
      BY <1>5, Busy DEF NameCurrent
    <2>2. rows[DocumentOf(req[s].kind)].version \in Nat
      BY <2>1, DocumentType DEF Request, TypeOK, Held
    <2>. QED
      BY <1>0, <1>5, <2>1, <2>2, RefuseIInv DEF NameCurrent
  <1>6. CASE ReRead(s)
    <2> DEFINE q == [req[s] EXCEPT !.phase = "reread", !.payload = rows["state"].edits]
    <2>1. /\ req[s].phase = "saved" /\ req[s].kind \in {"command", "hours"}
          /\ req[s] \in Request /\ RequestCovers(req[s])
      BY <1>6, Busy DEF ReRead, RequestsCover
    <2>2. rows["state"].edits \in SUBSET Edits
      BY DEF TypeOK, Held, Documents
    <2>3. q \in Request
      BY <2>1, <2>2 DEF Request, Phases
    <2>4. /\ q.phase = "reread" /\ q.client = req[s].client /\ q.kind = req[s].kind
          /\ q.payload = rows["state"].edits /\ q.told = req[s].told
      BY <2>1 DEF Request
    <2>5. req' = [req EXCEPT ![s] = q] /\ UNCHANGED <<rows, copies, listening>>
      BY <1>6 DEF ReRead
    <2>. HIDE DEF q
    <2>6. DocumentOf(q.kind) = "state"
      BY <2>1, <2>4 DEF DocumentOf
    <2>7. RequestCovers(q)
      BY <2>1, <2>4, <2>6 DEF RequestCovers, Covers
    <2>. QED
      BY <1>0, <2>1, <2>3, <2>4, <2>5, <2>7, HandlerStep DEF Commands
  <1>7. CASE Answer(s)
    BY <1>7, AnswerIInv
  <1>. QED
    BY <1>1, <1>2, <1>3, <1>4, <1>5, <1>6, <1>7 DEF Handle

LEMMA NextIInv == IInv /\ [Next]_vars => IInv'
  <1> SUFFICES ASSUME IInv, [Next]_vars PROVE IInv'
    OBVIOUS
  <1>1. ASSUME NEW c \in Clients, ClientStep(c) PROVE IInv'
    BY <1>1, ReadIInv, SendIInv, HangUpIInv DEF ClientStep
  <1>2. ASSUME NEW s \in Slots, Handle(s) PROVE IInv'
    BY <1>2, HandleIInv
  <1>3. ASSUME NEW s \in Slots, Crash(s) PROVE IInv'
    BY <1>3, CrashIInv
  <1>4. CASE UNCHANGED vars
    BY <1>4 DEF vars, IInv, TypeOK, CopiesCover, RequestsCover, RequestCovers,
                ListenersWait, RereadIsCommand
  <1>. QED
    BY <1>1, <1>2, <1>3, <1>4 DEF Next

\* Whatever a client holds or a request carries under the current version of a
\* document contains all of that document.
THEOREM CurrentIsComplete == Spec => []IInv
  BY InitIInv, NextIInv, PTL DEF Spec

-----------------------------------------------------------------------------
(* The refinements. *)

\* What an accepted save does to its document: every kind but the import and
\* the settings keeps all that was there.
LEMMA StoreExtends ==
    ASSUME IInv, NEW s \in Slots, Create(s) \/ Update(s)
    PROVE  LET d == DocumentOf(req[s].kind)
           IN  /\ rows'[d].version = rows[d].version + 1
               /\ rows'[d].edits = req[s].payload
               /\ req[s].payload \in SUBSET Edits /\ req[s].edit \in Edits
               /\ req[s].kind \in {"import", "settings"} => req[s].payload = {req[s].edit}
               /\ req[s].kind \notin {"import", "settings"} =>
                    rows[d].edits \subseteq req[s].payload
               /\ \A x \in Documents \ {d} : rows'[x] = rows[x]
  <1> USE DEF IInv
  <1> DEFINE d == DocumentOf(req[s].kind)
  <1>1. /\ req[s].phase = "work" /\ Store(s)
        /\ rows[d].version = req[s].basis
    BY DEF Create, Update
  <1>2. req[s] \in Request /\ RequestCovers(req[s])
    BY <1>1, Busy DEF RequestsCover
  <1>3. d \in Documents
    BY <1>2, DocumentType DEF Request
  <1>4. rows' = [rows EXCEPT ![d] = [version |-> rows[d].version + 1,
                                     edits |-> req[s].payload]]
    BY <1>1 DEF Store
  <1>5. req[s].payload \in SUBSET Edits /\ req[s].edit \in Edits
    BY <1>2 DEF Request
  <1>6. req[s].kind \notin {"import", "settings"} => rows[d].edits \subseteq req[s].payload
    BY <1>1, <1>2 DEF RequestCovers, Covers
  <1>7. req[s].kind \in {"import", "settings"} => req[s].payload = {req[s].edit}
    BY <1>2 DEF RequestCovers
  <1>. HIDE DEF d
  <1>8. /\ rows'[d] = [version |-> rows[d].version + 1, edits |-> req[s].payload]
        /\ \A x \in Documents \ {d} : rows'[x] = rows[x]
    BY <1>3, <1>4 DEF TypeOK
  <1>. QED
    BY <1>5, <1>6, <1>7, <1>8 DEF d

\* An accepted save is recorded as what it was.
LEMMA StoreRecords ==
    ASSUME TypeOK, NEW s \in Slots, Create(s) \/ Update(s)
    PROVE  LET d == DocumentOf(req[s].kind)
           IN  /\ LastIsImport(accepted'[d]) <=> req[s].kind = "import"
               /\ \A x \in Documents \ {d} : accepted'[x] = accepted[x]
  <1> DEFINE d == DocumentOf(req[s].kind)
             write == [kind |-> req[s].kind, edit |-> req[s].edit,
                       client |-> req[s].client, asked |-> req[s].asked,
                       overwrite |-> req[s].overwrite, basis |-> rows[d].version,
                       edits |-> req[s].payload]
  <1>1. req[s].phase = "work" /\ Store(s)
    BY DEF Create, Update
  <1>2. d \in Documents
    BY <1>1, Busy, DocumentType DEF Request
  <1>3. accepted' = [accepted EXCEPT ![d] = Append(@, write)]
    BY <1>1 DEF Store
  <1>4. write.kind = req[s].kind
    OBVIOUS
  <1>. HIDE DEF d, write
  <1>5. /\ accepted'[d] = Append(accepted[d], write)
        /\ accepted[d] \in Seq(Write)
        /\ \A x \in Documents \ {d} : accepted'[x] = accepted[x]
    BY <1>2, <1>3 DEF TypeOK
  <1>6. /\ accepted'[d] # << >>
        /\ accepted'[d][Len(accepted'[d])] = write
    BY <1>5
  <1>. QED
    BY <1>4, <1>5, <1>6 DEF LastIsImport, d

\* Nothing but an accepted save changes a row, or is recorded.
LEMMA OnlyStoreWrites ==
    ASSUME [Next]_vars
    PROVE  UNCHANGED <<rows, accepted>> \/ \E s \in Slots : Create(s) \/ Update(s)
  <1>1. ASSUME NEW c \in Clients, ClientStep(c) PROVE UNCHANGED <<rows, accepted>>
    BY <1>1 DEF ClientStep, Read, Send, HangUp
  <1>2. ASSUME NEW s \in Slots, Crash(s) PROVE UNCHANGED <<rows, accepted>>
    BY <1>2 DEF Crash
  <1>3. ASSUME NEW s \in Slots, Handle(s) PROVE UNCHANGED <<rows, accepted>> \/ Create(s) \/ Update(s)
    <2>1. CASE Forbid(s) \/ LoadForSave(s) \/ LoadForCommand(s)
      BY <2>1 DEF Forbid, LoadForSave, LoadForCommand
    <2>2. CASE LoadForImport(s) \/ LoadForSettings(s)
      BY <2>2 DEF LoadForImport, LoadForSettings
    <2>3. CASE Throw(s) \/ Conflict(s) \/ NameCurrent(s) \/ ReRead(s) \/ Answer(s)
      BY <2>3 DEF Throw, Conflict, NameCurrent, ReRead, Answer
    <2>. QED
      BY <1>3, <2>1, <2>2, <2>3 DEF Handle
  <1>4. CASE UNCHANGED vars
    BY <1>4 DEF vars
  <1>. QED
    BY <1>1, <1>2, <1>3, <1>4 DEF Next

LEMMA RegisterStep == IInv /\ [Next]_vars => [Register!SharedNext]_(Register!sharedVars)
  <1> SUFFICES ASSUME IInv, [Next]_vars
               PROVE  Register!SharedNext \/ UNCHANGED Register!sharedVars
    OBVIOUS
  <1>1. CASE UNCHANGED <<rows, accepted>>
    BY <1>1 DEF Register!sharedVars
  <1>2. ASSUME NEW s \in Slots, Create(s) \/ Update(s)
        PROVE  Register!SharedNext \/ UNCHANGED Register!sharedVars
    <2>1. req[s] \in Request
      BY <1>2, Busy DEF IInv, Create, Update
    <2>2. CASE req[s].kind \in {"aux", "settings"}
      <3>1. rows'["state"] = rows["state"] /\ accepted'["state"] = accepted["state"]
        BY <1>2, <2>2, StoreExtends, StoreRecords DEF IInv, DocumentOf, Documents
      <3>. QED
        BY <3>1 DEF Register!sharedVars
    <2>3. CASE req[s].kind = "import"
      <3>1. /\ rows'["state"].version = rows["state"].version + 1
            /\ rows'["state"].edits = {req[s].edit} /\ req[s].edit \in Edits
        BY <1>2, <2>3, StoreExtends DEF DocumentOf
      <3>2. LastIsImport(accepted'["state"])
        BY <1>2, <2>3, StoreRecords DEF IInv, DocumentOf
      <3>3. LastIsImport(accepted'["state"]) = TRUE
        BY <3>2 DEF LastIsImport
      <3>. QED
        BY <3>1, <3>3 DEF Register!SharedNext, Register!Replace
    <2>4. CASE req[s].kind \in {"put", "command", "hours"}
      <3>1. /\ rows'["state"].version = rows["state"].version + 1
            /\ rows'["state"].edits = req[s].payload
            /\ req[s].payload \in SUBSET Edits
            /\ rows["state"].edits \subseteq req[s].payload
        BY <1>2, <2>4, StoreExtends DEF DocumentOf
      <3>2. rows'["state"].edits = rows["state"].edits \cup req[s].payload
        BY <3>1
      <3>3. ~LastIsImport(accepted'["state"])
        BY <1>2, <2>4, StoreRecords DEF IInv, DocumentOf
      <3>4. LastIsImport(accepted'["state"]) = FALSE
        BY <3>3 DEF LastIsImport
      <3>. QED
        BY <3>1, <3>2, <3>4 DEF Register!SharedNext, Register!Extend
    <2>. QED
      BY <2>1, <2>2, <2>3, <2>4 DEF Request, AllKinds
  <1>. QED
    BY <1>1, <1>2, OnlyStoreWrites

\* No accepted save or command loses an edit of the version it replaces, for
\* any number of clients, requests, crashes and lost answers; only an import
\* takes anything away.
THEOREM RegisterRefinement == Spec => RegisterIsShared
  <1>1. Init => Register!SharedInit
    BY DEF Init, Register!SharedInit, Absent, Documents, LastIsImport
  <1>. QED
    BY <1>1, RegisterStep, CurrentIsComplete, PTL
       DEF Spec, RegisterIsShared, Register!SharedSpec

LEMMA AuxiliaryStep == IInv /\ [Next]_vars => [Auxiliary!SharedNext]_(Auxiliary!sharedVars)
  <1> SUFFICES ASSUME IInv, [Next]_vars
               PROVE  Auxiliary!SharedNext \/ UNCHANGED Auxiliary!sharedVars
    OBVIOUS
  <1>1. CASE UNCHANGED <<rows, accepted>>
    BY <1>1 DEF Auxiliary!sharedVars
  <1>2. ASSUME NEW s \in Slots, Create(s) \/ Update(s)
        PROVE  Auxiliary!SharedNext \/ UNCHANGED Auxiliary!sharedVars
    <2>1. CASE req[s].kind # "aux"
      <3>1. rows'["aux"] = rows["aux"] /\ accepted'["aux"] = accepted["aux"]
        BY <1>2, <2>1, StoreExtends, StoreRecords DEF IInv, DocumentOf, Documents
      <3>. QED
        BY <3>1 DEF Auxiliary!sharedVars
    <2>2. CASE req[s].kind = "aux"
      <3>1. /\ rows'["aux"].version = rows["aux"].version + 1
            /\ rows'["aux"].edits = req[s].payload
            /\ req[s].payload \in SUBSET Edits
            /\ rows["aux"].edits \subseteq req[s].payload
        BY <1>2, <2>2, StoreExtends DEF DocumentOf
      <3>2. rows'["aux"].edits = rows["aux"].edits \cup req[s].payload
        BY <3>1
      <3>3. ~LastIsImport(accepted'["aux"])
        BY <1>2, <2>2, StoreRecords DEF IInv, DocumentOf
      <3>4. LastIsImport(accepted'["aux"]) = FALSE
        BY <3>3 DEF LastIsImport
      <3>. QED
        BY <3>1, <3>2, <3>4 DEF Auxiliary!SharedNext, Auxiliary!Extend
    <2>. QED
      BY <2>1, <2>2
  <1>. QED
    BY <1>1, <1>2, OnlyStoreWrites

\* The auxiliary documents lose nothing at all.
THEOREM AuxiliaryRefinement == Spec => AuxiliaryIsShared
  <1>1. Init => Auxiliary!SharedInit
    BY DEF Init, Auxiliary!SharedInit, Absent, Documents, LastIsImport
  <1>. QED
    BY <1>1, AuxiliaryStep, CurrentIsComplete, PTL
       DEF Spec, AuxiliaryIsShared, Auxiliary!SharedSpec
-----------------------------------------------------------------------------
(* The answers and the history. *)

\* One request, against the row it is about and the history of that row.
AnswerOK(r, row, log) ==
    /\ r.asked <= row.version
    /\ r.phase = "work" => r.basis <= row.version
    /\ r.phase = "conflict" => r.basis < row.version
    /\ (r.phase \in {"work", "conflict"} /\ r.kind # "settings") => r.basis = r.asked
    /\ r.phase \in {"saved", "reread"} => r.told \in 1..Len(log)
    /\ r.phase = "saved" => /\ log[r.told].client = r.client
                            /\ log[r.told].edit = r.edit
                            /\ log[r.told].edits = r.payload
    /\ (r.phase = "refused" /\ r.why = "stale") =>
           r.told > (IF r.kind = "settings" THEN r.basis ELSE r.asked)

AnswersOK ==
    \A s \in Slots : req[s].phase # "free" =>
        AnswerOK(req[s], rows[DocumentOf(req[s].kind)], accepted[DocumentOf(req[s].kind)])

\* No client knows of a version that was never stored.
NoFuture == \A c \in Clients, d \in Documents : copies[c][d].version <= rows[d].version

\* The version of a document counts the saves it went through.
VersionsCount == \A d \in Documents : Len(accepted[d]) = rows[d].version

AInv == TypeOK /\ AnswersOK /\ NoFuture /\ VersionsCount

-----------------------------------------------------------------------------
LEMMA InitAInv == Init => AInv
  <1> SUFFICES ASSUME Init PROVE AInv
    OBVIOUS
  <1>1. TypeOK
    BY InitType
  <1>2. AnswersOK
    BY DEF Init, AnswersOK, Free
  <1>3. NoFuture /\ VersionsCount
    BY DEF Init, NoFuture, VersionsCount, Absent
  <1>. QED
    BY <1>1, <1>2, <1>3 DEF AInv

\* A step that changes no row, and one request at most.
LEMMA RequestStep ==
    ASSUME AInv, TypeOK', NEW s \in Slots, UNCHANGED <<rows, accepted>>,
           \A u \in Slots : u # s => req'[u] = req[u],
           req'[s].phase # "free" =>
               AnswerOK(req'[s], rows[DocumentOf(req'[s].kind)],
                                 accepted[DocumentOf(req'[s].kind)]),
           \A c \in Clients, d \in Documents : copies'[c][d].version <= rows[d].version
    PROVE  AInv'
  <1>1. AnswersOK'
    BY DEF AInv, AnswersOK
  <1>2. NoFuture' /\ VersionsCount'
    BY DEF AInv, NoFuture, VersionsCount
  <1>. QED
    BY <1>1, <1>2 DEF AInv

\* A refusal for another reason than a newer version.
LEMMA RefuseOtherwise ==
    ASSUME AInv, TypeOK', NEW s \in Slots, req[s].phase # "free",
           NEW why \in {"forbidden", "invalid"}, NEW told \in Nat, Refuse(s, why, told),
           UNCHANGED <<rows, copies, accepted>>
    PROVE  AInv'
  <1>1. req[s] \in Request
    BY Busy DEF AInv
  <1>2. req'[s] = [req[s] EXCEPT !.phase = "refused", !.why = why, !.told = told]
    BY DEF Refuse, AInv, TypeOK
  <1>3. /\ req'[s].phase = "refused" /\ req'[s].why # "stale"
        /\ req'[s].asked = req[s].asked /\ req'[s].kind = req[s].kind
    BY <1>1, <1>2 DEF Request
  <1>4. \A u \in Slots : u # s => req'[u] = req[u]
    BY DEF Refuse, AInv, TypeOK
  <1>5. AnswerOK(req'[s], rows[DocumentOf(req'[s].kind)], accepted[DocumentOf(req'[s].kind)])
    BY <1>3 DEF AInv, AnswersOK, AnswerOK
  <1>. QED
    BY <1>4, <1>5, RequestStep DEF AInv, NoFuture

\* A refusal that names a version later than the one the request rests on.
LEMMA RefuseStale ==
    ASSUME AInv, TypeOK', NEW s \in Slots, req[s].phase # "free",
           NEW told \in Nat, Refuse(s, "stale", told),
           told > (IF req[s].kind = "settings" THEN req[s].basis ELSE req[s].asked),
           UNCHANGED <<rows, copies, accepted>>
    PROVE  AInv'
  <1>1. req[s] \in Request
    BY Busy DEF AInv
  <1>2. req'[s] = [req[s] EXCEPT !.phase = "refused", !.why = "stale", !.told = told]
    BY DEF Refuse, AInv, TypeOK
  <1>3. /\ req'[s].phase = "refused" /\ req'[s].told = told /\ req'[s].basis = req[s].basis
        /\ req'[s].asked = req[s].asked /\ req'[s].kind = req[s].kind
    BY <1>1, <1>2 DEF Request
  <1>4. \A u \in Slots : u # s => req'[u] = req[u]
    BY DEF Refuse, AInv, TypeOK
  <1>5. AnswerOK(req'[s], rows[DocumentOf(req'[s].kind)], accepted[DocumentOf(req'[s].kind)])
    BY <1>3 DEF AInv, AnswersOK, AnswerOK
  <1>. QED
    BY <1>4, <1>5, RequestStep DEF AInv, NoFuture

\* The handler goes on to the save.
LEMMA WorkOn ==
    ASSUME AInv, TypeOK', NEW s \in Slots, req[s].phase # "free",
           NEW basis \in Nat, NEW payload, Work(s, basis, payload),
           basis <= rows[DocumentOf(req[s].kind)].version,
           req[s].kind # "settings" => basis = req[s].asked,
           UNCHANGED <<rows, copies, accepted>>
    PROVE  AInv'
  <1>1. req[s] \in Request
    BY Busy DEF AInv
  <1>2. req'[s] = [req[s] EXCEPT !.phase = "work", !.basis = basis, !.payload = payload]
    BY DEF Work, AInv, TypeOK
  <1>3. /\ req'[s].phase = "work" /\ req'[s].basis = basis
        /\ req'[s].asked = req[s].asked /\ req'[s].kind = req[s].kind
    BY <1>1, <1>2 DEF Request
  <1>4. \A u \in Slots : u # s => req'[u] = req[u]
    BY DEF Work, AInv, TypeOK
  <1>5. AnswerOK(req'[s], rows[DocumentOf(req'[s].kind)], accepted[DocumentOf(req'[s].kind)])
    BY <1>3 DEF AInv, AnswersOK, AnswerOK
  <1>. QED
    BY <1>4, <1>5, RequestStep DEF AInv, NoFuture

-----------------------------------------------------------------------------
(* The clients. *)

LEMMA SendAInv ==
    ASSUME AInv, TypeOK', NEW c \in Clients, NEW s \in Slots, NEW kind \in AllKinds,
           NEW e \in Edits, NEW overwrite \in BOOLEAN, Send(c, s, kind, e, overwrite)
    PROVE  AInv'
  <1> DEFINE d == DocumentOf(kind)
  <1>1. d \in Documents
    BY DocumentType
  <1>2. /\ req'[s].phase = "sent" /\ req'[s].kind = kind
        /\ req'[s].asked = copies[c][d].version
        /\ \A u \in Slots : u # s => req'[u] = req[u]
    BY DEF Send, AInv, TypeOK
  <1>3. UNCHANGED <<rows, accepted>>
    BY DEF Send
  <1>. HIDE DEF d
  <1>4. AnswerOK(req'[s], rows[d], accepted[d])
    BY <1>1, <1>2 DEF AnswerOK, AInv, NoFuture
  <1>5. ASSUME NEW b \in Clients, NEW x \in Documents
        PROVE  copies'[b][x].version = copies[b][x].version
    <2>1. copies[b][x] \in Held /\ copies[c][d] \in Held
      BY <1>1 DEF AInv, TypeOK
    <2>2. \/ copies' = copies
          \/ copies' = [copies EXCEPT ![c][d].edits = copies[c][d].edits \cup {e}]
      BY DEF Send, d
    <2>3. CASE copies' = [copies EXCEPT ![c][d].edits = copies[c][d].edits \cup {e}]
      <3>1. CASE b = c /\ x = d
        <4>1. copies'[b][x] = [copies[c][d] EXCEPT !.edits = copies[c][d].edits \cup {e}]
          BY <1>1, <2>3, <3>1 DEF AInv, TypeOK
        <4>. QED
          BY <2>1, <3>1, <4>1 DEF Held
      <3>2. CASE ~(b = c /\ x = d)
        <4>1. copies'[b][x] = copies[b][x]
          BY <1>1, <2>3, <3>2 DEF AInv, TypeOK
        <4>. QED
          BY <4>1
      <3>. QED
        BY <3>1, <3>2
    <2>. QED
      BY <2>2, <2>3
  <1>. QED
    BY <1>2, <1>3, <1>4, <1>5, RequestStep DEF AInv, NoFuture, d

LEMMA ClientAInv == ASSUME AInv, TypeOK', NEW c \in Clients, ClientStep(c) PROVE AInv'
  <1>1. ASSUME NEW d \in Documents, Read(c, d) PROVE AInv'
    <2>1. \A b \in Clients, x \in Documents :
              copies'[b][x].version <= rows[x].version
      <3>1. copies' = [copies EXCEPT ![c][d] = [version |-> rows[d].version,
                                                edits |-> View(c, d, rows[d].edits)]]
        BY <1>1 DEF Read
      <3>2. rows[d].version \in Nat
        BY DEF AInv, TypeOK, Held
      <3>. QED
        BY <3>1, <3>2 DEF AInv, TypeOK, NoFuture
    <2>2. UNCHANGED <<rows, req, accepted>>
      BY <1>1 DEF Read
    <2>. QED
      BY <2>1, <2>2 DEF AInv, AnswersOK, NoFuture, VersionsCount
  <1>2. ASSUME NEW s \in Slots, NEW kind \in AllKinds, NEW e \in Edits,
               NEW overwrite \in BOOLEAN, Send(c, s, kind, e, overwrite)
        PROVE  AInv'
    BY <1>2, SendAInv
  <1>3. CASE HangUp(c)
    BY <1>3 DEF HangUp, AInv, AnswersOK, NoFuture, VersionsCount
  <1>. QED
    BY <1>1, <1>2, <1>3 DEF ClientStep

-----------------------------------------------------------------------------
(* The handlers. *)

LEMMA LoadAInv ==
    ASSUME AInv, TypeOK', NEW s \in Slots,
           \/ Forbid(s) \/ LoadForSave(s) \/ LoadForCommand(s)
           \/ LoadForImport(s) \/ LoadForSettings(s) \/ Throw(s)
    PROVE  AInv'
  <1> DEFINE d == DocumentOf(req[s].kind)
  <1>1. req[s].phase \in {"sent", "work"}
    BY DEF Forbid, LoadForSave, LoadForCommand, LoadForImport, LoadForSettings, Throw
  <1>2. req[s] \in Request
    BY <1>1, Busy DEF AInv
  <1>3. /\ req[s].asked \in Nat /\ req[s].kind \in AllKinds
        /\ d \in Documents /\ rows[d].version \in Nat
        /\ req[s].asked <= rows[d].version
    BY <1>1, <1>2, DocumentType DEF Request, AInv, TypeOK, Held, AnswersOK, AnswerOK
  <1>4. UNCHANGED <<rows, copies, accepted>>
    BY DEF Forbid, LoadForSave, LoadForCommand, LoadForImport, LoadForSettings, Throw
  <1>5. ASSUME NEW basis \in Nat, NEW payload, Work(s, basis, payload),
               basis <= rows[d].version,
               req[s].kind # "settings" => basis = req[s].asked
        PROVE  AInv'
    BY <1>1, <1>4, <1>5, WorkOn
  <1>6. ASSUME Refuse(s, "stale", rows[d].version), rows[d].version # req[s].asked,
               req[s].kind # "settings"
        PROVE  AInv'
    <2>1. rows[d].version > req[s].asked
      BY <1>3, <1>6
    <2>. QED
      BY <1>1, <1>3, <1>4, <1>6, <2>1, RefuseStale
  <1>7. CASE Forbid(s) \/ Throw(s)
    BY <1>1, <1>4, <1>7, RefuseOtherwise DEF Forbid, Throw
  <1>8. CASE LoadForSave(s)
    <2>1. req[s].kind # "settings"
      BY <1>8 DEF LoadForSave
    <2>. QED
      BY <1>3, <1>5, <1>6, <1>8, <2>1 DEF LoadForSave
  <1>9. CASE LoadForCommand(s)
    <2>1. req[s].kind # "settings" /\ d = "state"
      BY <1>9 DEF LoadForCommand, DocumentOf
    <2>2. CASE rows["state"].version # req[s].asked
      BY <1>6, <1>9, <2>1, <2>2 DEF LoadForCommand
    <2>3. CASE rows["state"].version = req[s].asked
                 /\ Refuse(s, "forbidden", 0)
      BY <1>1, <1>4, <2>3, RefuseOtherwise
    <2>4. CASE rows["state"].version = req[s].asked
                 /\ Work(s, req[s].asked, rows["state"].edits \cup {req[s].edit})
      BY <1>3, <1>5, <2>4
    <2>. QED
      BY <1>9, <2>2, <2>3, <2>4 DEF LoadForCommand
  <1>10. CASE LoadForImport(s)
    <2>1. req[s].kind # "settings" /\ d = "state"
      BY <1>10 DEF LoadForImport, DocumentOf
    <2>2. CASE Refuse(s, "invalid", rows["state"].version)
      BY <1>1, <1>3, <1>4, <2>1, <2>2, RefuseOtherwise
    <2>3. CASE Refuse(s, "stale", rows["state"].version)
                 /\ req[s].asked # rows["state"].version
      BY <1>6, <2>1, <2>3
    <2>4. CASE /\ Work(s, rows["state"].version, req[s].payload)
               /\ rows["state"].version = 0 \/ req[s].asked = rows["state"].version
      <3>1. rows["state"].version = req[s].asked
        BY <1>3, <2>1, <2>4
      <3>. QED
        BY <1>3, <1>5, <2>1, <2>4, <3>1
    <2>5. rows["state"].version \in Nat
      BY <1>3, <2>1
    <2>. QED
      BY <1>10, <2>2, <2>3, <2>4, <2>5 DEF LoadForImport
  <1>11. CASE LoadForSettings(s)
    <2>1. req[s].kind = "settings" /\ d = "settings"
      BY <1>11 DEF LoadForSettings, DocumentOf
    <2>. QED
      BY <1>3, <1>5, <1>11, <2>1 DEF LoadForSettings
  <1>. QED
    BY <1>7, <1>8, <1>9, <1>10, <1>11

LEMMA ConflictAInv ==
    ASSUME AInv, TypeOK', NEW s \in Slots, Conflict(s) \/ NameCurrent(s) \/ ReRead(s)
    PROVE  AInv'
  <1> DEFINE d == DocumentOf(req[s].kind)
  <1>1. req[s] \in Request /\ req[s].phase # "free"
    BY Busy DEF AInv, Conflict, NameCurrent, ReRead
  <1>2. /\ d \in Documents /\ rows[d].version \in Nat
        /\ AnswerOK(req[s], rows[d], accepted[d])
    BY <1>1, DocumentType DEF Request, AInv, TypeOK, Held, AnswersOK
  <1>3. UNCHANGED <<rows, copies, accepted>>
    BY DEF Conflict, NameCurrent, ReRead
  <1>4. CASE Conflict(s)
    <2>1. /\ req'[s] = [req[s] EXCEPT !.phase = "conflict"]
          /\ \A u \in Slots : u # s => req'[u] = req[u]
      BY <1>4 DEF Conflict, AInv, TypeOK
    <2>2. /\ req'[s].phase = "conflict" /\ req'[s].basis = req[s].basis
          /\ req'[s].asked = req[s].asked /\ req'[s].kind = req[s].kind
      BY <1>1, <2>1 DEF Request
    <2>3. req[s].phase = "work" /\ rows[d].version # req[s].basis /\ req[s].basis \in Nat
      BY <1>1, <1>4 DEF Conflict, Request
    <2>4. AnswerOK(req'[s], rows[d], accepted[d])
      BY <1>2, <2>2, <2>3 DEF AnswerOK
    <2>. QED
      BY <1>3, <2>1, <2>2, <2>4, RequestStep DEF AInv, NoFuture
  <1>5. CASE NameCurrent(s)
    <2>1. req[s].phase = "conflict" /\ Refuse(s, "stale", rows[d].version)
      BY <1>5 DEF NameCurrent
    <2>2. rows[d].version > (IF req[s].kind = "settings" THEN req[s].basis ELSE req[s].asked)
      BY <1>1, <1>2, <2>1 DEF AnswerOK, Request
    <2>. QED
      BY <1>1, <1>2, <1>3, <2>1, <2>2, RefuseStale
  <1>6. CASE ReRead(s)
    <2>1. /\ req'[s] = [req[s] EXCEPT !.phase = "reread", !.payload = rows["state"].edits]
          /\ \A u \in Slots : u # s => req'[u] = req[u]
      BY <1>6 DEF ReRead, AInv, TypeOK
    <2>2. /\ req'[s].phase = "reread" /\ req'[s].told = req[s].told
          /\ req'[s].asked = req[s].asked /\ req'[s].kind = req[s].kind
      BY <1>1, <2>1 DEF Request
    <2>3. AnswerOK(req'[s], rows[d], accepted[d])
      BY <1>2, <1>6, <2>2 DEF AnswerOK, ReRead
    <2>. QED
      BY <1>3, <2>1, <2>2, <2>3, RequestStep DEF AInv, NoFuture
  <1>. QED
    BY <1>4, <1>5, <1>6

\* What a request was told stays true when its document goes on.
LEMMA StaysOK ==
    ASSUME NEW r \in Request, NEW row \in Held, NEW next \in Held, NEW log \in Seq(Write),
           NEW write, next.version = row.version + 1, AnswerOK(r, row, log)
    PROVE  AnswerOK(r, next, Append(log, write))
  <1>1. /\ r.asked \in Nat /\ r.basis \in Nat /\ row.version \in Nat
    BY DEF Request, Held
  <1>2. /\ 1..Len(log) \subseteq 1..Len(Append(log, write))
        /\ \A i \in 1..Len(log) : Append(log, write)[i] = log[i]
    OBVIOUS
  <1>3. r.told \in 1..Len(log) => Append(log, write)[r.told] = log[r.told]
    BY <1>2
  <1>. QED
    BY <1>1, <1>2, <1>3 DEF AnswerOK

LEMMA StoreAInv == ASSUME AInv, TypeOK', NEW s \in Slots, Create(s) \/ Update(s) PROVE AInv'
  <1> DEFINE d == DocumentOf(req[s].kind)
             write == [kind |-> req[s].kind, edit |-> req[s].edit,
                       client |-> req[s].client, asked |-> req[s].asked,
                       overwrite |-> req[s].overwrite, basis |-> rows[d].version,
                       edits |-> req[s].payload]
  <1>1. req[s].phase = "work" /\ Store(s) /\ rows[d].version = req[s].basis
    BY DEF Create, Update
  <1>2. req[s] \in Request
    BY <1>1, Busy DEF AInv
  <1>3. /\ d \in Documents /\ rows[d] \in Held /\ accepted[d] \in Seq(Write)
        /\ Len(accepted[d]) = rows[d].version
        /\ req[s].asked <= rows[d].version /\ req[s].asked \in Nat
    BY <1>1, <1>2, DocumentType
       DEF Request, AInv, TypeOK, VersionsCount, AnswersOK, AnswerOK
  <1>4. /\ rows' = [rows EXCEPT ![d] = [version |-> rows[d].version + 1,
                                        edits |-> req[s].payload]]
        /\ accepted' = [accepted EXCEPT ![d] = Append(@, write)]
        /\ UNCHANGED copies
    BY <1>1 DEF Store
  <1>5. /\ req'[s] = [req[s] EXCEPT !.phase = "saved", !.told = req[s].basis + 1]
        /\ \A u \in Slots : u # s => req'[u] = req[u]
    BY <1>1 DEF Store, AInv, TypeOK
  <1>6. /\ req'[s].phase = "saved" /\ req'[s].told = rows[d].version + 1
        /\ req'[s].client = req[s].client /\ req'[s].edit = req[s].edit
        /\ req'[s].payload = req[s].payload
        /\ req'[s].asked = req[s].asked /\ req'[s].kind = req[s].kind
    BY <1>1, <1>2, <1>5 DEF Request
  <1>7. /\ write.client = req[s].client /\ write.edit = req[s].edit
        /\ write.edits = req[s].payload
    OBVIOUS
  <1>. HIDE DEF d, write
  <1>8. /\ rows'[d].version = rows[d].version + 1 /\ rows'[d] \in Held
        /\ accepted'[d] = Append(accepted[d], write)
        /\ \A x \in Documents : x # d => rows'[x] = rows[x] /\ accepted'[x] = accepted[x]
    BY <1>3, <1>4 DEF AInv, TypeOK
  <1>9. /\ Len(accepted'[d]) = rows[d].version + 1
        /\ accepted'[d][rows[d].version + 1] = write
    BY <1>3, <1>8
  <1>10. AnswerOK(req'[s], rows'[d], accepted'[d])
    <2>1. rows[d].version \in Nat
      BY <1>3 DEF Held
    <2>2. /\ req'[s].asked <= rows'[d].version
          /\ req'[s].told \in 1..Len(accepted'[d])
      BY <1>3, <1>6, <1>8, <1>9, <2>1
    <2>3. accepted'[d][req'[s].told] = write
      BY <1>6, <1>9
    <2>. QED
      BY <1>6, <1>7, <2>2, <2>3 DEF AnswerOK
  <1>11. ASSUME NEW u \in Slots, u # s, req[u].phase # "free"
         PROVE  AnswerOK(req[u], rows'[DocumentOf(req[u].kind)], accepted'[DocumentOf(req[u].kind)])
    <2> DEFINE x == DocumentOf(req[u].kind)
    <2>1. req[u] \in Request
      BY <1>11, Busy DEF AInv
    <2>2. x \in Documents /\ AnswerOK(req[u], rows[x], accepted[x])
      BY <1>11, <2>1, DocumentType DEF Request, AInv, AnswersOK
    <2>. HIDE DEF x
    <2>3. ASSUME x = d PROVE AnswerOK(req[u], rows'[x], accepted'[x])
      BY <1>3, <1>8, <2>1, <2>2, <2>3, StaysOK
    <2>4. ASSUME x # d PROVE AnswerOK(req[u], rows'[x], accepted'[x])
      BY <1>8, <2>2, <2>4
    <2>5. AnswerOK(req[u], rows'[x], accepted'[x])
      BY <2>3, <2>4
    <2>. QED
      BY <2>5 DEF x
  <1>12. AnswersOK'
    BY <1>5, <1>6, <1>10, <1>11 DEF AnswersOK, d
  <1>13. VersionsCount'
    BY <1>3, <1>8, <1>9 DEF VersionsCount, AInv
  <1>14. NoFuture'
    <2> SUFFICES ASSUME NEW c \in Clients, NEW x \in Documents
                 PROVE  copies[c][x].version <= rows'[x].version
      BY <1>4 DEF NoFuture
    <2>1. copies[c][x].version \in Nat /\ rows[x].version \in Nat
      BY DEF AInv, TypeOK, Held
    <2>2. copies[c][x].version <= rows[x].version
      BY DEF AInv, NoFuture
    <2>. QED
      BY <1>8, <2>1, <2>2
  <1>. QED
    BY <1>12, <1>13, <1>14 DEF AInv

LEMMA AnswerAInv == ASSUME AInv, TypeOK', NEW s \in Slots, Answer(s) PROVE AInv'
  <1> DEFINE r == req[s]
             c == r.client
             d == DocumentOf(r.kind)
  <1>1. r \in Request /\ r.phase # "free"
    BY Busy DEF AInv, Answer
  <1>2. /\ d \in Documents /\ c \in Clients
        /\ AnswerOK(r, rows[d], accepted[d]) /\ Len(accepted[d]) = rows[d].version
        /\ rows[d].version \in Nat
    BY <1>1, DocumentType DEF Request, AInv, AnswersOK, VersionsCount, TypeOK, Held
  <1>3. /\ req'[s] = Free
        /\ \A u \in Slots : u # s => req'[u] = req[u]
        /\ UNCHANGED <<rows, accepted>>
    BY DEF Answer, AInv, TypeOK
  <1>4. Adopt(r).version <= rows[d].version
    <2>1. CASE r.phase = "refused" \/ r.kind \in {"import", "settings"}
      BY <1>2, <2>1 DEF Adopt, AInv, NoFuture
    <2>2. CASE ~(r.phase = "refused" \/ r.kind \in {"import", "settings"})
      <3>1. r.phase \in {"saved", "reread"}
        BY <2>2 DEF Answer, Answered
      <3>2. r.told <= rows[d].version
        BY <1>2, <3>1 DEF AnswerOK
      <3>. QED
        BY <2>2, <3>2 DEF Adopt
    <2>. QED
      BY <2>1, <2>2
  <1>5. copies' = copies \/ copies' = [copies EXCEPT ![c][d] = Adopt(r)]
    BY DEF Answer
  <1>. HIDE DEF r, c, d
  <1>6. \A b \in Clients, x \in Documents : copies'[b][x].version <= rows[x].version
    <2>1. CASE copies' = copies
      BY <2>1 DEF AInv, NoFuture
    <2>2. CASE copies' = [copies EXCEPT ![c][d] = Adopt(r)]
      BY <1>2, <1>4, <2>2 DEF AInv, TypeOK, NoFuture
    <2>. QED
      BY <1>5, <2>1, <2>2
  <1>7. req'[s].phase = "free"
    BY <1>3 DEF Free
  <1>. QED
    BY <1>3, <1>6, <1>7, RequestStep

LEMMA NextAInv == AInv /\ [Next]_vars => AInv'
  <1> SUFFICES ASSUME AInv, [Next]_vars PROVE AInv'
    OBVIOUS
  <1>1. TypeOK'
    BY NextType DEF AInv
  <1>2. ASSUME NEW c \in Clients, ClientStep(c) PROVE AInv'
    BY <1>1, <1>2, ClientAInv
  <1>3. ASSUME NEW s \in Slots, Handle(s) PROVE AInv'
    BY <1>1, <1>3, LoadAInv, StoreAInv, ConflictAInv, AnswerAInv DEF Handle
  <1>4. ASSUME NEW s \in Slots, Crash(s) PROVE AInv'
    <2>1. /\ req'[s].phase = "free"
          /\ \A u \in Slots : u # s => req'[u] = req[u]
          /\ UNCHANGED <<rows, copies, accepted>>
      BY <1>4 DEF Crash, AInv, TypeOK, Free
    <2>. QED
      BY <1>1, <2>1, RequestStep DEF AInv, NoFuture
  <1>5. CASE UNCHANGED vars
    BY <1>5 DEF vars, AInv, TypeOK, AnswersOK, AnswerOK, NoFuture, VersionsCount
  <1>. QED
    BY <1>2, <1>3, <1>4, <1>5 DEF Next

-----------------------------------------------------------------------------
\* Nobody knows of a version that was never stored, versions count the accepted
\* saves, and each request rests on the version it quotes.
THEOREM AnswersRestOnVersions == Spec => []AInv
  BY InitAInv, NextAInv, PTL DEF Spec

\* A save that succeeded is answered with the version it made, however many
\* others have been stored since (PrismaErpStateStore.save, expected + 1).
THEOREM AnswersAreTrue == Spec => []SavedAsTold
  <1>1. AInv => SavedAsTold
    <2> SUFFICES ASSUME AInv, NEW s \in Slots, req[s].phase = "saved"
                 PROVE  LET log == accepted[DocumentOf(req[s].kind)]
                        IN  /\ req[s].told \in 1..Len(log)
                            /\ log[req[s].told].client = req[s].client
                            /\ log[req[s].told].edit = req[s].edit
                            /\ log[req[s].told].edits = req[s].payload
      BY DEF SavedAsTold
    <2>. QED
      BY DEF AInv, AnswersOK, AnswerOK
  <1>. QED
    BY <1>1, AnswersRestOnVersions, PTL

\* "The record has changed" is said only of a record that has: the version in
\* the refusal, also when stale() reads it a transaction after the save failed,
\* is later than the one the request was based on.
THEOREM RefusalsAreGenuine == Spec => []StaleIsGenuine
  <1>1. AInv => StaleIsGenuine
    BY DEF AInv, AnswersOK, AnswerOK, StaleIsGenuine
  <1>. QED
    BY <1>1, AnswersRestOnVersions, PTL

-----------------------------------------------------------------------------
(* What the history of the accepted writes can never show. *)

\* What a request that is still worked on may do to the register it will meet.
Pending(r, row) ==
    /\ r.phase \in {"sent", "work"} => r.edit \in r.payload
    /\ (r.phase \in {"sent", "work"} /\ r.kind \in Commands /\ r.asked = row.version) =>
           r.edit \notin row.edits
    /\ (r.phase = "work" /\ r.kind = "hours" /\ SiteOnly(r.client) /\ r.basis = row.version) =>
           ~WeekApproved(row.edits)
    /\ (r.phase = "work" /\ r.kind = "import" /\ r.basis > 0) => r.overwrite

PendingOK == \A s \in Slots : req[s].phase # "free" => Pending(req[s], rows["state"])

\* Every client that holds the current register holds all its own edits in it,
\* also one that is sent nothing else.
OwnKept ==
    \A c \in Clients, e \in rows["state"].edits :
        (copies[c]["state"].version = rows["state"].version /\ Author[e] = c) =>
            e \in copies[c]["state"].edits

\* The row is what the last accepted write stored.
RowIsLast ==
    LET log == accepted["state"]
    IN  log # << >> => log[Len(log)].edits = rows["state"].edits

\* What was written since the last import is still there.
EditsLast ==
    LET log == accepted["state"]
    IN  \A i \in 1..Len(log) :
            (\A k \in i+1..Len(log) : log[k].kind # "import") =>
                log[i].edit \in rows["state"].edits

HInv == /\ IInv /\ AInv
        /\ PendingOK /\ OwnKept /\ RowIsLast /\ EditsLast
        /\ AppliedOnce /\ ApprovedWeekIsClosed /\ ImportNamesWhatItReplaces

-----------------------------------------------------------------------------
LEMMA InitHInv == Init => HInv
  <1> SUFFICES ASSUME Init PROVE HInv
    OBVIOUS
  <1>1. accepted["state"] = << >> /\ rows["state"].edits = {}
    BY DEF Init, Absent, Documents
  <1>2. PendingOK
    BY DEF Init, PendingOK, Free
  <1>3. OwnKept /\ RowIsLast /\ EditsLast
    BY <1>1 DEF OwnKept, RowIsLast, EditsLast
  <1>4. AppliedOnce /\ ApprovedWeekIsClosed /\ ImportNamesWhatItReplaces
    BY <1>1 DEF AppliedOnce, ApprovedWeekIsClosed, ImportNamesWhatItReplaces
  <1>. QED
    BY <1>2, <1>3, <1>4, InitIInv, InitAInv DEF HInv

\* A step that stores nothing, and changes one request at most.
LEMMA HistoryStep ==
    ASSUME HInv, IInv', AInv', NEW s \in Slots, UNCHANGED <<rows, accepted>>,
           \A u \in Slots : u # s => req'[u] = req[u],
           req'[s].phase # "free" => Pending(req'[s], rows["state"]),
           OwnKept'
    PROVE  HInv'
  <1>1. PendingOK'
    BY DEF HInv, PendingOK
  <1>2. (RowIsLast /\ EditsLast)'
    BY DEF HInv, RowIsLast, EditsLast
  <1>3. (AppliedOnce /\ ApprovedWeekIsClosed /\ ImportNamesWhatItReplaces)'
    BY DEF HInv, AppliedOnce, ApprovedWeekIsClosed, ImportNamesWhatItReplaces
  <1>. QED
    BY <1>1, <1>2, <1>3 DEF HInv

\* The same of a handler: it leaves the copies alone.
LEMMA HandlerHistory ==
    ASSUME HInv, IInv', AInv', NEW s \in Slots, UNCHANGED <<rows, accepted, copies>>,
           \A u \in Slots : u # s => req'[u] = req[u],
           req'[s].phase # "free" => Pending(req'[s], rows["state"])
    PROVE  HInv'
  <1>1. OwnKept'
    BY DEF HInv, OwnKept
  <1>. QED
    BY <1>1, HistoryStep

LEMMA RefuseHistory ==
    ASSUME HInv, IInv', AInv', NEW s \in Slots, req[s].phase # "free",
           NEW why, NEW told, Refuse(s, why, told), UNCHANGED <<rows, accepted, copies>>
    PROVE  HInv'
  <1>1. req[s] \in Request
    BY Busy DEF HInv, IInv
  <1>2. /\ req'[s] = [req[s] EXCEPT !.phase = "refused", !.why = why, !.told = told]
        /\ \A u \in Slots : u # s => req'[u] = req[u]
    BY DEF Refuse, HInv, IInv, TypeOK
  <1>3. req'[s].phase = "refused"
    BY <1>1, <1>2 DEF Request
  <1>4. Pending(req'[s], rows["state"])
    BY <1>3 DEF Pending
  <1>. QED
    BY <1>2, <1>4, HandlerHistory

LEMMA WorkHistory ==
    ASSUME HInv, IInv', AInv', NEW s \in Slots, req[s].phase = "sent",
           NEW basis \in Nat, NEW payload, Work(s, basis, payload),
           UNCHANGED <<rows, accepted, copies>>,
           req[s].edit \in payload,
           (req[s].kind = "hours" /\ SiteOnly(req[s].client)) =>
               ~WeekApproved(rows["state"].edits),
           (req[s].kind = "import" /\ basis > 0) => req[s].overwrite
    PROVE  HInv'
  <1>1. req[s] \in Request
    BY Busy DEF HInv, IInv
  <1>2. /\ req'[s] = [req[s] EXCEPT !.phase = "work", !.basis = basis, !.payload = payload]
        /\ \A u \in Slots : u # s => req'[u] = req[u]
    BY DEF Work, HInv, IInv, TypeOK
  <1>3. /\ req'[s].phase = "work" /\ req'[s].basis = basis /\ req'[s].payload = payload
        /\ req'[s].edit = req[s].edit /\ req'[s].kind = req[s].kind
        /\ req'[s].asked = req[s].asked /\ req'[s].client = req[s].client
        /\ req'[s].overwrite = req[s].overwrite
    BY <1>1, <1>2 DEF Request
  <1>4. Pending(req[s], rows["state"])
    BY DEF HInv, PendingOK
  <1>5. Pending(req'[s], rows["state"])
    BY <1>3, <1>4 DEF Pending
  <1>. QED
    BY <1>2, <1>5, HandlerHistory

-----------------------------------------------------------------------------
(* The clients. *)

LEMMA SendHistory ==
    ASSUME HInv, IInv', AInv', NEW c \in Clients, NEW s \in Slots, NEW kind \in AllKinds,
           NEW e \in Edits, NEW overwrite \in BOOLEAN, Send(c, s, kind, e, overwrite)
    PROVE  HInv'
  <1> DEFINE d    == DocumentOf(kind)
             held == copies[c][d].edits \cup {e}
             sent == [phase |-> "sent", client |-> c, kind |-> kind, edit |-> e,
                      asked |-> copies[c][d].version, overwrite |-> overwrite,
                      basis |-> 0,
                      payload |-> IF kind \in {"put", "aux"} THEN held ELSE {e},
                      told |-> 0, why |-> ""]
  <1>1. d \in Documents
    BY DocumentType
  <1>2. /\ req'[s] = sent
        /\ \A u \in Slots : u # s => req'[u] = req[u]
        /\ UNCHANGED <<rows, accepted>>
    BY DEF Send, HInv, IInv, TypeOK
  <1>3. sent.edit \in sent.payload
    OBVIOUS
  <1>4. (kind \in Commands /\ copies[c]["state"].version = rows["state"].version) =>
            e \notin rows["state"].edits
    <2>1. kind \in Commands => d = "state" /\ e \notin copies[c][d].edits
      BY DEF Send, Commands, DocumentOf
    <2>2. Author[e] = c
      BY DEF Send
    <2>. QED
      BY <2>1, <2>2 DEF HInv, OwnKept
  <1>5. kind \in Commands => sent.asked = copies[c]["state"].version
    BY DEF Commands, DocumentOf
  <1>6. sent.phase = "sent" /\ sent.kind = kind /\ sent.edit = e
    OBVIOUS
  <1>7. copies' = copies \/ copies' = [copies EXCEPT ![c][d].edits = held]
    BY DEF Send
  <1>. HIDE DEF sent
  <1>8. Pending(sent, rows["state"])
    BY <1>3, <1>4, <1>5, <1>6 DEF Pending
  <1>9. \A b \in Clients : /\ copies'[b]["state"].version = copies[b]["state"].version
                           /\ copies[b]["state"].edits \subseteq copies'[b]["state"].edits
    <2>1. CASE copies' = copies
      BY <2>1
    <2>2. CASE copies' = [copies EXCEPT ![c][d].edits = held]
      <3> SUFFICES ASSUME NEW b \in Clients
                   PROVE  /\ copies'[b]["state"].version = copies[b]["state"].version
                          /\ copies[b]["state"].edits \subseteq copies'[b]["state"].edits
        OBVIOUS
      <3>1. copies[b]["state"] \in Held /\ "state" \in Documents
        BY DEF HInv, IInv, TypeOK, Documents
      <3>2. CASE b = c /\ d = "state"
        <4>1. copies'[b]["state"] = [copies[b]["state"] EXCEPT !.edits = held]
          BY <1>1, <2>2, <3>1, <3>2 DEF HInv, IInv, TypeOK
        <4>. QED
          BY <3>1, <3>2, <4>1 DEF Held
      <3>3. CASE ~(b = c /\ d = "state")
        <4>. HIDE DEF d, held
        <4>1. copies'[b]["state"] = copies[b]["state"]
          BY <1>1, <2>2, <3>1, <3>3 DEF HInv, IInv, TypeOK
        <4>. QED
          BY <4>1
      <3>. QED
        BY <3>2, <3>3
    <2>. QED
      BY <1>7, <2>1, <2>2
  <1>10. OwnKept'
    BY <1>2, <1>9 DEF HInv, OwnKept
  <1>. QED
    BY <1>2, <1>8, <1>10, HistoryStep

LEMMA ClientHistory ==
    ASSUME HInv, IInv', AInv', NEW c \in Clients, ClientStep(c) PROVE HInv'
  <1>1. ASSUME NEW d \in Documents, Read(c, d) PROVE HInv'
    <2>1. /\ copies' = [copies EXCEPT ![c][d] = [version |-> rows[d].version,
                                                 edits |-> View(c, d, rows[d].edits)]]
          /\ UNCHANGED <<rows, req, accepted>>
      BY <1>1 DEF Read
    <2>2. OwnKept'
      <3> SUFFICES ASSUME NEW b \in Clients, NEW e \in rows["state"].edits,
                          copies'[b]["state"].version = rows["state"].version,
                          Author[e] = b
                   PROVE  e \in copies'[b]["state"].edits
        BY <2>1 DEF OwnKept
      <3>1. CASE b = c /\ d = "state"
        <4>1. copies'[b]["state"].edits = View(c, "state", rows["state"].edits)
          BY <2>1, <3>1 DEF HInv, IInv, TypeOK
        <4>. QED
          BY <3>1, <4>1 DEF View
      <3>2. CASE ~(b = c /\ d = "state")
        <4>1. copies'[b]["state"] = copies[b]["state"]
          BY <2>1, <3>2 DEF HInv, IInv, TypeOK, Documents
        <4>. QED
          BY <4>1 DEF HInv, OwnKept
      <3>. QED
        BY <3>1, <3>2
    <2>. QED
      BY <2>1, <2>2 DEF HInv, PendingOK, RowIsLast, EditsLast, AppliedOnce,
                        ApprovedWeekIsClosed, ImportNamesWhatItReplaces
  <1>2. ASSUME NEW s \in Slots, NEW kind \in AllKinds, NEW e \in Edits,
               NEW overwrite \in BOOLEAN, Send(c, s, kind, e, overwrite)
        PROVE  HInv'
    BY <1>2, SendHistory
  <1>3. CASE HangUp(c)
    BY <1>3 DEF HangUp, HInv, PendingOK, OwnKept, RowIsLast, EditsLast, AppliedOnce,
                ApprovedWeekIsClosed, ImportNamesWhatItReplaces
  <1>. QED
    BY <1>1, <1>2, <1>3 DEF ClientStep

-----------------------------------------------------------------------------
(* The handlers. *)

LEMMA LoadHistory ==
    ASSUME HInv, IInv', AInv', NEW s \in Slots,
           \/ Forbid(s) \/ LoadForSave(s) \/ LoadForCommand(s)
           \/ LoadForImport(s) \/ LoadForSettings(s) \/ Throw(s)
    PROVE  HInv'
  <1>1. req[s].phase \in {"sent", "work"}
    BY DEF Forbid, LoadForSave, LoadForCommand, LoadForImport, LoadForSettings, Throw
  <1>2. req[s] \in Request
    BY <1>1, Busy DEF HInv, IInv
  <1>3. /\ req[s].asked \in Nat /\ req[s].edit \in req[s].payload
        /\ \A d \in Documents : rows[d].version \in Nat
    BY <1>1, <1>2 DEF Request, HInv, IInv, TypeOK, Held, PendingOK, Pending
  <1>4. UNCHANGED <<rows, copies, accepted>>
    BY DEF Forbid, LoadForSave, LoadForCommand, LoadForImport, LoadForSettings, Throw
  <1>5. ASSUME NEW why, NEW told, Refuse(s, why, told) PROVE HInv'
    BY <1>1, <1>4, <1>5, RefuseHistory
  <1>6. CASE Forbid(s) \/ Throw(s)
    BY <1>5, <1>6 DEF Forbid, Throw
  <1>7. CASE LoadForSave(s)
    <2>1. CASE Work(s, req[s].asked, req[s].payload)
      BY <1>3, <1>4, <1>7, <2>1, WorkHistory DEF LoadForSave
    <2>. QED
      BY <1>5, <1>7, <2>1 DEF LoadForSave
  <1>8. CASE LoadForCommand(s)
    <2>1. CASE /\ Work(s, req[s].asked, rows["state"].edits \cup {req[s].edit})
               /\ ~(/\ req[s].kind = "hours" /\ SiteOnly(req[s].client)
                    /\ WeekApproved(rows["state"].edits))
      <3>1. req[s].phase = "sent" /\ req[s].kind # "import"
        BY <1>8 DEF LoadForCommand
      <3>2. req[s].edit \in rows["state"].edits \cup {req[s].edit}
        OBVIOUS
      <3>. QED
        BY <1>3, <1>4, <2>1, <3>1, <3>2, WorkHistory
    <2>. QED
      BY <1>5, <1>8, <2>1 DEF LoadForCommand
  <1>9. CASE LoadForImport(s)
    <2>1. CASE /\ Work(s, rows["state"].version, req[s].payload)
               /\ rows["state"].version > 0 => req[s].overwrite
      <3>1. /\ req[s].phase = "sent" /\ req[s].kind = "import"
            /\ rows["state"].version \in Nat
        BY <1>3, <1>9 DEF LoadForImport, Documents
      <3>. QED
        BY <1>3, <1>4, <2>1, <3>1, WorkHistory
    <2>. QED
      BY <1>5, <1>9, <2>1 DEF LoadForImport
  <1>10. CASE LoadForSettings(s)
    <2>1. rows["settings"].version \in Nat
      BY <1>3 DEF Documents
    <2>. QED
      BY <1>3, <1>4, <1>10, <2>1, WorkHistory DEF LoadForSettings
  <1>. QED
    BY <1>6, <1>7, <1>8, <1>9, <1>10

LEMMA ConflictHistory ==
    ASSUME HInv, IInv', AInv', NEW s \in Slots, Conflict(s) \/ NameCurrent(s) \/ ReRead(s)
    PROVE  HInv'
  <1>1. req[s] \in Request /\ req[s].phase # "free"
    BY Busy DEF HInv, IInv, Conflict, NameCurrent, ReRead
  <1>2. UNCHANGED <<rows, copies, accepted>>
    BY DEF Conflict, NameCurrent, ReRead
  <1>3. CASE NameCurrent(s)
    BY <1>1, <1>2, <1>3, RefuseHistory DEF NameCurrent
  <1>4. CASE Conflict(s) \/ ReRead(s)
    <2>1. /\ \/ req'[s] = [req[s] EXCEPT !.phase = "conflict"]
             \/ req'[s] = [req[s] EXCEPT !.phase = "reread",
                                         !.payload = rows["state"].edits]
          /\ \A u \in Slots : u # s => req'[u] = req[u]
      BY <1>4 DEF Conflict, ReRead, HInv, IInv, TypeOK
    <2>2. req'[s].phase \notin {"sent", "work"}
      BY <1>1, <2>1 DEF Request
    <2>3. Pending(req'[s], rows["state"])
      BY <2>2 DEF Pending
    <2>. QED
      BY <1>2, <2>1, <2>3, HandlerHistory
  <1>. QED
    BY <1>3, <1>4

\* A request that quotes an older version has nothing to fear from a newer one.
LEMMA StaysPending ==
    ASSUME NEW r \in Request, NEW row \in Held, NEW next \in Held,
           next.version = row.version + 1, Pending(r, row),
           r.kind \in Commands => r.asked <= row.version,
           (r.phase = "work" /\ r.kind = "hours") => r.basis <= row.version
    PROVE  Pending(r, next)
  <1>1. r.asked \in Nat /\ r.basis \in Nat /\ row.version \in Nat
    BY DEF Request, Held
  <1>. QED
    BY <1>1 DEF Pending, Commands

\* What the history of the register gains by one more write.
LEMMA RegisterHistory ==
    ASSUME NEW log \in Seq(Write), NEW row \in Held, NEW write \in Write,
           row.version = Len(log), write.basis = row.version,
           write.edit \in write.edits,
           log # << >> => log[Len(log)].edits = row.edits,
           write.kind # "import" => row.edits \subseteq write.edits,
           \A i \in 1..Len(log) : (\A k \in i+1..Len(log) : log[k].kind # "import") =>
               log[i].edit \in row.edits,
           NEW next, next = Append(log, write)
    PROVE  /\ Len(next) = Len(log) + 1 /\ next[Len(log) + 1] = write
           /\ \A i \in 1..Len(log) : next[i] = log[i]
           /\ \A i \in 1..Len(next) : (\A k \in i+1..Len(next) : next[k].kind # "import") =>
                  next[i].edit \in write.edits
           /\ (write.edit \notin row.edits) =>
                  \A i \in 1..Len(log) : log[i].edit = write.edit =>
                      \E k \in i+1..Len(log) : log[k].kind = "import"
  <1>1. /\ Len(next) = Len(log) + 1 /\ next[Len(log) + 1] = write
        /\ \A i \in 1..Len(log) : next[i] = log[i]
        /\ Len(log) \in Nat
    OBVIOUS
  <1>2. ASSUME NEW i \in 1..Len(next), \A k \in i+1..Len(next) : next[k].kind # "import"
        PROVE  next[i].edit \in write.edits
    <2>1. CASE i = Len(log) + 1
      BY <1>1, <2>1
    <2>2. CASE i # Len(log) + 1
      <3>1. i \in 1..Len(log) /\ Len(next) \in i+1..Len(next)
        BY <1>1, <2>2
      <3>2. write.kind # "import"
        BY <1>1, <1>2, <3>1
      <3>3. \A k \in i+1..Len(log) : log[k].kind # "import"
        BY <1>1, <1>2
      <3>4. log[i].edit \in row.edits
        BY <3>1, <3>3
      <3>. QED
        BY <1>1, <3>1, <3>2, <3>4
    <2>. QED
      BY <2>1, <2>2
  <1>. QED
    BY <1>1, <1>2

LEMMA StoreHistory ==
    ASSUME HInv, IInv', AInv', NEW s \in Slots, Create(s) \/ Update(s)
    PROVE  HInv'
  <1> DEFINE r     == req[s]
             d     == DocumentOf(r.kind)
             row   == rows["state"]
             log   == accepted["state"]
             write == [kind |-> r.kind, edit |-> r.edit, client |-> r.client,
                       asked |-> r.asked, overwrite |-> r.overwrite,
                       basis |-> rows[d].version, edits |-> r.payload]
  <1>1. /\ r.phase = "work" /\ Store(s) /\ rows[d].version = r.basis
        /\ UNCHANGED copies
    BY DEF Create, Update, Store
  <1>2. r \in Request
    BY <1>1, Busy DEF HInv, IInv
  <1>3. /\ d \in Documents /\ "state" \in Documents
        /\ row \in Held /\ row' \in Held /\ log \in Seq(Write) /\ row.version = Len(log)
    BY <1>2, DocumentType
       DEF Request, HInv, IInv, AInv, TypeOK, VersionsCount, Documents
  <1>4. /\ Pending(r, row)
        /\ AnswerOK(r, rows[d], accepted[d])
    BY <1>1 DEF HInv, PendingOK, AInv, AnswersOK
  <1>5. /\ accepted' = [accepted EXCEPT ![d] = Append(@, write)]
        /\ rows'[d].version = rows[d].version + 1 /\ rows'[d].edits = r.payload
        /\ r.kind \notin {"import", "settings"} => rows[d].edits \subseteq r.payload
        /\ \A x \in Documents \ {d} : rows'[x] = rows[x]
    BY <1>1, StoreExtends DEF Store, HInv
  <1>6. /\ req'[s] = [r EXCEPT !.phase = "saved", !.told = r.basis + 1]
        /\ \A u \in Slots : u # s => req'[u] = req[u]
    BY <1>1 DEF Store, HInv, IInv, TypeOK
  <1>7. Pending(req'[s], row')
    <2>1. req'[s].phase = "saved"
      BY <1>2, <1>6 DEF Request
    <2>. QED
      BY <2>1 DEF Pending
  <1>8. CASE d # "state"
    <2>1. row' = row /\ log' = log
      BY <1>3, <1>5, <1>8 DEF HInv, IInv, TypeOK
    <2>2. PendingOK'
      BY <1>6, <1>7, <2>1 DEF HInv, PendingOK
    <2>3. (OwnKept /\ RowIsLast /\ EditsLast)'
      BY <1>1, <2>1 DEF HInv, OwnKept, RowIsLast, EditsLast
    <2>4. (AppliedOnce /\ ApprovedWeekIsClosed /\ ImportNamesWhatItReplaces)'
      BY <2>1 DEF HInv, AppliedOnce, ApprovedWeekIsClosed, ImportNamesWhatItReplaces
    <2>. QED
      BY <2>2, <2>3, <2>4 DEF HInv
  <1>9. CASE d = "state"
    <2>1. write \in Write
      BY <1>2, <1>3, <1>9 DEF Request, Write, Held
    <2>2. /\ write.kind = r.kind /\ write.edit = r.edit /\ write.client = r.client
          /\ write.asked = r.asked /\ write.overwrite = r.overwrite
          /\ write.basis = row.version /\ write.edits = r.payload
      BY <1>9
    <2>3. log' = Append(log, write)
      BY <1>3, <1>5, <1>9 DEF HInv, IInv, TypeOK
    <2>4. /\ row'.version = row.version + 1 /\ row'.edits = write.edits
          /\ write.kind # "import" => row.edits \subseteq write.edits
      BY <1>5, <1>9, <2>2 DEF DocumentOf
    <2>5. /\ write.edit \in write.edits
          /\ log # << >> => log[Len(log)].edits = row.edits
          /\ \A i \in 1..Len(log) : (\A k \in i+1..Len(log) : log[k].kind # "import") =>
                 log[i].edit \in row.edits
      BY <1>1, <1>4, <2>2 DEF Pending, HInv, RowIsLast, EditsLast
    <2>6. r.asked = row.version /\ r.basis = row.version
      BY <1>1, <1>4, <1>9 DEF AnswerOK, DocumentOf
    <2>7. /\ r.kind \in Commands => write.edit \notin row.edits
          /\ (r.kind = "hours" /\ SiteOnly(r.client)) => ~WeekApproved(row.edits)
          /\ (r.kind = "import" /\ Len(log) > 0) => r.overwrite
      BY <1>1, <1>3, <1>4, <2>2, <2>6 DEF Pending
    <2>. HIDE DEF write, row, log, d, r
    <2>8. /\ Len(log') = Len(log) + 1 /\ log'[Len(log) + 1] = write
          /\ \A i \in 1..Len(log) : log'[i] = log[i]
          /\ \A i \in 1..Len(log') : (\A k \in i+1..Len(log') : log'[k].kind # "import") =>
                 log'[i].edit \in write.edits
          /\ (write.edit \notin row.edits) =>
                 \A i \in 1..Len(log) : log[i].edit = write.edit =>
                     \E k \in i+1..Len(log) : log[k].kind = "import"
      BY <1>3, <2>1, <2>2, <2>3, <2>4, <2>5, RegisterHistory
    <2>9. Len(log) \in Nat
      BY <1>3
    <2>10. AppliedOnce'
      <3> SUFFICES ASSUME NEW i \in 1..Len(log'), NEW j \in 1..Len(log'),
                          i < j, log'[i].edit = log'[j].edit, log'[j].kind \in Commands
                   PROVE  \E k \in i+1..j-1 : log'[k].kind = "import"
        BY DEF AppliedOnce, log
      <3>1. CASE j = Len(log) + 1
        <4>1. i \in 1..Len(log) /\ log[i].edit = write.edit /\ write.kind \in Commands
          BY <2>8, <2>9, <3>1
        <4>2. PICK k \in i+1..Len(log) : log[k].kind = "import"
          BY <2>2, <2>7, <2>8, <4>1
        <4>3. k \in i+1..j-1 /\ log'[k].kind = "import"
          BY <2>8, <2>9, <3>1, <4>2
        <4>. QED
          BY <4>3
      <3>2. CASE j # Len(log) + 1
        <4>1. j \in 1..Len(log) /\ i \in 1..Len(log)
          BY <2>8, <2>9, <3>2
        <4>2. PICK k \in i+1..j-1 : log[k].kind = "import"
          BY <2>8, <4>1 DEF HInv, AppliedOnce, log
        <4>3. log'[k] = log[k]
          BY <2>8, <4>1
        <4>. QED
          BY <4>2, <4>3
      <3>. QED
        BY <3>1, <3>2
    <2>11. ApprovedWeekIsClosed'
      <3> SUFFICES ASSUME NEW i \in 2..Len(log'),
                          log'[i].kind = "hours", SiteOnly(log'[i].client)
                   PROVE  ~WeekApproved(log'[i-1].edits)
        BY DEF ApprovedWeekIsClosed, log
      <3>1. CASE i = Len(log) + 1
        <4>1. log # << >> /\ log'[i-1] = log[Len(log)]
          BY <1>3, <2>8, <2>9, <3>1
        <4>2. log[Len(log)].edits = row.edits
          BY <4>1, <2>5
        <4>. QED
          BY <2>2, <2>7, <2>8, <3>1, <4>1, <4>2
      <3>2. CASE i # Len(log) + 1
        <4>1. i \in 2..Len(log) /\ log'[i] = log[i] /\ log'[i-1] = log[i-1]
          BY <2>8, <2>9, <3>2
        <4>. QED
          BY <4>1 DEF HInv, ApprovedWeekIsClosed, log
      <3>. QED
        BY <3>1, <3>2
    <2>12. ImportNamesWhatItReplaces'
      <3> SUFFICES ASSUME NEW i \in 2..Len(log'), log'[i].kind = "import"
                   PROVE  log'[i].overwrite /\ log'[i].asked = i - 1
        BY DEF ImportNamesWhatItReplaces, log
      <3>1. CASE i = Len(log) + 1
        BY <1>3, <2>2, <2>6, <2>7, <2>8, <2>9, <3>1
      <3>2. CASE i # Len(log) + 1
        <4>1. i \in 2..Len(log) /\ log'[i] = log[i]
          BY <2>8, <2>9, <3>2
        <4>. QED
          BY <4>1 DEF HInv, ImportNamesWhatItReplaces, log
      <3>. QED
        BY <3>1, <3>2
    <2>13. RowIsLast' /\ EditsLast'
      BY <2>4, <2>8 DEF RowIsLast, EditsLast, row, log
    <2>14. OwnKept'
      <3> SUFFICES ASSUME NEW c \in Clients PROVE copies[c]["state"].version # row'.version
        BY <1>1 DEF OwnKept, row
      <3>1. /\ copies[c]["state"].version \in Nat /\ row.version \in Nat
            /\ copies[c]["state"].version <= row.version
        BY <1>3 DEF HInv, IInv, AInv, TypeOK, Held, NoFuture, row
      <3>. QED
        BY <2>4, <3>1
    <2>15. PendingOK'
      <3> SUFFICES ASSUME NEW u \in Slots, u # s, req[u].phase # "free"
                   PROVE  Pending(req[u], row')
        BY <1>6, <1>7 DEF PendingOK, row
      <3>1. req[u] \in Request /\ Pending(req[u], row)
        BY Busy DEF HInv, IInv, PendingOK, row
      <3>2. req[u].kind \in Commands => DocumentOf(req[u].kind) = "state"
        BY DEF Commands, DocumentOf
      <3>3. req[u].kind \in Commands =>
                req[u].asked <= row.version /\ (req[u].phase = "work" => req[u].basis <= row.version)
        BY <3>2 DEF HInv, AInv, AnswersOK, AnswerOK, row
      <3>. QED
        BY <1>3, <2>4, <3>1, <3>3, StaysPending DEF Commands
    <2>. QED
      BY <2>10, <2>11, <2>12, <2>13, <2>14, <2>15 DEF HInv
  <1>. QED
    BY <1>8, <1>9

LEMMA AnswerHistory ==
    ASSUME HInv, IInv', AInv', NEW s \in Slots, Answer(s)
    PROVE  HInv'
  <1> DEFINE r == req[s]
             c == r.client
             d == DocumentOf(r.kind)
             row == rows["state"]
  <1>1. r \in Request /\ r.phase # "free" /\ Answered(r) /\ RequestCovers(r)
    BY Busy DEF HInv, IInv, Answer, RequestsCover
  <1>2. /\ d \in Documents /\ c \in Clients
    BY <1>1, DocumentType DEF Request
  <1>3. /\ req'[s].phase = "free"
        /\ \A u \in Slots : u # s => req'[u] = req[u]
        /\ UNCHANGED <<rows, accepted>>
    BY DEF Answer, HInv, IInv, TypeOK, Free
  <1>4. ASSUME listening[c] = s, d = "state", NEW e \in row.edits, Author[e] = c,
               Adopt(r).version = row.version
        PROVE  e \in Adopt(r).edits
    <2>1. CASE r.phase = "refused" \/ r.kind \in {"import", "settings"}
      <3>1. Adopt(r) = copies[c]["state"]
        BY <1>4, <2>1 DEF Adopt
      <3>. QED
        BY <1>2, <1>4, <3>1 DEF HInv, OwnKept
    <2>2. CASE r.phase = "reread" /\ r.kind \notin {"import", "settings"}
      <3>1. Adopt(r) = [version |-> r.told, edits |-> View(c, d, r.payload)]
        BY <2>2 DEF Adopt
      <3>2. row.edits \subseteq r.payload
        BY <1>1, <1>4, <2>2, <3>1 DEF RequestCovers, Covers
      <3>. QED
        BY <1>4, <3>1, <3>2 DEF View
    <2>3. CASE r.phase = "saved" /\ r.kind \notin {"import", "settings"}
      <3>1. r.kind \in {"put", "aux"}
        BY <1>1, <2>3 DEF Answered, Request, AllKinds
      <3>2. Adopt(r) = [version |-> r.told, edits |-> copies[c][d].edits]
        BY <2>3 DEF Adopt
      <3>3. row.edits \subseteq r.payload
        BY <1>1, <1>4, <2>3, <3>2 DEF RequestCovers, Covers
      <3>4. r.payload \subseteq copies[c][d].edits
        BY <1>2, <1>4, <3>1, SlotAssumption DEF HInv, IInv, ListenersWait
      <3>. QED
        BY <3>2, <3>3, <3>4
    <2>. QED
      BY <1>1, <2>1, <2>2, <2>3 DEF Answered
  <1>5. \/ copies' = copies
        \/ listening[c] = s /\ copies' = [copies EXCEPT ![c][d] = Adopt(r)]
    BY DEF Answer
  <1>. HIDE DEF r, c, d
  <1>6. OwnKept'
    <2> SUFFICES ASSUME NEW b \in Clients, NEW e \in row.edits,
                        copies'[b]["state"].version = row.version, Author[e] = b
                 PROVE  e \in copies'[b]["state"].edits
      BY <1>3 DEF OwnKept
    <2>1. CASE copies' = copies
      BY <2>1 DEF HInv, OwnKept
    <2>2. CASE listening[c] = s /\ copies' = [copies EXCEPT ![c][d] = Adopt(r)]
      <3>1. CASE b = c /\ d = "state"
        <4>1. copies'[b]["state"] = Adopt(r)
          BY <1>2, <2>2, <3>1 DEF HInv, IInv, TypeOK
        <4>. QED
          BY <1>4, <2>2, <3>1, <4>1
      <3>2. CASE ~(b = c /\ d = "state")
        <4>1. copies'[b]["state"] = copies[b]["state"]
          BY <1>2, <2>2, <3>2 DEF HInv, IInv, TypeOK, Documents
        <4>. QED
          BY <4>1 DEF HInv, OwnKept
      <3>. QED
        BY <3>1, <3>2
    <2>. QED
      BY <1>5, <2>1, <2>2
  <1>. QED
    BY <1>3, <1>6, HistoryStep

LEMMA NextHInv == HInv /\ [Next]_vars => HInv'
  <1> SUFFICES ASSUME HInv, [Next]_vars PROVE HInv'
    OBVIOUS
  <1>1. IInv' /\ AInv'
    BY NextIInv, NextAInv DEF HInv
  <1>2. ASSUME NEW c \in Clients, ClientStep(c) PROVE HInv'
    BY <1>1, <1>2, ClientHistory
  <1>3. ASSUME NEW s \in Slots, Handle(s) PROVE HInv'
    BY <1>1, <1>3, LoadHistory, StoreHistory, ConflictHistory, AnswerHistory DEF Handle
  <1>4. ASSUME NEW s \in Slots, Crash(s) PROVE HInv'
    <2>1. /\ req'[s].phase = "free"
          /\ \A u \in Slots : u # s => req'[u] = req[u]
          /\ UNCHANGED <<rows, copies, accepted>>
      BY <1>4 DEF Crash, HInv, IInv, TypeOK, Free
    <2>. QED
      BY <1>1, <2>1, HandlerHistory
  <1>5. CASE UNCHANGED vars
    BY <1>1, <1>5 DEF vars, HInv, PendingOK, OwnKept, RowIsLast, EditsLast, AppliedOnce,
                      ApprovedWeekIsClosed, ImportNamesWhatItReplaces
  <1>. QED
    BY <1>2, <1>3, <1>4, <1>5 DEF Next

-----------------------------------------------------------------------------
\* Whoever holds the current register holds all its own edits in it, the row is
\* the last write accepted, and what was written since the last import is there.
THEOREM HistoryIsKept == Spec => []HInv
  BY InitHInv, NextHInv, PTL DEF Spec

\* A command sent again because its answer was lost is not applied twice, for
\* any number of sessions, retries, crashes and requests worked on at once.
THEOREM CommandsApplyOnce == Spec => []AppliedOnce
  BY HistoryIsKept, PTL DEF HInv

\* refuseOutsideOwnHours looked at a document loaded earlier; no hours of a site
\* account are stored over a week that was approved in the meantime.
THEOREM ApprovedWeeksStayClosed == Spec => []ApprovedWeekIsClosed
  BY HistoryIsKept, PTL DEF HInv

\* An import replaces a register only when told to, and only the version named.
THEOREM ImportsNameTheirVersion == Spec => []ImportNamesWhatItReplaces
  BY HistoryIsKept, PTL DEF HInv
=============================================================================
