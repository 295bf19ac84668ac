----------------------------- MODULE Workspace -----------------------------
(***************************************************************************)
(* The browser side of the register: erp.html's persist, persistNow and    *)
(* mutateNow, the save queue of erp-store.js and the version watch of      *)
(* erp-sync.js, in several tabs that share one document on the server.     *)
(*                                                                         *)
(* A tab applies an edit to the engine it holds in memory and stores the   *)
(* WHOLE document some time later.  At most one save is on the wire; one   *)
(* more may be parked behind it.  What is parked is the engine's own state *)
(* object (ERP.toJSON returns it, not a copy), so a parked save sends what *)
(* the memory holds when the wire is free again.                           *)
(*                                                                         *)
(* The server is atomic here: ErpState shows what makes it so.  Its answer *)
(* to a save, and the request itself, may be lost or late.                 *)
(***************************************************************************)
EXTENDS Naturals, Sequences

CONSTANTS
    Tabs,       \* tabs whose account holds the whole document (not scoped)
    Edits,      \* what their users may do
    Author,     \* [Edits -> Tabs]
    Events,     \* what may befall a tab: a subset of AllEvents
    MaxEdits    \* bound: edits made over a behaviour

AllEvents == {"fail", "reload", "probe", "return"}

ASSUME AuthorAssumption == Author \in [Edits -> Tabs]
ASSUME EventsAssumption == Events \subseteq AllEvents
ASSUME BoundAssumption == MaxEdits \in Nat

VARIABLES
    row,    \* the stored document: [version, edits]
    log,    \* history: the tab whose save made each version
    tab,    \* what each page holds in memory
    wire,   \* the save each tab has on the wire
    adrift, \* saves no page is waiting for any more
    made    \* edits made so far

vars == <<row, log, tab, wire, adrift, made>>

Save == [by : Tabs, expected : Nat, edits : SUBSET Edits]
Idle == [stage |-> "idle"]
OnWire == [stage : {"sent", "ok", "stale"}, save : Save]

\* asking and parkedFor are the edits whose authors wait for the outcome of
\* the save on the wire and of the parked one; told those that were told that
\* their edit is stored.  banner is the red "NOT saved" bar, bar the green
\* "newer data" one, announced the version it last named, probe an answer to
\* GET /erp/version (0: none).
Page == [page : {"loading", "live", "down"}, memory : SUBSET Edits, version : Nat,
         debounce : BOOLEAN, parked : BOOLEAN,
         asking : SUBSET Edits, parkedFor : SUBSET Edits, told : SUBSET Edits,
         banner : {"", "conflict", "offline"},
         bar : BOOLEAN, announced : Nat, probe : Nat]

TypeOK ==
    /\ row \in [version : Nat, edits : SUBSET Edits]
    /\ log \in Seq(Tabs)
    /\ tab \in [Tabs -> Page]
    /\ wire \in [Tabs -> OnWire \cup {Idle}]
    /\ adrift \subseteq Save
    /\ made \in 0..MaxEdits

-----------------------------------------------------------------------------

FreshPage == [page |-> "loading", memory |-> {}, version |-> 0,
              debounce |-> FALSE, parked |-> FALSE,
              asking |-> {}, parkedFor |-> {}, told |-> {},
              banner |-> "", bar |-> FALSE, announced |-> 0, probe |-> 0]

Init ==
    /\ row = [version |-> 0, edits |-> {}]
    /\ log = << >>
    /\ tab = [t \in Tabs |-> FreshPage]
    /\ wire = [t \in Tabs |-> Idle]
    /\ adrift = {}
    /\ made = 0

-----------------------------------------------------------------------------
(* The page. *)

\* remoteLoadState: the document and the version every save will quote.
Load(t) ==
    /\ tab[t].page = "loading"
    /\ tab' = [tab EXCEPT ![t].page = "live", ![t].memory = row.edits,
                          ![t].version = row.version]
    /\ UNCHANGED <<row, log, wire, adrift, made>>

\* The first read fails: the page says so and changes nothing, it never seeds.
LoadFails(t) ==
    /\ "fail" \in Events
    /\ tab[t].page = "loading"
    /\ tab' = [tab EXCEPT ![t].page = "down"]
    /\ UNCHANGED <<row, log, wire, adrift, made>>

\* putState, for what the memory of a page p holds now.
Sent(t, p) == [stage |-> "sent",
               save |-> [by |-> t, expected |-> p.version, edits |-> p.memory]]

\* remoteSaveState called by the page p of tab t, where `waiting` are the edits
\* the caller will be told about: send, or park behind the save on the wire.
RequestSave(t, p, waiting) ==
    IF wire[t] = Idle
    THEN /\ wire' = [wire EXCEPT ![t] = Sent(t, p)]
         /\ tab' = [tab EXCEPT ![t] = [p EXCEPT !.asking = waiting]]
    ELSE /\ UNCHANGED wire
         /\ tab' = [tab EXCEPT ![t] = [p EXCEPT !.parked = TRUE,
                                                !.parkedFor = @ \cup waiting]]

CanMake(t, e) ==
    /\ tab[t].page = "live"
    /\ made < MaxEdits
    /\ Author[e] = t
    /\ e \notin tab[t].memory

\* mutate: applied in memory, and persist() starts the debounce again.
Mutate(t, e) ==
    /\ CanMake(t, e)
    /\ tab' = [tab EXCEPT ![t].memory = @ \cup {e}, ![t].debounce = TRUE]
    /\ made' = made + 1
    /\ UNCHANGED <<row, log, wire, adrift>>

\* mutateNow: applied in memory; persistNow() cancels the debounce and the
\* user is told the outcome of the save.
MutateNow(t, e) ==
    /\ CanMake(t, e)
    /\ RequestSave(t, [tab[t] EXCEPT !.memory = @ \cup {e}, !.debounce = FALSE], {e})
    /\ made' = made + 1
    /\ UNCHANGED <<row, log, adrift>>

\* Fault: a debounced save that finds the wire busy is dropped, not parked.
PersistIfIdle(t) ==
    /\ tab[t].debounce
    /\ IF wire[t] = Idle
       THEN RequestSave(t, [tab[t] EXCEPT !.debounce = FALSE], {})
       ELSE /\ UNCHANGED wire
            /\ tab' = [tab EXCEPT ![t].debounce = FALSE]
    /\ UNCHANGED <<row, log, adrift, made>>

\* The debounce runs out; nobody is told.
Persist(t) ==
    /\ tab[t].debounce
    /\ RequestSave(t, [tab[t] EXCEPT !.debounce = FALSE], {})
    /\ UNCHANGED <<row, log, adrift, made>>

\* Fault: what was parked is forgotten when the wire is free again.
SaveAcceptedForgetful(t) ==
    /\ wire[t].stage = "ok"
    /\ wire' = [wire EXCEPT ![t] = Idle]
    /\ tab' = [tab EXCEPT ![t].version = wire[t].save.expected + 1,
                          ![t].told = @ \cup tab[t].asking,
                          ![t].asking = {}, ![t].parked = FALSE, ![t].parkedFor = {}]
    /\ UNCHANGED <<row, log, adrift, made>>

\* Fault: a parked save quotes the version that was current when it was asked
\* for, not when it is sent.
SaveAcceptedEarlyVersion(t) ==
    LET p == [tab[t] EXCEPT !.version = wire[t].save.expected + 1,
                            !.told = @ \cup tab[t].asking]
    IN  /\ wire[t].stage = "ok"
        /\ IF p.parked
           THEN /\ wire' = [wire EXCEPT ![t] = Sent(t, tab[t])]
                /\ tab' = [tab EXCEPT ![t] = [p EXCEPT !.parked = FALSE, !.parkedFor = {},
                                                       !.asking = p.parkedFor]]
           ELSE /\ wire' = [wire EXCEPT ![t] = Idle]
                /\ tab' = [tab EXCEPT ![t] = [p EXCEPT !.asking = {}]]
        /\ UNCHANGED <<row, log, adrift, made>>

\* The save on the wire is accepted: the version advances, its authors are
\* told, and the wire goes to the document parked behind it.
SaveAccepted(t) ==
    LET p == [tab[t] EXCEPT !.version = wire[t].save.expected + 1,
                            !.told = @ \cup tab[t].asking]
    IN  /\ wire[t].stage = "ok"
        /\ IF p.parked
           THEN /\ wire' = [wire EXCEPT ![t] = Sent(t, p)]
                /\ tab' = [tab EXCEPT ![t] = [p EXCEPT !.parked = FALSE, !.parkedFor = {},
                                                       !.asking = p.parkedFor]]
           ELSE /\ wire' = [wire EXCEPT ![t] = Idle]
                /\ tab' = [tab EXCEPT ![t] = [p EXCEPT !.asking = {}]]
        /\ UNCHANGED <<row, log, adrift, made>>

\* Fault: the parked authors are told "saved" when the wire is released.
GiveUpResolving(t, banner) ==
    /\ wire' = [wire EXCEPT ![t] = Idle]
    /\ tab' = [tab EXCEPT ![t].banner = IF @ = "" THEN banner ELSE @,
                          ![t].told = @ \cup tab[t].parkedFor,
                          ![t].asking = {}, ![t].parked = FALSE, ![t].parkedFor = {}]

\* saveFailed and drainState(err): the bar goes up, once, and both the authors
\* of this save and the parked ones get the error; nothing is sent again.
GiveUp(t, banner) ==
    /\ wire' = [wire EXCEPT ![t] = Idle]
    /\ tab' = [tab EXCEPT ![t].banner = IF @ = "" THEN banner ELSE @,
                          ![t].asking = {}, ![t].parked = FALSE, ![t].parkedFor = {}]

\* Fault: after a conflict the page adopts the server's version, to try again.
SaveRefusedAdopting(t) ==
    /\ wire[t].stage = "stale"
    /\ wire' = [wire EXCEPT ![t] = Idle]
    /\ tab' = [tab EXCEPT ![t].version = row.version, ![t].debounce = TRUE,
                          ![t].asking = {}, ![t].parked = FALSE, ![t].parkedFor = {}]
    /\ UNCHANGED <<row, log, adrift, made>>

SaveRefused(t) ==
    /\ wire[t].stage = "stale"
    /\ GiveUp(t, "conflict")
    /\ UNCHANGED <<row, log, adrift, made>>

\* What becomes of a request nobody waits for: it may yet reach the server.
Abandon(t) ==
    \/ UNCHANGED adrift
    \/ wire[t].stage = "sent" /\ adrift' = adrift \cup {wire[t].save}

\* The fetch rejects, the request or its answer lost on the way; a 401, 403 or
\* 5xx answer ends the save in the same manner.
SaveFails(t) ==
    /\ "fail" \in Events
    /\ wire[t] # Idle
    /\ Abandon(t)
    /\ GiveUp(t, "offline")
    /\ UNCHANGED <<row, log, made>>

\* The page is replaced, with everything it held.
Replaced(t) ==
    /\ tab' = [tab EXCEPT ![t] = [FreshPage EXCEPT !.told = tab[t].told]]
    /\ wire' = [wire EXCEPT ![t] = Idle]
    /\ IF wire[t] = Idle THEN UNCHANGED adrift ELSE Abandon(t)
    /\ UNCHANGED <<row, log, made>>

\* The user reloads, or the system discards the page.
Reload(t) ==
    /\ "reload" \in Events
    /\ tab[t].page # "loading"
    /\ Replaced(t)

-----------------------------------------------------------------------------
(* The server. *)

\* One save against the version column; `answer` is what becomes of the wire.
Accept(save) ==
    /\ row' = [version |-> row.version + 1, edits |-> save.edits]
    /\ log' = Append(log, save.by)

Serve(t) ==
    /\ wire[t].stage = "sent"
    /\ IF wire[t].save.expected = row.version
       THEN /\ Accept(wire[t].save)
            /\ wire' = [wire EXCEPT ![t].stage = "ok"]
       ELSE /\ UNCHANGED <<row, log>>
            /\ wire' = [wire EXCEPT ![t].stage = "stale"]
    /\ UNCHANGED <<tab, adrift, made>>

\* A save whose page has gone reaches the server after all, or never does.
ServeAdrift(save) ==
    /\ save \in adrift
    /\ adrift' = adrift \ {save}
    /\ \/ save.expected = row.version /\ Accept(save)
       \/ UNCHANGED <<row, log>>
    /\ UNCHANGED <<tab, wire, made>>

-----------------------------------------------------------------------------
(* The watch. *)

\* GET /erp/version, on a timer, on focus, or when the page comes back.
Probe(t) ==
    /\ "probe" \in Events
    /\ tab[t].page = "live"
    /\ tab[t].probe = 0
    /\ row.version > 0
    /\ tab' = [tab EXCEPT ![t].probe = row.version]
    /\ UNCHANGED <<row, log, wire, adrift, made>>

News(t) == tab[t].probe > tab[t].version

\* Fault: a flag, not a number, remembers that the operator was told.
OfferedByFlag(p) == IF p.bar \/ p.announced # 0
                    THEN [p EXCEPT !.probe = 0]
                    ELSE [p EXCEPT !.bar = TRUE, !.announced = p.probe, !.probe = 0]

\* offerRefresh: say it once per version, and not while the bar is up.
Offered(p) == IF p.bar \/ p.probe <= p.announced
              THEN [p EXCEPT !.probe = 0]
              ELSE [p EXCEPT !.bar = TRUE, !.announced = p.probe, !.probe = 0]

\* The answer arrives and is no news, or is news while the operator works.
ProbeHeard(t) ==
    /\ tab[t].probe > 0
    /\ tab' = [tab EXCEPT ![t] = IF News(t) THEN Offered(@) ELSE [@ EXCEPT !.probe = 0]]
    /\ UNCHANGED <<row, log, wire, adrift, made>>

\* It is news to a page that has just come back, with no cursor in a field and
\* no drawer open: react() reloads it.
ProbeReloads(t) ==
    /\ "return" \in Events
    /\ tab[t].probe > 0
    /\ News(t)
    /\ Replaced(t)

Dismiss(t) ==
    /\ tab[t].bar
    /\ tab' = [tab EXCEPT ![t].bar = FALSE]
    /\ UNCHANGED <<row, log, wire, adrift, made>>

-----------------------------------------------------------------------------
Next ==
    \/ \E t \in Tabs :
        \/ Load(t) \/ LoadFails(t)
        \/ \E e \in Edits : Mutate(t, e) \/ MutateNow(t, e)
        \/ Persist(t)
        \/ SaveAccepted(t) \/ SaveRefused(t) \/ SaveFails(t)
        \/ Reload(t)
        \/ Serve(t)
        \/ Probe(t) \/ ProbeHeard(t) \/ ProbeReloads(t) \/ Dismiss(t)
    \/ \E save \in adrift : ServeAdrift(save)

Spec == Init /\ [][Next]_vars

\* A page loads, its timers run and the promise of its fetch settles.  Users
\* need not do anything.
Fairness ==
    \A t \in Tabs :
        /\ WF_vars(Load(t))
        /\ WF_vars(Persist(t))
        /\ WF_vars(Serve(t))
        /\ WF_vars(SaveAccepted(t) \/ SaveRefused(t) \/ SaveFails(t))
        /\ WF_vars(Probe(t))
        /\ WF_vars(ProbeHeard(t) \/ ProbeReloads(t))

FairSpec == Spec /\ Fairness

-----------------------------------------------------------------------------
(* Properties. *)

\* No tab's save takes an edit of another tab away, whatever is lost, late or
\* reloaded: a page quotes a version only with all of that version in memory.
Register == INSTANCE SharedDocument WITH
    Items <- Edits, Replaceable <- FALSE,
    document <- row.edits, version <- row.version, imported <- FALSE
RegisterIsShared == Register!SharedSpec

\* mutateNow tells the truth: whoever was told "saved" has the edit in the
\* register, also when the save was parked and superseded by a later one.
ToldIsStored == \A t \in Tabs : tab[t].told \subseteq row.edits

\* Work that is only in memory is on its way, or the red bar is up: persist()
\* swallows its errors, so the store has to have raised them.
UnsavedIsPendingOrWarned ==
    \A t \in Tabs :
        (tab[t].page = "live" /\ ~(tab[t].memory \subseteq row.edits)) =>
            \/ tab[t].debounce
            \/ wire[t] # Idle
            \/ tab[t].banner # ""

\* "Somebody else saved before you" names somebody else: the versions the tab
\* did not know of were not all its own.  (erp-store.js, above savingNow.)
ConflictIsSomebodyElse ==
    \A t \in Tabs : wire[t].stage = "stale" =>
        \E v \in (wire[t].save.expected + 1)..Len(log) : log[v] # t

\* A page that reloads itself takes nothing with it that is not stored.
ReloadKeepsWork ==
    [][\A t \in Tabs : ProbeReloads(t) => tab[t].memory \subseteq row.edits]_vars

\* An edit gets into the register, unless the red bar goes up or the page goes.
EditsSettle ==
    \A t \in Tabs, e \in Edits :
        (tab[t].page = "live" /\ e \in tab[t].memory) ~>
            (e \in row.edits \/ tab[t].banner # "" \/ tab[t].page # "live")

\* A page that has fallen behind is told: of every version, not only of the
\* first one the operator dismissed.
StalenessIsAnnounced ==
    \A t \in Tabs, v \in 1..MaxEdits :
        (tab[t].page = "live" /\ row.version >= v /\ tab[t].version < v) ~>
            (tab[t].page # "live" \/ tab[t].bar \/ tab[t].announced >= v \/ tab[t].version >= v)
=============================================================================
