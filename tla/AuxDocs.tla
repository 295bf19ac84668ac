------------------------------ MODULE AuxDocs ------------------------------
(***************************************************************************)
(* The screens that keep a document of their own (Master Data, Financial   *)
(* Data), and the client they share, site/erp-docs.js: read once, written  *)
(* whole on change, one write on the wire and one promise for everybody    *)
(* who asked for a write meanwhile.                                        *)
(*                                                                         *)
(* A document is abstracted to the set of edits it reflects.  The server   *)
(* is atomic here (ErpState shows what makes it so); a read, a write or an  *)
(* answer may be lost.                                                     *)
(***************************************************************************)
EXTENDS Naturals, Sequences, FiniteSets

CONSTANTS Screens,        \* open pages on the same document
          Returns,        \* whether a page is come back to while it is saving
          MaxTyped,       \* bounds: edits made,
          MaxLosses,      \* reads, writes and answers lost,
          MaxOpened       \* and times the pages are opened

ASSUME TypedAssumption == MaxTyped \in Nat

VARIABLES stored,     \* the row of the document: [doc, version]
          pages,      \* each page's doc, version, and what waits on a save
          wire,       \* the writes each page has sent: [doc, version, for, answer]
          adrift,     \* writes no page waits for any more, which may still be served
          typed,      \* the edits made so far, and what their page was told of them
          writers,    \* history: whose write made each version
          losses, opened

auxVars == <<stored, pages, wire, adrift, typed, writers, losses, opened>>

Unanswered == "unanswered"
Writes == [doc : SUBSET (1..MaxTyped), version : Nat, for : SUBSET (1..MaxTyped),
           answer : {Unanswered, "ok", "stale"}]
PageStates == {"loading", "live", "failed"}

\* told: the red bar, "Your latest changes are NOT saved".  unsure: a write of
\* this page may or may not have been stored.
Opened == [state |-> "loading", doc |-> {}, version |-> 0, parked |-> {}, told |-> FALSE,
           unsure |-> FALSE]

AuxTypeOK ==
    /\ stored \in [doc : SUBSET (1..MaxTyped), version : Nat]
    /\ \A s \in Screens :
        /\ pages[s].state \in PageStates /\ pages[s].doc \subseteq DOMAIN typed
        /\ pages[s].parked \subseteq pages[s].doc /\ pages[s].version <= stored.version
        /\ wire[s] \subseteq Writes /\ Cardinality(wire[s]) <= 1
        /\ adrift[s] \subseteq Writes
    /\ typed \in [DOMAIN typed -> {"waits", "saved", "refused", "gone"}]
    /\ Len(writers) = stored.version

AuxInit ==
    /\ stored = [doc |-> {}, version |-> 0]
    /\ pages = [s \in Screens |-> Opened]
    /\ wire = [s \in Screens |-> {}] /\ adrift = wire
    /\ typed = <<>> /\ writers = <<>> /\ losses = 0 /\ opened = 0

ReadVersion == stored.version
(* load: a read that fails leaves its promise behind, and the page is not     *)
(* drawn until it is opened again. *)
LoadArrives(s) ==
    /\ pages[s].state = "loading"
    /\ pages' = [pages EXCEPT ![s].state = "live", ![s].doc = stored.doc,
                              ![s].version = ReadVersion]
    /\ UNCHANGED <<stored, wire, adrift, typed, writers, losses, opened>>
Loses == losses < MaxLosses /\ losses' = losses + 1
LoadFails(s) ==
    /\ pages[s].state = "loading" /\ Loses
    /\ pages' = [pages EXCEPT ![s].state = "failed"]
    /\ UNCHANGED <<stored, wire, adrift, typed, writers, opened>>

\* Fault: a write is sent while another one is on the wire.
FlushingNever(s) == FALSE
Flushing(s) == wire[s] # {}
Write(doc, version, edits) ==
    [doc |-> doc, version |-> version, for |-> edits, answer |-> Unanswered]

(* set and del: the page's document is changed at once, and flushed. *)
Set(s) ==
    LET e == Len(typed) + 1
        doc == pages[s].doc \cup {e}
    IN /\ pages[s].state = "live" /\ e <= MaxTyped
       /\ typed' = Append(typed, "waits")
       /\ IF Flushing(s)
          THEN /\ pages' = [pages EXCEPT ![s].doc = doc, ![s].parked = @ \cup {e}]
               /\ UNCHANGED wire
          ELSE /\ pages' = [pages EXCEPT ![s].doc = doc]
               /\ wire' = [wire EXCEPT ![s] = @ \cup {Write(doc, pages[s].version, {e})}]
       /\ UNCHANGED <<stored, adrift, writers, losses, opened>>

(* saveAuxDocument *)
IsCurrent(w) == w.version = stored.version
Stores(s, w) ==
    /\ stored' = [doc |-> w.doc, version |-> stored.version + 1]
    /\ writers' = Append(writers, s)
Serve(s) ==
    \E w \in wire[s] :
        /\ w.answer = Unanswered
        /\ IF IsCurrent(w) THEN Stores(s, w) ELSE UNCHANGED <<stored, writers>>
        /\ wire' = [wire EXCEPT ![s] = (@ \ {w}) \cup
               {[w EXCEPT !.answer = IF IsCurrent(w) THEN "ok" ELSE "stale"]}]
        /\ UNCHANGED <<pages, adrift, typed, losses, opened>>
ServeLate(s) ==
    \E w \in adrift[s] :
        /\ IsCurrent(w) /\ Stores(s, w)
        /\ adrift' = [adrift EXCEPT ![s] = @ \ {w}]
        /\ UNCHANGED <<pages, wire, typed, losses, opened>>
Unheard(s) == {w \in wire[s] : w.answer = Unanswered}

Told(edits, what) ==
    [e \in DOMAIN typed |-> IF e \in edits /\ typed[e] = "waits" THEN what ELSE typed[e]]

AfterRefusal(s, w) == Told(w.for \cup pages[s].parked, "refused")

FlushAgain(s, version) ==
    IF pages[s].parked = {} THEN {}
    ELSE {Write(pages[s].doc, version, pages[s].parked)}
Notified(p) == [p EXCEPT !.parked = {}, !.told = TRUE]

(* sendDoc, and drainFlush once it is answered. *)
Saved(s) ==
    \E w \in wire[s] :
        /\ w.answer = "ok"
        /\ typed' = Told(w.for, "saved")
        /\ pages' = [pages EXCEPT ![s].version = w.version + 1, ![s].parked = {}]
        /\ wire' = [wire EXCEPT ![s] = (@ \ {w}) \cup FlushAgain(s, w.version + 1)]
        /\ UNCHANGED <<stored, adrift, writers, losses, opened>>
Refused(s, w) ==
    /\ typed' = AfterRefusal(s, w)
    /\ wire' = [wire EXCEPT ![s] = @ \ {w}]
    /\ UNCHANGED <<stored, writers, opened>>
RefusedStale(s) ==
    \E w \in wire[s] :
        /\ w.answer = "stale" /\ Refused(s, w)
        /\ pages' = [pages EXCEPT ![s] = Notified(@)]
        /\ UNCHANGED <<losses, adrift>>
(* A network failure: the write, or the answer to it, is lost. *)
Lost(s) ==
    \E w \in wire[s] :
        /\ Loses /\ Refused(s, w)
        /\ pages' = [pages EXCEPT ![s] = [Notified(@) EXCEPT !.unsure = TRUE]]
        /\ adrift' = [adrift EXCEPT ![s] = @ \cup Unheard(s)]

(* The page is read again: because it says that something was not saved, or   *)
(* (erp-sync.js) on coming back to it when there is a newer version. *)
Unsaved(s) == {e \in DOMAIN typed : typed[e] = "waits"
                   /\ e \in pages[s].parked \cup UNION {w.for : w \in wire[s]}}
Reload(s) ==
    /\ opened < MaxOpened /\ opened' = opened + 1
    /\ \/ pages[s].told \/ pages[s].state = "failed"
       \/ pages[s].state = "live" /\ stored.version > pages[s].version
          /\ (Returns \/ ~Flushing(s))
    /\ typed' = Told(Unsaved(s), "gone")
    /\ adrift' = [adrift EXCEPT ![s] = @ \cup Unheard(s)]
    /\ pages' = [pages EXCEPT ![s] = [Opened EXCEPT !.unsure = adrift'[s] # {}]]
    /\ wire' = [wire EXCEPT ![s] = {}]
    /\ UNCHANGED <<stored, writers, losses>>

AuxNext ==
    \E s \in Screens : LoadArrives(s) \/ LoadFails(s) \/ Set(s) \/ Serve(s) \/ ServeLate(s)
                       \/ Saved(s) \/ RefusedStale(s) \/ Lost(s) \/ Reload(s)

(* Requests are served, and answers arrive. *)
AuxProgress(s) == LoadArrives(s) \/ Serve(s) \/ Saved(s) \/ RefusedStale(s)
-----------------------------------------------------------------------------
(* The document is SharedDocument's: "a save built on a stale read is REFUSED *)
(* rather than silently overwriting somebody". *)
Shared == INSTANCE SharedDocument
    WITH Items <- 1..MaxTyped, Replaceable <- FALSE,
         document <- stored.doc, version <- stored.version, imported <- FALSE
NothingOverwritten == Shared!SharedSpec

(* "Resolving here would report a save that never happened": an edit its page *)
(* was told is saved is in the stored document. *)
SavedIsStored == \A e \in DOMAIN typed : typed[e] = "saved" => e \in stored.doc

(* flush: "version must be read when the write is SENT, not when it is asked  *)
(* for, or two writes started close together both quote the stale one and the *)
(* second is refused as somebody else's work": a page is refused only when    *)
(* another one wrote since its read, or when it cannot know what became of a  *)
(* write of its own. *)
OwnWorkIsNotRefused ==
    \A s \in Screens : \A w \in wire[s] : w.answer = "stale" =>
        \/ pages[s].unsure
        \/ \E v \in w.version + 1..stored.version : writers[v] # s

(* "A failed save that looks like a successful one is the failure this module *)
(* exists to end": an edit that is nowhere is one whose page says so. *)
NoEditVanishes ==
    [][\A e \in DOMAIN typed : typed[e] = "waits" /\ typed'[e] \in {"refused", "gone"} =>
          \/ e \in stored.doc
          \/ \E s \in Screens : e \in pages[s].doc /\ (pages[s].told \/ pages'[s].told)]_auxVars

(* Every edit is answered: it is saved, or its page says it is not. *)
EveryEditAnswered ==
    \A e \in 1..MaxTyped : (e \in DOMAIN typed) ~> (e \in DOMAIN typed /\ typed[e] # "waits")

\* What the auxiliary documents promise with two screens typing and calls failing: what
\* a screen calls saved is stored, and a screen is not refused over its own save.
AuxHolds ==
    /\ AuxTypeOK
    /\ SavedIsStored
    /\ OwnWorkIsNotRefused
=============================================================================
