--------------------------- MODULE Documents_proofs --------------------------
(***************************************************************************)
(* Proofs about the documents that pages and phones keep.                  *)
(* AuxDocs, for any number of screens and whatever is lost or late:        *)
(*   - ScreensShareTheDocument: no save takes an edit out of the document; *)
(*   - EditsAreAccountedFor: an edit that is nowhere is one whose page     *)
(*     says so, as long as no page is returned to while it is saving.      *)
(* Ladder, for any number of builds and pages:                             *)
(*   - LadderTyped holds whatever a deployment does;                       *)
(*   - RowsAreWhole as long as a page and its document come from one build;*)
(*   - SchemaKept and WorkKept as long as one build answers at a time and  *)
(*     none returns.                                                       *)
(* Both: DocumentsKept, the promises of the one and of the other.          *)
(* Crew, for any number of phones, commands on the wire and answers lost:  *)
(*   - CrewKept: a shift is stored once, and a screen that quotes the      *)
(*     version in force draws the rows in force.                           *)
(***************************************************************************)
EXTENDS Documents, Crew, FiniteSetTheorems, TLAPS

-----------------------------------------------------------------------------
(* AuxDocs: the documents of the auxiliary screens. *)

AuxSpec == AuxInit /\ [][AuxNext]_auxVars

Edits == 1..MaxTyped
Page == [state : PageStates, doc : SUBSET Edits, version : Nat, parked : SUBSET Edits,
         told : BOOLEAN, unsure : BOOLEAN]
Outcomes == {"waits", "saved", "refused", "gone"}

AuxTyped ==
    /\ stored \in [doc : SUBSET Edits, version : Nat]
    /\ pages \in [Screens -> Page]
    /\ wire \in [Screens -> SUBSET Writes] /\ adrift \in [Screens -> SUBSET Writes]
    /\ typed \in Seq(Outcomes) /\ Len(typed) <= MaxTyped
    /\ writers \in Seq(Screens) /\ Len(writers) = stored.version

\* What quotes the current version r.version has all of the document, of n edits.
Based(r, n, w) ==
    /\ w.version <= r.version /\ w.doc \subseteq 1..n
    /\ w.version = r.version => r.doc \subseteq w.doc

\* A write on the wire and the page that sent it.
WriteOK(r, n, p, w) ==
    /\ w.version = p.version /\ w.for \subseteq w.doc /\ w.doc \subseteq p.doc
    /\ w.answer = Unanswered => Based(r, n, w)
    /\ w.answer = "ok" => /\ w.version < r.version /\ w.for \subseteq r.doc
                          /\ w.version + 1 = r.version => r.doc \subseteq w.doc
\* A page, its wire W and its writes adrift A against the stored document.
PageOK(r, n, p, W, A) ==
    /\ p.state = "live" => Based(r, n, p)
    /\ p.doc \subseteq 1..n /\ p.version <= r.version /\ p.parked \subseteq p.doc
    /\ p.state # "live" => W = {}
    /\ W = {} => p.parked = {}
    /\ \A v, w \in W : v = w
    /\ \A w \in W : WriteOK(r, n, p, w)
    /\ \A w \in A : Based(r, n, w)

\* While a page knows what became of its writes, the versions after the one it quotes are
\* of others, but for the one it is about to be told of.
Knows(s, p, W, A, history) ==
    /\ A # {} => p.unsure
    /\ ~p.unsure /\ p.state = "live" =>
           /\ \A v \in p.version + 1..Len(history) : history[v] = s =>
                  v = p.version + 1 /\ \E w \in W : w.answer = "ok"
           /\ \A w \in W : w.answer = "stale" => w.version < Len(history)

AuxInv ==
    /\ AuxTyped
    /\ stored.doc \subseteq 1..Len(typed)
    /\ \A s \in Screens : PageOK(stored, Len(typed), pages[s], wire[s], adrift[s])
    /\ \A s \in Screens : Knows(s, pages[s], wire[s], adrift[s], writers)
    /\ SavedIsStored

LEMMA AuxStarts == AuxInit => AuxInv
  <1> SUFFICES ASSUME AuxInit PROVE AuxInv
    OBVIOUS
  <1>1. PICK no : no = FALSE
    OBVIOUS
  <1>2. PICK p : p = [state |-> "loading", doc |-> {}, version |-> 0, parked |-> {},
                      told |-> no, unsure |-> no]
    OBVIOUS
  <1>3. Opened = p /\ p \in Page /\ p.state = "loading" /\ p.doc = {} /\ p.version = 0
        /\ p.parked = {} /\ ~p.unsure
    BY <1>1, <1>2 DEF Opened, Page, PageStates
  <1>4. /\ pages \in [Screens -> Page] /\ \A s \in Screens : pages[s] = p
        /\ wire \in [Screens -> SUBSET Writes] /\ adrift \in [Screens -> SUBSET Writes]
        /\ \A s \in Screens : wire[s] = {} /\ adrift[s] = {}
    BY <1>3 DEF AuxInit
  <1>5. stored.doc = {} /\ stored.version = 0 /\ stored \in [doc : SUBSET Edits, version : Nat]
    BY DEF AuxInit
  <1>6. /\ typed \in Seq(Outcomes) /\ Len(typed) = 0 /\ DOMAIN typed = {}
        /\ writers \in Seq(Screens) /\ Len(writers) = 0
    BY DEF AuxInit
  <1>7. AuxTyped
    BY <1>4, <1>5, <1>6, TypedAssumption DEF AuxTyped
  <1>8. \A s \in Screens : PageOK(stored, Len(typed), pages[s], wire[s], adrift[s])
    BY <1>3, <1>4, <1>5 DEF PageOK
  <1>9. \A s \in Screens : Knows(s, pages[s], wire[s], adrift[s], writers)
    BY <1>3, <1>4 DEF Knows
  <1>. QED
    BY <1>5, <1>6, <1>7, <1>8, <1>9 DEF AuxInv, SavedIsStored

LEMMA Wider ==
    ASSUME NEW r, NEW p, NEW W, NEW A, NEW n \in Nat, NEW m \in Nat, n <= m,
           PageOK(r, n, p, W, A)
    PROVE  PageOK(r, m, p, W, A)
  <1>1. 1..n \subseteq 1..m
    OBVIOUS
  <1>. QED
    BY <1>1 DEF PageOK, WriteOK, Based

\* A step of one page by which nothing is stored.
LEMMA ScreenStep ==
    ASSUME AuxInv, NEW s \in Screens, NEW p \in Page, NEW W \in SUBSET Writes,
           NEW A \in SUBSET Writes, pages' = [pages EXCEPT ![s] = p],
           wire' = [wire EXCEPT ![s] = W], adrift' = [adrift EXCEPT ![s] = A],
           UNCHANGED <<stored, writers>>, typed' \in Seq(Outcomes),
           Len(typed) <= Len(typed'), Len(typed') <= MaxTyped, SavedIsStored',
           PageOK(stored, Len(typed'), p, W, A), Knows(s, p, W, A, writers)
    PROVE  AuxInv'
  <1>1. /\ pages \in [Screens -> Page] /\ wire \in [Screens -> SUBSET Writes]
        /\ adrift \in [Screens -> SUBSET Writes] /\ typed \in Seq(Outcomes)
    BY DEF AuxInv, AuxTyped
  <1>2. /\ pages' \in [Screens -> Page] /\ wire' \in [Screens -> SUBSET Writes]
        /\ adrift' \in [Screens -> SUBSET Writes]
        /\ pages'[s] = p /\ wire'[s] = W /\ adrift'[s] = A
        /\ \A u \in Screens : u # s =>
               pages'[u] = pages[u] /\ wire'[u] = wire[u] /\ adrift'[u] = adrift[u]
    BY <1>1
  <1>3. Len(typed) \in Nat /\ Len(typed') \in Nat
    BY <1>1
  <1>4. PICK n, m \in Nat : n = Len(typed) /\ m = Len(typed')
    BY <1>3
  <1>5. \A u \in Screens : PageOK(stored', Len(typed'), pages'[u], wire'[u], adrift'[u])
    <2>1. \A u \in Screens : PageOK(stored, n, pages[u], wire[u], adrift[u])
      BY <1>4 DEF AuxInv
    <2>2. \A u \in Screens : PageOK(stored, m, pages[u], wire[u], adrift[u])
      BY <2>1, <1>4, Wider
    <2>. QED
      BY <2>2, <1>2, <1>4
  <1>6. \A u \in Screens : Knows(u, pages'[u], wire'[u], adrift'[u], writers')
    BY <1>2 DEF AuxInv
  <1>7. stored'.doc \subseteq 1..Len(typed')
    BY <1>4 DEF AuxInv
  <1>8. AuxTyped'
    BY <1>2 DEF AuxInv, AuxTyped
  <1>. QED
    BY <1>5, <1>6, <1>7, <1>8 DEF AuxInv

\* The document grew by one version: whoever was up to date no longer is.
LEMMA Outdated ==
    ASSUME NEW r, NEW r2, NEW n \in Nat, NEW p \in Page, NEW W \in SUBSET Writes,
           NEW A \in SUBSET Writes, r.version \in Nat, r2.version = r.version + 1,
           r.doc \subseteq r2.doc, PageOK(r, n, p, W, A)
    PROVE  PageOK(r2, n, p, W, A)
  <1>1. p.version \in Nat /\ \A w \in W \cup A : w.version \in Nat
    BY DEF Page, Writes
  <1>2. \A w \in A : Based(r2, n, w)
    BY <1>1 DEF PageOK, Based
  <1>3. \A w \in W : WriteOK(r2, n, p, w)
    BY <1>1 DEF PageOK, WriteOK, Based
  <1>. QED
    BY <1>1, <1>2, <1>3 DEF PageOK, Based

\* A write is stored, from the wire of its page or adrift.
LEMMA StoreStep ==
    ASSUME AuxInv, NEW s \in Screens, NEW w \in Writes, Based(stored, Len(typed), w),
           IsCurrent(w), Stores(s, w), UNCHANGED <<pages, typed>>,
           NEW W \in SUBSET Writes, wire' = [wire EXCEPT ![s] = W],
           NEW A \in SUBSET Writes, adrift' = [adrift EXCEPT ![s] = A],
           PageOK(stored', Len(typed), pages[s], W, A),
           Knows(s, pages[s], W, A, writers')
    PROVE  AuxInv' /\ stored.doc \subseteq stored'.doc
  <1>1. /\ pages \in [Screens -> Page] /\ wire \in [Screens -> SUBSET Writes]
        /\ adrift \in [Screens -> SUBSET Writes] /\ typed \in Seq(Outcomes)
        /\ stored.doc \in SUBSET Edits /\ stored.version \in Nat
        /\ writers \in Seq(Screens) /\ Len(writers) = stored.version
    BY DEF AuxInv, AuxTyped
  <1>2. /\ wire' \in [Screens -> SUBSET Writes] /\ adrift' \in [Screens -> SUBSET Writes]
        /\ wire'[s] = W /\ adrift'[s] = A
        /\ \A u \in Screens : u # s => wire'[u] = wire[u] /\ adrift'[u] = adrift[u]
    BY <1>1
  <1>3. /\ stored'.doc = w.doc /\ stored'.version = stored.version + 1
        /\ stored' \in [doc : SUBSET Edits, version : Nat] /\ stored.doc \subseteq stored'.doc
        /\ stored'.doc \subseteq 1..Len(typed')
    BY <1>1 DEF Stores, Based, IsCurrent, Writes, Edits
  <1>4. /\ writers' \in Seq(Screens) /\ Len(writers') = Len(writers) + 1
        /\ writers'[Len(writers) + 1] = s
        /\ \A v \in 1..Len(writers) : writers'[v] = writers[v]
    BY <1>1 DEF Stores
  <1>5. PICK n \in Nat : n = Len(typed)
    BY <1>1
  <1>6. \A u \in Screens : PageOK(stored', Len(typed'), pages'[u], wire'[u], adrift'[u])
    <2>1. ASSUME NEW u \in Screens, u # s
          PROVE  PageOK(stored', n, pages[u], wire[u], adrift[u])
      <3>1. PageOK(stored, n, pages[u], wire[u], adrift[u])
        BY <1>5 DEF AuxInv
      <3>2. pages[u] \in Page /\ wire[u] \in SUBSET Writes /\ adrift[u] \in SUBSET Writes
        BY <1>1
      <3>. QED
        BY <1>1, <1>3, <3>1, <3>2, Outdated
    <2>2. PageOK(stored', n, pages[s], W, A)
      BY <1>5
    <2>3. pages' = pages /\ Len(typed') = n
      BY <1>5
    <2>. QED
      BY <2>1, <2>2, <2>3, <1>2
  <1>7. \A u \in Screens : Knows(u, pages'[u], wire'[u], adrift'[u], writers')
    <2>1. ASSUME NEW u \in Screens, u # s
          PROVE  Knows(u, pages[u], wire[u], adrift[u], writers')
      <3>1. Knows(u, pages[u], wire[u], adrift[u], writers)
        BY DEF AuxInv
      <3>2. pages[u] \in Page /\ wire[u] \in SUBSET Writes
        BY <1>1
      <3>3. PICK m \in Nat : m = Len(writers)
        BY <1>1
      <3>4. pages[u].version \in Nat /\ \A x \in wire[u] : x.version \in Nat
        BY <3>2 DEF Page, Writes
      <3>5. \A v \in pages[u].version + 1..m + 1 : writers'[v] = u =>
                v \in pages[u].version + 1..m /\ writers[v] = u
        BY <1>4, <2>1, <3>3, <3>4
      <3>. QED
        BY <1>4, <3>1, <3>3, <3>4, <3>5 DEF Knows
    <2>. QED
      BY <2>1, <1>2
  <1>8. SavedIsStored'
    BY <1>3 DEF AuxInv, SavedIsStored
  <1>9. AuxTyped'
    BY <1>1, <1>2, <1>3, <1>4 DEF AuxTyped, AuxInv
  <1>. QED
    BY <1>3, <1>6, <1>7, <1>8, <1>9 DEF AuxInv

LEMMA ServeStep ==
    ASSUME AuxInv, NEW s \in Screens, Serve(s)
    PROVE  AuxInv' /\ (UNCHANGED stored \/
               \E w \in Writes : Stores(s, w) /\ stored.doc \subseteq w.doc)
  <1>1. PICK w \in wire[s] :
            /\ w.answer = Unanswered
            /\ IF IsCurrent(w) THEN Stores(s, w) ELSE UNCHANGED <<stored, writers>>
            /\ wire' = [wire EXCEPT ![s] = (@ \ {w}) \cup
                   {[w EXCEPT !.answer = IF IsCurrent(w) THEN "ok" ELSE "stale"]}]
            /\ UNCHANGED <<pages, adrift, typed, losses, opened>>
    BY DEF Serve
  <1>2. /\ pages[s] \in Page /\ wire[s] \in SUBSET Writes /\ adrift[s] \in SUBSET Writes
        /\ w \in Writes /\ stored.version \in Nat /\ Len(typed) \in Nat
        /\ Len(writers) = stored.version /\ typed \in Seq(Outcomes) /\ Len(typed) <= MaxTyped
        /\ pages \in [Screens -> Page] /\ adrift \in [Screens -> SUBSET Writes]
        /\ writers \in Seq(Screens)
    BY DEF AuxInv, AuxTyped
  <1>3. PageOK(stored, Len(typed), pages[s], wire[s], adrift[s])
        /\ Knows(s, pages[s], wire[s], adrift[s], writers)
    BY DEF AuxInv
  <1>4. wire[s] = {w} /\ WriteOK(stored, Len(typed), pages[s], w)
        /\ Based(stored, Len(typed), w) /\ w.version = pages[s].version
        /\ pages[s].state = "live"
    BY <1>1, <1>3, <1>2 DEF PageOK, WriteOK, Page
  <1>5. PICK d : d = [w EXCEPT !.answer = IF IsCurrent(w) THEN "ok" ELSE "stale"]
    OBVIOUS
  <1>6. /\ d \in Writes /\ d.doc = w.doc /\ d.version = w.version /\ d.for = w.for
        /\ d.answer = IF IsCurrent(w) THEN "ok" ELSE "stale"
    BY <1>2, <1>5 DEF Writes
  <1>7. wire' = [wire EXCEPT ![s] = {d}] /\ adrift' = [adrift EXCEPT ![s] = adrift[s]]
    BY <1>1, <1>2, <1>4, <1>5
  <1>8. w.version \in Nat /\ pages[s].version \in Nat /\ Unanswered \notin {"ok", "stale"}
    BY <1>2 DEF Writes, Page, Unanswered
  <1>9. CASE IsCurrent(w)
    <2>1. Stores(s, w) /\ stored.doc \subseteq w.doc /\ stored.version = w.version
      BY <1>1, <1>4, <1>9 DEF Based, IsCurrent
    <2>2. stored'.doc = w.doc /\ stored'.version = stored.version + 1
          /\ writers' = Append(writers, s)
      BY <2>1 DEF Stores
    <2>3. PageOK(stored', Len(typed), pages[s], {d}, adrift[s])
      <3>1. PageOK(stored', Len(typed), pages[s], wire[s], adrift[s])
        BY <1>2, <1>3, <2>1, <2>2, Outdated
      <3>2. WriteOK(stored', Len(typed), pages[s], d)
        BY <1>4, <1>6, <1>8, <1>9, <2>1, <2>2 DEF WriteOK
      <3>. QED
        BY <3>1, <3>2, <1>4 DEF PageOK
    <2>4. Knows(s, pages[s], {d}, adrift[s], writers')
      <3>1. PICK m \in Nat : m = Len(writers)
        BY <1>2
      <3>2. Len(writers') = m + 1 /\ pages[s].version = m
        BY <1>2, <1>4, <2>1, <2>2, <3>1
      <3>. QED
        BY <1>3, <1>6, <1>9, <3>1, <3>2 DEF Knows
    <2>5. AuxInv'
      BY <1>1, <1>2, <1>4, <1>6, <1>7, <1>9, <2>1, <2>3, <2>4, StoreStep
    <2>. QED
      BY <1>2, <2>1, <2>5
  <1>10. CASE ~IsCurrent(w)
    <2>1. UNCHANGED <<stored, writers>> /\ d.answer = "stale" /\ w.version # stored.version
      BY <1>1, <1>6, <1>10 DEF IsCurrent
    <2>2. PageOK(stored, Len(typed), pages[s], {d}, adrift[s])
      <3>1. WriteOK(stored, Len(typed), pages[s], d)
        BY <1>4, <1>6, <1>8, <2>1 DEF WriteOK
      <3>. QED
        BY <3>1, <1>3, <1>4 DEF PageOK
    <2>3. Knows(s, pages[s], {d}, adrift[s], writers)
      <3>1. w.version < Len(writers)
        BY <1>2, <1>4, <1>8, <2>1 DEF Based
      <3>. QED
        BY <1>1, <1>3, <1>4, <1>6, <1>8, <2>1, <3>1 DEF Knows
    <2>4. SavedIsStored' /\ typed' = typed /\ pages' = [pages EXCEPT ![s] = pages[s]]
      BY <1>1, <1>2, <2>1 DEF AuxInv, SavedIsStored
    <2>5. /\ {d} \in SUBSET Writes /\ typed' \in Seq(Outcomes)
          /\ Len(typed) <= Len(typed') /\ Len(typed') <= MaxTyped
          /\ PageOK(stored, Len(typed'), pages[s], {d}, adrift[s])
      BY <1>2, <1>6, <2>2, <2>4
    <2>6. AuxInv'
      BY <1>2, <1>7, <2>1, <2>3, <2>4, <2>5, ScreenStep
    <2>. QED
      BY <2>1, <2>6
  <1>. QED
    BY <1>9, <1>10

LEMMA ServeLateStep ==
    ASSUME AuxInv, NEW s \in Screens, ServeLate(s)
    PROVE  AuxInv' /\ \E w \in Writes : Stores(s, w) /\ stored.doc \subseteq w.doc
  <1>1. PICK w \in adrift[s] :
            /\ IsCurrent(w) /\ Stores(s, w)
            /\ adrift' = [adrift EXCEPT ![s] = @ \ {w}]
            /\ UNCHANGED <<pages, wire, typed, losses, opened>>
    BY DEF ServeLate
  <1>2. /\ pages[s] \in Page /\ wire[s] \in SUBSET Writes /\ adrift[s] \in SUBSET Writes
        /\ w \in Writes /\ stored.version \in Nat /\ Len(typed) \in Nat
        /\ wire \in [Screens -> SUBSET Writes]
    BY DEF AuxInv, AuxTyped
  <1>3. PageOK(stored, Len(typed), pages[s], wire[s], adrift[s])
        /\ Knows(s, pages[s], wire[s], adrift[s], writers)
    BY DEF AuxInv
  <1>4. Based(stored, Len(typed), w) /\ stored.doc \subseteq w.doc
    BY <1>1, <1>3 DEF PageOK, Based, IsCurrent
  <1>5. stored'.doc = w.doc /\ stored'.version = stored.version + 1
    BY <1>1 DEF Stores
  <1>6. PICK A \in SUBSET Writes : A = adrift[s] \ {w}
    BY <1>2
  <1>7. PageOK(stored', Len(typed), pages[s], wire[s], A)
    <2>1. PageOK(stored', Len(typed), pages[s], wire[s], adrift[s])
      BY <1>2, <1>3, <1>4, <1>5, Outdated
    <2>. QED
      BY <2>1, <1>6 DEF PageOK
  <1>8. Knows(s, pages[s], wire[s], A, writers')
    BY <1>1, <1>3 DEF Knows
  <1>9. wire' = [wire EXCEPT ![s] = wire[s]] /\ adrift' = [adrift EXCEPT ![s] = A]
    BY <1>1, <1>2, <1>6
  <1>10. AuxInv'
    BY <1>1, <1>2, <1>4, <1>7, <1>8, <1>9, StoreStep
  <1>. QED
    BY <1>1, <1>2, <1>4, <1>10

LEMMA LoadStep ==
    ASSUME AuxInv, NEW s \in Screens, LoadArrives(s) \/ LoadFails(s)
    PROVE  AuxInv' /\ UNCHANGED <<stored, typed>>
  <1>1. /\ pages[s] \in Page /\ wire[s] \in SUBSET Writes /\ adrift[s] \in SUBSET Writes
        /\ stored.version \in Nat /\ stored.doc \in SUBSET Edits /\ Len(typed) \in Nat
        /\ typed \in Seq(Outcomes) /\ Len(typed) <= MaxTyped
        /\ Len(writers) = stored.version /\ stored.doc \subseteq 1..Len(typed)
        /\ wire \in [Screens -> SUBSET Writes] /\ adrift \in [Screens -> SUBSET Writes]
    BY DEF AuxInv, AuxTyped
  <1>2. PageOK(stored, Len(typed), pages[s], wire[s], adrift[s])
        /\ Knows(s, pages[s], wire[s], adrift[s], writers)
    BY DEF AuxInv
  <1>3. PICK p : p = IF LoadArrives(s)
                     THEN [pages[s] EXCEPT !.state = "live", !.doc = stored.doc,
                                           !.version = ReadVersion]
                     ELSE [pages[s] EXCEPT !.state = "failed"]
    OBVIOUS
  <1>4. /\ pages[s].state = "loading" /\ pages' = [pages EXCEPT ![s] = p]
        /\ UNCHANGED <<stored, wire, adrift, typed, writers>>
    BY <1>3 DEF LoadArrives, LoadFails
  <1>5. wire[s] = {} /\ pages[s].parked = {}
    BY <1>2, <1>4 DEF PageOK
  <1>6. /\ p \in Page /\ p.parked = {} /\ p.unsure = pages[s].unsure
        /\ \/ p.state = "live" /\ p.doc = stored.doc /\ p.version = stored.version
           \/ p.state = "failed" /\ p.doc = pages[s].doc /\ p.version = pages[s].version
    BY <1>1, <1>3, <1>5 DEF Page, PageStates, ReadVersion
  <1>7. PageOK(stored, Len(typed), p, wire[s], adrift[s])
    BY <1>1, <1>2, <1>5, <1>6 DEF PageOK, Based
  <1>8. Knows(s, p, wire[s], adrift[s], writers)
    BY <1>1, <1>2, <1>5, <1>6 DEF Knows
  <1>9. wire' = [wire EXCEPT ![s] = wire[s]] /\ adrift' = [adrift EXCEPT ![s] = adrift[s]]
    BY <1>1, <1>4
  <1>10. SavedIsStored' /\ typed' \in Seq(Outcomes) /\ Len(typed') = Len(typed)
    BY <1>1, <1>4 DEF AuxInv, SavedIsStored
  <1>11. /\ p \in Page /\ pages' = [pages EXCEPT ![s] = p] /\ UNCHANGED <<stored, writers>>
         /\ wire[s] \in SUBSET Writes /\ adrift[s] \in SUBSET Writes
         /\ Len(typed) <= Len(typed') /\ Len(typed') <= MaxTyped
         /\ PageOK(stored, Len(typed'), p, wire[s], adrift[s])
    BY <1>1, <1>4, <1>6, <1>7, <1>10
  <1>12. AuxInv'
    BY <1>8, <1>9, <1>10, <1>11, ScreenStep
  <1>. QED
    BY <1>4, <1>12

LEMMA SetStep ==
    ASSUME AuxInv, NEW s \in Screens, Set(s)
    PROVE  AuxInv' /\ stored' = stored /\ \A e \in DOMAIN typed : typed'[e] = typed[e]
  <1>1. /\ pages[s] \in Page /\ wire[s] \in SUBSET Writes /\ adrift[s] \in SUBSET Writes
        /\ stored.version \in Nat /\ stored.doc \in SUBSET Edits /\ Len(typed) \in Nat
        /\ typed \in Seq(Outcomes) /\ Len(typed) <= MaxTyped
        /\ Len(writers) = stored.version /\ stored.doc \subseteq 1..Len(typed)
        /\ pages \in [Screens -> Page]
        /\ wire \in [Screens -> SUBSET Writes] /\ adrift \in [Screens -> SUBSET Writes]
    BY DEF AuxInv, AuxTyped
  <1>2. PageOK(stored, Len(typed), pages[s], wire[s], adrift[s])
        /\ Knows(s, pages[s], wire[s], adrift[s], writers)
    BY DEF AuxInv
  <1>3. PICK n \in Nat : n = Len(typed)
    BY <1>1
  <1>4. PICK doc : doc = pages[s].doc \cup {n + 1}
    OBVIOUS
  <1>5. /\ pages[s].state = "live" /\ n + 1 <= MaxTyped /\ typed' = Append(typed, "waits")
        /\ UNCHANGED <<stored, adrift, writers>>
        /\ IF Flushing(s)
           THEN /\ pages' = [pages EXCEPT ![s].doc = doc, ![s].parked = @ \cup {n + 1}]
                /\ UNCHANGED wire
           ELSE /\ pages' = [pages EXCEPT ![s].doc = doc]
                /\ wire' = [wire EXCEPT ![s] = @ \cup
                               {Write(doc, pages[s].version, {n + 1})}]
    BY <1>3, <1>4 DEF Set
  <1>6. /\ typed' \in Seq(Outcomes) /\ Len(typed') = n + 1 /\ typed'[n + 1] = "waits"
        /\ \A e \in 1..n : typed'[e] = typed[e]
        /\ DOMAIN typed = 1..n /\ DOMAIN typed' = 1..n + 1
    BY <1>1, <1>3, <1>5 DEF Outcomes
  <1>7. SavedIsStored'
    BY <1>5, <1>6 DEF AuxInv, SavedIsStored
  <1>8. doc \in SUBSET Edits /\ doc \subseteq 1..n + 1 /\ pages[s].doc \subseteq doc
        /\ n + 1 \in doc /\ n + 1 \in Edits
    <2>1. pages[s].doc \subseteq 1..n
      BY <1>2, <1>3 DEF PageOK
    <2>. QED
      BY <2>1, <1>4, <1>5, TypedAssumption DEF Edits
  <1>9. PageOK(stored, n + 1, pages[s], wire[s], adrift[s])
    <2>1. n <= n + 1
      OBVIOUS
    <2>. QED
      BY <1>2, <1>3, <2>1, Wider
  <1>10. CASE Flushing(s)
    <2>1. PICK p : p = [pages[s] EXCEPT !.doc = doc, !.parked = @ \cup {n + 1}]
      OBVIOUS
    <2>2. /\ p \in Page /\ p.doc = doc /\ p.parked = pages[s].parked \cup {n + 1}
          /\ p.state = pages[s].state /\ p.version = pages[s].version
          /\ p.unsure = pages[s].unsure
      BY <2>1, <1>1, <1>8 DEF Page
    <2>3. pages' = [pages EXCEPT ![s] = p] /\ wire' = [wire EXCEPT ![s] = wire[s]]
          /\ adrift' = [adrift EXCEPT ![s] = adrift[s]]
      BY <1>1, <1>5, <1>10, <2>1
    <2>4. PageOK(stored, n + 1, p, wire[s], adrift[s])
      <3>1. wire[s] # {}
        BY <1>10 DEF Flushing
      <3>. QED
        BY <1>8, <1>9, <2>2, <3>1 DEF PageOK, WriteOK, Based
    <2>5. Knows(s, p, wire[s], adrift[s], writers)
      BY <1>2, <2>2 DEF Knows
    <2>6. /\ p \in Page /\ UNCHANGED <<stored, writers>> /\ typed' \in Seq(Outcomes)
          /\ wire[s] \in SUBSET Writes /\ adrift[s] \in SUBSET Writes
          /\ Len(typed) <= Len(typed') /\ Len(typed') <= MaxTyped
          /\ PageOK(stored, Len(typed'), p, wire[s], adrift[s])
      BY <1>1, <1>3, <1>5, <1>6, <2>2, <2>4
    <2>7. AuxInv'
      BY <1>7, <2>3, <2>5, <2>6, ScreenStep
    <2>. QED
      BY <1>5, <1>6, <2>7
  <1>11. CASE ~Flushing(s)
    <2>1. PICK p : p = [pages[s] EXCEPT !.doc = doc]
      OBVIOUS
    <2>2. /\ p \in Page /\ p.doc = doc /\ p.parked = pages[s].parked
          /\ p.state = pages[s].state /\ p.version = pages[s].version
          /\ p.unsure = pages[s].unsure
      BY <2>1, <1>1, <1>8 DEF Page
    <2>3. PICK w : w = Write(doc, pages[s].version, {n + 1})
      OBVIOUS
    <2>4. /\ w \in Writes /\ w.doc = doc /\ w.version = pages[s].version
          /\ w.for = {n + 1} /\ w.answer = Unanswered
      BY <1>1, <1>8, <2>3 DEF Write, Writes, Page, Edits
    <2>5. wire[s] = {} /\ pages[s].parked = {}
      BY <1>2, <1>11 DEF Flushing, PageOK
    <2>6. pages' = [pages EXCEPT ![s] = p] /\ wire' = [wire EXCEPT ![s] = {w}]
          /\ adrift' = [adrift EXCEPT ![s] = adrift[s]]
      BY <1>1, <1>5, <1>11, <2>1, <2>3, <2>5
    <2>7. PageOK(stored, n + 1, p, {w}, adrift[s])
      <3>1. Based(stored, n + 1, p) /\ Based(stored, n + 1, w)
        BY <1>5, <1>8, <1>9, <2>2, <2>4 DEF PageOK, Based
      <3>2. WriteOK(stored, n + 1, p, w)
        BY <3>1, <1>8, <2>2, <2>4 DEF WriteOK, Unanswered
      <3>. QED
        BY <3>1, <3>2, <1>5, <1>8, <1>9, <2>2, <2>5 DEF PageOK
    <2>8. Knows(s, p, {w}, adrift[s], writers)
      BY <1>2, <2>2, <2>4, <2>5 DEF Knows, Unanswered
    <2>9. /\ p \in Page /\ UNCHANGED <<stored, writers>> /\ typed' \in Seq(Outcomes)
          /\ {w} \in SUBSET Writes /\ adrift[s] \in SUBSET Writes
          /\ Len(typed) <= Len(typed') /\ Len(typed') <= MaxTyped
          /\ PageOK(stored, Len(typed'), p, {w}, adrift[s])
      BY <1>1, <1>3, <1>5, <1>6, <2>2, <2>4, <2>7
    <2>10. AuxInv'
      BY <1>7, <2>6, <2>8, <2>9, ScreenStep
    <2>. QED
      BY <1>5, <1>6, <2>10
  <1>. QED
    BY <1>10, <1>11

LEMMA ToldIs ==
    ASSUME typed \in Seq(Outcomes), NEW edits, NEW what \in Outcomes
    PROVE  /\ Told(edits, what) \in Seq(Outcomes) /\ Len(Told(edits, what)) = Len(typed)
           /\ DOMAIN Told(edits, what) = DOMAIN typed
           /\ \A e \in DOMAIN typed :
                  Told(edits, what)[e] =
                      IF e \in edits /\ typed[e] = "waits" THEN what ELSE typed[e]
  <1>1. PICK n \in Nat : n = Len(typed) /\ DOMAIN typed = 1..n
    OBVIOUS
  <1>2. PICK f : f = Told(edits, what)
    OBVIOUS
  <1>3. f = [e \in 1..n |-> IF e \in edits /\ typed[e] = "waits" THEN what ELSE typed[e]]
    BY <1>1, <1>2 DEF Told
  <1>4. f \in [1..n -> Outcomes]
    <2>1. \A e \in 1..n : typed[e] \in Outcomes
      BY <1>1
    <2>. QED
      BY <1>3, <2>1
  <1>5. f \in Seq(Outcomes) /\ Len(f) = n
    BY <1>4
  <1>. QED
    BY <1>1, <1>2, <1>3, <1>5

\* The answer of a save: the page quotes the new version, and sends what was parked.
LEMMA SavedStep ==
    ASSUME AuxInv, NEW s \in Screens, Saved(s)
    PROVE  AuxInv' /\ stored' = stored
           /\ \A e \in DOMAIN typed : typed'[e] \in {typed[e], "saved"}
  <1>1. PICK w \in wire[s] :
            /\ w.answer = "ok"
            /\ typed' = Told(w.for, "saved")
            /\ pages' = [pages EXCEPT ![s].version = w.version + 1, ![s].parked = {}]
            /\ wire' = [wire EXCEPT ![s] = (@ \ {w}) \cup FlushAgain(s, w.version + 1)]
            /\ UNCHANGED <<stored, adrift, writers, losses, opened>>
    BY DEF Saved
  <1>2. /\ pages[s] \in Page /\ wire[s] \in SUBSET Writes /\ adrift[s] \in SUBSET Writes
        /\ w \in Writes /\ stored.version \in Nat /\ Len(typed) \in Nat
        /\ typed \in Seq(Outcomes) /\ Len(typed) <= MaxTyped
        /\ Len(writers) = stored.version /\ stored.doc \subseteq 1..Len(typed)
        /\ pages \in [Screens -> Page]
        /\ wire \in [Screens -> SUBSET Writes] /\ adrift \in [Screens -> SUBSET Writes]
    BY DEF AuxInv, AuxTyped
  <1>3. PageOK(stored, Len(typed), pages[s], wire[s], adrift[s])
        /\ Knows(s, pages[s], wire[s], adrift[s], writers)
    BY DEF AuxInv
  <1>4. PICK n \in Nat : n = Len(typed)
    BY <1>2
  <1>5. /\ wire[s] = {w} /\ w.version = pages[s].version /\ w.doc \subseteq pages[s].doc
        /\ w.version < stored.version /\ w.for \subseteq stored.doc
        /\ w.version + 1 = stored.version => stored.doc \subseteq w.doc
        /\ pages[s].state = "live" /\ w.version \in Nat
        /\ pages[s].parked \subseteq pages[s].doc /\ pages[s].doc \subseteq 1..n
    BY <1>1, <1>2, <1>3, <1>4 DEF PageOK, WriteOK, Writes
  <1>5a. PICK k \in Nat : k = w.version + 1
    BY <1>5
  <1>6. PICK p : p = [pages[s] EXCEPT !.version = k, !.parked = {}]
    OBVIOUS
  <1>7. /\ p \in Page /\ p.version = w.version + 1 /\ p.parked = {} /\ p.doc = pages[s].doc
        /\ p.state = "live" /\ p.unsure = pages[s].unsure
    <2>1. pages[s] \in Page /\ pages[s].state = "live"
      BY <1>2, <1>5
    <2>. QED
      BY <1>5a, <1>6, <2>1 DEF Page
  <1>8. PICK W : W = FlushAgain(s, w.version + 1)
    OBVIOUS
  <1>9. /\ W \in SUBSET Writes
        /\ \A x, y \in W : x = y
        /\ \A x \in W : /\ x.version = p.version /\ x.doc = p.doc
                        /\ x.for \subseteq x.doc /\ x.answer = Unanswered
    <2>1. PICK x : x = Write(pages[s].doc, w.version + 1, pages[s].parked)
      OBVIOUS
    <2>2. /\ pages[s].doc \in SUBSET Edits /\ pages[s].parked \in SUBSET Edits
          /\ w.version + 1 \in Nat
      BY <1>2, <1>5 DEF Page
    <2>3. /\ x \in Writes /\ x.version = w.version + 1 /\ x.doc = pages[s].doc
          /\ x.for = pages[s].parked /\ x.answer = Unanswered
      BY <2>1, <2>2 DEF Write, Writes, Edits
    <2>4. W = {} \/ W = {x}
      BY <1>8, <2>1 DEF FlushAgain
    <2>. QED
      BY <1>5, <1>7, <2>3, <2>4
  <1>10. /\ pages' = [pages EXCEPT ![s] = p] /\ wire' = [wire EXCEPT ![s] = W]
         /\ adrift' = [adrift EXCEPT ![s] = adrift[s]]
    BY <1>1, <1>2, <1>5, <1>5a, <1>6, <1>8
  <1>11. /\ typed' \in Seq(Outcomes) /\ Len(typed') = n /\ DOMAIN typed' = DOMAIN typed
         /\ \A e \in DOMAIN typed : typed'[e] =
                IF e \in w.for /\ typed[e] = "waits" THEN "saved" ELSE typed[e]
    BY <1>1, <1>2, <1>4, ToldIs DEF Outcomes
  <1>12. SavedIsStored'
    BY <1>1, <1>5, <1>11 DEF AuxInv, SavedIsStored
  <1>13. PageOK(stored, n, p, W, adrift[s])
    <2>1. Based(stored, n, p)
      BY <1>2, <1>5, <1>7 DEF Based
    <2>2. \A x \in W : WriteOK(stored, n, p, x)
      BY <1>9, <2>1 DEF WriteOK, Based, Unanswered
    <2>. QED
      BY <1>3, <1>4, <1>5, <1>7, <1>9, <2>1, <2>2 DEF PageOK, Based
  <1>14. Knows(s, p, W, adrift[s], writers)
    <2>1. \A x \in W : x.answer # "stale"
      BY <1>9 DEF Unanswered
    <2>2. PICK m \in Nat : m = Len(writers)
      BY <1>2
    <2>3. ~p.unsure => \A v \in p.version + 1..m : writers[v] # s
      <3>1. p.version + 1 = pages[s].version + 2 /\ pages[s].version \in Nat
        BY <1>5, <1>7
      <3>. QED
        BY <1>3, <1>5, <1>7, <2>2, <3>1 DEF Knows
    <2>. QED
      BY <1>3, <1>7, <2>1, <2>2, <2>3 DEF Knows
  <1>15. /\ UNCHANGED <<stored, writers>> /\ adrift[s] \in SUBSET Writes
         /\ Len(typed) <= Len(typed') /\ Len(typed') <= MaxTyped
         /\ PageOK(stored, Len(typed'), p, W, adrift[s])
    BY <1>1, <1>2, <1>4, <1>11, <1>13
  <1>16. AuxInv'
    BY <1>7, <1>9, <1>10, <1>11, <1>12, <1>14, <1>15, ScreenStep
  <1>. QED
    BY <1>1, <1>11, <1>16

\* A refusal, or an answer that never comes: the page says so, and keeps its version.
LEMMA RefusedStep ==
    ASSUME AuxInv, NEW s \in Screens, RefusedStale(s) \/ Lost(s)
    PROVE  AuxInv' /\ stored' = stored
           /\ \A e \in DOMAIN typed : typed'[e] # typed[e] =>
                  e \in pages[s].doc /\ pages'[s].told
  <1>1. PICK w \in wire[s] :
            /\ Refused(s, w)
            /\ \/ /\ w.answer = "stale" /\ pages' = [pages EXCEPT ![s] = Notified(@)]
                  /\ UNCHANGED adrift
               \/ /\ pages' = [pages EXCEPT ![s] = [Notified(@) EXCEPT !.unsure = TRUE]]
                  /\ adrift' = [adrift EXCEPT ![s] = @ \cup Unheard(s)]
    BY DEF RefusedStale, Lost
  <1>2. /\ pages[s] \in Page /\ wire[s] \in SUBSET Writes /\ adrift[s] \in SUBSET Writes
        /\ w \in Writes /\ stored.version \in Nat /\ Len(typed) \in Nat
        /\ typed \in Seq(Outcomes) /\ Len(typed) <= MaxTyped
        /\ Len(writers) = stored.version /\ stored.doc \subseteq 1..Len(typed)
        /\ pages \in [Screens -> Page]
        /\ wire \in [Screens -> SUBSET Writes] /\ adrift \in [Screens -> SUBSET Writes]
    BY DEF AuxInv, AuxTyped
  <1>3. PageOK(stored, Len(typed), pages[s], wire[s], adrift[s])
        /\ Knows(s, pages[s], wire[s], adrift[s], writers)
    BY DEF AuxInv
  <1>4. PICK n \in Nat : n = Len(typed)
    BY <1>2
  <1>5. /\ wire[s] = {w} /\ w.version = pages[s].version /\ w.doc \subseteq pages[s].doc
        /\ w.for \subseteq w.doc /\ pages[s].state = "live" /\ w.version \in Nat
        /\ pages[s].parked \subseteq pages[s].doc /\ pages[s].doc \subseteq 1..n
    BY <1>1, <1>2, <1>3, <1>4 DEF PageOK, WriteOK, Writes
  <1>6. /\ typed' = Told(w.for \cup pages[s].parked, "refused")
        /\ wire' = [wire EXCEPT ![s] = {}] /\ UNCHANGED <<stored, writers>>
    BY <1>1, <1>2, <1>5 DEF Refused, AfterRefusal
  <1>7. PICK yes : yes = TRUE
    OBVIOUS
  <1>8. PICK p, A :
            /\ \/ /\ p = [pages[s] EXCEPT !.parked = {}, !.told = yes]
                  /\ w.answer = "stale" /\ A = adrift[s]
               \/ /\ p = [pages[s] EXCEPT !.parked = {}, !.told = yes, !.unsure = yes]
                  /\ A = adrift[s] \cup Unheard(s)
            /\ pages' = [pages EXCEPT ![s] = p] /\ adrift' = [adrift EXCEPT ![s] = A]
    <2>1. CASE w.answer = "stale" /\ pages' = [pages EXCEPT ![s] = Notified(@)]
               /\ UNCHANGED adrift
      <3>1. PICK p : p = [pages[s] EXCEPT !.parked = {}, !.told = yes]
        OBVIOUS
      <3>2. pages' = [pages EXCEPT ![s] = p] /\ adrift' = [adrift EXCEPT ![s] = adrift[s]]
        BY <1>2, <1>7, <2>1, <3>1 DEF Notified
      <3>. QED
        BY <2>1, <3>1, <3>2
    <2>2. CASE /\ pages' = [pages EXCEPT ![s] = [Notified(@) EXCEPT !.unsure = TRUE]]
               /\ adrift' = [adrift EXCEPT ![s] = @ \cup Unheard(s)]
      <3>1. PICK p : p = [pages[s] EXCEPT !.parked = {}, !.told = yes, !.unsure = yes]
        OBVIOUS
      <3>2. pages' = [pages EXCEPT ![s] = p]
        BY <1>2, <1>7, <2>2, <3>1 DEF Notified
      <3>3. adrift' = [adrift EXCEPT ![s] = adrift[s] \cup Unheard(s)]
        BY <1>2, <2>2
      <3>. QED
        BY <3>1, <3>2, <3>3
    <2>. QED
      BY <1>1, <2>1, <2>2
  <1>9. /\ p \in Page /\ p.version = pages[s].version /\ p.doc = pages[s].doc
        /\ p.state = "live" /\ p.parked = {} /\ p.told
        /\ \/ p.unsure = pages[s].unsure /\ w.answer = "stale" /\ A = adrift[s]
           \/ p.unsure /\ A = adrift[s] \cup Unheard(s)
    BY <1>2, <1>5, <1>7, <1>8 DEF Page
  <1>10. A \in SUBSET Writes /\ \A x \in A : Based(stored, n, x)
    <2>1. \A x \in Unheard(s) : x \in Writes /\ Based(stored, n, x)
      BY <1>2, <1>3, <1>4 DEF Unheard, PageOK, WriteOK
    <2>. QED
      BY <2>1, <1>2, <1>3, <1>4, <1>9 DEF PageOK
  <1>11. PageOK(stored, n, p, {}, A)
    <2>1. Based(stored, n, p)
      BY <1>3, <1>4, <1>5, <1>9 DEF PageOK, Based
    <2>. QED
      BY <1>9, <1>10, <2>1 DEF PageOK, Based
  <1>12. Knows(s, p, {}, A, writers)
    BY <1>3, <1>5, <1>9 DEF Knows
  <1>13. /\ typed' \in Seq(Outcomes) /\ Len(typed') = n /\ DOMAIN typed' = DOMAIN typed
         /\ \A e \in DOMAIN typed : typed'[e] =
                IF e \in w.for \cup pages[s].parked /\ typed[e] = "waits"
                THEN "refused" ELSE typed[e]
    BY <1>2, <1>4, <1>6, ToldIs DEF Outcomes
  <1>14. SavedIsStored'
    BY <1>6, <1>13 DEF AuxInv, SavedIsStored
  <1>15. /\ UNCHANGED <<stored, writers>> /\ {} \in SUBSET Writes
         /\ Len(typed) <= Len(typed') /\ Len(typed') <= MaxTyped
         /\ PageOK(stored, Len(typed'), p, {}, A)
    BY <1>2, <1>4, <1>6, <1>11, <1>13
  <1>16. AuxInv'
    BY <1>6, <1>8, <1>9, <1>10, <1>12, <1>13, <1>14, <1>15, ScreenStep
  <1>17. pages'[s] = p
    BY <1>2, <1>8
  <1>. QED
    BY <1>5, <1>6, <1>9, <1>13, <1>16, <1>17

\* A page is read again.  What it had not saved is gone, and it said so before, unless it
\* is one that was returned to while it was saving.
LEMMA ReloadStep ==
    ASSUME AuxInv, NEW s \in Screens, Reload(s)
    PROVE  AuxInv' /\ stored' = stored
           /\ \A e \in DOMAIN typed : typed'[e] # typed[e] =>
                  e \in pages[s].doc /\ (pages[s].told \/ Returns)
  <1>1. /\ \/ pages[s].told \/ pages[s].state = "failed"
           \/ pages[s].state = "live" /\ (Returns \/ ~Flushing(s))
        /\ typed' = Told(Unsaved(s), "gone")
        /\ adrift' = [adrift EXCEPT ![s] = @ \cup Unheard(s)]
        /\ pages' = [pages EXCEPT ![s] = [Opened EXCEPT !.unsure = adrift'[s] # {}]]
        /\ wire' = [wire EXCEPT ![s] = {}]
        /\ UNCHANGED <<stored, writers>>
    BY DEF Reload
  <1>2. /\ pages[s] \in Page /\ wire[s] \in SUBSET Writes /\ adrift[s] \in SUBSET Writes
        /\ stored.version \in Nat /\ Len(typed) \in Nat
        /\ typed \in Seq(Outcomes) /\ Len(typed) <= MaxTyped
        /\ Len(writers) = stored.version /\ stored.doc \subseteq 1..Len(typed)
        /\ pages \in [Screens -> Page]
        /\ wire \in [Screens -> SUBSET Writes] /\ adrift \in [Screens -> SUBSET Writes]
    BY DEF AuxInv, AuxTyped
  <1>3. PageOK(stored, Len(typed), pages[s], wire[s], adrift[s])
    BY DEF AuxInv
  <1>4. PICK n \in Nat : n = Len(typed)
    BY <1>2
  <1>5. PICK A : A = adrift[s] \cup Unheard(s)
    OBVIOUS
  <1>6. A \in SUBSET Writes /\ \A x \in A : Based(stored, n, x)
    <2>1. \A x \in Unheard(s) : x \in Writes /\ Based(stored, n, x)
      BY <1>2, <1>3, <1>4 DEF Unheard, PageOK, WriteOK
    <2>. QED
      BY <2>1, <1>2, <1>3, <1>4, <1>5 DEF PageOK
  <1>7. adrift' = [adrift EXCEPT ![s] = A] /\ adrift'[s] = A
    BY <1>1, <1>2, <1>5
  <1>8. PICK no, sure : no = FALSE /\ sure \in BOOLEAN /\ sure = (A # {})
    OBVIOUS
  <1>9. PICK p : p = [state |-> "loading", doc |-> {}, version |-> 0, parked |-> {},
                      told |-> no, unsure |-> sure]
    OBVIOUS
  <1>10. p = [Opened EXCEPT !.unsure = adrift'[s] # {}]
    <2>1. PICK blank : blank = [state |-> "loading", doc |-> {}, version |-> 0,
                                parked |-> {}, told |-> no, unsure |-> no]
      OBVIOUS
    <2>2. Opened = blank
      BY <1>8, <2>1 DEF Opened
    <2>3. (adrift'[s] # {}) = sure
      BY <1>7, <1>8
    <2>4. p = [blank EXCEPT !.unsure = sure]
      BY <1>9, <2>1
    <2>. QED
      BY <2>2, <2>3, <2>4, Zenon
  <1>11. /\ p \in Page /\ p.state = "loading" /\ p.doc = {} /\ p.version = 0
         /\ p.parked = {} /\ p.unsure = sure
    BY <1>8, <1>9 DEF Page, PageStates
  <1>12. pages' = [pages EXCEPT ![s] = p]
    BY <1>1, <1>10
  <1>13. PageOK(stored, n, p, {}, A)
    BY <1>2, <1>6, <1>11 DEF PageOK
  <1>14. Knows(s, p, {}, A, writers)
    BY <1>8, <1>11 DEF Knows
  <1>15. /\ typed' \in Seq(Outcomes) /\ Len(typed') = n /\ DOMAIN typed' = DOMAIN typed
         /\ \A e \in DOMAIN typed : typed'[e] =
                IF e \in Unsaved(s) /\ typed[e] = "waits" THEN "gone" ELSE typed[e]
    BY <1>1, <1>2, <1>4, ToldIs DEF Outcomes
  <1>16. SavedIsStored'
    BY <1>1, <1>15 DEF AuxInv, SavedIsStored
  <1>17. /\ UNCHANGED <<stored, writers>> /\ {} \in SUBSET Writes
         /\ Len(typed) <= Len(typed') /\ Len(typed') <= MaxTyped
         /\ PageOK(stored, Len(typed'), p, {}, A)
    BY <1>1, <1>2, <1>4, <1>13, <1>15
  <1>18. AuxInv'
    BY <1>1, <1>6, <1>7, <1>11, <1>12, <1>14, <1>15, <1>16, <1>17, ScreenStep
  <1>19. ASSUME NEW e \in Unsaved(s)
         PROVE  e \in pages[s].doc /\ (pages[s].told \/ Returns)
    <2>1. e \in pages[s].parked \/ \E w \in wire[s] : e \in w.for
      BY DEF Unsaved
    <2>2. wire[s] # {} /\ pages[s].state = "live" /\ e \in pages[s].doc
      BY <1>3, <2>1 DEF PageOK, WriteOK
    <2>. QED
      BY <1>1, <2>2 DEF Flushing
  <1>. QED
    BY <1>1, <1>15, <1>18, <1>19

LEMMA AuxStep == AuxInv /\ [AuxNext]_auxVars => AuxInv'
  <1>1. ASSUME AuxInv, UNCHANGED auxVars
        PROVE  AuxInv'
    BY <1>1 DEF AuxInv, AuxTyped, SavedIsStored, auxVars
  <1>. QED
    BY <1>1, LoadStep, SetStep, ServeStep, ServeLateStep, SavedStep, RefusedStep, ReloadStep
    DEF AuxNext

LEMMA AuxAlways == AuxSpec => []AuxInv
  BY AuxStarts, AuxStep, PTL DEF AuxSpec

LEMMA InvHolds == AuxInv => AuxHolds
  <1> SUFFICES ASSUME AuxInv PROVE AuxHolds
    OBVIOUS
  <1>1. ASSUME NEW s \in Screens
        PROVE  Cardinality(wire[s]) <= 1
    <2>1. \A v, w \in wire[s] : v = w
      BY DEF AuxInv, PageOK
    <2>2. wire[s] = {} \/ \E w : wire[s] = {w}
      BY <2>1
    <2>3. Cardinality({}) = 0 /\ \A w : Cardinality({w}) = 1
      BY FS_EmptySet, FS_Singleton
    <2>4. ASSUME NEW w, wire[s] = {w}
          PROVE  Cardinality(wire[s]) = 1
      BY <2>3, <2>4
    <2>5. Cardinality(wire[s]) = 0 \/ Cardinality(wire[s]) = 1
      BY <2>2, <2>3, <2>4
    <2>. QED
      BY <2>5
  <1>2. PICK n \in Nat : n = Len(typed) /\ DOMAIN typed = 1..n /\ typed \in [1..n -> Outcomes]
    BY DEF AuxInv, AuxTyped
  <1>3. \A s \in Screens : PageOK(stored, n, pages[s], wire[s], adrift[s])
    BY <1>2 DEF AuxInv
  <1>4. AuxTypeOK
    <2>1. /\ pages \in [Screens -> Page] /\ wire \in [Screens -> SUBSET Writes]
          /\ adrift \in [Screens -> SUBSET Writes] /\ Len(writers) = stored.version
          /\ stored \in [doc : SUBSET (1..MaxTyped), version : Nat]
      BY DEF AuxInv, AuxTyped, Edits
    <2>2. \A s \in Screens :
              /\ pages[s].state \in PageStates /\ pages[s].doc \subseteq DOMAIN typed
              /\ pages[s].parked \subseteq pages[s].doc /\ pages[s].version <= stored.version
      <3>1. \A s \in Screens : pages[s] \in Page
        BY <2>1
      <3>. QED
        BY <1>2, <1>3, <3>1 DEF PageOK, Page
    <2>3. typed \in [DOMAIN typed -> {"waits", "saved", "refused", "gone"}]
      BY <1>2 DEF Outcomes
    <2>. QED
      BY <1>1, <2>1, <2>2, <2>3 DEF AuxTypeOK
  <1>5. OwnWorkIsNotRefused
    <2> SUFFICES ASSUME NEW s \in Screens, NEW w \in wire[s], w.answer = "stale",
                        ~pages[s].unsure
                 PROVE  \E v \in w.version + 1..stored.version : writers[v] # s
      BY DEF OwnWorkIsNotRefused
    <2>1. PageOK(stored, n, pages[s], wire[s], adrift[s])
          /\ Knows(s, pages[s], wire[s], adrift[s], writers)
      BY <1>3 DEF AuxInv
    <2>2. /\ \A v \in wire[s] : v = w
          /\ w.version = pages[s].version /\ pages[s].state = "live"
      BY <2>1 DEF PageOK, WriteOK
    <2>3. w.version < Len(writers) /\ \A v \in w.version + 1..Len(writers) : writers[v] # s
      BY <2>1, <2>2 DEF Knows
    <2>4. w.version \in Nat /\ Len(writers) = stored.version /\ stored.version \in Nat
      BY DEF AuxInv, AuxTyped, Writes
    <2>5. w.version + 1 \in w.version + 1..Len(writers)
      BY <2>3, <2>4
    <2>. QED
      BY <2>3, <2>4, <2>5
  <1>. QED
    BY <1>4, <1>5 DEF AuxHolds, AuxInv

\* However many pages type at once, and whatever is lost, late or reloaded, no save takes
\* an edit out of the document (saveAuxDocument of erp-runtime.ts, and erp-docs.js).
THEOREM ScreensShareTheDocument == AuxSpec => NothingOverwritten
  <1>1. AuxInit => Shared!SharedInit
    BY DEF AuxInit, Shared!SharedInit
  <1>2. ASSUME AuxInv, [AuxNext]_auxVars
        PROVE  [Shared!SharedNext]_(Shared!sharedVars)
    <2>1. ASSUME NEW s \in Screens, NEW w \in Writes, Stores(s, w), stored.doc \subseteq w.doc
          PROVE  Shared!Extend
      <3>1. stored'.doc = w.doc /\ stored'.version = stored.version + 1
        BY <2>1 DEF Stores
      <3>2. w.doc \in SUBSET (1..MaxTyped) /\ stored'.doc = stored.doc \cup w.doc
        BY <2>1, <3>1 DEF Writes
      <3>. QED
        BY <3>1, <3>2 DEF Shared!Extend
    <2>2. UNCHANGED stored => UNCHANGED Shared!sharedVars
      BY DEF Shared!sharedVars
    <2>3. UNCHANGED auxVars => UNCHANGED stored
      BY DEF auxVars
    <2>. QED
      BY <1>2, <2>1, <2>2, <2>3, LoadStep, SetStep, ServeStep, ServeLateStep, SavedStep,
         RefusedStep, ReloadStep DEF AuxNext, Shared!SharedNext
  <1>. QED
    BY <1>1, <1>2, AuxAlways, PTL DEF AuxSpec, NothingOverwritten, Shared!SharedSpec

\* An edit that is nowhere is one whose page says so, as long as no page is returned to
\* while it is saving (flush and notify of erp-docs.js, react of erp-sync.js).
THEOREM EditsAreAccountedFor == ASSUME ~Returns PROVE AuxSpec => NoEditVanishes
  <1>1. ASSUME AuxInv, [AuxNext]_auxVars, NEW e \in DOMAIN typed, typed[e] = "waits",
               typed'[e] \in {"refused", "gone"}
        PROVE  \E s \in Screens : e \in pages[s].doc /\ (pages[s].told \/ pages'[s].told)
    <2>1. typed'[e] # typed[e] /\ typed'[e] # "saved" /\ typed' # typed
      BY <1>1
    <2>2. ASSUME NEW s \in Screens, Serve(s) \/ ServeLate(s)
          PROVE  typed' = typed
      BY <2>2 DEF Serve, ServeLate
    <2>3. UNCHANGED auxVars => typed' = typed
      BY DEF auxVars
    <2>. QED
      BY <1>1, <2>1, <2>2, <2>3, LoadStep, SetStep, SavedStep, RefusedStep, ReloadStep
      DEF AuxNext
  <1>2. AuxInv /\ [AuxNext]_auxVars =>
            [\A e \in DOMAIN typed : typed[e] = "waits" /\ typed'[e] \in {"refused", "gone"} =>
                \/ e \in stored.doc
                \/ \E s \in Screens :
                       e \in pages[s].doc /\ (pages[s].told \/ pages'[s].told)]_auxVars
    BY <1>1
  <1>. QED
    BY <1>2, AuxAlways, PTL DEF AuxSpec, NoEditVanishes
-----------------------------------------------------------------------------
(* Ladder: what a run of the ladder makes of a document. *)

LEMMA Migrated ==
    ASSUME NEW d, d.schema \in Builds, d.records \in SUBSET Records,
           NEW b \in Builds
    PROVE  /\ Migrate(d, b).schema = b
           /\ Migrate(d, b) \in [schema : Builds, records : SUBSET Records]
           /\ \A r \in d.records : \E s \in Migrate(d, b).records :
                  s.id = r.id /\ s.has = r.has \cup (d.schema + 1)..b
           /\ \A s \in Migrate(d, b).records : \E r \in d.records :
                  s.id = r.id /\ s.has = r.has \cup (d.schema + 1)..b
  <1>. DEFINE Climbed(r) == [r EXCEPT !.has = @ \cup (d.schema + 1)..b]
  <1>1. (d.schema + 1)..b \subseteq Rungs(LastBuild)
    BY BuildsAssumption DEF Builds, Rungs
  <1>2. ASSUME NEW r \in d.records
        PROVE  /\ Climbed(r) \in Records
               /\ Climbed(r).id = r.id /\ Climbed(r).has = r.has \cup (d.schema + 1)..b
    <2>1. r \in [id : 1..MaxRecords, has : SUBSET Rungs(LastBuild)]
      BY DEF Records
    <2>. QED
      BY <1>1, <2>1 DEF Records
  <1>3. Migrate(d, b) = [schema |-> b, records |-> {Climbed(r) : r \in d.records}]
    BY DEF Migrate
  <1>. HIDE DEF Climbed
  <1>4. Migrate(d, b).schema = b /\ Migrate(d, b).records = {Climbed(r) : r \in d.records}
    BY <1>3
  <1>5. Migrate(d, b) \in [schema : Builds, records : SUBSET Records]
    BY <1>2, <1>3
  <1>. QED
    BY <1>2, <1>4, <1>5

\* Every record of a document has climbed the rungs the document claims.
Whole(d) == \A r \in d.records : Rungs(d.schema) \subseteq r.has

LEMMA MigratedWhole ==
    ASSUME NEW d, d.schema \in Builds, d.records \in SUBSET Records, Whole(d),
           NEW b \in Builds
    PROVE  Whole(Migrate(d, b))
  <1>1. ASSUME NEW s \in Migrate(d, b).records
        PROVE  Rungs(b) \subseteq s.has
    <2>1. PICK r \in d.records : s.has = r.has \cup (d.schema + 1)..b
      BY Migrated
    <2>2. Rungs(d.schema) \subseteq r.has
      BY DEF Whole
    <2>3. Rungs(b) \subseteq Rungs(d.schema) \cup (d.schema + 1)..b
      BY DEF Rungs, Builds
    <2>. QED
      BY <2>1, <2>2, <2>3
  <1>. QED
    BY <1>1, Migrated DEF Whole

LEMMA NewRecord ==
    ASSUME minted \in 0..MaxRecords, minted < MaxRecords, NEW b \in Builds
    PROVE  New(b) \in Records /\ New(b).has = Rungs(b)
  <1>1. minted + 1 \in 1..MaxRecords
    BY LadderBounds
  <1>2. Rungs(b) \subseteq Rungs(LastBuild)
    BY BuildsAssumption DEF Builds, Rungs
  <1>. QED
    BY <1>1, <1>2 DEF New, Records

-----------------------------------------------------------------------------
(* The steps, by what they do to the row, the pages and the file. *)

Deploying == \E b \in Builds : Deploy(b) \/ RetireBuild(b)
Opening == \E p \in Tabs, code, b \in Builds : OpenTab(p, code, b)
Closing == \E p \in Tabs : CloseTab(p)
Editing == \E p \in Tabs : EditTab(p)
Exporting == \E p \in Tabs : Export(p)
Saving == \E p \in Tabs, b \in Builds : SaveTab(p, b)
Commanding == \E b \in Builds : Command(b)
Importing == \E b \in Builds : Import(b)

LEMMA NextSplits ==
    ASSUME LadderNext
    PROVE  \/ Deploying \/ Opening \/ Closing \/ Editing
           \/ Exporting \/ Saving \/ Commanding \/ Importing
  BY DEF LadderNext, Deploying, Opening, Closing, Editing, Exporting, Saving, Commanding,
         Importing

LEMMA TabType ==
    ASSUME LadderTypeOK, NEW p \in Tabs, tabs[p] # NoTab
    PROVE  /\ tabs[p] \in Pages
           /\ tabs[p].schema \in Builds /\ tabs[p].code \in Builds
           /\ tabs[p].records \in SUBSET Records /\ tabs[p].version \in 1..MaxVersion
  BY DEF LadderTypeOK, Pages

LEMMA PageIsATab == \A t \in Pages : t # NoTab
  <1>1. ASSUME NEW t \in Pages PROVE t.code # 0
    BY DEF Pages, Builds
  <1>. QED
    BY <1>1 DEF NoTab

\* What opening makes of a page.
LEMMA OpensTab ==
    ASSUME LadderTypeOK, NEW p \in Tabs, NEW code \in Builds, NEW b \in Builds,
           OpenTab(p, code, b)
    PROVE  /\ tabs' \in [Tabs -> Pages \cup {NoTab}]
           /\ tabs'[p].code = code /\ tabs'[p].schema = b /\ tabs'[p].version = row.version
           /\ tabs'[p].records = Migrate(row, b).records
           /\ \A q \in Tabs \ {p} : tabs'[q] = tabs[q]
  <1>. DEFINE t == [code |-> code, schema |-> Migrate(row, b).schema,
                    records |-> Migrate(row, b).records, version |-> row.version]
  <1>1. row.schema \in Builds /\ row.records \in SUBSET Records /\ row.version \in 1..MaxVersion
    BY DEF LadderTypeOK
  <1>2. Migrate(row, b).schema = b /\ Migrate(row, b).records \in SUBSET Records
    BY <1>1, Migrated
  <1>3. t \in Pages
    BY <1>1, <1>2 DEF Pages
  <1>4. tabs' = [tabs EXCEPT ![p] = t]
    BY DEF OpenTab
  <1>5. tabs'[p] = t /\ \A q \in Tabs \ {p} : tabs'[q] = tabs[q]
    BY <1>4 DEF LadderTypeOK
  <1>6. t.code = code /\ t.schema = b /\ t.version = row.version
        /\ t.records = Migrate(row, b).records
    BY <1>2
  <1>. HIDE DEF t
  <1>7. tabs' \in [Tabs -> Pages \cup {NoTab}]
    BY <1>3, <1>4 DEF LadderTypeOK
  <1>. QED
    BY <1>5, <1>6, <1>7

\* What an edit makes of a page.
LEMMA Edited ==
    ASSUME LadderTypeOK, NEW p \in Tabs, EditTab(p)
    PROVE  /\ tabs' \in [Tabs -> Pages \cup {NoTab}] /\ tabs[p] # NoTab /\ tabs'[p] # NoTab
           /\ tabs'[p].code = tabs[p].code /\ tabs'[p].schema = tabs[p].schema
           /\ tabs'[p].version = tabs[p].version
           /\ tabs'[p].records = tabs[p].records \cup {New(tabs[p].code)}
           /\ \A q \in Tabs \ {p} : tabs'[q] = tabs[q]
  <1>. DEFINE t == [tabs[p] EXCEPT !.records = @ \cup {New(tabs[p].code)}]
  <1>1. tabs[p] \in Pages /\ tabs[p].code \in Builds /\ tabs[p] # NoTab
    BY TabType DEF EditTab
  <1>2. New(tabs[p].code) \in Records
    BY <1>1, NewRecord DEF LadderTypeOK, EditTab
  <1>3. t \in Pages /\ t.code = tabs[p].code /\ t.schema = tabs[p].schema
        /\ t.version = tabs[p].version /\ t.records = tabs[p].records \cup {New(tabs[p].code)}
    BY <1>1, <1>2 DEF Pages
  <1>4. tabs' = [tabs EXCEPT ![p] = t]
    BY DEF EditTab, LadderTypeOK
  <1>. HIDE DEF t
  <1>5. tabs'[p] = t /\ (\A q \in Tabs \ {p} : tabs'[q] = tabs[q])
        /\ tabs' \in [Tabs -> Pages \cup {NoTab}]
    BY <1>3, <1>4 DEF LadderTypeOK
  <1>. QED
    BY <1>1, <1>3, <1>5, PageIsATab

\* What a save makes of the row and of the page.
LEMMA SavesTab ==
    ASSUME LadderTypeOK, NEW p \in Tabs, NEW b \in Builds, SaveTab(p, b)
    PROVE  /\ tabs' \in [Tabs -> Pages \cup {NoTab}] /\ tabs[p] # NoTab /\ tabs'[p] # NoTab
           /\ tabs'[p].code = tabs[p].code /\ tabs'[p].schema = tabs[p].schema
           /\ tabs'[p].version = row.version + 1 /\ tabs'[p].records = tabs[p].records
           /\ \A q \in Tabs \ {p} : tabs'[q] = tabs[q]
           /\ row' \in [schema : Builds, records : SUBSET Records, version : 1..MaxVersion]
           /\ row'.schema = b /\ row'.records = Migrate(tabs[p], b).records
           /\ row'.version = row.version + 1
  <1>. DEFINE t == [tabs[p] EXCEPT !.version = row.version + 1]
              m == Migrate(tabs[p], b)
  <1>1. tabs[p] \in Pages /\ tabs[p].schema \in Builds /\ tabs[p].records \in SUBSET Records
        /\ tabs[p] # NoTab
    BY TabType DEF SaveTab
  <1>2. row.version \in 1..MaxVersion /\ row.version < MaxVersion
    BY DEF LadderTypeOK, SaveTab, Store
  <1>3. row.version + 1 \in 1..MaxVersion
    BY <1>2, LadderBounds
  <1>4. t \in Pages /\ t.code = tabs[p].code /\ t.schema = tabs[p].schema
        /\ t.version = row.version + 1 /\ t.records = tabs[p].records
    BY <1>1, <1>3 DEF Pages
  <1>5. tabs' = [tabs EXCEPT ![p] = t]
    BY DEF SaveTab, LadderTypeOK
  <1>6. m.schema = b /\ m.records \in SUBSET Records
    BY <1>1, Migrated
  <1>7. row' = [schema |-> m.schema, records |-> m.records, version |-> row.version + 1]
    BY DEF SaveTab, Store
  <1>. HIDE DEF t, m
  <1>8. tabs'[p] = t /\ (\A q \in Tabs \ {p} : tabs'[q] = tabs[q])
        /\ tabs' \in [Tabs -> Pages \cup {NoTab}]
    BY <1>4, <1>5 DEF LadderTypeOK
  <1>9. /\ row' \in [schema : Builds, records : SUBSET Records, version : 1..MaxVersion]
        /\ row'.schema = b /\ row'.records = m.records /\ row'.version = row.version + 1
    BY <1>3, <1>6, <1>7
  <1>. QED
    BY <1>1, <1>4, <1>8, <1>9, PageIsATab DEF m

\* What a command makes of the row.
LEMMA Commanded ==
    ASSUME LadderTypeOK, NEW b \in Builds, Command(b)
    PROVE  /\ row' \in [schema : Builds, records : SUBSET Records, version : 1..MaxVersion]
           /\ row'.schema = b /\ row'.version = row.version + 1
           /\ row'.records = Migrate(row, b).records \cup {New(b)}
           /\ New(b).has = Rungs(b)
  <1>. DEFINE m == Migrate(row, b)
  <1>1. row.version \in 1..MaxVersion /\ row.version < MaxVersion
        /\ row.schema \in Builds /\ row.records \in SUBSET Records
    BY DEF LadderTypeOK, Command, Store
  <1>2. row.version + 1 \in 1..MaxVersion
    BY <1>1, LadderBounds
  <1>3. m \in [schema : Builds, records : SUBSET Records] /\ m.schema = b
    BY <1>1, Migrated
  <1>4. New(b) \in Records /\ New(b).has = Rungs(b)
    BY NewRecord DEF LadderTypeOK, Command
  <1>5. row' = [schema |-> m.schema, records |-> m.records \cup {New(b)},
                version |-> row.version + 1]
    <2>1. Store([m EXCEPT !.records = @ \cup {New(b)}])
      BY DEF Command
    <2>. HIDE DEF m
    <2>. QED
      BY <1>3, <2>1 DEF Store
  <1>. HIDE DEF m
  <1>6. /\ row' \in [schema : Builds, records : SUBSET Records, version : 1..MaxVersion]
        /\ row'.schema = b /\ row'.version = row.version + 1
        /\ row'.records = m.records \cup {New(b)}
    BY <1>2, <1>3, <1>4, <1>5
  <1>. QED
    BY <1>4, <1>6 DEF m

\* What an import makes of the row.
LEMMA Imported ==
    ASSUME LadderTypeOK, NEW b \in Builds, Import(b)
    PROVE  /\ row' \in [schema : Builds, records : SUBSET Records, version : 1..MaxVersion]
           /\ row'.schema = b /\ row'.version = row.version + 1
           /\ row'.records = Migrate(exported, b).records
  <1>. DEFINE m == Migrate(exported, b)
  <1>1. row.version \in 1..MaxVersion /\ row.version < MaxVersion
        /\ exported.schema \in Builds /\ exported.records \in SUBSET Records
    BY DEF LadderTypeOK, Import, Store
  <1>2. row.version + 1 \in 1..MaxVersion
    BY <1>1, LadderBounds
  <1>3. m \in [schema : Builds, records : SUBSET Records] /\ m.schema = b
    BY <1>1, Migrated
  <1>4. row' = [schema |-> m.schema, records |-> m.records, version |-> row.version + 1]
    BY DEF Import, Store
  <1>. HIDE DEF m
  <1>5. /\ row' \in [schema : Builds, records : SUBSET Records, version : 1..MaxVersion]
        /\ row'.schema = b /\ row'.version = row.version + 1 /\ row'.records = m.records
    BY <1>2, <1>3, <1>4
  <1>. QED
    BY <1>5 DEF m

\* What an export makes of the file.
LEMMA Exported ==
    ASSUME LadderTypeOK, NEW p \in Tabs, Export(p)
    PROVE  /\ exported' \in [schema : Builds, records : SUBSET Records] /\ tabs[p] # NoTab
           /\ exported'.schema = tabs[p].schema /\ exported'.records = tabs[p].records
  <1>1. tabs[p] # NoTab /\ tabs[p].schema \in Builds /\ tabs[p].records \in SUBSET Records
    BY TabType DEF Export
  <1>. QED
    BY <1>1 DEF Export

\* What closing makes of the pages.
LEMMA Closed ==
    ASSUME LadderTypeOK, NEW p \in Tabs, CloseTab(p)
    PROVE  /\ tabs' \in [Tabs -> Pages \cup {NoTab}] /\ tabs'[p] = NoTab
           /\ \A q \in Tabs \ {p} : tabs'[q] = tabs[q]
  BY DEF LadderTypeOK, CloseTab

-----------------------------------------------------------------------------
(* Types. *)

LEMMA TypeInit == LadderInit => LadderTypeOK
  <1>1. 1 \in Builds /\ 1 \in 1..MaxVersion /\ 0 \in 0..MaxRecords /\ 0 \in 0..MaxTurns
    BY BuildsAssumption, LadderBounds DEF Builds
  <1>. QED
    BY <1>1 DEF LadderInit, LadderTypeOK, Empty

LEMMA Counted ==
    ASSUME LadderTypeOK
    PROVE  /\ minted < MaxRecords => minted + 1 \in 0..MaxRecords
           /\ Turn => /\ turns' \in 0..MaxTurns /\ turns' = turns + 1
                      /\ replaced <= turns' /\ replaced + 1 <= turns'
                      /\ replaced + 1 \in 0..MaxTurns
  BY LadderBounds DEF LadderTypeOK, Turn

LEMMA TypeStep ==
    ASSUME LadderTypeOK, [LadderNext]_ladderVars
    PROVE  LadderTypeOK'
  <1>1. CASE Deploying
    <2>1. PICK b \in Builds : Deploy(b) \/ RetireBuild(b)
      BY <1>1 DEF Deploying
    <2>2. serving' \in SUBSET Builds /\ serving' # {}
      BY <2>1 DEF Deploy, RetireBuild, LadderTypeOK
    <2>3. turns' \in 0..MaxTurns /\ replaced <= turns'
      BY <2>1, Counted DEF Deploy, RetireBuild
    <2>. QED
      BY <2>1, <2>2, <2>3 DEF Deploy, RetireBuild, LadderTypeOK
  <1>2. CASE Opening
    BY <1>2, OpensTab DEF Opening, OpenTab, LadderTypeOK
  <1>3. CASE Closing
    BY <1>3, Closed DEF Closing, CloseTab, LadderTypeOK
  <1>4. CASE Editing
    BY <1>4, Edited, Counted DEF Editing, EditTab, LadderTypeOK
  <1>5. CASE Exporting
    BY <1>5, Exported, Counted DEF Exporting, Export, LadderTypeOK
  <1>6. CASE Saving
    BY <1>6, SavesTab DEF Saving, SaveTab, LadderTypeOK
  <1>7. CASE Commanding
    BY <1>7, Commanded, Counted DEF Commanding, Command, LadderTypeOK
  <1>8. CASE Importing
    BY <1>8, Imported, Counted DEF Importing, Import, LadderTypeOK
  <1>9. CASE UNCHANGED ladderVars
    BY <1>9 DEF ladderVars, LadderTypeOK
  <1>. QED
    BY <1>1, <1>2, <1>3, <1>4, <1>5, <1>6, <1>7, <1>8, <1>9, NextSplits

\* Every row, page and file is a document of a build there is, whatever is deployed.
THEOREM LadderTyped == LadderSpec => []LadderTypeOK
  BY TypeInit, TypeStep, PTL DEF LadderSpec

-----------------------------------------------------------------------------
(* Rungs. *)

\* What the row says needs the same of every page and of the file, and that a page edits
\* with the build its document was migrated by.
WholeInv ==
    /\ Whole(row) /\ Whole(exported)
    /\ \A p \in Tabs : tabs[p] # NoTab => Whole(tabs[p]) /\ tabs[p].code = tabs[p].schema

LEMMA WholeInit == LadderInit => WholeInv
  BY DEF LadderInit, WholeInv, Whole, Empty

\* Documents with the same schema and records are whole together.
LEMMA SameRecords ==
    ASSUME NEW d, NEW e, d.schema = e.schema, d.records = e.records, Whole(e)
    PROVE  Whole(d)
  BY DEF Whole

LEMMA OneMore ==
    ASSUME NEW d, NEW e, NEW r, d.schema = e.schema, d.records = e.records \cup {r},
           Whole(e), Rungs(d.schema) \subseteq r.has
    PROVE  Whole(d)
  BY DEF Whole

LEMMA WholeStep ==
    ASSUME LadderTypeOK, "straddled" \notin Turns, WholeInv, [LadderNext]_ladderVars
    PROVE  WholeInv'
  <1>. USE DEF WholeInv
  <1>1. CASE Deploying
    BY <1>1 DEF Deploying, Deploy, RetireBuild, Whole
  <1>2. CASE Opening
    <2>1. PICK p \in Tabs, code \in Builds, b \in Builds : OpenTab(p, code, b)
      BY <1>2 DEF Opening
    <2>2. tabs'[p].code = b /\ tabs'[p].schema = b
          /\ tabs'[p].records = Migrate(row, b).records
          /\ \A q \in Tabs \ {p} : tabs'[q] = tabs[q]
      BY <2>1, OpensTab DEF OpenTab
    <2>3. Whole(Migrate(row, b)) /\ Migrate(row, b).schema = b
      BY Migrated, MigratedWhole DEF LadderTypeOK
    <2>4. Whole(tabs'[p])
      BY <2>2, <2>3, SameRecords
    <2>5. row' = row /\ exported' = exported
      BY <2>1 DEF OpenTab
    <2>. QED
      BY <2>2, <2>4, <2>5 DEF Whole
  <1>3. CASE Closing
    <2>1. PICK p \in Tabs : CloseTab(p)
      BY <1>3 DEF Closing
    <2>2. tabs'[p] = NoTab /\ (\A q \in Tabs \ {p} : tabs'[q] = tabs[q])
          /\ row' = row /\ exported' = exported
      BY <2>1, Closed DEF CloseTab
    <2>. QED
      BY <2>2 DEF Whole
  <1>4. CASE Editing
    <2>1. PICK p \in Tabs : EditTab(p)
      BY <1>4 DEF Editing
    <2>2. /\ tabs[p] # NoTab /\ tabs'[p].code = tabs[p].code
          /\ tabs'[p].schema = tabs[p].schema
          /\ tabs'[p].records = tabs[p].records \cup {New(tabs[p].code)}
          /\ \A q \in Tabs \ {p} : tabs'[q] = tabs[q]
      BY <2>1, Edited
    <2>3. New(tabs[p].code).has = Rungs(tabs[p].schema) /\ Whole(tabs[p])
      BY <2>2 DEF New
    <2>4. Whole(tabs'[p])
      BY <2>2, <2>3, OneMore
    <2>5. row' = row /\ exported' = exported
      BY <2>1 DEF EditTab
    <2>. QED
      BY <2>2, <2>4, <2>5 DEF Whole
  <1>5. CASE Exporting
    <2>1. PICK p \in Tabs : Export(p)
      BY <1>5 DEF Exporting
    <2>2. Whole(exported')
      BY <2>1, Exported, SameRecords
    <2>3. row' = row /\ tabs' = tabs
      BY <2>1 DEF Export
    <2>. QED
      BY <2>2, <2>3 DEF Whole
  <1>6. CASE Saving
    <2>1. PICK p \in Tabs, b \in Builds : SaveTab(p, b)
      BY <1>6 DEF Saving
    <2>2. /\ tabs[p] # NoTab /\ tabs'[p].code = tabs[p].code
          /\ tabs'[p].schema = tabs[p].schema /\ tabs'[p].records = tabs[p].records
          /\ \A q \in Tabs \ {p} : tabs'[q] = tabs[q]
          /\ row'.schema = b /\ row'.records = Migrate(tabs[p], b).records
      BY <2>1, SavesTab
    <2>3. Whole(Migrate(tabs[p], b)) /\ Migrate(tabs[p], b).schema = b
      BY <2>2, TabType, Migrated, MigratedWhole
    <2>4. Whole(row')
      BY <2>2, <2>3, SameRecords
    <2>5. Whole(tabs'[p])
      BY <2>2, SameRecords
    <2>6. exported' = exported
      BY <2>1 DEF SaveTab
    <2>. QED
      BY <2>2, <2>4, <2>5, <2>6 DEF Whole
  <1>7. CASE Commanding
    <2>1. PICK b \in Builds : Command(b)
      BY <1>7 DEF Commanding
    <2>2. Whole(Migrate(row, b)) /\ Migrate(row, b).schema = b
      BY Migrated, MigratedWhole DEF LadderTypeOK
    <2>3. Whole(row')
      BY <2>1, <2>2, Commanded, OneMore
    <2>4. exported' = exported /\ tabs' = tabs
      BY <2>1 DEF Command
    <2>. QED
      BY <2>3, <2>4 DEF Whole
  <1>8. CASE Importing
    <2>1. PICK b \in Builds : Import(b)
      BY <1>8 DEF Importing
    <2>2. Whole(Migrate(exported, b)) /\ Migrate(exported, b).schema = b
      BY Migrated, MigratedWhole DEF LadderTypeOK
    <2>3. Whole(row')
      BY <2>1, <2>2, Imported, SameRecords
    <2>4. exported' = exported /\ tabs' = tabs
      BY <2>1 DEF Import
    <2>. QED
      BY <2>3, <2>4 DEF Whole
  <1>9. CASE UNCHANGED ladderVars
    BY <1>9 DEF ladderVars, Whole
  <1>. QED
    BY <1>1, <1>2, <1>3, <1>4, <1>5, <1>6, <1>7, <1>8, <1>9, NextSplits

\* Each record of the stored register has climbed each rung of the schema it claims, with
\* builds that overlap and return too, as long as a page and what it reads are of one build.
THEOREM RowsAreWhole == "straddled" \notin Turns => (LadderSpec => []RowIsWhole)
  <1>. SUFFICES ASSUME "straddled" \notin Turns
                PROVE  LadderSpec => []RowIsWhole
    OBVIOUS
  <1>1. LadderTypeOK /\ WholeInv /\ [LadderNext]_ladderVars => WholeInv'
    BY WholeStep
  <1>2. WholeInv => RowIsWhole
    BY DEF WholeInv, Whole, RowIsWhole
  <1>. QED
    BY <1>1, <1>2, WholeInit, LadderTyped, PTL DEF LadderSpec

\* The same with the types: what the ladder promises of every stored document.
THEOREM LadderKept == "straddled" \notin Turns => (LadderSpec => []LadderHolds)
  <1>. SUFFICES ASSUME "straddled" \notin Turns
                PROVE  LadderSpec => []LadderHolds
    OBVIOUS
  <1>1. LadderSpec => []RowIsWhole
    BY RowsAreWhole
  <1>2. LadderTypeOK /\ RowIsWhole => LadderHolds
    BY DEF LadderHolds
  <1>. QED
    BY <1>1, <1>2, LadderTyped, PTL

-----------------------------------------------------------------------------
(* Work that was stored. *)

\* What a migration of d to the schema of e would have of the work in e.
Carries(d, e) ==
    \A r \in e.records : \E s \in d.records :
        s.id = r.id /\ r.has \subseteq s.has \cup (d.schema + 1)..e.schema

\* One build answers and understands the row, and a page that quotes its version has, once
\* migrated, all of its work.
KeepInv ==
    /\ \A b, c \in serving : b = c
    /\ \A b \in serving : row.schema <= b
    /\ \A p \in Tabs : tabs[p] # NoTab =>
           /\ tabs[p].version <= row.version
           /\ tabs[p].version = row.version => Carries(tabs[p], row)

LEMMA KeepInit == LadderInit => KeepInv
  BY DEF LadderInit, KeepInv

LEMMA ClimbingCarries ==
    ASSUME NEW d, d.schema \in Builds, d.records \in SUBSET Records,
           NEW e, e.schema \in Builds, Carries(d, e),
           NEW b \in Builds, e.schema <= b
    PROVE  \A r \in e.records : \E s \in Migrate(d, b).records :
               s.id = r.id /\ r.has \subseteq s.has
  <1>. SUFFICES ASSUME NEW r \in e.records
                PROVE  \E s \in Migrate(d, b).records : s.id = r.id /\ r.has \subseteq s.has
    OBVIOUS
  <1>1. PICK q \in d.records : q.id = r.id /\ r.has \subseteq q.has \cup (d.schema + 1)..e.schema
    BY DEF Carries
  <1>2. PICK s \in Migrate(d, b).records : s.id = q.id /\ s.has = q.has \cup (d.schema + 1)..b
    BY Migrated
  <1>3. (d.schema + 1)..e.schema \subseteq (d.schema + 1)..b
    BY DEF Builds
  <1>. QED
    BY <1>1, <1>2, <1>3

LEMMA ClimbedCarries ==
    ASSUME NEW d, d.schema \in Builds, d.records \in SUBSET Records, NEW b \in Builds,
           NEW e, e.schema = b, e.records = Migrate(d, b).records
    PROVE  Carries(d, e)
  BY Migrated DEF Carries

LEMMA BuildNumber ==
    \A b, c, d \in Builds : b <= b /\ (b <= c /\ c < d => b <= d)
  BY BuildsAssumption DEF Builds

LEMMA VersionNumber ==
    \A v, w \in 1..MaxVersion :
        v <= v /\ v + 1 <= v + 1 /\ (v < w + 1 => v <= w + 1 /\ v # w + 1)
  BY LadderBounds

LEMMA RowVersion == LadderTypeOK => row.version \in 1..MaxVersion
  BY DEF LadderTypeOK

LEMMA LaterVersion ==
    ASSUME KeepInv, NEW p \in Tabs, tabs[p] # NoTab, LadderTypeOK
    PROVE  tabs[p].version < row.version + 1
  <1>1. tabs[p].version \in 1..MaxVersion /\ row.version \in 1..MaxVersion
    BY TabType DEF LadderTypeOK
  <1>. QED
    BY <1>1 DEF KeepInv

\* A step that only stores: the pages quote what is no longer the version.
LEMMA Stored ==
    ASSUME LadderTypeOK, KeepInv, NEW b \in Builds, row'.schema = b,
           row'.version = row.version + 1, tabs' = tabs, serving' = serving, b \in serving
    PROVE  KeepInv'
  <1>1. \A p \in Tabs : tabs[p] # NoTab =>
            tabs[p].version <= row'.version /\ tabs[p].version # row'.version
    <2>1. ASSUME NEW p \in Tabs, tabs[p] # NoTab
          PROVE  tabs[p].version <= row'.version /\ tabs[p].version # row'.version
      <3>1. tabs[p].version \in 1..MaxVersion /\ row.version \in 1..MaxVersion
        BY <2>1, TabType DEF LadderTypeOK
      <3>2. tabs[p].version < row.version + 1
        BY <2>1, LaterVersion
      <3>. QED
        BY <3>1, <3>2
    <2>. QED
      BY <2>1
  <1>2. \A c \in serving' : row'.schema <= c
    <2>1. \A c \in serving' : c = b
      BY DEF KeepInv
    <2>. QED
      BY <2>1, BuildNumber
  <1>. QED
    BY <1>1, <1>2 DEF KeepInv

LEMMA KeepStep ==
    ASSUME LadderTypeOK, {"overlap", "rolled back"} \cap Turns = {}, KeepInv,
           [LadderNext]_ladderVars
    PROVE  KeepInv'
  <1>1. CASE Deploying
    <2>1. PICK b \in Builds : Deploy(b) \/ RetireBuild(b)
      BY <1>1 DEF Deploying
    <2>2. row' = row /\ tabs' = tabs
      BY <2>1 DEF Deploy, RetireBuild
    <2>3. CASE Deploy(b)
      <3>1. serving' = {b} /\ \A c \in serving : c < b
        BY <2>3 DEF Deploy
      <3>2. PICK c \in serving : c \in Builds /\ row.schema <= c /\ row.schema \in Builds
        BY DEF LadderTypeOK, KeepInv
      <3>3. row.schema <= b
        BY <3>1, <3>2, BuildNumber
      <3>. QED
        BY <2>2, <3>1, <3>3 DEF KeepInv, Carries
    <2>4. CASE RetireBuild(b)
      BY <2>2, <2>4 DEF RetireBuild, KeepInv, Carries
    <2>. QED
      BY <2>1, <2>3, <2>4
  <1>2. CASE Opening
    <2>1. PICK p \in Tabs, code \in Builds, b \in Builds : OpenTab(p, code, b)
      BY <1>2 DEF Opening
    <2>2. tabs'[p].schema = b /\ tabs'[p].version = row.version
          /\ tabs'[p].records = Migrate(row, b).records
          /\ \A q \in Tabs \ {p} : tabs'[q] = tabs[q]
      BY <2>1, OpensTab
    <2>3. \A r \in row.records : \E s \in Migrate(row, b).records :
              s.id = r.id /\ s.has = r.has \cup (row.schema + 1)..b
      BY Migrated DEF LadderTypeOK
    <2>4. Carries(tabs'[p], row)
      BY <2>2, <2>3 DEF Carries
    <2>5. row.version <= row.version
      BY RowVersion, VersionNumber
    <2>6. row' = row /\ serving' = serving
      BY <2>1 DEF OpenTab
    <2>. QED
      BY <2>2, <2>4, <2>5, <2>6 DEF KeepInv
  <1>3. CASE Closing
    <2>1. PICK p \in Tabs : CloseTab(p)
      BY <1>3 DEF Closing
    <2>2. tabs'[p] = NoTab /\ (\A q \in Tabs \ {p} : tabs'[q] = tabs[q])
          /\ row' = row /\ serving' = serving
      BY <2>1, Closed DEF CloseTab
    <2>. QED
      BY <2>2 DEF KeepInv
  <1>4. CASE Editing
    <2>1. PICK p \in Tabs : EditTab(p)
      BY <1>4 DEF Editing
    <2>2. /\ tabs[p] # NoTab /\ tabs'[p].schema = tabs[p].schema
          /\ tabs'[p].version = tabs[p].version
          /\ tabs[p].records \subseteq tabs'[p].records
          /\ \A q \in Tabs \ {p} : tabs'[q] = tabs[q]
      BY <2>1, Edited
    <2>3. Carries(tabs[p], row) => Carries(tabs'[p], row)
      BY <2>2 DEF Carries
    <2>4. row' = row /\ serving' = serving
      BY <2>1 DEF EditTab
    <2>. QED
      BY <2>2, <2>3, <2>4 DEF KeepInv
  <1>5. CASE Exporting
    BY <1>5 DEF Exporting, Export, KeepInv
  <1>6. CASE Saving
    <2>1. PICK p \in Tabs, b \in Builds : SaveTab(p, b)
      BY <1>6 DEF Saving
    <2>2. /\ tabs[p] # NoTab
          /\ tabs'[p].schema = tabs[p].schema /\ tabs'[p].records = tabs[p].records
          /\ tabs'[p].version = row.version + 1
          /\ \A q \in Tabs \ {p} : tabs'[q] = tabs[q]
          /\ row'.schema = b /\ row'.records = Migrate(tabs[p], b).records
          /\ row'.version = row.version + 1
      BY <2>1, SavesTab
    <2>3. Carries(tabs[p], row')
      BY <2>2, TabType, ClimbedCarries
    <2>4. Carries(tabs'[p], row')
      BY <2>2, <2>3 DEF Carries
    <2>5. ASSUME NEW q \in Tabs \ {p}, tabs[q] # NoTab
          PROVE  tabs[q].version <= row'.version /\ tabs[q].version # row'.version
      <3>1. tabs[q].version \in 1..MaxVersion /\ row.version \in 1..MaxVersion
        BY <2>5, TabType DEF LadderTypeOK
      <3>2. tabs[q].version < row.version + 1
        BY <2>5, LaterVersion
      <3>. QED
        BY <2>2, <3>1, <3>2, VersionNumber
    <2>6. row'.version <= row'.version
      BY <2>2, RowVersion, VersionNumber
    <2>7. serving' = serving /\ b \in serving
      BY <2>1 DEF SaveTab
    <2>8. \A c \in serving' : row'.schema <= c
      <3>1. \A c \in serving' : c = b
        BY <2>7 DEF KeepInv
      <3>. QED
        BY <2>2, <3>1, BuildNumber
    <2>. QED
      BY <2>2, <2>4, <2>5, <2>6, <2>7, <2>8 DEF KeepInv
  <1>7. CASE Commanding
    <2>1. PICK b \in Builds : Command(b)
      BY <1>7 DEF Commanding
    <2>2. row'.schema = b /\ row'.version = row.version + 1
      BY <2>1, Commanded
    <2>3. tabs' = tabs /\ serving' = serving /\ b \in serving
      BY <2>1 DEF Command
    <2>. QED
      BY <2>2, <2>3, Stored
  <1>8. CASE Importing
    <2>1. PICK b \in Builds : Import(b)
      BY <1>8 DEF Importing
    <2>2. row'.schema = b /\ row'.version = row.version + 1
      BY <2>1, Imported
    <2>3. tabs' = tabs /\ serving' = serving /\ b \in serving
      BY <2>1 DEF Import
    <2>. QED
      BY <2>2, <2>3, Stored
  <1>9. CASE UNCHANGED ladderVars
    BY <1>9 DEF ladderVars, KeepInv, Carries
  <1>. QED
    BY <1>1, <1>2, <1>3, <1>4, <1>5, <1>6, <1>7, <1>8, <1>9, NextSplits

\* What a step does to the row, when it is not an import.
LEMMA RowStep ==
    ASSUME LadderTypeOK, KeepInv, [LadderNext]_ladderVars
    PROVE  /\ row'.schema >= row.schema
           /\ replaced' = replaced =>
                  \A r \in row.records : \E s \in row'.records :
                      s.id = r.id /\ r.has \subseteq s.has
  <1>1. row.schema \in Builds /\ row.records \in SUBSET Records /\ row.schema >= row.schema
    BY DEF LadderTypeOK, Builds
  <1>2. CASE row' = row
    BY <1>1, <1>2
  <1>3. CASE Saving
    <2>1. PICK p \in Tabs, b \in Builds : SaveTab(p, b)
      BY <1>3 DEF Saving
    <2>2. /\ tabs[p] # NoTab /\ tabs[p].version = row.version
          /\ row'.schema = b /\ row'.records = Migrate(tabs[p], b).records
      BY <2>1, SavesTab DEF SaveTab, Agrees
    <2>3. row.schema <= b
      BY <2>1 DEF SaveTab, KeepInv
    <2>4. Carries(tabs[p], row)
      BY <2>2 DEF KeepInv
    <2>5. tabs[p].schema \in Builds /\ tabs[p].records \in SUBSET Records
      BY <2>2, TabType
    <2>6. \A r \in row.records : \E s \in Migrate(tabs[p], b).records :
              s.id = r.id /\ r.has \subseteq s.has
      BY <1>1, <2>3, <2>4, <2>5, ClimbingCarries
    <2>7. row'.schema >= row.schema
      BY <2>2, <2>3, <1>1 DEF Builds
    <2>. QED
      BY <2>2, <2>6, <2>7
  <1>4. CASE Commanding
    <2>1. PICK b \in Builds : Command(b)
      BY <1>4 DEF Commanding
    <2>2. row'.schema = b /\ Migrate(row, b).records \subseteq row'.records
      BY <2>1, Commanded
    <2>3. row.schema <= b
      BY <2>1 DEF Command, KeepInv
    <2>4. \A r \in row.records : \E s \in Migrate(row, b).records :
              s.id = r.id /\ r.has \subseteq s.has
      BY <1>1, Migrated
    <2>5. row'.schema >= row.schema
      BY <2>2, <2>3, <1>1 DEF Builds
    <2>. QED
      BY <2>2, <2>4, <2>5
  <1>5. CASE Importing
    <2>1. PICK b \in Builds : Import(b)
      BY <1>5 DEF Importing
    <2>2. row'.schema = b /\ row.schema <= b
      BY <2>1, Imported DEF Import, KeepInv
    <2>3. row'.schema >= row.schema
      BY <2>2, <1>1 DEF Builds
    <2>4. replaced' # replaced
      BY <2>1 DEF Import, LadderTypeOK
    <2>. QED
      BY <2>3, <2>4
  <1>6. Deploying \/ Opening \/ Closing \/ Editing \/ Exporting \/ UNCHANGED ladderVars
            => row' = row
    BY DEF Deploying, Opening, Closing, Editing, Exporting, Deploy, RetireBuild, OpenTab,
           CloseTab, EditTab, Export, ladderVars
  <1>. QED
    BY <1>2, <1>3, <1>4, <1>5, <1>6, NextSplits

LEMMA Keeps ==
    ASSUME {"overlap", "rolled back"} \cap Turns = {}
    PROVE  LadderSpec => []KeepInv
  <1>1. LadderTypeOK /\ KeepInv /\ [LadderNext]_ladderVars => KeepInv'
    BY KeepStep
  <1>. QED
    BY <1>1, KeepInit, LadderTyped, PTL DEF LadderSpec

\* What was stored stays under every later version, unless somebody imports over it, as
\* long as one build answers at a time and none returns.
THEOREM WorkKept == {"overlap", "rolled back"} \cap Turns = {} => (LadderSpec => StoredWorkStays)
  <1>. SUFFICES ASSUME {"overlap", "rolled back"} \cap Turns = {}
                PROVE  LadderSpec => StoredWorkStays
    OBVIOUS
  <1>1. LadderTypeOK /\ KeepInv /\ [LadderNext]_ladderVars =>
            [replaced' = replaced =>
                \A r \in row.records : \E s \in row'.records :
                    s.id = r.id /\ r.has \subseteq s.has]_ladderVars
    BY RowStep
  <1>2. LadderSpec => []KeepInv
    BY Keeps
  <1>. QED
    BY <1>1, <1>2, LadderTyped, PTL DEF LadderSpec, StoredWorkStays

\* A document of a newer build is not downgraded, under the same condition: the check of
\* the version, which nobody made for the ladder, is what refuses an old page.
THEOREM SchemaKept == {"overlap", "rolled back"} \cap Turns = {} => (LadderSpec => SchemaNeverFalls)
  <1>. SUFFICES ASSUME {"overlap", "rolled back"} \cap Turns = {}
                PROVE  LadderSpec => SchemaNeverFalls
    OBVIOUS
  <1>1. LadderTypeOK /\ KeepInv /\ [LadderNext]_ladderVars =>
            [row'.schema >= row.schema]_ladderVars
    BY RowStep
  <1>2. LadderSpec => []KeepInv
    BY Keeps
  <1>. QED
    BY <1>1, <1>2, LadderTyped, PTL DEF LadderSpec, SchemaNeverFalls

\* For any screens and builds: the auxiliary documents keep their promises whatever is
\* lost, late or reloaded, and the register's rows are whole as long as a page and its
\* document come from one build.
THEOREM DocumentsKept ==
    ASSUME "straddled" \notin Turns
    PROVE  AuxSpec /\ LadderSpec => []DocumentsHold
  <1>1. LadderSpec => []LadderHolds
    BY LadderKept
  <1>. QED
    BY <1>1, AuxAlways, InvHolds, PTL DEF DocumentsHold
-----------------------------------------------------------------------------
(* Crew. *)

CrewSpec == CrewInit /\ [][CrewNext]_crewVars

Rows == UNION {[S -> Recorded] : S \in SUBSET (Nat \ {0})}
Screen == [rows : Rows, version : Nat, says : {"", "saved", "not saved"}]

CommandOf(n, i, s, v, t, a, k, r, h) ==
    [name |-> n, id |-> i, shift |-> s, version |-> v, tag |-> t, answer |-> a, told |-> k,
     rows |-> r, heard |-> h]
\* A command, but for the tag that tells it from another one like it.
IsCommand(c) ==
    /\ c = CommandOf(c.name, c.id, c.shift, c.version, c.tag, c.answer, c.told, c.rows, c.heard)
    /\ c.name \in {"recordHours", "correctHours", "deleteHours"} /\ c.shift \in Shifts
    /\ c.version \in Nat /\ c.told \in Nat /\ c.rows \in Rows /\ c.heard \in BOOLEAN
    /\ c.answer \in {"none", "run", "refused", "ok"}

CrewTyped ==
    /\ register \in [rows : Rows, version : Nat] /\ ids \in Nat
    /\ phones \in [Phones -> Screen]
    /\ DOMAIN onWire = Phones /\ onWire = [p \in Phones |-> onWire[p]]
    /\ DOMAIN register.rows \subseteq 1..ids

\* A command that may still be run was pressed before a screen that drew the rows
\* in force: what it records is not there, and what it touches is.
Fits(p, c) ==
    /\ c.name \in {"recordHours", "correctHours"} =>
           \A i \in DOMAIN register.rows :
               register.rows[i].phone = p => register.rows[i].shift # c.shift
    /\ c.name # "recordHours" =>
           c.id \in DOMAIN register.rows /\ register.rows[c.id].phone = p

\* The version a command rests on, and the one it made, have been in force; an answer
\* carries rows of its phone, and those in force while its version is.
SoundCommand(p, c) ==
    /\ IsCommand(c)
    /\ c.version <= register.version /\ c.told <= register.version
    /\ c.answer = "none" /\ c.version = register.version => Fits(p, c)
    /\ c.answer = "ok" =>
           /\ \A i \in DOMAIN c.rows : c.rows[i].phone = p
           /\ c.told = register.version => c.rows = Mine(p, register.rows)

SoundScreen(p, screen) ==
    /\ screen.version <= register.version
    /\ \A i \in DOMAIN screen.rows : screen.rows[i].phone = p
    /\ screen.version = register.version => screen.rows = Mine(p, register.rows)

CInv ==
    /\ CrewTyped /\ NoShiftTwice
    /\ \A p \in Phones : SoundScreen(p, phones[p])
    /\ \A p \in Phones : \A c \in onWire[p] : SoundCommand(p, c)

-----------------------------------------------------------------------------
(* What is on the wire and on the screens. *)

LEMMA CrewStarts == CrewInit => CInv
  <1> SUFFICES ASSUME CrewInit PROVE CInv
    OBVIOUS
  <1>1. register = [rows |-> <<>>, version |-> 0]
        /\ phones = [p \in Phones |-> [rows |-> <<>>, version |-> 0, says |-> ""]]
        /\ onWire = [p \in Phones |-> {}] /\ ids = 0
    BY DEF CrewInit
  <1>2. <<>> \in Rows /\ DOMAIN <<>> = {}
    <2>1. <<>> \in [{} -> Recorded]
      OBVIOUS
    <2>. QED
      BY <2>1 DEF Rows
  <1>3. register.rows = <<>> /\ register.version = 0
        /\ \A p \in Phones : /\ phones[p].rows = <<>> /\ phones[p].version = 0
                             /\ onWire[p] = {}
    BY <1>1
  <1>4. CrewTyped
    <2>1. register \in [rows : Rows, version : Nat]
      BY <1>1, <1>2
    <2>2. [rows |-> <<>>, version |-> 0, says |-> ""] \in Screen
      BY <1>2 DEF Screen
    <2>3. phones \in [Phones -> Screen]
      BY <1>1, <2>2
    <2>4. DOMAIN register.rows \subseteq 1..ids
      BY <1>2, <1>3
    <2>. QED
      BY <1>1, <1>3, <2>1, <2>3, <2>4 DEF CrewTyped
  <1>5. \A p \in Phones : Mine(p, <<>>) = <<>>
    <2>1. \A p \in Phones : {k \in DOMAIN <<>> : <<>>[k].phone = p} = {}
      BY <1>2
    <2>2. <<>> = [i \in {} |-> <<>>[i]]
      OBVIOUS
    <2>. QED
      BY <2>1, <2>2 DEF Mine
  <1>6. NoShiftTwice
    BY <1>2, <1>3 DEF NoShiftTwice
  <1>7. \A p \in Phones : SoundScreen(p, phones[p])
    BY <1>2, <1>3, <1>5 DEF SoundScreen
  <1>. QED
    BY <1>3, <1>4, <1>6, <1>7 DEF CInv

LEMMA CrewKnows == CInv => CrewHolds
  <1>1. CInv => CrewTypeOK
    BY DEF CInv, CrewTyped, CrewTypeOK, SoundScreen, Rows
  <1>2. CInv => DrawnIsStored
    BY DEF CInv, DrawnIsStored, SoundScreen
  <1>. QED
    BY <1>1, <1>2 DEF CInv, CrewHolds

LEMMA RowsType ==
    ASSUME NEW rows \in Rows
    PROVE  /\ DOMAIN rows \subseteq Nat \ {0} /\ rows \in [DOMAIN rows -> Recorded]
           /\ \A i \in DOMAIN rows : /\ rows[i] = [phone |-> rows[i].phone,
                                                  shift |-> rows[i].shift]
                                     /\ rows[i].phone \in Phones /\ rows[i].shift \in Shifts
  <1>1. PICK S \in SUBSET (Nat \ {0}) : rows \in [S -> Recorded]
    BY DEF Rows
  <1>2. DOMAIN rows = S /\ \A i \in S : rows[i] \in Recorded
    BY <1>1
  <1>. QED
    BY <1>1, <1>2 DEF Recorded

\* What a phone is shown are rows, its own, as they are.
LEMMA MineIs ==
    ASSUME NEW rows \in Rows, NEW p
    PROVE  /\ Mine(p, rows) \in Rows
           /\ \A i : i \in DOMAIN Mine(p, rows)
                         <=> i \in DOMAIN rows /\ rows[i].phone = p
           /\ \A i \in DOMAIN Mine(p, rows) : Mine(p, rows)[i] = rows[i]
  <1> DEFINE S == {k \in DOMAIN rows : rows[k].phone = p}
  <1>1. Mine(p, rows) = [i \in S |-> rows[i]]
    BY DEF Mine
  <1>2. S \in SUBSET (Nat \ {0}) /\ \A i \in S : rows[i] \in Recorded
    BY RowsType DEF Recorded
  <1>3. Mine(p, rows) \in [S -> Recorded]
    BY <1>1, <1>2
  <1>4. Mine(p, rows) \in Rows
    BY <1>2, <1>3 DEF Rows
  <1>. QED
    BY <1>1, <1>4

-----------------------------------------------------------------------------
(* Steps that leave the register alone, and steps that make a version of it. *)

LEMMA WireStep ==
    ASSUME CInv, UNCHANGED <<register, ids>>, phones' \in [Phones -> Screen],
           \A q \in Phones : SoundScreen(q, phones'[q]),
           NEW p \in Phones, NEW gone, NEW put, \A c \in put : SoundCommand(p, c),
           onWire' = [onWire EXCEPT ![p] = (@ \ gone) \cup put]
    PROVE  CInv'
  <1>1. CrewTyped'
    BY DEF CInv, CrewTyped
  <1>2. NoShiftTwice'
    BY DEF CInv, NoShiftTwice
  <1>3. \A q \in Phones : SoundScreen(q, phones[q])'
    BY DEF SoundScreen
  <1>4. \A q \in Phones : \A c \in onWire'[q] : SoundCommand(q, c)
    BY DEF CInv, CrewTyped
  <1>5. \A q \in Phones : \A c \in onWire'[q] : SoundCommand(q, c)'
    BY <1>4 DEF SoundCommand, Fits
  <1>. QED
    BY <1>1, <1>2, <1>3, <1>5 DEF CInv

\* Commands of an earlier version ask nothing of the rows in force.
LEMMA Later ==
    ASSUME register.version \in Nat, register'.version = register.version + 1, NEW p
    PROVE  \A c : SoundCommand(p, c) => SoundCommand(p, c)'
  BY DEF SoundCommand, IsCommand

LEMMA VersionStep ==
    ASSUME CInv, UNCHANGED phones, register' \in [rows : Rows, version : Nat],
           register'.version = register.version + 1, ids' \in Nat,
           DOMAIN register'.rows \subseteq 1..ids', NoShiftTwice',
           DOMAIN onWire' = Phones, onWire' = [p \in Phones |-> onWire'[p]],
           \A p \in Phones : \A c \in onWire'[p] : c \in onWire[p] \/ SoundCommand(p, c)'
    PROVE  CInv'
  <1>1. CrewTyped'
    BY DEF CInv, CrewTyped
  <1>2. register.version \in Nat /\ \A p \in Phones : phones[p].version \in Nat
    BY DEF CInv, CrewTyped, Screen
  <1>3. \A p \in Phones : SoundScreen(p, phones[p])'
    <2> SUFFICES ASSUME NEW p \in Phones PROVE SoundScreen(p, phones[p])'
      OBVIOUS
    <2>1. SoundScreen(p, phones[p])
      BY DEF CInv
    <2>. QED
      BY <1>2, <2>1 DEF SoundScreen
  <1>4. \A p \in Phones : \A c \in onWire'[p] : SoundCommand(p, c)'
    <2> SUFFICES ASSUME NEW p \in Phones, NEW c \in onWire[p] PROVE SoundCommand(p, c)'
      OBVIOUS
    <2>1. SoundCommand(p, c)
      BY DEF CInv
    <2>. QED
      BY <1>2, <2>1, Later
  <1>. QED
    BY <1>1, <1>3, <1>4 DEF CInv

-----------------------------------------------------------------------------
(* One step for each action. *)

LEMMA StepSend ==
    ASSUME CInv, NEW p \in Phones,
           NEW name \in {"recordHours", "correctHours", "deleteHours"}, NEW id,
           NEW shift \in Shifts, SendCommand(p, name, id, shift),
           name \in {"recordHours", "correctHours"} => shift \notin Shown(p),
           name # "recordHours" => id \in DOMAIN phones[p].rows
    PROVE  CInv'
  <1>1. PICK tag : onWire' = [onWire EXCEPT ![p] = @ \cup
            {[name |-> name, id |-> id, shift |-> shift, version |-> phones[p].version,
              tag |-> tag, answer |-> "none", told |-> 0, rows |-> <<>>, heard |-> TRUE]}]
    BY DEF SendCommand
  <1>2. PICK c : c = [name |-> name, id |-> id, shift |-> shift,
                      version |-> phones[p].version, tag |-> tag, answer |-> "none",
                      told |-> 0, rows |-> <<>>, heard |-> TRUE]
    OBVIOUS
  <1>3. /\ c.name = name /\ c.id = id /\ c.shift = shift /\ c.version = phones[p].version
        /\ c.tag = tag /\ c.answer = "none" /\ c.told = 0 /\ c.rows = <<>>
        /\ c.heard = TRUE
    BY <1>2
  <1>4. SoundScreen(p, phones[p]) /\ phones[p] \in Screen /\ register.version \in Nat
        /\ register.rows \in Rows
    BY DEF CInv, CrewTyped
  <1>5. IsCommand(c)
    <2>1. <<>> \in Rows
      <3>1. <<>> \in [{} -> Recorded]
        OBVIOUS
      <3>. QED
        BY <3>1 DEF Rows
    <2>2. c = CommandOf(c.name, c.id, c.shift, c.version, c.tag, c.answer, c.told, c.rows,
                        c.heard)
      BY <1>2 DEF CommandOf
    <2>3. phones[p].version \in Nat
      BY <1>4 DEF Screen
    <2>4. c.heard \in BOOLEAN
      BY <1>3, Zenon
    <2>6. c.told \in Nat
      BY <1>3
    <2>5. c.answer \in {"none", "run", "refused", "ok"} /\ c.shift \in Shifts
          /\ c.name \in {"recordHours", "correctHours", "deleteHours"}
          /\ c.version \in Nat /\ c.rows \in Rows
      BY <1>3, <2>1, <2>3
    <2>. QED
      BY <2>2, <2>4, <2>5, <2>6 DEF IsCommand
  <1>6. phones[p].version = register.version => Fits(p, c)
    <2> SUFFICES ASSUME phones[p].version = register.version PROVE Fits(p, c)
      OBVIOUS
    <2>1. phones[p].rows = Mine(p, register.rows)
      BY <1>4 DEF SoundScreen
    <2>2. name # "recordHours" => id \in DOMAIN register.rows /\ register.rows[id].phone = p
      BY <2>1, <1>4, MineIs
    <2>3. ASSUME NEW i \in DOMAIN register.rows, register.rows[i].phone = p,
                 shift \notin Shown(p)
          PROVE  register.rows[i].shift # shift
      <3>1. i \in DOMAIN phones[p].rows /\ phones[p].rows[i] = register.rows[i]
        BY <2>1, <2>3, <1>4, MineIs
      <3>. QED
        BY <3>1, <2>3 DEF Shown
    <2>. QED
      BY <1>3, <2>2, <2>3 DEF Fits
  <1>7. SoundCommand(p, c)
    <2>1. c.version <= register.version /\ c.told <= register.version
      BY <1>3, <1>4 DEF SoundScreen
    <2>2. c.answer = "none" /\ c.version = register.version => Fits(p, c)
      BY <1>3, <1>6
    <2>3. c.answer # "ok"
      BY <1>3
    <2>. QED
      BY <1>5, <2>1, <2>2, <2>3 DEF SoundCommand
  <1>8. onWire' = [onWire EXCEPT ![p] = (@ \ {}) \cup {c}]
    BY <1>1, <1>2
  <1>9. UNCHANGED <<register, ids, phones>> /\ phones' \in [Phones -> Screen]
        /\ \A q \in Phones : SoundScreen(q, phones'[q])
    BY DEF SendCommand, CInv, CrewTyped
  <1>10. PICK put : put = {c}
    OBVIOUS
  <1>11. onWire' = [onWire EXCEPT ![p] = (@ \ {}) \cup put]
         /\ \A e \in put : SoundCommand(p, e)
    BY <1>7, <1>8, <1>10
  <1>. QED
    BY <1>9, <1>11, WireStep

\* A command that is answered keeps what it says.
LEMMA FieldSet ==
    ASSUME NEW c, NEW n, NEW i, NEW s, NEW v, NEW t, NEW a, NEW k, NEW r, NEW h, NEW x,
           c = CommandOf(n, i, s, v, t, a, k, r, h)
    PROVE  /\ [c EXCEPT !.answer = x] = CommandOf(n, i, s, v, t, x, k, r, h)
           /\ [c EXCEPT !.told = x] = CommandOf(n, i, s, v, t, a, x, r, h)
           /\ [c EXCEPT !.rows = x] = CommandOf(n, i, s, v, t, a, k, x, h)
           /\ [c EXCEPT !.heard = x] = CommandOf(n, i, s, v, t, a, k, r, x)
  <1>1. [c EXCEPT !.answer = x] = CommandOf(n, i, s, v, t, x, k, r, h)
    BY DEF CommandOf
  <1>2. [c EXCEPT !.told = x] = CommandOf(n, i, s, v, t, a, x, r, h)
    BY DEF CommandOf
  <1>3. [c EXCEPT !.rows = x] = CommandOf(n, i, s, v, t, a, k, x, h)
    BY DEF CommandOf
  <1>4. [c EXCEPT !.heard = x] = CommandOf(n, i, s, v, t, a, k, r, x)
    BY DEF CommandOf
  <1>. QED
    BY <1>1, <1>2, <1>3, <1>4

LEMMA FieldIs ==
    ASSUME NEW c, NEW n, NEW i, NEW s, NEW v, NEW t, NEW a, NEW k, NEW r, NEW h,
           c = CommandOf(n, i, s, v, t, a, k, r, h)
    PROVE  /\ c.name = n /\ c.id = i /\ c.shift = s /\ c.version = v /\ c.answer = a
           /\ c.told = k /\ c.rows = r /\ c.heard = h
           /\ c = CommandOf(c.name, c.id, c.shift, c.version, c.tag, c.answer, c.told, c.rows,
                            c.heard)
  BY DEF CommandOf

LEMMA AnsweredIs ==
    ASSUME NEW c, IsCommand(c), NEW a, NEW x
    PROVE  /\ [c EXCEPT !.answer = a] =
                 CommandOf(c.name, c.id, c.shift, c.version, c.tag, a, c.told, c.rows, c.heard)
           /\ [c EXCEPT !.answer = a, !.told = x] =
                 CommandOf(c.name, c.id, c.shift, c.version, c.tag, a, x, c.rows, c.heard)
           /\ [c EXCEPT !.answer = a, !.rows = x] =
                 CommandOf(c.name, c.id, c.shift, c.version, c.tag, a, c.told, x, c.heard)
           /\ [c EXCEPT !.heard = x] =
                 CommandOf(c.name, c.id, c.shift, c.version, c.tag, c.answer, c.told, c.rows, x)
  <1>1. PICK d : d = [c EXCEPT !.answer = a]
    OBVIOUS
  <1>2. d = CommandOf(c.name, c.id, c.shift, c.version, c.tag, a, c.told, c.rows, c.heard)
    BY <1>1, FieldSet DEF IsCommand
  <1>3. /\ [c EXCEPT !.answer = a, !.told = x] = [d EXCEPT !.told = x]
        /\ [c EXCEPT !.answer = a, !.rows = x] = [d EXCEPT !.rows = x]
    BY <1>1
  <1>4. [d EXCEPT !.told = x] =
               CommandOf(c.name, c.id, c.shift, c.version, c.tag, a, x, c.rows, c.heard)
    BY <1>2 DEF CommandOf
  <1>5. [d EXCEPT !.rows = x] =
               CommandOf(c.name, c.id, c.shift, c.version, c.tag, a, c.told, x, c.heard)
    BY <1>2 DEF CommandOf
  <1>6. ASSUME NEW n, NEW i, NEW s, NEW v, NEW t, NEW b, NEW k, NEW r, NEW h,
               c = CommandOf(n, i, s, v, t, b, k, r, h)
        PROVE  [c EXCEPT !.heard = x] = CommandOf(n, i, s, v, t, b, k, r, x)
    BY <1>6 DEF CommandOf
  <1>7. [c EXCEPT !.heard = x] =
            CommandOf(c.name, c.id, c.shift, c.version, c.tag, c.answer, c.told, c.rows, x)
    BY <1>6 DEF IsCommand
  <1>. QED
    BY <1>1, <1>2, <1>3, <1>4, <1>5, <1>7

LEMMA StepRefuse ==
    ASSUME CInv, NEW p \in Phones, RefuseCommand(p)
    PROVE  CInv'
  <1>1. PICK c \in onWire[p] : Answers(p, c, [c EXCEPT !.answer = "refused"])
    BY DEF RefuseCommand
  <1>2. SoundCommand(p, c) /\ IsCommand(c)
    BY DEF CInv, SoundCommand
  <1>3. PICK d : d = [c EXCEPT !.answer = "refused"]
    OBVIOUS
  <1>4. SoundCommand(p, d)
    <2>1. d = CommandOf(c.name, c.id, c.shift, c.version, c.tag, "refused", c.told, c.rows,
                        c.heard)
      BY <1>2, <1>3, AnsweredIs
    <2>2. /\ d.name = c.name /\ d.shift = c.shift /\ d.version = c.version
          /\ d.answer = "refused" /\ d.told = c.told /\ d.rows = c.rows /\ d.heard = c.heard
          /\ d = CommandOf(d.name, d.id, d.shift, d.version, d.tag, d.answer, d.told, d.rows,
                           d.heard)
      BY <2>1, FieldIs
    <2>3. IsCommand(d)
      BY <2>2, <1>2 DEF IsCommand
    <2>. QED
      BY <2>2, <2>3, <1>2 DEF SoundCommand
  <1>5. PICK put : put = IF c.heard THEN {d} ELSE {}
    OBVIOUS
  <1>6. onWire' = [onWire EXCEPT ![p] = (@ \ {c}) \cup put]
        /\ \A e \in put : SoundCommand(p, e)
    BY <1>1, <1>3, <1>4, <1>5 DEF Answers
  <1>7. UNCHANGED <<register, ids, phones>> /\ phones' \in [Phones -> Screen]
        /\ \A q \in Phones : SoundScreen(q, phones'[q])
    BY DEF RefuseCommand, CInv, CrewTyped
  <1>. QED
    BY <1>6, <1>7, WireStep

LEMMA StepReadAgain ==
    ASSUME CInv, NEW p \in Phones, ReadAgain(p)
    PROVE  CInv'
  <1>1. PICK c \in onWire[p] :
            Answers(p, c, [c EXCEPT !.answer = "ok", !.rows = Mine(p, register.rows)])
    BY DEF ReadAgain
  <1>2. SoundCommand(p, c) /\ IsCommand(c)
    BY DEF CInv, SoundCommand
  <1>3. PICK d : d = [c EXCEPT !.answer = "ok", !.rows = Mine(p, register.rows)]
    OBVIOUS
  <1>4. SoundCommand(p, d)
    <2>1. d = CommandOf(c.name, c.id, c.shift, c.version, c.tag, "ok", c.told,
                        Mine(p, register.rows), c.heard)
      BY <1>2, <1>3, AnsweredIs
    <2>4. /\ d.name = c.name /\ d.shift = c.shift /\ d.version = c.version
          /\ d.answer = "ok" /\ d.told = c.told /\ d.heard = c.heard
          /\ d.rows = Mine(p, register.rows)
          /\ d = CommandOf(d.name, d.id, d.shift, d.version, d.tag, d.answer, d.told, d.rows,
                           d.heard)
      BY <2>1, FieldIs
    <2>2. register.rows \in Rows
      BY DEF CInv, CrewTyped
    <2>3. Mine(p, register.rows) \in Rows
          /\ \A i \in DOMAIN Mine(p, register.rows) : Mine(p, register.rows)[i].phone = p
      BY <2>2, MineIs
    <2>. QED
      BY <2>3, <2>4, <1>2 DEF SoundCommand, IsCommand
  <1>5. PICK put : put = IF c.heard THEN {d} ELSE {}
    OBVIOUS
  <1>6. onWire' = [onWire EXCEPT ![p] = (@ \ {c}) \cup put]
        /\ \A e \in put : SoundCommand(p, e)
    BY <1>1, <1>3, <1>4, <1>5 DEF Answers
  <1>7. UNCHANGED <<register, ids, phones>> /\ phones' \in [Phones -> Screen]
        /\ \A q \in Phones : SoundScreen(q, phones'[q])
    BY DEF ReadAgain, CInv, CrewTyped
  <1>. QED
    BY <1>6, <1>7, WireStep

LEMMA StepNoAnswer ==
    ASSUME CInv, NEW p \in Phones, NoAnswer(p)
    PROVE  CInv'
  <1>1. PICK c \in onWire[p] :
            /\ phones' = [phones EXCEPT ![p].says = "not saved"]
            /\ onWire' = [onWire EXCEPT ![p] = (@ \ {c}) \cup
                   IF c.answer = "none" THEN {[c EXCEPT !.heard = FALSE]} ELSE {}]
    BY DEF NoAnswer, Waiting
  <1>2. SoundCommand(p, c) /\ IsCommand(c)
    BY DEF CInv, SoundCommand
  <1>3. PICK d : d = [c EXCEPT !.heard = FALSE]
    OBVIOUS
  <1>4. SoundCommand(p, d)
    <2> PICK no : no = FALSE
      OBVIOUS
    <2>0. d = [c EXCEPT !.heard = no]
      BY <1>3
    <2>1. d = CommandOf(c.name, c.id, c.shift, c.version, c.tag, c.answer, c.told, c.rows,
                        no)
      BY <2>0, <1>2, AnsweredIs
    <2>2. /\ d.name = c.name /\ d.shift = c.shift /\ d.version = c.version /\ d.id = c.id
          /\ d.answer = c.answer /\ d.told = c.told /\ d.rows = c.rows /\ d.heard = FALSE
          /\ d = CommandOf(d.name, d.id, d.shift, d.version, d.tag, d.answer, d.told, d.rows,
                           d.heard)
      BY <2>1 DEF CommandOf
    <2>3. d.heard \in BOOLEAN
      BY <2>2, Zenon
    <2>4. IsCommand(d)
      BY <2>2, <2>3, <1>2 DEF IsCommand
    <2>5. Fits(p, c) => Fits(p, d)
      BY <2>2 DEF Fits
    <2>. QED
      BY <2>2, <2>4, <2>5, <1>2 DEF SoundCommand
  <1>5. PICK put : put = IF c.answer = "none" THEN {d} ELSE {}
    OBVIOUS
  <1>6. onWire' = [onWire EXCEPT ![p] = (@ \ {c}) \cup put]
        /\ \A e \in put : SoundCommand(p, e)
    BY <1>1, <1>3, <1>4, <1>5
  <1>7. phones \in [Phones -> Screen] /\ \A q \in Phones : SoundScreen(q, phones[q])
    BY DEF CInv, CrewTyped
  <1>8. /\ phones' \in [Phones -> Screen]
        /\ \A q \in Phones : /\ phones'[q].version = phones[q].version
                              /\ phones'[q].rows = phones[q].rows
    BY <1>1, <1>7 DEF Screen
  <1>9. \A q \in Phones : SoundScreen(q, phones'[q])
    BY <1>7, <1>8 DEF SoundScreen
  <1>10. UNCHANGED <<register, ids>>
    BY DEF NoAnswer
  <1>. QED
    BY <1>6, <1>8, <1>9, <1>10, WireStep

LEMMA StepArrives ==
    ASSUME CInv, NEW p \in Phones, AnswerArrives(p)
    PROVE  CInv'
  <1>1. PICK c \in onWire[p] :
            /\ phones' = [phones EXCEPT ![p] = Drawn(p, c)]
            /\ onWire' = [onWire EXCEPT ![p] = @ \ {c}]
    BY DEF AnswerArrives
  <1>2. SoundCommand(p, c) /\ IsCommand(c)
    BY DEF CInv, SoundCommand
  <1>3. phones \in [Phones -> Screen] /\ \A q \in Phones : SoundScreen(q, phones[q])
    BY DEF CInv, CrewTyped
  <1>4. Drawn(p, c) \in Screen /\ SoundScreen(p, Drawn(p, c))
    <2>1. CASE c.answer = "ok"
      <3>1. Drawn(p, c) = [rows |-> c.rows, version |-> c.told, says |-> "saved"]
        BY <2>1 DEF Drawn
      <3>. QED
        BY <2>1, <3>1, <1>2 DEF Screen, SoundScreen, SoundCommand, IsCommand
    <2>2. CASE c.answer # "ok"
      <3>1. Drawn(p, c) = [phones[p] EXCEPT !.says = "not saved"]
        BY <2>2 DEF Drawn
      <3>2. /\ Drawn(p, c) \in Screen /\ Drawn(p, c).rows = phones[p].rows
            /\ Drawn(p, c).version = phones[p].version
        BY <3>1, <1>3 DEF Screen
      <3>. QED
        BY <3>2, <1>3 DEF SoundScreen
    <2>. QED
      BY <2>1, <2>2
  <1>5. phones' \in [Phones -> Screen] /\ \A q \in Phones : SoundScreen(q, phones'[q])
    BY <1>1, <1>3, <1>4
  <1>6. PICK put : put = {}
    OBVIOUS
  <1>7. onWire' = [onWire EXCEPT ![p] = (@ \ {c}) \cup put]
        /\ \A e \in put : SoundCommand(p, e)
    BY <1>1, <1>6
  <1>8. UNCHANGED <<register, ids>>
    BY DEF AnswerArrives
  <1>. QED
    BY <1>5, <1>7, <1>8, WireStep

LEMMA StepReload ==
    ASSUME CInv, NEW p \in Phones, ReloadPage(p)
    PROVE  CInv'
  <1>1. phones' = [phones EXCEPT ![p] = [rows |-> Mine(p, register.rows),
                                         version |-> register.version, says |-> ""]]
        /\ UNCHANGED <<register, onWire, ids>>
    BY DEF ReloadPage
  <1>2. phones \in [Phones -> Screen] /\ (\A q \in Phones : SoundScreen(q, phones[q]))
        /\ register.rows \in Rows /\ register.version \in Nat
        /\ onWire = [q \in Phones |-> onWire[q]]
    BY DEF CInv, CrewTyped
  <1>3. PICK screen : screen = [rows |-> Mine(p, register.rows),
                                version |-> register.version, says |-> ""]
    OBVIOUS
  <1>4. screen \in Screen /\ SoundScreen(p, screen)
    <2>1. screen \in Screen
      BY <1>2, <1>3, MineIs DEF Screen
    <2>2. \A i \in DOMAIN Mine(p, register.rows) : Mine(p, register.rows)[i].phone = p
      BY <1>2, MineIs
    <2>. QED
      <3>1. screen.rows = Mine(p, register.rows) /\ screen.version = register.version
        BY <1>3
      <3>2. SoundScreen(p, screen)
        BY <2>2, <3>1, <1>2 DEF SoundScreen
      <3>. QED
        BY <2>1, <3>2
  <1>5. phones' \in [Phones -> Screen] /\ \A q \in Phones : SoundScreen(q, phones'[q])
    BY <1>1, <1>2, <1>3, <1>4
  <1>6. PICK put : put = {}
    OBVIOUS
  <1>7. onWire' = [onWire EXCEPT ![p] = (@ \ {}) \cup put]
        /\ \A e \in put : SoundCommand(p, e)
    BY <1>1, <1>2, <1>6
  <1>. QED
    BY <1>1, <1>5, <1>7, WireStep

\* Whatever the command, the rows it leaves name no shift of a phone twice.
LEMMA AppliedIs ==
    ASSUME CInv, NEW p \in Phones, NEW c \in onWire[p], c.answer = "none",
           c.version = register.version,
           NEW rows, rows = Applied(p, c),
           NEW n, n = IF c.name = "recordHours" THEN ids + 1 ELSE ids
    PROVE  /\ rows \in Rows /\ DOMAIN rows \subseteq 1..n /\ n \in Nat
           /\ \A i, k \in DOMAIN rows : rows[i] = rows[k] => i = k
  <1>1. IsCommand(c) /\ Fits(p, c)
    BY DEF CInv, SoundCommand
  <1>2. PICK old : old = register.rows
    OBVIOUS
  <1>3. /\ old \in Rows /\ ids \in Nat /\ DOMAIN old \subseteq 1..ids
        /\ \A i, k \in DOMAIN old : old[i] = old[k] => i = k
    BY <1>2 DEF CInv, CrewTyped, NoShiftTwice
  <1>4. old \in [DOMAIN old -> Recorded] /\ DOMAIN old \subseteq Nat \ {0}
    BY <1>3, RowsType
  <1>5. CASE c.name = "recordHours"
    <2> DEFINE hours == [phone |-> p, shift |-> c.shift]
    <2>1. rows = [i \in DOMAIN old \cup {ids + 1} |-> IF i = ids + 1 THEN hours ELSE old[i]]
          /\ n = ids + 1
      BY <1>2, <1>5 DEF Applied
    <2>2. hours \in Recorded /\ hours.phone = p /\ hours.shift = c.shift
      BY <1>1 DEF Recorded, IsCommand
    <2>3. \A i \in DOMAIN old : old[i] # hours /\ i # ids + 1
      <3>1. \A i \in DOMAIN old : old[i].phone = p => old[i].shift # c.shift
        BY <1>1, <1>2, <1>5 DEF Fits
      <3>2. \A i \in DOMAIN old : i \in 1..ids
        BY <1>3
      <3>. QED
        BY <2>2, <3>1, <3>2, <1>3
    <2> HIDE DEF hours
    <2>4. rows \in [DOMAIN old \cup {ids + 1} -> Recorded]
      BY <2>1, <2>2, <1>4
    <2>5. rows \in Rows
      BY <2>4, <1>3, <1>4 DEF Rows
    <2>6. DOMAIN rows \subseteq 1..n /\ n \in Nat
      BY <2>1, <1>3
    <2>. QED
      BY <2>1, <2>3, <2>5, <2>6, <1>3
  <1>6. CASE c.name = "correctHours"
    <2>1. rows = [old EXCEPT ![c.id].shift = c.shift] /\ n = ids
      BY <1>2, <1>6 DEF Applied
    <2>2. c.id \in DOMAIN old /\ old[c.id].phone = p
          /\ \A i \in DOMAIN old : old[i].phone = p => old[i].shift # c.shift
      BY <1>1, <1>2, <1>6 DEF Fits
    <2>3. PICK hours : hours = [old[c.id] EXCEPT !.shift = c.shift]
      OBVIOUS
    <2>4. rows = [old EXCEPT ![c.id] = hours]
      BY <2>1, <2>2, <2>3
    <2>5. hours \in Recorded /\ hours.phone = p /\ hours.shift = c.shift
      <3>1. old[c.id] \in Recorded /\ c.shift \in Shifts
        BY <2>2, <1>1, <1>4 DEF IsCommand
      <3>. QED
        BY <3>1, <2>2, <2>3 DEF Recorded
    <2>6. \A i \in DOMAIN old : old[i] # hours
      BY <2>2, <2>5
    <2>7. rows \in [DOMAIN old -> Recorded]
      BY <2>4, <2>5, <1>4
    <2>8. DOMAIN rows = DOMAIN old /\ rows \in Rows
      BY <2>7, <1>4 DEF Rows
    <2>. QED
      BY <2>1, <2>2, <2>4, <2>6, <2>8, <1>3
  <1>7. CASE c.name = "deleteHours"
    <2>1. rows = [i \in DOMAIN old \ {c.id} |-> old[i]] /\ n = ids
      BY <1>2, <1>7 DEF Applied
    <2>2. rows \in [DOMAIN old \ {c.id} -> Recorded]
      BY <2>1, <1>4
    <2>3. rows \in Rows
      BY <2>2, <1>4 DEF Rows
    <2>. QED
      BY <2>1, <2>3, <1>3
  <1>. QED
    BY <1>1, <1>5, <1>6, <1>7 DEF IsCommand

LEMMA StepRun ==
    ASSUME CInv, NEW p \in Phones, RunCommand(p)
    PROVE  CInv'
  <1>1. PICK c \in onWire[p] :
            /\ c.answer = "none" /\ c.version = register.version
            /\ register' = [rows |-> Applied(p, c), version |-> register.version + 1]
            /\ ids' = IF c.name = "recordHours" THEN ids + 1 ELSE ids
            /\ Answers(p, c, [c EXCEPT !.answer = "run", !.told = Named])
            /\ UNCHANGED phones
    BY DEF RunCommand, InTime
  <1>2. SoundCommand(p, c) /\ IsCommand(c) /\ register.version \in Nat
        /\ onWire = [q \in Phones |-> onWire[q]]
    BY DEF CInv, SoundCommand, CrewTyped
  <1>3. PICK rows : rows = Applied(p, c)
    OBVIOUS
  <1>4. /\ rows \in Rows /\ DOMAIN rows \subseteq 1..ids' /\ ids' \in Nat
        /\ \A i, k \in DOMAIN rows : rows[i] = rows[k] => i = k
    BY <1>1, <1>3, AppliedIs
  <1>5. register' = [rows |-> rows, version |-> register.version + 1]
    BY <1>1, <1>3
  <1>6. /\ register' \in [rows : Rows, version : Nat] /\ register'.rows = rows
        /\ register'.version = register.version + 1
    BY <1>2, <1>4, <1>5
  <1>7. NoShiftTwice'
    BY <1>4, <1>6 DEF NoShiftTwice
  <1>8. PICK d : d = [c EXCEPT !.answer = "run", !.told = Named]
    OBVIOUS
  <1>9. SoundCommand(p, d)'
    <2>1. d = CommandOf(c.name, c.id, c.shift, c.version, c.tag, "run", register.version + 1,
                        c.rows, c.heard)
      BY <1>2, <1>8, AnsweredIs DEF Named
    <2>2. /\ d.name = c.name /\ d.shift = c.shift /\ d.version = c.version
          /\ d.answer = "run" /\ d.told = register.version + 1 /\ d.rows = c.rows
          /\ d.heard = c.heard
          /\ d = CommandOf(d.name, d.id, d.shift, d.version, d.tag, d.answer, d.told, d.rows,
                           d.heard)
      BY <2>1 DEF CommandOf
    <2>3. IsCommand(d)
      BY <2>2, <1>2 DEF IsCommand
    <2>4. d.version <= register'.version /\ d.told <= register'.version
      <3>1. c.version \in Nat /\ c.version <= register.version
        BY <1>2 DEF SoundCommand, IsCommand
      <3>. QED
        BY <3>1, <2>2, <1>2, <1>6
    <2>5. d.answer # "none" /\ d.answer # "ok"
      BY <2>2
    <2>. QED
      BY <2>3, <2>4, <2>5 DEF SoundCommand
  <1>10. PICK put : put = IF c.heard THEN {d} ELSE {}
    OBVIOUS
  <1>11. onWire' = [onWire EXCEPT ![p] = (@ \ {c}) \cup put]
    BY <1>1, <1>8, <1>10 DEF Answers
  <1>12. /\ DOMAIN onWire' = Phones /\ onWire' = [q \in Phones |-> onWire'[q]]
         /\ \A q \in Phones : \A e \in onWire'[q] : e \in onWire[q] \/ SoundCommand(q, e)'
    <2>1. \A e \in put : e = d
      BY <1>10
    <2>2. \A q \in Phones : onWire'[q] = IF q = p THEN (onWire[p] \ {c}) \cup put ELSE onWire[q]
      BY <1>2, <1>11
    <2>3. DOMAIN onWire' = Phones /\ onWire' = [q \in Phones |-> onWire'[q]]
      BY <1>2, <1>11
    <2>. QED
      BY <2>1, <2>2, <2>3, <1>9
  <1>. QED
    BY <1>1, <1>4, <1>6, <1>7, <1>12, VersionStep

LEMMA StepOffice ==
    ASSUME CInv, OfficeSaves
    PROVE  CInv'
  <1>1. PICK gone : register' = [rows |-> [i \in DOMAIN register.rows \ gone |-> register.rows[i]],
                                 version |-> register.version + 1]
        /\ UNCHANGED <<phones, onWire, ids>>
    BY DEF OfficeSaves
  <1>2. register.rows \in Rows /\ register.version \in Nat /\ ids \in Nat
        /\ DOMAIN register.rows \subseteq 1..ids /\ NoShiftTwice
        /\ DOMAIN onWire = Phones /\ onWire = [q \in Phones |-> onWire[q]]
    BY DEF CInv, CrewTyped
  <1>3. PICK rows : rows = [i \in DOMAIN register.rows \ gone |-> register.rows[i]]
    OBVIOUS
  <1>4. rows \in Rows
    <2>1. rows \in [DOMAIN register.rows \ gone -> Recorded]
          /\ DOMAIN register.rows \ gone \in SUBSET (Nat \ {0})
      BY <1>2, <1>3, RowsType
    <2>. QED
      BY <2>1 DEF Rows
  <1>5. register' = [rows |-> rows, version |-> register.version + 1]
    BY <1>1, <1>3
  <1>6. /\ register' \in [rows : Rows, version : Nat] /\ register'.rows = rows
        /\ register'.version = register.version + 1
    BY <1>2, <1>4, <1>5
  <1>7. DOMAIN rows \subseteq 1..ids' /\ ids' \in Nat
    BY <1>1, <1>2, <1>3
  <1>8. NoShiftTwice'
    BY <1>2, <1>3, <1>6 DEF NoShiftTwice
  <1>. QED
    BY <1>1, <1>2, <1>6, <1>7, <1>8, VersionStep

LEMMA StepCrew == CInv /\ [CrewNext]_crewVars => CInv'
  <1> SUFFICES ASSUME CInv, [CrewNext]_crewVars PROVE CInv'
    OBVIOUS
  <1>1. ASSUME NEW p \in Phones, NEW s \in Shifts, PressRecord(p, s) PROVE CInv'
    BY <1>1, StepSend DEF PressRecord
  <1>2. ASSUME NEW p \in Phones, NEW i \in DOMAIN phones[p].rows, PressDelete(p, i)
        PROVE  CInv'
    <2>1. phones[p].rows[i].shift \in Shifts
      BY <1>2, RowsType DEF CInv, CrewTyped, Screen
    <2>. QED
      BY <1>2, <2>1, StepSend DEF PressDelete
  <1>3. ASSUME NEW p \in Phones, NEW i \in DOMAIN phones[p].rows, NEW s \in Shifts,
               PressCorrect(p, i, s)
        PROVE  CInv'
    BY <1>3, StepSend DEF PressCorrect
  <1>4. ASSUME NEW p \in Phones,
               RunCommand(p) \/ RefuseCommand(p) \/ ReadAgain(p) \/ AnswerArrives(p)
               \/ NoAnswer(p) \/ ReloadPage(p)
        PROVE  CInv'
    BY <1>4, StepRun, StepRefuse, StepReadAgain, StepArrives, StepNoAnswer, StepReload
  <1>5. CASE OfficeSaves
    BY <1>5, StepOffice
  <1>6. CASE UNCHANGED crewVars
    BY <1>6 DEF crewVars, CInv, CrewTyped, NoShiftTwice, SoundScreen, SoundCommand, Fits
  <1>. QED
    BY <1>1, <1>2, <1>3, <1>4, <1>5, <1>6 DEF CrewNext

\* Whatever phones there are, however often a button is pressed and answers are lost, a
\* shift is in the register once, and a phone that holds the version in force draws the
\* rows in force (runCommand of erp-store.js, commandMutate of erp.html).
THEOREM CrewKept == CrewSpec => []CrewHolds
  BY CrewStarts, StepCrew, CrewKnows, PTL DEF CrewSpec
=============================================================================
