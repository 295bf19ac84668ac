-------------------------- MODULE Workspace_proofs --------------------------
(***************************************************************************)
(* Proofs about Workspace, for every set of tabs and edits and whatever is *)
(* lost, late or reloaded:                                                 *)
(*   - TypeCorrect: the type invariant;                                    *)
(*   - RegisterRefinement: the tabs share the register without loss;       *)
(*   - TellsTheTruth: "saved" is said of stored work only;                 *)
(*   - NothingIsForgotten: unsaved work is on its way, or the bar is up.   *)
(*   - ConflictsNameOthers: where nothing is lost, a save that is refused  *)
(*     met the save of another tab.                                        *)
(***************************************************************************)
EXTENDS Workspace, TLAPS

Row == [version : Nat, edits : SUBSET Edits]
Wire == OnWire \cup {Idle}

-----------------------------------------------------------------------------
(* The inductive invariant. *)

\* Whatever claims to be based on the current version has all of it.
Covers(r, version, edits) ==
    /\ version <= r.version
    /\ version = r.version => r.edits \subseteq edits

Carried(w) == IF w = Idle THEN {} ELSE w.save.edits

\* One page and its wire, against the stored document.
TabOK(r, p, w) ==
    /\ Covers(r, p.version, p.memory)
    /\ p.told \subseteq r.edits
    /\ p.parkedFor \subseteq p.memory
    /\ p.asking \subseteq Carried(w)
    /\ Carried(w) \subseteq p.memory
    /\ w = Idle => ~p.parked
    /\ p.page # "live" => w = Idle /\ p.memory = {} /\ ~p.debounce
    /\ w.stage = "sent" => Covers(r, w.save.expected, w.save.edits)
    /\ w.stage = "ok" => /\ Covers(r, w.save.expected + 1, w.save.edits)
                         /\ w.save.edits \subseteq r.edits
    /\ (p.page = "live" /\ ~p.debounce /\ ~p.parked /\ p.banner = "") =>
           p.memory \subseteq r.edits \cup Carried(w)

TabsOK == \A t \in Tabs : TabOK(row, tab[t], wire[t])

AdriftCovers == \A save \in adrift : Covers(row, save.expected, save.edits)

\* Before the first save there is nothing that a fresh page could be missing.
NothingYet == row.version = 0 => row.edits = {}

IInv == TypeOK /\ TabsOK /\ AdriftCovers /\ NothingYet

-----------------------------------------------------------------------------
(* Steps of one tab. *)

\* The page and the wire of one tab become p and w.
Become(t, p, w) ==
    /\ tab' = [tab EXCEPT ![t] = p]
    /\ wire' = [wire EXCEPT ![t] = w]

LEMMA TabType ==
    ASSUME TypeOK, NEW t \in Tabs
    PROVE  tab[t] \in Page /\ wire[t] \in Wire /\ row \in Row
  BY DEF TypeOK, Wire, Row

LEMMA WireType ==
    ASSUME NEW w \in Wire
    PROVE  /\ w # Idle <=> w \in OnWire
           /\ w \in OnWire <=> w.stage \in {"sent", "ok", "stale"}
           /\ w = Idle <=> w.stage = "idle"
           /\ w \in OnWire => w.save \in Save
  BY DEF Wire, OnWire, Idle

\* A step of one tab that leaves the stored document alone.
LEMMA LocalStep ==
    ASSUME IInv, NEW t \in Tabs, NEW p \in Page, NEW w \in Wire, Become(t, p, w),
           UNCHANGED <<row, log>>, made' \in 0..MaxEdits,
           adrift' \subseteq adrift \cup {wire[t].save},
           adrift' # adrift => wire[t].stage = "sent",
           TabOK(row, p, w)
    PROVE  IInv'
  <1>1. /\ tab'[t] = p /\ wire'[t] = w
        /\ \A u \in Tabs : u # t => tab'[u] = tab[u] /\ wire'[u] = wire[u]
    BY DEF IInv, TypeOK, Become
  <1>2. wire[t].stage = "sent" =>
            wire[t].save \in Save /\ Covers(row, wire[t].save.expected, wire[t].save.edits)
    BY TabType, WireType DEF IInv, TabsOK, TabOK
  <1>3. TypeOK'
    <2>1. tab' \in [Tabs -> Page] /\ wire' \in [Tabs -> OnWire \cup {Idle}]
      BY DEF IInv, TypeOK, Become, Wire
    <2>2. adrift' \subseteq Save
      BY <1>2 DEF IInv, TypeOK
    <2>. QED
      BY <2>1, <2>2 DEF IInv, TypeOK
  <1>4. TabsOK'
    <2>1. \A u \in Tabs : TabOK(row, tab'[u], wire'[u])
      BY <1>1 DEF IInv, TabsOK
    <2>. QED
      BY <2>1 DEF TabsOK, TabOK, Covers
  <1>5. AdriftCovers'
    BY <1>2 DEF IInv, AdriftCovers, Covers
  <1>. QED
    BY <1>3, <1>4, <1>5 DEF IInv, NothingYet

\* The stored document grows, and everything based on it before is outdated.
LEMMA RowGrows ==
    ASSUME NEW r \in Row, NEW s \in Row, s.version = r.version + 1, r.edits \subseteq s.edits
    PROVE  /\ \A v \in Nat : \A edits : Covers(r, v, edits) => Covers(s, v, edits)
           /\ \A p \in Page, w \in Wire : TabOK(r, p, w) => TabOK(s, p, w)
  <1>1. \A v \in Nat : \A edits : Covers(r, v, edits) => Covers(s, v, edits)
    BY DEF Covers, Row
  <1>2. ASSUME NEW p \in Page, NEW w \in Wire, TabOK(r, p, w) PROVE TabOK(s, p, w)
    <2>1. p.version \in Nat
      BY DEF Page
    <2>2. w.stage \in {"sent", "ok"} => w.save.expected \in Nat /\ w.save.expected + 1 \in Nat
      BY WireType DEF Save
    <2>. QED
      BY <1>1, <1>2, <2>1, <2>2 DEF TabOK
  <1>. QED
    BY <1>1, <1>2

-----------------------------------------------------------------------------
(* The page. *)

\* A page before its first read, whatever it has told its user before.
LEMMA FreshTab ==
    ASSUME NEW r \in Row, r.version = 0 => r.edits = {}, NEW p,
           p.page = "loading", p.memory = {}, p.version = 0, p.told \subseteq r.edits,
           p.parkedFor = {}, p.asking = {}, ~p.parked, ~p.debounce
    PROVE  TabOK(r, p, Idle)
  <1>1. Carried(Idle) = {} /\ Idle.stage = "idle"
    BY DEF Carried, Idle
  <1>2. Covers(r, p.version, p.memory)
    BY DEF Covers, Row
  <1>. QED
    BY <1>1, <1>2 DEF TabOK

LEMMA InitIInv == Init => IInv
  <1> SUFFICES ASSUME Init PROVE IInv
    OBVIOUS
  <1>1. FreshPage \in Page
    BY DEF FreshPage, Page
  <1>2. TypeOK
    BY <1>1, BoundAssumption DEF Init, TypeOK
  <1>3. ASSUME NEW t \in Tabs PROVE TabOK(row, tab[t], wire[t])
    <2>1. wire[t] = Idle /\ row = [version |-> 0, edits |-> {}]
      BY DEF Init
    <2>2. tab[t] = FreshPage
      BY DEF Init
    <2>. QED
      BY <2>1, <2>2, FreshTab DEF Row, FreshPage
  <1>. QED
    BY <1>2, <1>3 DEF Init, IInv, TabsOK, AdriftCovers, NothingYet

LEMMA LoadIInv == ASSUME IInv, NEW t \in Tabs, Load(t) \/ LoadFails(t) PROVE IInv'
  <1>1. tab[t] \in Page /\ wire[t] \in Wire /\ row \in Row /\ TabOK(row, tab[t], wire[t])
    BY TabType DEF IInv, TabsOK
  <1>2. CASE Load(t)
    <2> DEFINE p == [tab[t] EXCEPT !.page = "live", !.memory = row.edits, !.version = row.version]
    <2>1. p \in Page
      BY <1>1 DEF Page, Row
    <2>2. Become(t, p, wire[t])
      BY <1>2 DEF Load, Become, IInv, TypeOK
    <2>3. wire[t] = Idle
      BY <1>1, <1>2 DEF Load, TabOK
    <2>4. /\ p.page = "live" /\ p.memory = row.edits /\ p.version = row.version
          /\ p.told = tab[t].told /\ p.parkedFor = tab[t].parkedFor
          /\ p.asking = tab[t].asking /\ p.parked = tab[t].parked
      BY <1>1 DEF Page
    <2>5. Carried(Idle) = {} /\ Idle.stage = "idle"
      BY DEF Carried, Idle
    <2>6. tab[t].memory = {} /\ row.version \in Nat
      BY <1>1, <1>2 DEF Load, TabOK, Row
    <2>. HIDE DEF p
    <2>7. Covers(row, p.version, p.memory)
      BY <2>4, <2>6 DEF Covers
    <2>8. TabOK(row, p, wire[t])
      BY <1>1, <2>3, <2>4, <2>5, <2>6, <2>7 DEF TabOK
    <2>. QED
      BY <1>1, <1>2, <2>1, <2>2, <2>8, LocalStep DEF Load, IInv, TypeOK
  <1>3. CASE LoadFails(t)
    <2> DEFINE p == [tab[t] EXCEPT !.page = "down"]
    <2>1. p \in Page
      BY <1>1 DEF Page
    <2>2. Become(t, p, wire[t])
      BY <1>3 DEF LoadFails, Become, IInv, TypeOK
    <2>3. TabOK(row, p, wire[t])
      BY <1>1, <1>3 DEF TabOK, LoadFails, Page
    <2>. QED
      BY <1>1, <1>3, <2>1, <2>2, <2>3, LocalStep DEF LoadFails, IInv, TypeOK
  <1>. QED
    BY <1>2, <1>3

\* A live page p asks for its memory to be saved, having no debounce running.
LEMMA RequestSaveIInv ==
    ASSUME IInv, NEW t \in Tabs, NEW q \in Page, NEW waiting \in SUBSET q.memory,
           RequestSave(t, q, waiting),
           UNCHANGED <<row, log, adrift>>, made' \in 0..MaxEdits,
           q.page = "live", ~q.debounce, q.version = tab[t].version,
           tab[t].memory \subseteq q.memory, q.told = tab[t].told,
           q.parkedFor = tab[t].parkedFor, q.parked = tab[t].parked,
           q.asking = tab[t].asking
    PROVE  IInv'
  <1>1. tab[t] \in Page /\ wire[t] \in Wire /\ row \in Row /\ TabOK(row, tab[t], wire[t])
    BY TabType DEF IInv, TabsOK
  <1>2. Covers(row, q.version, q.memory)
    BY <1>1 DEF TabOK, Covers
  <1>3. CASE wire[t] = Idle
    <2> DEFINE p == [q EXCEPT !.asking = waiting]
               w == Sent(t, q)
    <2>1. p \in Page
      BY DEF Page
    <2>2. w \in Wire /\ w # Idle /\ w.stage = "sent" /\ Carried(w) = q.memory
          /\ w.save.expected = q.version /\ w.save.edits = q.memory
      BY DEF Sent, Wire, OnWire, Save, Page, Idle, Carried
    <2>3. Become(t, p, w)
      BY <1>3 DEF RequestSave, Become
    <2>4. /\ p.page = "live" /\ p.memory = q.memory /\ p.version = q.version
          /\ p.told = q.told /\ p.parkedFor = q.parkedFor /\ p.asking = waiting
      BY DEF Page
    <2>. HIDE DEF p, w
    <2>5. TabOK(row, p, w)
      BY <1>1, <1>2, <2>2, <2>4 DEF TabOK
    <2>. QED
      BY <2>1, <2>2, <2>3, <2>5, LocalStep
  <1>4. CASE wire[t] # Idle
    <2> DEFINE p == [q EXCEPT !.parked = TRUE, !.parkedFor = @ \cup waiting]
    <2>1. p \in Page
      BY DEF Page
    <2>2. Become(t, p, wire[t])
      BY <1>4 DEF RequestSave, Become, IInv, TypeOK
    <2>3. /\ p.page = "live" /\ p.memory = q.memory /\ p.version = q.version
          /\ p.told = q.told /\ p.parkedFor = q.parkedFor \cup waiting
          /\ p.asking = q.asking /\ p.parked
      BY DEF Page
    <2>. HIDE DEF p
    <2>4. TabOK(row, p, wire[t])
      BY <1>1, <1>2, <1>4, <2>3 DEF TabOK
    <2>. QED
      BY <1>1, <2>1, <2>2, <2>4, LocalStep
  <1>. QED
    BY <1>3, <1>4

LEMMA MutateIInv ==
    ASSUME IInv, NEW t \in Tabs, NEW e \in Edits, Mutate(t, e) \/ MutateNow(t, e)
    PROVE  IInv'
  <1>1. tab[t] \in Page /\ wire[t] \in Wire /\ row \in Row /\ TabOK(row, tab[t], wire[t])
    BY TabType DEF IInv, TabsOK
  <1>2. CanMake(t, e) /\ made' \in 0..MaxEdits
    BY BoundAssumption DEF Mutate, MutateNow, CanMake, IInv, TypeOK
  <1>3. CASE Mutate(t, e)
    <2> DEFINE p == [tab[t] EXCEPT !.memory = @ \cup {e}, !.debounce = TRUE]
    <2>1. p \in Page
      BY <1>1 DEF Page
    <2>2. Become(t, p, wire[t])
      BY <1>3 DEF Mutate, Become, IInv, TypeOK
    <2>3. /\ p.page = "live" /\ p.memory = tab[t].memory \cup {e} /\ p.version = tab[t].version
          /\ p.told = tab[t].told /\ p.parkedFor = tab[t].parkedFor
          /\ p.asking = tab[t].asking /\ p.parked = tab[t].parked /\ p.debounce
      BY <1>1, <1>2 DEF Page, CanMake
    <2>. HIDE DEF p
    <2>4. Covers(row, p.version, p.memory)
      BY <1>1, <2>3 DEF TabOK, Covers
    <2>5. TabOK(row, p, wire[t])
      BY <1>1, <2>3, <2>4 DEF TabOK
    <2>. QED
      BY <1>1, <1>2, <1>3, <2>1, <2>2, <2>5, LocalStep DEF Mutate
  <1>4. CASE MutateNow(t, e)
    <2> DEFINE q == [tab[t] EXCEPT !.memory = @ \cup {e}, !.debounce = FALSE]
    <2>1. q \in Page /\ {e} \in SUBSET q.memory
      BY <1>1 DEF Page
    <2>2. /\ q.page = "live" /\ ~q.debounce /\ q.version = tab[t].version
          /\ tab[t].memory \subseteq q.memory /\ q.told = tab[t].told
          /\ q.parkedFor = tab[t].parkedFor /\ q.parked = tab[t].parked
          /\ q.asking = tab[t].asking
      BY <1>1, <1>2 DEF Page, CanMake
    <2>3. RequestSave(t, q, {e}) /\ UNCHANGED <<row, log, adrift>>
      BY <1>4 DEF MutateNow
    <2>. HIDE DEF q
    <2>. QED
      BY <1>2, <2>1, <2>2, <2>3, RequestSaveIInv
  <1>. QED
    BY <1>3, <1>4

LEMMA PersistIInv == ASSUME IInv, NEW t \in Tabs, Persist(t) PROVE IInv'
  <1> DEFINE q == [tab[t] EXCEPT !.debounce = FALSE]
  <1>1. tab[t] \in Page /\ TabOK(row, tab[t], wire[t])
    BY TabType DEF IInv, TabsOK
  <1>2. tab[t].page = "live"
    BY <1>1 DEF Persist, TabOK
  <1>3. q \in Page /\ {} \in SUBSET q.memory
    BY <1>1 DEF Page
  <1>4. /\ q.page = "live" /\ ~q.debounce /\ q.version = tab[t].version
        /\ tab[t].memory \subseteq q.memory /\ q.told = tab[t].told
        /\ q.parkedFor = tab[t].parkedFor /\ q.parked = tab[t].parked
        /\ q.asking = tab[t].asking
    BY <1>1, <1>2 DEF Page
  <1>5. RequestSave(t, q, {}) /\ UNCHANGED <<row, log, adrift>> /\ made' \in 0..MaxEdits
    BY DEF Persist, IInv, TypeOK
  <1>. HIDE DEF q
  <1>. QED
    BY <1>3, <1>4, <1>5, RequestSaveIInv

-----------------------------------------------------------------------------
(* The outcome of a save. *)

LEMMA SaveAcceptedIInv == ASSUME IInv, NEW t \in Tabs, SaveAccepted(t) PROVE IInv'
  <1> DEFINE p == [tab[t] EXCEPT !.version = wire[t].save.expected + 1,
                                 !.told = @ \cup tab[t].asking]
             q == [p EXCEPT !.parked = FALSE, !.parkedFor = {}, !.asking = p.parkedFor]
             r == [p EXCEPT !.asking = {}]
  <1>1. /\ tab[t] \in Page /\ wire[t] \in Wire /\ row \in Row
        /\ TabOK(row, tab[t], wire[t])
        /\ wire[t].stage = "ok" /\ wire[t] # Idle
    BY TabType, WireType DEF IInv, TabsOK, SaveAccepted
  <1>2. wire[t].save \in Save /\ Carried(wire[t]) = wire[t].save.edits
    BY <1>1, WireType DEF Carried
  <1>3. p \in Page
    <2>1. wire[t].save.expected + 1 \in Nat
      BY <1>2 DEF Save
    <2>2. tab[t].told \cup tab[t].asking \in SUBSET Edits
      BY <1>1 DEF Page
    <2>. QED
      BY <1>1, <2>1, <2>2 DEF Page
  <1>4. /\ p.page = tab[t].page /\ p.memory = tab[t].memory
        /\ p.version = wire[t].save.expected + 1
        /\ p.told = tab[t].told \cup tab[t].asking
        /\ p.parkedFor = tab[t].parkedFor /\ p.parked = tab[t].parked
        /\ p.debounce = tab[t].debounce /\ p.banner = tab[t].banner
    BY <1>1 DEF Page
  <1>5. /\ tab[t].page = "live"
        /\ Covers(row, p.version, p.memory)
        /\ p.told \subseteq row.edits
    BY <1>1, <1>2, <1>4 DEF TabOK, Covers
  <1>6. UNCHANGED <<row, log, adrift, made>>
    BY DEF SaveAccepted
  <1>7. CASE tab[t].parked
    <2>1. Become(t, q, Sent(t, p))
      BY <1>4, <1>7 DEF SaveAccepted, Become
    <2>2. Sent(t, p) \in Wire /\ Sent(t, p) # Idle /\ Sent(t, p).stage = "sent"
          /\ Carried(Sent(t, p)) = p.memory
          /\ Sent(t, p).save.expected = p.version /\ Sent(t, p).save.edits = p.memory
      <3>. HIDE DEF p
      <3>. QED
        BY <1>3 DEF Sent, Wire, OnWire, Save, Page, Idle, Carried
    <2>3. /\ q \in Page
          /\ q.page = "live" /\ q.memory = p.memory /\ q.version = p.version
          /\ q.told = p.told /\ q.parkedFor = {} /\ q.asking = p.parkedFor /\ ~q.parked
      <3>. HIDE DEF p
      <3>. QED
        BY <1>3, <1>4, <1>5 DEF Page
    <2>. HIDE DEF p, q
    <2>4. TabOK(row, q, Sent(t, p))
      BY <1>1, <1>4, <1>5, <2>2, <2>3 DEF TabOK
    <2>. QED
      BY <1>6, <2>1, <2>2, <2>3, <2>4, LocalStep DEF IInv, TypeOK
  <1>8. CASE ~tab[t].parked
    <2>1. Become(t, r, Idle)
      BY <1>4, <1>8 DEF SaveAccepted, Become
    <2>2. Idle \in Wire /\ Carried(Idle) = {} /\ Idle.stage = "idle"
      BY DEF Idle, Wire, Carried
    <2>3. /\ r \in Page
          /\ r.page = "live" /\ r.memory = p.memory /\ r.version = p.version
          /\ r.told = p.told /\ r.parkedFor = p.parkedFor /\ r.asking = {} /\ ~r.parked
          /\ r.debounce = p.debounce /\ r.banner = p.banner
      <3>. HIDE DEF p
      <3>. QED
        BY <1>3, <1>4, <1>5, <1>8 DEF Page
    <2>. HIDE DEF p, r
    <2>4. TabOK(row, r, Idle)
      BY <1>1, <1>2, <1>4, <1>5, <1>8, <2>2, <2>3 DEF TabOK
    <2>. QED
      BY <1>6, <2>1, <2>2, <2>3, <2>4, LocalStep DEF IInv, TypeOK
  <1>. QED
    BY <1>7, <1>8

\* Whoever waited for the save, or was parked behind it, gets the error.
LEMMA GiveUpIInv ==
    ASSUME IInv, NEW t \in Tabs, NEW banner \in {"conflict", "offline"},
           wire[t] # Idle, GiveUp(t, banner),
           UNCHANGED <<row, log, made>>,
           adrift' \subseteq adrift \cup {wire[t].save},
           adrift' # adrift => wire[t].stage = "sent"
    PROVE  IInv'
  <1> DEFINE p == [tab[t] EXCEPT !.banner = IF @ = "" THEN banner ELSE @,
                                 !.asking = {}, !.parked = FALSE, !.parkedFor = {}]
  <1>1. tab[t] \in Page /\ row \in Row /\ TabOK(row, tab[t], wire[t])
    BY TabType DEF IInv, TabsOK
  <1>2. tab[t].page = "live"
    BY <1>1 DEF TabOK
  <1>3. p \in Page
    BY <1>1 DEF Page
  <1>4. /\ p.page = "live" /\ p.memory = tab[t].memory /\ p.version = tab[t].version
        /\ p.told = tab[t].told /\ p.parkedFor = {} /\ p.asking = {} /\ ~p.parked
        /\ p.banner # ""
    BY <1>1, <1>2 DEF Page
  <1>5. Become(t, p, Idle)
    BY DEF GiveUp, Become, IInv, TypeOK
  <1>6. Idle \in Wire /\ Carried(Idle) = {} /\ Idle.stage = "idle"
    BY DEF Idle, Wire, Carried
  <1>. HIDE DEF p
  <1>7. TabOK(row, p, Idle)
    BY <1>1, <1>4, <1>6 DEF TabOK
  <1>. QED
    BY <1>3, <1>5, <1>6, <1>7, LocalStep DEF IInv, TypeOK

LEMMA SaveEndsIInv ==
    ASSUME IInv, NEW t \in Tabs, SaveRefused(t) \/ SaveFails(t) PROVE IInv'
  <1>1. wire[t] \in Wire
    BY TabType DEF IInv
  <1>2. CASE SaveRefused(t)
    <2>1. wire[t] # Idle
      BY <1>2 DEF SaveRefused, Idle
    <2>. QED
      BY <1>2, <2>1, GiveUpIInv DEF SaveRefused
  <1>3. CASE SaveFails(t)
    BY <1>3, GiveUpIInv DEF SaveFails, Abandon
  <1>. QED
    BY <1>2, <1>3

LEMMA ReplacedIInv == ASSUME IInv, NEW t \in Tabs, Replaced(t) PROVE IInv'
  <1> DEFINE p == [FreshPage EXCEPT !.told = tab[t].told]
  <1>1. tab[t] \in Page /\ row \in Row /\ TabOK(row, tab[t], wire[t])
    BY TabType DEF IInv, TabsOK
  <1>2. /\ p \in Page
        /\ p.page = "loading" /\ p.memory = {} /\ p.version = 0 /\ p.told = tab[t].told
        /\ p.parkedFor = {} /\ p.asking = {} /\ ~p.parked /\ ~p.debounce
    BY <1>1 DEF Page, FreshPage
  <1>3. Become(t, p, Idle) /\ UNCHANGED <<row, log, made>>
    BY DEF Replaced, Become
  <1>4. /\ adrift' \subseteq adrift \cup {wire[t].save}
        /\ adrift' # adrift => wire[t].stage = "sent"
    BY DEF Replaced, Abandon
  <1>. HIDE DEF p
  <1>5. TabOK(row, p, Idle)
    BY <1>1, <1>2, FreshTab DEF IInv, NothingYet, TabOK
  <1>6. Idle \in Wire /\ made' \in 0..MaxEdits
    BY <1>3 DEF Wire, IInv, TypeOK
  <1>. QED
    BY <1>2, <1>3, <1>4, <1>5, <1>6, LocalStep

-----------------------------------------------------------------------------
(* The watch. *)

LEMMA WatchIInv ==
    ASSUME IInv, NEW t \in Tabs, Probe(t) \/ ProbeHeard(t) \/ Dismiss(t) PROVE IInv'
  <1>1. tab[t] \in Page /\ wire[t] \in Wire /\ row \in Row /\ TabOK(row, tab[t], wire[t])
    BY TabType DEF IInv, TabsOK
  <1>2. UNCHANGED <<row, log, wire, adrift, made>>
    BY DEF Probe, ProbeHeard, Dismiss
  <1>3. ASSUME NEW bar \in BOOLEAN, NEW announced \in Nat, NEW probe \in Nat,
               tab' = [tab EXCEPT ![t] = [tab[t] EXCEPT !.bar = bar, !.announced = announced,
                                                        !.probe = probe]]
        PROVE  IInv'
    <2> DEFINE p == [tab[t] EXCEPT !.bar = bar, !.announced = announced, !.probe = probe]
    <2>1. /\ p \in Page
          /\ p.page = tab[t].page /\ p.memory = tab[t].memory /\ p.version = tab[t].version
          /\ p.told = tab[t].told /\ p.parkedFor = tab[t].parkedFor
          /\ p.asking = tab[t].asking /\ p.parked = tab[t].parked
          /\ p.debounce = tab[t].debounce /\ p.banner = tab[t].banner
      BY <1>1 DEF Page
    <2>2. Become(t, p, wire[t])
      BY <1>2, <1>3 DEF Become, IInv, TypeOK
    <2>. HIDE DEF p
    <2>3. TabOK(row, p, wire[t])
      BY <1>1, <2>1 DEF TabOK
    <2>. QED
      BY <1>1, <1>2, <2>1, <2>2, <2>3, LocalStep DEF IInv, TypeOK
  <1>4. tab[t].bar \in BOOLEAN /\ tab[t].announced \in Nat /\ tab[t].probe \in Nat
    BY <1>1 DEF Page
  <1>5. CASE Probe(t)
    <2>1. tab' = [tab EXCEPT ![t] = [tab[t] EXCEPT !.bar = tab[t].bar,
                                        !.announced = tab[t].announced, !.probe = row.version]]
      BY <1>1, <1>5 DEF Probe, IInv, TypeOK, Page
    <2>. QED
      BY <1>1, <1>3, <1>4, <2>1 DEF Row
  <1>6. CASE ProbeHeard(t)
    <2>1. CASE News(t) /\ ~(tab[t].bar \/ tab[t].probe <= tab[t].announced)
      <3>1. tab' = [tab EXCEPT ![t] = [tab[t] EXCEPT !.bar = TRUE,
                                          !.announced = tab[t].probe, !.probe = 0]]
        BY <1>6, <2>1 DEF ProbeHeard, Offered
      <3>. QED
        BY <1>3, <1>4, <3>1
    <2>2. CASE ~(News(t) /\ ~(tab[t].bar \/ tab[t].probe <= tab[t].announced))
      <3>1. tab' = [tab EXCEPT ![t] = [tab[t] EXCEPT !.probe = 0]]
        BY <1>6, <2>2 DEF ProbeHeard, Offered
      <3>2. [tab[t] EXCEPT !.probe = 0] =
                [tab[t] EXCEPT !.bar = tab[t].bar, !.announced = tab[t].announced, !.probe = 0]
        BY <1>1 DEF Page
      <3>. QED
        BY <1>3, <1>4, <3>1, <3>2
    <2>. QED
      BY <2>1, <2>2
  <1>7. CASE Dismiss(t)
    <2>1. tab' = [tab EXCEPT ![t] = [tab[t] EXCEPT !.bar = FALSE,
                                        !.announced = tab[t].announced, !.probe = tab[t].probe]]
      BY <1>1, <1>7 DEF Dismiss, IInv, TypeOK, Page
    <2>. QED
      BY <1>3, <1>4, <2>1
  <1>. QED
    BY <1>5, <1>6, <1>7

-----------------------------------------------------------------------------
(* The server. *)

\* An accepted save has all of the version it replaces.
LEMMA AcceptGrows ==
    ASSUME IInv, NEW save \in Save, save.expected = row.version,
           Covers(row, save.expected, save.edits), Accept(save)
    PROVE  /\ row' \in Row /\ row'.version = row.version + 1
           /\ row'.edits = save.edits /\ row.edits \subseteq row'.edits
           /\ log' \in Seq(Tabs)
  <1>1. row \in Row /\ log \in Seq(Tabs) /\ save.by \in Tabs /\ save.edits \in SUBSET Edits
    BY DEF IInv, TypeOK, Row, Save
  <1>2. row' = [version |-> row.version + 1, edits |-> save.edits]
    BY DEF Accept
  <1>3. log' \in Seq(Tabs)
    BY <1>1 DEF Accept
  <1>4. row.edits \subseteq save.edits
    BY DEF Covers
  <1>. QED
    BY <1>1, <1>2, <1>3, <1>4 DEF Row

LEMMA ServeIInv == ASSUME IInv, NEW t \in Tabs, Serve(t) PROVE IInv'
  <1> DEFINE save == wire[t].save
  <1>1. /\ tab[t] \in Page /\ wire[t] \in OnWire /\ row \in Row /\ save \in Save
        /\ TabOK(row, tab[t], wire[t]) /\ wire[t].stage = "sent"
    BY TabType, WireType DEF IInv, TabsOK, Serve
  <1>2. UNCHANGED <<tab, adrift, made>>
    BY DEF Serve
  <1>3. wire[t] # Idle /\ Carried(wire[t]) = save.edits
    BY <1>1 DEF Idle, Carried
  <1>4. CASE save.expected = row.version
    <2> DEFINE w == [wire[t] EXCEPT !.stage = "ok"]
    <2>1. w \in Wire /\ w # Idle /\ w.stage = "ok" /\ w.save = save /\ Carried(w) = save.edits
      BY <1>1 DEF OnWire, Wire, Idle, Carried
    <2>2. Accept(save) /\ wire' = [wire EXCEPT ![t] = w]
      BY <1>4 DEF Serve
    <2>3. /\ row' \in Row /\ row'.version = row.version + 1
          /\ row'.edits = save.edits /\ row.edits \subseteq row'.edits
          /\ log' \in Seq(Tabs)
      BY <1>1, <1>4, <2>2, AcceptGrows DEF TabOK
    <2>4. /\ \A v \in Nat : \A edits : Covers(row, v, edits) => Covers(row', v, edits)
          /\ \A p \in Page, x \in Wire : TabOK(row, p, x) => TabOK(row', p, x)
      BY <1>1, <2>3, RowGrows
    <2>. HIDE DEF w
    <2>5. TabOK(row', tab[t], w)
      <3>1. Covers(row', save.expected + 1, save.edits)
        BY <1>1, <1>4, <2>3 DEF Covers, Row
      <3>2. Covers(row', tab[t].version, tab[t].memory)
        BY <1>1, <2>4 DEF TabOK, Page
      <3>. QED
        BY <1>1, <1>3, <2>1, <2>3, <3>1, <3>2 DEF TabOK
    <2>6. /\ wire'[t] = w
          /\ \A u \in Tabs : u # t => wire'[u] = wire[u]
      BY <2>2 DEF IInv, TypeOK
    <2>7. \A u \in Tabs : TabOK(row', tab[u], wire'[u])
      BY <2>4, <2>5, <2>6, TabType DEF IInv, TabsOK
    <2>8. \A a \in adrift : Covers(row', a.expected, a.edits)
      BY <2>4 DEF IInv, AdriftCovers, TypeOK, Save
    <2>9. TypeOK'
      BY <1>2, <2>1, <2>2, <2>3 DEF IInv, TypeOK, Row, Wire
    <2>10. TabsOK' /\ AdriftCovers'
      BY <1>2, <2>7, <2>8 DEF TabsOK, AdriftCovers, TabOK, Covers
    <2>11. NothingYet'
      BY <1>1, <2>3 DEF NothingYet, Row
    <2>. QED
      BY <2>9, <2>10, <2>11 DEF IInv
  <1>5. CASE save.expected # row.version
    <2> DEFINE w == [wire[t] EXCEPT !.stage = "stale"]
    <2>1. w \in Wire /\ w # Idle /\ w.stage = "stale" /\ Carried(w) = save.edits
      BY <1>1 DEF OnWire, Wire, Idle, Carried
    <2>2. wire' = [wire EXCEPT ![t] = w] /\ UNCHANGED <<row, log>>
      BY <1>5 DEF Serve
    <2>3. Become(t, tab[t], w)
      BY <1>2, <2>2 DEF Become, IInv, TypeOK
    <2>. HIDE DEF w
    <2>4. TabOK(row, tab[t], w)
      BY <1>1, <1>3, <2>1 DEF TabOK
    <2>. QED
      BY <1>1, <1>2, <2>1, <2>2, <2>3, <2>4, LocalStep DEF IInv, TypeOK
  <1>. QED
    BY <1>4, <1>5

LEMMA ServeAdriftIInv == ASSUME IInv, NEW save \in adrift, ServeAdrift(save) PROVE IInv'
  <1>1. save \in Save /\ row \in Row /\ Covers(row, save.expected, save.edits)
    BY DEF IInv, TypeOK, AdriftCovers, Row
  <1>2. UNCHANGED <<tab, wire, made>> /\ adrift' \subseteq adrift
    BY DEF ServeAdrift
  <1>3. CASE save.expected = row.version /\ Accept(save)
    <2>1. /\ row' \in Row /\ row'.version = row.version + 1
          /\ row'.edits = save.edits /\ row.edits \subseteq row'.edits
          /\ log' \in Seq(Tabs)
      BY <1>1, <1>3, AcceptGrows
    <2>2. /\ \A v \in Nat : \A edits : Covers(row, v, edits) => Covers(row', v, edits)
          /\ \A p \in Page, x \in Wire : TabOK(row, p, x) => TabOK(row', p, x)
      BY <1>1, <2>1, RowGrows
    <2>3. \A u \in Tabs : TabOK(row', tab[u], wire[u])
      BY <2>2, TabType DEF IInv, TabsOK
    <2>4. \A a \in adrift : Covers(row', a.expected, a.edits)
      BY <2>2 DEF IInv, AdriftCovers, TypeOK, Save
    <2>5. TypeOK'
      BY <1>2, <2>1 DEF IInv, TypeOK, Row
    <2>6. TabsOK' /\ AdriftCovers'
      BY <1>2, <2>3, <2>4 DEF TabsOK, AdriftCovers, TabOK, Covers
    <2>7. NothingYet'
      BY <1>1, <2>1 DEF NothingYet, Row
    <2>. QED
      BY <2>5, <2>6, <2>7 DEF IInv
  <1>4. CASE UNCHANGED <<row, log>>
    BY <1>2, <1>4 DEF IInv, TypeOK, TabsOK, TabOK, AdriftCovers, Covers, NothingYet
  <1>. QED
    BY <1>3, <1>4 DEF ServeAdrift

-----------------------------------------------------------------------------
LEMMA NextIInv == IInv /\ [Next]_vars => IInv'
  <1> SUFFICES ASSUME IInv, [Next]_vars PROVE IInv'
    OBVIOUS
  <1>1. ASSUME NEW t \in Tabs, Load(t) \/ LoadFails(t) PROVE IInv'
    BY <1>1, LoadIInv
  <1>2. ASSUME NEW t \in Tabs, NEW e \in Edits, Mutate(t, e) \/ MutateNow(t, e) PROVE IInv'
    BY <1>2, MutateIInv
  <1>3. ASSUME NEW t \in Tabs, Persist(t) \/ SaveAccepted(t) \/ SaveRefused(t) \/ SaveFails(t)
        PROVE  IInv'
    BY <1>3, PersistIInv, SaveAcceptedIInv, SaveEndsIInv
  <1>4. ASSUME NEW t \in Tabs, Reload(t) \/ ProbeReloads(t) PROVE IInv'
    BY <1>4, ReplacedIInv DEF Reload, ProbeReloads
  <1>5. ASSUME NEW t \in Tabs, Serve(t) PROVE IInv'
    BY <1>5, ServeIInv
  <1>6. ASSUME NEW t \in Tabs, Probe(t) \/ ProbeHeard(t) \/ Dismiss(t) PROVE IInv'
    BY <1>6, WatchIInv
  <1>7. ASSUME NEW save \in adrift, ServeAdrift(save) PROVE IInv'
    BY <1>7, ServeAdriftIInv
  <1>8. CASE UNCHANGED vars
    BY <1>8 DEF vars, IInv, TypeOK, TabsOK, TabOK, AdriftCovers, Covers, NothingYet
  <1>. QED
    BY <1>1, <1>2, <1>3, <1>4, <1>5, <1>6, <1>7, <1>8 DEF Next

\* A page, a save on the wire and a save that is adrift quote the current
\* version only with all of it in them; what a page owes its user is in its
\* memory, on the wire or announced.
THEOREM PagesAreComplete == Spec => []IInv
  BY InitIInv, NextIInv, PTL DEF Spec

\* The variables keep their types: at most one save of a tab is on the wire,
\* and every save, also one whose page has gone, is well formed.
THEOREM TypeCorrect == Spec => []TypeOK
  <1>1. IInv => TypeOK
    BY DEF IInv
  <1>. QED
    BY <1>1, PagesAreComplete, PTL

\* mutateNow resolves only for edits that are in the register, and stay there
\* (erp-store.js, drainState; ERP_STORE.mutateNow).
THEOREM TellsTheTruth == Spec => []ToldIsStored
  <1>1. IInv => ToldIsStored
    BY DEF IInv, TabsOK, TabOK, ToldIsStored
  <1>. QED
    BY <1>1, PagesAreComplete, PTL

\* Work that is only in memory is about to be saved, is being saved, or the
\* page says that it is not (erp.html, persist; erp-store.js, saveFailed).
THEOREM NothingIsForgotten == Spec => []UnsavedIsPendingOrWarned
  <1>1. IInv => UnsavedIsPendingOrWarned
    <2> SUFFICES ASSUME IInv, NEW t \in Tabs, tab[t].page = "live",
                        ~(tab[t].memory \subseteq row.edits),
                        ~tab[t].debounce, wire[t] = Idle, tab[t].banner = ""
                 PROVE  FALSE
      BY DEF UnsavedIsPendingOrWarned
    <2>1. TabOK(row, tab[t], wire[t])
      BY DEF IInv, TabsOK
    <2>. QED
      BY <2>1 DEF TabOK, Carried
  <1>. QED
    BY <1>1, PagesAreComplete, PTL

\* Only the server's acceptance of a save changes the stored document.
LEMMA OnlyAcceptWrites ==
    ASSUME [Next]_vars
    PROVE  \/ UNCHANGED row
           \/ \E t \in Tabs : wire[t].stage = "sent" /\ Accept(wire[t].save)
                              /\ wire[t].save.expected = row.version
           \/ \E save \in adrift : Accept(save) /\ save.expected = row.version
  <1>1. ASSUME NEW t \in Tabs, Load(t) \/ LoadFails(t) \/ Persist(t) \/ Reload(t)
        PROVE  UNCHANGED row
    BY <1>1 DEF Load, LoadFails, Persist, Reload, Replaced
  <1>2. ASSUME NEW t \in Tabs, NEW e \in Edits, Mutate(t, e) \/ MutateNow(t, e)
        PROVE  UNCHANGED row
    BY <1>2 DEF Mutate, MutateNow
  <1>3. ASSUME NEW t \in Tabs, SaveAccepted(t) \/ SaveRefused(t) \/ SaveFails(t)
        PROVE  UNCHANGED row
    BY <1>3 DEF SaveAccepted, SaveRefused, SaveFails
  <1>4. ASSUME NEW t \in Tabs, Probe(t) \/ ProbeHeard(t) \/ ProbeReloads(t) \/ Dismiss(t)
        PROVE  UNCHANGED row
    BY <1>4 DEF Probe, ProbeHeard, ProbeReloads, Replaced, Dismiss
  <1>5. ASSUME NEW t \in Tabs, Serve(t)
        PROVE  \/ UNCHANGED row
               \/ /\ wire[t].stage = "sent" /\ Accept(wire[t].save)
                  /\ wire[t].save.expected = row.version
    BY <1>5 DEF Serve
  <1>6. ASSUME NEW save \in adrift, ServeAdrift(save)
        PROVE  UNCHANGED row \/ (Accept(save) /\ save.expected = row.version)
    BY <1>6 DEF ServeAdrift
  <1>7. CASE UNCHANGED vars
    BY <1>7 DEF vars
  <1>. QED
    BY <1>1, <1>2, <1>3, <1>4, <1>5, <1>6, <1>7 DEF Next

LEMMA RegisterStep == IInv /\ [Next]_vars => [Register!SharedNext]_(Register!sharedVars)
  <1> SUFFICES ASSUME IInv, [Next]_vars
               PROVE  Register!SharedNext \/ UNCHANGED Register!sharedVars
    OBVIOUS
  <1>1. ASSUME NEW save \in Save, Accept(save), save.expected = row.version,
               Covers(row, save.expected, save.edits)
        PROVE  Register!SharedNext
    <2>1. /\ row'.version = row.version + 1
          /\ row'.edits = save.edits /\ row.edits \subseteq row'.edits
      BY <1>1, AcceptGrows
    <2>2. save.edits \in SUBSET Edits
      BY DEF Save
    <2>3. row'.edits = row.edits \cup save.edits
      BY <2>1
    <2>. QED
      BY <2>1, <2>2, <2>3 DEF Register!SharedNext, Register!Extend
  <1>2. ASSUME NEW t \in Tabs, wire[t].stage = "sent"
        PROVE  wire[t].save \in Save
               /\ Covers(row, wire[t].save.expected, wire[t].save.edits)
    BY <1>2, TabType, WireType DEF IInv, TabsOK, TabOK
  <1>3. ASSUME NEW save \in adrift
        PROVE  save \in Save /\ Covers(row, save.expected, save.edits)
    BY DEF IInv, TypeOK, AdriftCovers
  <1>4. CASE UNCHANGED row
    BY <1>4 DEF Register!sharedVars
  <1>. QED
    BY <1>1, <1>2, <1>3, <1>4, OnlyAcceptWrites

\* Whatever the tabs do and whatever is lost, late or reloaded, no save takes
\* an edit out of the register (erp-store.js, erp-sync.js, saveErpDocument).
THEOREM RegisterRefinement == Spec => RegisterIsShared
  <1>1. Init => Register!SharedInit
    BY DEF Init, Register!SharedInit
  <1>. QED
    BY <1>1, RegisterStep, PagesAreComplete, PTL
       DEF Spec, RegisterIsShared, Register!SharedSpec
-----------------------------------------------------------------------------
(* Conflicts, where nothing is lost. *)

\* No request or answer is lost and no page is replaced under a save.
NothingLost == Events \cap {"fail", "reload", "return"} = {}

\* The tab knows of all its own saves, the one it waits to hear of excepted.
Knows(t, version, w, history) ==
    /\ w.stage \in {"sent", "ok", "stale"} => w.save.by = t /\ w.save.expected = version
    /\ w.stage = "stale" => version < Len(history)
    /\ \A v \in version + 1..Len(history) :
           (v = version + 1 => w.stage # "ok") => history[v] # t

KInv == /\ IInv /\ adrift = {} /\ Len(log) = row.version
        /\ \A t \in Tabs : Knows(t, tab[t].version, wire[t], log)

\* A step of one tab, by which nothing is stored.
LEMMA KnowsStep ==
    ASSUME KInv, IInv', NEW t \in Tabs, UNCHANGED <<row, log, adrift>>,
           \A u \in Tabs : u # t => tab'[u] = tab[u] /\ wire'[u] = wire[u],
           Knows(t, tab'[t].version, wire'[t], log)
    PROVE  KInv'
  BY DEF KInv

\* The page alone changes, and goes on quoting the version it knows of.
LEMMA PageStep ==
    ASSUME KInv, IInv', NEW t \in Tabs, NEW p, tab' = [tab EXCEPT ![t] = p],
           p.version = tab[t].version, UNCHANGED <<row, log, wire, adrift>>
    PROVE  KInv'
  <1>1. tab'[t] = p /\ \A u \in Tabs : u # t => tab'[u] = tab[u]
    BY DEF KInv, IInv, TypeOK
  <1>. QED
    BY <1>1, KnowsStep DEF KInv

LEMMA RequestKnows ==
    ASSUME KInv, IInv', NEW t \in Tabs, NEW p \in Page, NEW waiting,
           RequestSave(t, p, waiting), p.version = tab[t].version,
           UNCHANGED <<row, log, adrift>>
    PROVE  KInv'
  <1>1. CASE wire[t] = Idle
    <2>1. /\ tab'[t] = [p EXCEPT !.asking = waiting] /\ wire'[t] = Sent(t, p)
          /\ \A u \in Tabs : u # t => tab'[u] = tab[u] /\ wire'[u] = wire[u]
      BY <1>1 DEF RequestSave, KInv, IInv, TypeOK
    <2>2. tab'[t].version = tab[t].version
      BY <2>1 DEF Page
    <2>3. /\ wire'[t].stage = "sent" /\ wire'[t].save.by = t
          /\ wire'[t].save.expected = tab[t].version
      BY <2>1 DEF Sent
    <2>4. Knows(t, tab[t].version, wire[t], log) /\ wire[t].stage = "idle"
      BY <1>1 DEF KInv, Idle
    <2>5. Knows(t, tab'[t].version, wire'[t], log)
      BY <2>2, <2>3, <2>4 DEF Knows
    <2>. QED
      BY <2>1, <2>5, KnowsStep
  <1>2. CASE wire[t] # Idle
    <2> DEFINE q == [p EXCEPT !.parked = TRUE, !.parkedFor = @ \cup waiting]
    <2>1. tab' = [tab EXCEPT ![t] = q] /\ UNCHANGED wire
      BY <1>2 DEF RequestSave
    <2>2. q.version = tab[t].version
      BY DEF Page
    <2>. HIDE DEF q
    <2>. QED
      BY <2>1, <2>2, PageStep
  <1>. QED
    BY <1>1, <1>2

LEMMA PageKnows ==
    ASSUME KInv, IInv', NEW t \in Tabs,
           \/ Load(t) \/ Persist(t) \/ Probe(t) \/ ProbeHeard(t) \/ Dismiss(t)
           \/ \E e \in Edits : Mutate(t, e) \/ MutateNow(t, e)
    PROVE  KInv'
  <1>1. /\ tab[t] \in Page /\ wire[t] \in Wire /\ row \in Row
        /\ TabOK(row, tab[t], wire[t])
        /\ Knows(t, tab[t].version, wire[t], log)
    BY TabType DEF KInv, IInv, TabsOK
  <1>2. CASE Load(t)
    <2>1. /\ tab'[t] = [tab[t] EXCEPT !.page = "live", !.memory = row.edits,
                                      !.version = row.version]
          /\ \A u \in Tabs : u # t => tab'[u] = tab[u]
          /\ UNCHANGED <<row, log, wire, adrift>>
      BY <1>2 DEF Load, KInv, IInv, TypeOK
    <2>2. tab'[t].version = row.version
      BY <1>1, <2>1 DEF Page
    <2>3. wire[t] = Idle
      BY <1>1, <1>2 DEF Load, TabOK
    <2>4. wire[t].stage = "idle" /\ Len(log) = row.version /\ row.version \in Nat
      BY <1>1, <2>3 DEF Idle, KInv, Row
    <2>5. row.version + 1..Len(log) = {}
      BY <2>4
    <2>6. Knows(t, tab'[t].version, wire'[t], log)
      BY <2>1, <2>2, <2>4, <2>5 DEF Knows
    <2>. QED
      BY <2>1, <2>6, KnowsStep
  <1>3. CASE Persist(t)
    <2> DEFINE q == [tab[t] EXCEPT !.debounce = FALSE]
    <2>1. q \in Page /\ q.version = tab[t].version
      BY <1>1 DEF Page
    <2>2. RequestSave(t, q, {}) /\ UNCHANGED <<row, log, adrift>>
      BY <1>3 DEF Persist
    <2>. HIDE DEF q
    <2>. QED
      BY <2>1, <2>2, RequestKnows
  <1>4. ASSUME NEW e \in Edits, Mutate(t, e) PROVE KInv'
    <2> DEFINE q == [tab[t] EXCEPT !.memory = @ \cup {e}, !.debounce = TRUE]
    <2>1. q.version = tab[t].version
      BY <1>1 DEF Page
    <2>2. tab' = [tab EXCEPT ![t] = q] /\ UNCHANGED <<row, log, wire, adrift>>
      BY <1>4 DEF Mutate, KInv, IInv, TypeOK
    <2>. HIDE DEF q
    <2>. QED
      BY <2>1, <2>2, PageStep
  <1>5. ASSUME NEW e \in Edits, MutateNow(t, e) PROVE KInv'
    <2> DEFINE q == [tab[t] EXCEPT !.memory = @ \cup {e}, !.debounce = FALSE]
    <2>1. q \in Page /\ q.version = tab[t].version
      BY <1>1 DEF Page
    <2>2. RequestSave(t, q, {e}) /\ UNCHANGED <<row, log, adrift>>
      BY <1>5 DEF MutateNow
    <2>. HIDE DEF q
    <2>. QED
      BY <2>1, <2>2, RequestKnows
  <1>6. CASE Probe(t) \/ Dismiss(t)
    <2>1. /\ \/ tab' = [tab EXCEPT ![t] = [tab[t] EXCEPT !.probe = row.version]]
             \/ tab' = [tab EXCEPT ![t] = [tab[t] EXCEPT !.bar = FALSE]]
          /\ UNCHANGED <<row, log, wire, adrift>>
      BY <1>6 DEF Probe, Dismiss, KInv, IInv, TypeOK
    <2>2. /\ [tab[t] EXCEPT !.probe = row.version].version = tab[t].version
          /\ [tab[t] EXCEPT !.bar = FALSE].version = tab[t].version
      BY <1>1 DEF Page
    <2>. QED
      BY <2>1, <2>2, PageStep
  <1>7. CASE ProbeHeard(t)
    <2> DEFINE q == IF News(t) THEN Offered(tab[t]) ELSE [tab[t] EXCEPT !.probe = 0]
    <2>1. tab' = [tab EXCEPT ![t] = q] /\ UNCHANGED <<row, log, wire, adrift>>
      BY <1>7 DEF ProbeHeard, KInv, IInv, TypeOK
    <2>2. q.version = tab[t].version
      BY <1>1 DEF Offered, Page
    <2>. HIDE DEF q
    <2>. QED
      BY <2>1, <2>2, PageStep
  <1>. QED
    BY <1>2, <1>3, <1>4, <1>5, <1>6, <1>7

\* The outcome of a save reaches the page.
LEMMA OutcomeKnows ==
    ASSUME KInv, IInv', NEW t \in Tabs, SaveAccepted(t) \/ SaveRefused(t) PROVE KInv'
  <1>1. /\ tab[t] \in Page /\ wire[t] \in Wire /\ log \in Seq(Tabs)
        /\ Knows(t, tab[t].version, wire[t], log)
        /\ tab[t].version \in Nat
    BY TabType DEF KInv, IInv, TypeOK, Page
  <1>2. UNCHANGED <<row, log, adrift>>
    BY DEF SaveAccepted, SaveRefused
  <1>3. CASE SaveAccepted(t)
    <2> DEFINE next == tab[t].version + 1
               p == [tab[t] EXCEPT !.version = wire[t].save.expected + 1,
                                   !.told = @ \cup tab[t].asking]
    <2>1. wire[t].stage = "ok" /\ wire[t].save.expected = tab[t].version
      BY <1>1, <1>3 DEF SaveAccepted, Knows
    <2>2. p.version = next /\ p.parked = tab[t].parked
      BY <1>1, <2>1 DEF Page
    <2>3. next \in Nat /\ \A v \in next + 1..Len(log) : log[v] # t
      BY <1>1, <2>1 DEF Knows
    <2>4. /\ \A u \in Tabs : u # t => tab'[u] = tab[u] /\ wire'[u] = wire[u]
          /\ tab'[t].version = p.version
          /\ \/ wire'[t] = Sent(t, p)
             \/ wire'[t] = Idle
      <3>1. CASE p.parked
        <4>1. /\ tab' = [tab EXCEPT ![t] = [p EXCEPT !.parked = FALSE, !.parkedFor = {},
                                                     !.asking = p.parkedFor]]
              /\ wire' = [wire EXCEPT ![t] = Sent(t, p)]
          BY <1>3, <3>1 DEF SaveAccepted
        <4>. QED
          BY <4>1 DEF KInv, IInv, TypeOK, Page
      <3>2. CASE ~p.parked
        <4>1. /\ tab' = [tab EXCEPT ![t] = [p EXCEPT !.asking = {}]]
              /\ wire' = [wire EXCEPT ![t] = Idle]
          BY <1>3, <3>2 DEF SaveAccepted
        <4>. QED
          BY <4>1 DEF KInv, IInv, TypeOK, Page
      <3>. QED
        BY <3>1, <3>2
    <2>. HIDE DEF p
    <2>5. /\ Sent(t, p).stage = "sent" /\ Sent(t, p).save.by = t
          /\ Sent(t, p).save.expected = next /\ Idle.stage = "idle"
      BY <2>2 DEF Sent, Idle
    <2>6. Knows(t, tab'[t].version, wire'[t], log)
      BY <2>2, <2>3, <2>4, <2>5 DEF Knows
    <2>. QED
      BY <1>2, <2>4, <2>6, KnowsStep
  <1>4. CASE SaveRefused(t)
    <2>1. wire[t].stage = "stale"
      BY <1>4 DEF SaveRefused
    <2> DEFINE q == [tab[t] EXCEPT !.banner = IF @ = "" THEN "conflict" ELSE @,
                                   !.asking = {}, !.parked = FALSE, !.parkedFor = {}]
    <2>2. /\ wire'[t] = Idle /\ tab'[t].version = tab[t].version
          /\ \A u \in Tabs : u # t => tab'[u] = tab[u] /\ wire'[u] = wire[u]
      <3>1. tab' = [tab EXCEPT ![t] = q] /\ wire' = [wire EXCEPT ![t] = Idle]
        BY <1>4 DEF SaveRefused, GiveUp, KInv, IInv, TypeOK
      <3>2. q.version = tab[t].version
        BY <1>1 DEF Page
      <3>. HIDE DEF q
      <3>. QED
        BY <3>1, <3>2 DEF KInv, IInv, TypeOK
    <2>3. Knows(t, tab'[t].version, wire'[t], log)
      BY <1>1, <2>1, <2>2 DEF Knows, Idle
    <2>. QED
      BY <1>2, <2>2, <2>3, KnowsStep
  <1>. QED
    BY <1>3, <1>4

LEMMA ServeKnows == ASSUME KInv, IInv', NEW t \in Tabs, Serve(t) PROVE KInv'
  <1>1. /\ wire[t].stage = "sent" /\ wire[t] \in Wire /\ log \in Seq(Tabs)
        /\ Knows(t, tab[t].version, wire[t], log)
        /\ Len(log) = row.version /\ row.version \in Nat
        /\ \A u \in Tabs : tab[u].version \in Nat /\ tab[u].version <= row.version
    BY TabType DEF Serve, KInv, IInv, TypeOK, TabsOK, TabOK, Covers, Page
  <1>2. wire[t] \in OnWire /\ wire[t].save.by = t /\ wire[t].save.expected = tab[t].version
    BY <1>1, WireType DEF Knows
  <1>3. UNCHANGED <<tab, adrift>>
    BY DEF Serve
  <1>4. CASE tab[t].version = row.version
    <2>1. /\ row'.version = row.version + 1 /\ log' = Append(log, t)
          /\ wire' = [wire EXCEPT ![t].stage = "ok"]
      BY <1>2, <1>4 DEF Serve, Accept
    <2>2. /\ wire'[t].stage = "ok" /\ wire'[t].save = wire[t].save
          /\ \A u \in Tabs : u # t => wire'[u] = wire[u]
      BY <1>2, <2>1 DEF KInv, IInv, TypeOK, OnWire
    <2>3. /\ Len(log') = Len(log) + 1 /\ log'[Len(log) + 1] = t
          /\ \A v \in 1..Len(log) : log'[v] = log[v]
      BY <1>1, <2>1
    <2>4. Knows(t, tab[t].version, wire'[t], log')
      BY <1>1, <1>2, <1>4, <2>2, <2>3 DEF Knows
    <2>5. ASSUME NEW u \in Tabs, u # t PROVE Knows(u, tab[u].version, wire[u], log')
      <3>1. Knows(u, tab[u].version, wire[u], log)
        BY DEF KInv
      <3>2. wire[u].stage = "stale" => tab[u].version < Len(log')
        BY <1>1, <2>3, <3>1 DEF Knows
      <3>3. ASSUME NEW v \in tab[u].version + 1..Len(log'),
                   v = tab[u].version + 1 => wire[u].stage # "ok"
            PROVE  log'[v] # u
        <4>1. CASE v = Len(log) + 1
          BY <2>3, <2>5, <4>1
        <4>2. CASE v # Len(log) + 1
          <5>1. v \in tab[u].version + 1..Len(log) /\ v \in 1..Len(log)
            BY <1>1, <2>3, <4>2
          <5>. QED
            BY <2>3, <3>1, <3>3, <5>1 DEF Knows
        <4>. QED
          BY <4>1, <4>2
      <3>. QED
        BY <3>1, <3>2, <3>3 DEF Knows
    <2>. QED
      BY <1>1, <1>3, <2>1, <2>2, <2>3, <2>4, <2>5 DEF KInv
  <1>5. CASE tab[t].version # row.version
    <2>1. UNCHANGED <<row, log>> /\ wire' = [wire EXCEPT ![t].stage = "stale"]
      BY <1>2, <1>5 DEF Serve
    <2>2. /\ wire'[t].stage = "stale" /\ wire'[t].save = wire[t].save
          /\ \A u \in Tabs : u # t => wire'[u] = wire[u]
      BY <1>2, <2>1 DEF KInv, IInv, TypeOK, OnWire
    <2>3. Knows(t, tab'[t].version, wire'[t], log)
      BY <1>1, <1>2, <1>3, <1>5, <2>2 DEF Knows
    <2>. QED
      BY <1>3, <2>1, <2>2, <2>3, KnowsStep
  <1>. QED
    BY <1>4, <1>5

LEMMA NextKInv == ASSUME NothingLost PROVE KInv /\ [Next]_vars => KInv'
  <1> SUFFICES ASSUME KInv, [Next]_vars PROVE KInv'
    OBVIOUS
  <1>1. IInv'
    BY NextIInv DEF KInv
  <1>2. ASSUME NEW t \in Tabs, LoadFails(t) \/ SaveFails(t) \/ Reload(t) \/ ProbeReloads(t)
        PROVE  FALSE
    BY <1>2 DEF NothingLost, LoadFails, SaveFails, Reload, ProbeReloads
  <1>3. ASSUME NEW save \in adrift PROVE FALSE
    BY <1>3 DEF KInv
  <1>4. ASSUME NEW t \in Tabs,
               \/ Load(t) \/ Persist(t) \/ Probe(t) \/ ProbeHeard(t) \/ Dismiss(t)
               \/ \E e \in Edits : Mutate(t, e) \/ MutateNow(t, e)
        PROVE  KInv'
    BY <1>1, <1>4, PageKnows
  <1>5. ASSUME NEW t \in Tabs, SaveAccepted(t) \/ SaveRefused(t) PROVE KInv'
    BY <1>1, <1>5, OutcomeKnows
  <1>6. ASSUME NEW t \in Tabs, Serve(t) PROVE KInv'
    BY <1>1, <1>6, ServeKnows
  <1>7. CASE UNCHANGED vars
    BY <1>1, <1>7 DEF vars, KInv
  <1>. QED
    BY <1>2, <1>3, <1>4, <1>5, <1>6, <1>7 DEF Next

\* Where no request or answer is lost and no page reloads itself, "somebody
\* else saved before you" is true whenever it is said (erp-store.js, the queue
\* above savingNow): a tab never meets a version of its own that it has not
\* been told of.  The run ws_self_conflict shows what one lost answer does.
THEOREM ConflictsNameOthers ==
    ASSUME NothingLost PROVE Spec => []ConflictIsSomebodyElse
  <1>1. Init => KInv
    <2> SUFFICES ASSUME Init PROVE KInv
      OBVIOUS
    <2>1. IInv
      BY InitIInv
    <2>2. \A t \in Tabs : tab[t].version = 0 /\ wire[t].stage = "idle"
      BY DEF Init, FreshPage, Idle
    <2>3. adrift = {} /\ log = << >> /\ row.version = 0
      BY DEF Init
    <2>. QED
      BY <2>1, <2>2, <2>3 DEF KInv, Knows
  <1>2. KInv => ConflictIsSomebodyElse
    <2> SUFFICES ASSUME KInv, NEW t \in Tabs, wire[t].stage = "stale"
                 PROVE  \E v \in (wire[t].save.expected + 1)..Len(log) : log[v] # t
      BY DEF ConflictIsSomebodyElse
    <2>1. Knows(t, tab[t].version, wire[t], log) /\ tab[t].version \in Nat /\ Len(log) \in Nat
      BY DEF KInv, IInv, TypeOK, Page
    <2>2. tab[t].version + 1 \in tab[t].version + 1..Len(log)
      BY <2>1 DEF Knows
    <2>. QED
      BY <2>1, <2>2 DEF Knows
  <1>. QED
    BY <1>1, <1>2, NextKInv, PTL DEF Spec
=============================================================================
