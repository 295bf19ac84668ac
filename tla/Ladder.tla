------------------------------- MODULE Ladder -------------------------------
(***************************************************************************)
(* The schema ladder of the register, while builds come and go: every      *)
(* process runs it on what it reads and on what a page sends, and a page   *)
(* runs none (site/erp-migrations.js, web/lib/erp-runtime.ts, the import   *)
(* route, site/erp-store.js).                                              *)
(*                                                                         *)
(* Build n is the one whose ladder ends at rung n.  A rung adds a field to *)
(* every record that lacks it; a record is the fields it has, under a      *)
(* number of its own.  Commands of the crew are tried on the document that *)
(* stands: the version they quote is ErpState's.                           *)
(***************************************************************************)
EXTENDS Naturals, FiniteSets

CONSTANTS LastBuild, Tabs,
          Turns,        \* what a deployment may be, see TurnsAssumption
          MaxRecords, MaxVersion, MaxTurns     \* bounds

(* "overlap": two builds answer at once.  "rolled back": an older build       *)
(* returns.  "straddled": a page is read from one build and its document from *)
(* the next.                                                                  *)
ASSUME TurnsAssumption == Turns \subseteq {"overlap", "rolled back", "straddled"}
ASSUME BuildsAssumption == LastBuild \in Nat \ {0}
ASSUME LadderBounds == MaxRecords \in Nat /\ MaxVersion \in Nat \ {0} /\ MaxTurns \in Nat

VARIABLES serving,   \* the builds that answer
          row,       \* the register as stored: a document and its version, up to MaxVersion
          tabs,      \* what each page holds: a document, its version, its own build
          exported,  \* a file somebody kept, a document
          minted,    \* records made so far, bounded by MaxRecords
          replaced,  \* history: how many imports there were
          turns      \* steps of deployments and files, bounded by MaxTurns

ladderVars == <<serving, row, tabs, exported, minted, replaced, turns>>

Builds == 1..LastBuild
Rungs(b) == 2..b
Records == [id : 1..MaxRecords, has : SUBSET Rungs(LastBuild)]
Pages == [code : Builds, schema : Builds, records : SUBSET Records, version : 1..MaxVersion]
NoTab == [code |-> 0]
Empty == [schema |-> 1, records |-> {}]

\* migrate: each rung above the document's in turn, and then the stamp.
Migrate(d, b) ==
    [schema |-> b,
     records |-> {[r EXCEPT !.has = @ \cup (d.schema + 1)..b] : r \in d.records}]

\* It throws on what is newer than itself.
Understands(b, d) == d.schema <= b

New(b) == [id |-> minted + 1, has |-> Rungs(b)]
Turn == turns < MaxTurns /\ turns' = turns + 1

\* The document is stored under the next version.
Store(d) ==
    /\ row.version < MaxVersion
    /\ row' = [schema |-> d.schema, records |-> d.records, version |-> row.version + 1]

LadderTypeOK ==
    /\ serving \in SUBSET Builds /\ serving # {}
    /\ row \in [schema : Builds, records : SUBSET Records, version : 1..MaxVersion]
    /\ tabs \in [Tabs -> Pages \cup {NoTab}]
    /\ exported \in [schema : Builds, records : SUBSET Records]
    /\ minted \in 0..MaxRecords /\ replaced \in 0..MaxTurns /\ turns \in 0..MaxTurns
    /\ replaced <= turns

LadderInit ==
    /\ serving = {1} /\ exported = Empty
    /\ row = [schema |-> 1, records |-> {}, version |-> 1]
    /\ tabs = [p \in Tabs |-> NoTab]
    /\ minted = 0 /\ replaced = 0 /\ turns = 0

Deploy(b) ==
    /\ Turn /\ b \notin serving
    /\ "rolled back" \in Turns \/ \A c \in serving : c < b
    /\ serving' \in {{b}} \cup (IF "overlap" \in Turns THEN {serving \cup {b}} ELSE {})
    /\ UNCHANGED <<row, tabs, exported, minted, replaced>>

RetireBuild(b) ==
    /\ Turn /\ b \in serving /\ serving # {b}
    /\ serving' = serving \ {b}
    /\ UNCHANGED <<row, tabs, exported, minted, replaced>>

\* loadErp, behind GET /erp/state; remoteLoadState looks at no schema.
OpenTab(p, code, b) ==
    /\ b \in serving /\ tabs[p] = NoTab /\ Understands(b, row)
    /\ code = b \/ "straddled" \in Turns
    /\ LET d == Migrate(row, b)
       IN tabs' = [tabs EXCEPT ![p] = [code |-> code, schema |-> d.schema,
                                         records |-> d.records, version |-> row.version]]
    /\ UNCHANGED <<serving, row, exported, minted, replaced, turns>>

CloseTab(p) ==
    /\ tabs[p] # NoTab
    /\ tabs' = [tabs EXCEPT ![p] = NoTab]
    /\ UNCHANGED <<serving, row, exported, minted, replaced, turns>>

\* A call of the page's engine.
EditTab(p) ==
    /\ tabs[p] # NoTab /\ minted < MaxRecords
    /\ tabs' = [tabs EXCEPT ![p].records = @ \cup {New(tabs[p].code)}]
    /\ minted' = minted + 1
    /\ UNCHANGED <<serving, row, exported, replaced, turns>>

Agrees(p) == tabs[p].version = row.version

\* saveErpDocument: what comes in is migrated, and what is stored is not looked at.
\* The page learns the version; its document stays as it was.
SaveTab(p, b) ==
    /\ tabs[p] # NoTab /\ b \in serving
    /\ Agrees(p) /\ Understands(b, tabs[p])
    /\ Store(Migrate(tabs[p], b))
    /\ tabs' = [tabs EXCEPT ![p].version = row.version + 1]
    /\ UNCHANGED <<serving, exported, minted, replaced, turns>>

\* runCommand
Command(b) ==
    /\ b \in serving /\ Understands(b, row) /\ minted < MaxRecords
    /\ Store([Migrate(row, b) EXCEPT !.records = @ \cup {New(b)}])
    /\ minted' = minted + 1
    /\ UNCHANGED <<serving, tabs, exported, replaced, turns>>

\* The copy a page makes of its document.
Export(p) ==
    /\ Turn /\ tabs[p] # NoTab
    /\ exported' = [schema |-> tabs[p].schema, records |-> tabs[p].records]
    /\ UNCHANGED <<serving, row, tabs, minted, replaced>>

\* The import route: it reads the row first, and then migrates the file.
Import(b) ==
    /\ Turn /\ b \in serving /\ Understands(b, row) /\ Understands(b, exported)
    /\ Store(Migrate(exported, b))
    /\ replaced' = replaced + 1
    /\ UNCHANGED <<serving, tabs, exported, minted>>

LadderNext ==
    \/ \E b \in Builds : Deploy(b) \/ RetireBuild(b) \/ Command(b) \/ Import(b)
    \/ \E p \in Tabs, code, b \in Builds : OpenTab(p, code, b)
    \/ \E p \in Tabs : CloseTab(p) \/ EditTab(p) \/ Export(p)
    \/ \E p \in Tabs, b \in Builds : SaveTab(p, b)

LadderSpec == LadderInit /\ [][LadderNext]_ladderVars

\* What the row says it is, every record of it is: no rung counts as climbed by a record
\* that was not there ("silently skips its work and still stamps the new version").
RowIsWhole == \A r \in row.records : Rungs(row.schema) \subseteq r.has

\* Work that was stored stays, whatever builds answered, unless an import replaced it.
StoredWorkStays ==
    [][replaced' = replaced =>
          \A r \in row.records : \E s \in row'.records : s.id = r.id /\ r.has \subseteq s.has
      ]_ladderVars

\* "A document from a newer build is refused rather than quietly downgraded"
\* (erp-runtime.ts): the stored schema never falls.
SchemaNeverFalls == [][row'.schema >= row.schema]_ladderVars

LadderHolds ==
    /\ LadderTypeOK
    /\ RowIsWhole
=============================================================================
