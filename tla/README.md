# Verification of the construction ERP

TLA+ models of this repository: the places where several people, tabs, requests
or transactions meet, and the engine's own long sequences of legal calls, with
TLC configurations that check them on small instances and proofs that hold for
every instance.

The repository is an ERP for small construction companies. Its core is one
JSON document per company, the *register*, edited in the browser by a large
engine (`site/erp-engine.js`) and stored as a whole on the server. Around it
stand accounts, auxiliary documents, and a second, service-oriented backend
(quotes, invoices, numbering) used by the web shell.

## 1. Inventory

### Components and what they keep

| Component | Where | State | Operations |
| --- | --- | --- | --- |
| Document store and runtime | `apps/web/lib/erp-runtime.ts`, `erp-scope.ts`, `erp-commands.ts`, `packages/db/src/stores.ts`, routes under `apps/web/app/api/[tenant]/erp` | one row per document with a version and an audit trail | read (redacted for site workers), whole save, command, import, auxiliary documents, settings, versions |
| Workspace client | `site/erp-store.js`, `site/erp-sync.js`, the save paths of `site/erp.html` | the document in memory, the version it was read under, a debounce timer, one save on the wire and one parked, two notices | load, mutate, mutateNow, persist, give up, poll, offer or take a reload |
| Auxiliary document client | `site/erp-docs.js` | the same for the setup screens, per key | get, set, flush, refuse, reload |
| Crew commands | `command()` of `site/erp-store.js` | the commands on the wire | press, send, answer, draw again |
| Schema ladder | `site/erp-migrations.js`, the read, save and import paths | the schema number of the register | migrate, refuse |
| ERP engine | `site/erp-engine.js` | the register itself: series, quotes, contracts, invoices, bills, bank lines, hours, packages, alerts, parties, the price book | some hundreds of changes |
| Scheduling | `packages/capabilities/scheduling`, the plans of `site/erp-bridge.js` | the plan of a job | derive, draw, drag, freeze, recalculate |
| Reconciliation | `packages/capabilities/reconciliation` | none: proposals | pair, match, settle |
| Messaging | `packages/capabilities/messaging`, `site/erp-bridge.js`, the draft route | the queue of messages, the drafts of a mailbox | plan, file, sweep, cancel |
| Ledgers and books | `packages/capabilities/{receivables,payables,projects,procurement}` | values passed in and out | register, allocate, pay, order, decide, close |
| Quotes and invoices of the web shell | `packages/capabilities/{quoting,billing}`, `packages/packs/jurisdiction-es-es/src/chain.ts`, the server actions of `presupuestos` | quotes, numbering counters, the head of the seal chain, an append-only journal, an event log | create, add a line, accept, revise, issue, rectify |
| Accounts | `apps/web/lib/user-admin.ts`, `users.ts`, the `users` and `activate` routes | rows, links, accounts configured in `ERP_USERS` | create, change, disable, invite, activate, first sign-in |
| Sessions and sign-in | `session.ts`, `session-token.ts`, `auth.ts`, `rate-limit.ts` | signed tokens; counters of failed attempts in the process | sign in, check, count |
| Photo store, kernel, factory, readers of files, screens, formats, mobile shells, operations | see `PROJECT.json` | none of their own, or none that two actors share | - |

### How they interact

A tab loads the register with `GET /erp/state`, changes it in memory with calls
of the engine and saves it whole with `PUT /erp/state`, quoting the version it
read. The server compares, brings the document up to its own schema, stores it
and answers with the next version; `erp-sync.js` polls `GET /erp/version` and
offers a reload when the number moved. A site worker's tab holds a redacted
register, so it sends *commands* instead, which the server applies to the full
one with the same engine. The engine calls the capabilities (scheduling,
reconciliation, messaging) through `erp-bridge.js`. Every route asks the accounts
for the role of the caller. The web shell's server actions call the quoting and
billing services directly, over Prisma repositories in the same database.

### What is hard

- **Nothing spans two transactions.** Every store method is a transaction of
  its own (`withTenant`); a handler is a sequence of them, and any other
  request, or the death of the process, may come between two. The document
  store protects itself with a version column; the accounts, the quotes and
  the seal chain do not.
- **A save is a whole document.** Whoever saves under a version without having
  all of that version in memory deletes the rest.
- **Answers get lost.** A tab cannot tell a save that was not stored from one
  whose answer did not arrive; requests may arrive after their page has gone.
- **Timers.** The debounce, the parked save, the poll, the sweep of the mailbox
  and the reload of a page that comes back all act on the same memory.
- **History matters.** Numbers may have no holes, seals must be linked, an
  approved week stays closed, an accepted quote should never change, a filed quarter
  stays as it was filed.
- **Everything can be taken back.** Most of the engine's operations have an
  opposite, and nothing forces the opposites to be called in the opposite
  order. Nothing undoes what a call did before it threw.
- **Two builds.** A deployment leaves pages and stored documents of different
  schemas side by side.

### What makes each component correct

- Store: no accepted change is lost; a command is applied once; a refusal is
  genuine; what the answer says was stored was stored; rules checked on a read
  still hold at the write; every request ends.
- Clients: what is only in memory is on its way or announced; "saved" is said of
  stored work only; a page that fell behind says so; a conflict names somebody
  else; a shift is recorded once.
- Quotes and invoices, of the shell and of the engine: unique numbers; no hole but
  a number that died with its action; seals that follow one another; only what was
  accepted is billed, and an accepted quote stays as it is.
- Accounts: somebody can always administer; a link is used once and only the
  last one works; disabled means disabled. The code keeps each of these against
  requests that come one after the other; section 6 says what it does when two overlap.
- Registers of the engine: whatever is derived from two places agrees in both,
  after any sequence of operations and their opposites.

`PROJECT.json` lists every component and every hazard at its line, with the
property that would catch it or the reason none does.

## 2. Modules

### Several actors

| Module | Models | State |
| --- | --- | --- |
| `SharedDocument` | the abstract promise of a versioned document: it grows, one version at a time, and only an import takes anything away | `document`, `version`, `imported` |
| `ErpState` | the server's handlers, transaction by transaction | `rows`, `req` (requests in progress), `copies` (what each client holds), `listening`, `accepted` (history) |
| `Workspace` | the browser side, against a server that is atomic (which `ErpState` justifies) | `tab`, `wire`, `adrift` (requests whose page has gone), `row`, `log` (history) |
| `AuxDocs` | the auxiliary documents in the browser: the cache, the queue of a document, writes that are refused or lost (nothing is sent again), the notice and the reload | the documents of each screen, what is on the wire, the row |
| `Crew` | the commands of a phone: two pressed at once, an answer lost or read in a later transaction | the phones, the wire, the row |
| `Ladder` | the schema ladder while builds are deployed, overlap and return: whole saves, commands, an exported file that is imported | `serving`, `row`, `tabs`, `exported` |
| `Invoicing` | quoting, billing, numbering and sealing of the web shell | `quotes`, `counter`, `head`, `journal`, `events`, `job` (what each server action is doing), `accepted` and `lost` (history) |
| `Accounts` | user administration | `env`, `rows`, `links`, `job`, `spent` and `meanwhile` (history) |
| `Outbox` | messages, their drafts in the mailbox, filed by hand, by the sweep and by the send button | `queue`, `filing`, `sweep`, `mailbox` |

### Long sequences of legal calls

| Module | Models |
| --- | --- |
| `Numbering`, `Series` | the numbers of a series: printing, reading back, giving back, moving the counter, the turn of a year |
| `SalesBook` (over `Numbering`) | invoices of a job: payers, issuing, withdrawing, rectifying, re-addressing, collecting, the log of events, the adviser's package |
| `Bank` | statements, matching, transfers, explanations, releasing, closing a quarter |
| `Contracts` | contracts, annexes, stages, days and scope; signing and taking back |
| `Labour` | hours, rates by date, weeks approved and reopened, jobs closed |
| `Purchasing` | orders, deliveries, subcontracts, captured papers and the bills they become |
| `Budgets` | quotes, their versions, chapters and numbers; adicionales and extras |
| `Parties` | the file of parties: roles, who bears whose invoices, tax numbers, retirement |
| `Trades` | partidas and the subpartidas filed under them, and the budgets that name them |
| `BookImport` | a workbook, or an earlier version, planned and applied to the price book and to a budget that is edited by hand in between |
| `Margins` | the cost and margin tables of a job while its scope moves |
| `Closing` | the package of a quarter: exceptions, sending, reopening |
| `Agenda` | alerts, the rules that silence them and what a person did about each |
| `Network`, `Planning` | the working calendar and the critical path as operators; the plan they recalculate |
| `Matching` | the proposals for bank lines as operators; the presses that mark and settle them |
| `Ledgers` | the receivables, payables, procurement and projects services |
| `Capabilities` | `Ledgers` and `Matching` side by side, and what they promise together |

`MCErpState`, `MCWorkspace` and `MCInvoicing` are the small instances of the
modules they name. `MCRegister` puts `Series` to `BookImport` side by side,
`MCOffice` the others: a variable `part`, chosen in the initial state, says
which one a behaviour is about, and the variables of the rest stay as they
began. One run thus explores them all without the product of their states.
`Documents` puts `AuxDocs` and `Ladder` together and `Tables` holds the
operators on rows that the register's modules share. The eight `*_proofs`
modules hold the theorems of section 5: one each for `ErpState`, `Workspace` and
`Invoicing`; `SalesBook_proofs` for the contracts and invoices of a job (`SalesBook`,
`Contracts`); `Documents_proofs` for the pages that keep documents
(`AuxDocs`, `Ladder`, `Crew`), `Register_proofs` for the other parts of the engine
(`Series`, `Parties`, `Labour`, `Purchasing`, `Bank`), `Office_proofs` for the
parts beside it (`Closing`, `Outbox`, `Agenda`, `Accounts`, `Margins`, `Ledgers`,
`Matching`), and `Tables_proofs` for
lemmas about sums that several of them cite.

### Conventions

One action is one transaction, or one turn of the browser's event loop, or one
call of the engine with everything it calls. A handler that makes several
transactions leaves its local variables in `req` or `job`, so what it read
earlier can be stale when it is used. A definition named after a function of the
code is that function. `MaxX` constants are bounds and nothing else.

A property named `...Holds` is the conjunction of the named invariants of its
module, its type invariant first; `StandingStands` collects the action properties
of the parts of a run and `WorkSettles` their liveness properties. An operator
whose comment begins with *Fault:* is a variant of the definition after it with
a plausible bug; nothing uses it, and replacing the definition by it must break
the property `PROJECT.json` pairs it with.

Several modules have a constant that is a set of *liberties*: things the code
lets happen under which a promise made in a comment is not kept (`Slips`,
`Habits`, `Freedoms`, `Mishaps`, `Liberties`, `Manners`, `Untidy`, `Lapses`,
`Likenesses`, `Turns`; `Reshape` and `Returns` are Booleans of the same kind;
`TypedNumbers` and `ExtraQuotes` the inputs concerned). The passing runs leave
them out, so what they show holds *as long as nobody takes that liberty*; section
6 says what each one breaks. In `Contracts` the habits are the other way round:
what the people keep to.

**ErpState.** `Read` is `GET /erp/state` and `/erp/doc/<key>`; `Send` leaves the
client; `Forbid`, `LoadFor...` are the handlers up to the save, `Create`,
`Update` and `Conflict` the three outcomes of `PrismaErpStateStore.save`,
`NameCurrent` its `stale()`, `ReRead` the `include=state` of a command,
`Throw` a document or a command that the engine refuses, `Answer` the response,
`HangUp` and `Crash` the faults. A document is the set of edits in it: a whole
save carries the set the client holds, a command adds one edit to the set the
server loaded. Redaction (`View`) leaves a site worker its own edits. The
approval of a week is an edit; `refuseOutsideOwnHours` looks for it.

**Workspace.** `Mutate` and `MutateNow` are the two ways in which `erp.html`
applies a change, `Persist` the debounce, `RequestSave` the choice of
`remoteSaveState` between sending and parking, `SaveAccepted`, `SaveRefused`
and `SaveFails` the settling of the promise with the draining of the parked
save, `Probe`, `ProbeHeard` and `ProbeReloads` the watch. What is parked is the
engine's live state object, so a parked save sends what the memory holds when
the wire is free.

**Invoicing.** A worker is one server action. `Load` is the read that every
operation on a quote begins with; the saves that follow write the copy, whole,
whatever is stored by then. Issuing is `IssueFromQuote` or `Rectify` (which take
the number), `ReadHead`, `Seal`, `AppendInvoice`, `Tell`. What is billed is the
set of lines. The hash of a record is its series and number, which it contains.

**Accounts.** A worker is one request. `CheckCreate`/`Insert`,
`CheckPatch`/`WritePatch`, `Retire`/`Mint`/`Credential` and
`Follow`/`Allow`/`SetPassword`/`Spend` are `createUser`, `updateUser`,
`issueInvitation` and `activate`, transaction by transaction; `SignIn` and
`Promote` are the first sign-in of an invited account. `env` is the list in
`ERP_USERS`, which a process reads at its start.

**Parts of the engine.** Each keeps the collections of `state` that its
operations touch, with the fields that a guard or another field depends on.
Amounts are small integers where sums are the point, sets of lines where
membership is. Screens count: a call that no screen offers in a state is not
made in it, and the guard cites the button. Where a screen offers what the
engine then refuses, the refusal is modelled by the guard of the engine; where
it throws half way, what was written before stays written.

## 3. Runs

| Run | Instance | What it shows |
| --- | --- | --- |
| `erp_shared` | two accounts, one of them a site worker, three edits, two requests at once, three in all; saves, commands, hours and imports with crashes and lost answers | `RegisterIsShared`: the register implements `SharedDocument`. `SavedAsTold`, `StaleIsGenuine`, `AppliedOnce`, `ApprovedWeekIsClosed`, `ImportNamesWhatItReplaces` |
| `erp_fair` | the same accounts with auxiliary documents and settings, three requests | `AuxiliaryIsShared`; `RequestsEnd` under fairness |
| `ws_lossy` | two tabs, three edits; requests and answers lost or late, reloads, the watch | `RegisterIsShared`, `ToldIsStored`, `UnsavedIsPendingOrWarned` |
| `ws_reliable` | the same tabs with nothing lost and no reload | `ConflictIsSomebodyElse`, `EditsSettle`, `StalenessIsAnnounced` |
| `ws_self_conflict` | one tab, one lost answer | finding: `ConflictIsSomebodyElse` fails |
| `inv_crash` | two server actions at once, two quotes, crashes anywhere, four events, up to renaming actions and quotes | `NumbersAreUnique`, `BilledWasAccepted`, `JournalTells` |
| `inv_drift` | two server actions | finding: `AcceptedNeverDrifts` fails |
| `inv_fork` | two server actions | finding: `ChainIsLinked` fails |
| `register` | the ten parts of `MCRegister`, 4 to 9 calls each (1.5 million states) | `NumbersRunOn`, `BookHolds`, `BankReconciles`, `ContractsHold`, `HoursHold`, `PurchasesHold`, `OffersHold` (quotes and the price book), `PartiesHold`, `StandingStands` |
| `office` | the eleven parts of `MCOffice` (0.7 million states) | `DocumentsHold` (auxiliary documents and the ladder), `CrewHolds`, `PlanHolds`, `CapabilitiesHold` (ledgers and proposals), `LastAdminStays`, `LinksHold`, `DisabledStaysDisabled` (accounts: two requests at once, three in all, with crashes), `MarginsHold`, `PackagesHold`, `OutboxHolds`, `AgendaHolds`, `StandingStands`, `WorkSettles` |
| `acc_orphan` | two requests on accounts at once | finding: `SomebodyAdministers` fails |
| `progress_lost` | an adicional signed after progress was recorded | finding: `BuiltIsKept` fails |

### What the register and office parts say

- `NumbersRunOn`: no number twice, no hole but where somebody moved the
  counter, a correction keeps its number.
- `BookHolds`: the log of events verifies, nothing points at an invoice that is
  gone, series and book agree. With `BilledWithinScope`, `FiledInvoicesStand` and
  `ScopeStands`, a payer is billed what they bear and no more.
- `BankReconciles`: a paper is paid exactly by the lines matched to it, a line
  counts once, the legs of a transfer name each other, a closed quarter is
  explained; `ClosedLinesStand`.
- `ContractsHold`: stages are those of the annexes in force and know their
  invoices, what was worked on is in the scope; `DaysCountedOnce`,
  `SignedKeepsItsJob`.
- `HoursHold`: each entry has a person, a line and the rate of its day, an
  approval covers its week; `ApprovedHoursStand`, `ClosedJobsGainNothing`.
- `JournalTells`: when nobody is at work each number counted is in the journal, each
  invoice has its event once and each seal follows one that was made, but for what
  went with an action that died; a fork of the chain is not excluded.
- `LastAdminStays`, `LinksHold`, `DisabledStaysDisabled`: the last administrator
  remains, a link sets a password once and a person has one that works, only an
  administrator gives a disabled account back, *unless* another request changed the very
  account or link between the check and the write of the one that breaks it. The
  history `meanwhile` says who did; take one of these excuses away and TLC
  shows the overlap (section 6).
- `PurchasesHold`: orders, bills and papers agree on what was delivered, billed
  and by which figure. Rows that were typed may miss what they split by the cent
  that `registerBill` and the screens allow (`Misses`); rows that were rescaled may not.
- `OffersHold`: numbers of chapters are unique, the paper of an adicional says
  what its annex charges, what waits is shown to wait; a subpartida is filed
  under something that exists and a name in a budget finds its partida; the same
  sheet twice changes nothing, a sheet stacks, erases and un-files nothing, and
  what is recovered from an earlier version is back and all that is changed (`ImportsHold`);
  `AdicionalRevisesWhatStands`, `IssuedPaperStands`, `FilingKeepsOrder`.
- `PartiesHold`: tax numbers and codes are unique, payers are one level deep,
  exist, and were chosen.
- `DocumentsHold`: what a screen says is saved is stored, its own write is not
  refused because of itself, and each record of the register has climbed each
  rung of the schema its row claims; `NothingOverwritten`, `NoEditVanishes`,
  `StoredWorkStays`, `SchemaNeverFalls`.
- `CrewHolds`: a shift is recorded once and what a phone draws is stored.
- `PlanHolds`: dates obey links and calendar, float is room, progress has one
  value, agreed days are added once; `FrozenStays`, `PinsSurviveDerivation`.
- `CapabilitiesHold`: nothing is paid twice over, the budget by chapter comes to
  the whole; proposals are disjoint and complete, what is called sure had no
  rival, what one press settles is named and comes to the line.
- `MarginsHold`: the table and its lines foot to the cost of the job, what is
  built is what is signed. `PackagesHold`, `FiledFiguresStand`: what the adviser
  was sent stays what the registers say. `OutboxHolds`: one draft per message,
  none after it was cancelled, what was sent is about an invoice that stands.
- `AgendaHolds`: whoever put an alert away had before them all that it rests on now, and
  an alert is one task at most.

### Bounds, and why they are enough

The `Max...` constants bound the length of a behaviour and stand in the guards
of the actions that begin something. Each is large enough for the patterns the
properties are about: for the store, a first save, a competing one, and a
repetition or an import in between (three requests, two at once, because the
version check relates a request to one competitor at a time); for the clients, a
save on the wire, one parked behind it and one of the other tab; for invoices, a
quote created, accepted, an invoice and a second one, a revision, a rectification or
a crash; for accounts, an invitation, or two, and what follows from them with a
demotion or a disabling in between (three requests, two of them at once);
for a part of the engine, an operation, what depends on it, its opposite, and the
operation again. That they are not too small is shown by section 6: each
liberty leads to its violation within bounds of this size, and each *Fault*
operator within those of its run.

Deadlock checking is on where a system can always go on (reads, polls, reloads)
and off where a bound or a finished history ends the behaviour.

### Fairness

`ErpState` assumes that a handler which can take a step takes one (`WF` of
`Handle(s)`), as Node runs every promise that settles, and nothing of clients,
crashes or hang-ups. `Workspace` assumes that a page loads, that its debounce
and its poll fire, that the server serves and that a fetch settles. `AuxDocs`
(`AuxProgress`) assumes the same of a screen's queue, and `Outbox`
(`OutboxProgress`) that a call of the mailbox that was made is answered or fails
and that a sweep takes its next row. Users and faults are never obliged to act.

## 4. What is compared with a reference definition

- `RegisterIsShared`, `AuxiliaryIsShared` (`ErpState`, `Workspace`): the detailed
  modules implement `SharedDocument` under the refinement mappings at their ends.
- `EveryFitIsOffered`, `SureIsNoGuess` (`Matching`): the greedy scan of `match.ts`
  against the set of all pairs that fit.
- `DatesObeyLinks`, `FloatIsRoom` (`Planning` over `Network`): the two passes of
  `cpm.ts` against the constraints they are meant to satisfy.
- `TableFoots`, `LinesFoot` (`Margins`), `ChaptersAddUp` (`Ledgers`): the tables
  by chapter against the plain sum.

## 5. What is proved

`ErpState_proofs`, for all sets of clients, edits, grants, request kinds and
slots, from the assumptions named in `ErpState` (every edit has an author;
kinds are known; a role that may save the register reads all of it):

- `TypeCorrect`: `Spec => []TypeOK`.
- `CurrentIsComplete`: `Spec => []IInv`. The strengthening says that whatever a
  client holds, or a request carries, *under the current version* of a document
  contains all of that document, unless it is an import; and that no version a
  client or a request knows lies in the future. Anything older than the current
  version will fail the comparison in `Update` or the unique key in `Create`.
  `RegisterIsShared` alone is not inductive: it does not say what the requests
  in flight carry.
- `RegisterRefinement`, `AuxiliaryRefinement`: `Spec => RegisterIsShared` and
  `Spec => AuxiliaryIsShared`, each step of `ErpState` being a step of
  `SharedDocument` or a stutter; from `IInv`, `Update` and `Create` keep all the
  edits of the version they replace.

The proofs of the invariants have a lemma per action; the redaction of a site
worker's copy is where the assumption on the grants is needed. Two more
invariants are built on `IInv`:

- `AnswersRestOnVersions`: `Spec => []AInv`, where `AInv` says that the version
  of a document is the number of saves accepted for it, that no client knows a
  later one, and what each request in progress rests on: its `basis` is the
  version it was asked with, and once it is saved the entry of the history with
  the version it will be told is its own. From it `AnswersAreTrue` and
  `RefusalsAreGenuine`: `SavedAsTold` and `StaleIsGenuine`. The second is about
  two transactions: the save fails in one and `stale()` reads the version to
  report in the next, when more may have been stored.
- `HistoryIsKept`: the invariant of the history. The row is the last accepted
  write; whatever was accepted since the last import is still in it; whoever
  holds the current register holds all their own edits that are in it; and a
  request in progress can only do, under the version it quotes, what the register
  of that version allows. From it `CommandsApplyOnce`, `ApprovedWeeksStayClosed`
  and `ImportsNameTheirVersion`: `AppliedOnce`, `ApprovedWeekIsClosed` and
  `ImportNamesWhatItReplaces`, which are properties of the whole list `accepted`
  and not of the row.

`Workspace_proofs`, for all sets of tabs and edits, with every loss, delay,
parked save and reload:

- `PagesAreComplete`: `Spec => []IInv`. A page, the save on its wire and every
  save that outlived its page either quote an old version, which the server
  will refuse, or contain all of the stored document. It also carries what the
  page owes its user: what was told is stored, what is being asked for is on
  the wire, what waits behind it is in memory.
- `TypeCorrect`, `RegisterRefinement`, `TellsTheTruth`, `NothingIsForgotten`:
  `TypeOK`, `RegisterIsShared`, `ToldIsStored` and `UnsavedIsPendingOrWarned`.
  Without the adrift saves in the invariant it is not inductive: a save whose
  page has gone may still be served.
- `ConflictsNameOthers`: `ConflictIsSomebodyElse`, where the events leave out the
  losses and the replacing of a page (`NothingLost`, the instance of
  `ws_reliable`). The invariant says that a tab knows of every save of its own
  but the one it waits to hear of; with a single lost answer it is false, which is
  the finding of section 6.

`Invoicing_proofs`, for all sets of workers, quotes and lines and any bound on
events, with crashes anywhere:

- `TypeCorrect`, and `NumbersAndScopes`: `Spec => []IInv`, with `IInv` the
  conjunction of `TypeOK` and three parts. `Counted`: whatever carries a number,
  in the journal or in the hands of a worker that has not stored it yet, carries
  one that the counter of its series has passed. `Distinct`: no two of those
  share one. `ScopesAccepted`: a quote that is stored as accepted, an invoice
  being prepared and an invoice in the journal bill a scope that was accepted,
  and a worker about to write back a draft loaded a draft.
- `UniqueNumbers`, `BillsWhatWasAccepted`: `NumbersAreUnique` and
  `BilledWasAccepted` follow. Neither is inductive alone: the number is taken
  transactions before the invoice is stored, and the scope is copied when the
  quote is loaded, not when it is billed.

- `JournalTellsAlways`: `JournalTells`, for any number of workers and whatever dies.
  The invariant pairs each number that the counter has passed with the invoice, the
  one worker or the dead action that carries it, and each seal with the one its
  worker read.
- `JournalIsTheChain`: `ChainIsLinked`, where one invoice is issued at a time and
  nothing dies (`OneAtATime`): the journal in its own order is the chain, from the null
  hash to the head. The invariant says what the worker in the middle has read of
  the head and has already written behind it. `inv_fork` shows two workers break it.

What makes uniqueness hold is that `Number` reads and advances the counter in
one statement; holes (a crash after it) and forks of the seal chain, which needs
two, are the price of the rest of the design.

`Documents_proofs`:

- `DocumentsKept`, for any screens, builds and pages: `DocumentsHold`, where no
  page saves a document of another build (`"straddled" \notin Turns`). What a
  screen calls saved is stored and no screen is refused over its own save; every
  stored record has climbed each rung its row claims. It needs nothing else of
  the network or of the deployments.
- `ScreensShareTheDocument`: `NothingOverwritten`, the refinement of
  `SharedDocument` by the auxiliary documents, unconditionally.
  `EditsAreAccountedFor`: `NoEditVanishes`, where no page is returned to while it
  is saving (`~Returns`). The invariant of both says that what quotes the current
  version contains the document, of every page, every write on a wire and every
  write whose page has gone.
- `LadderTyped`, `RowsAreWhole`, `LadderKept`: the last two with builds that overlap
  and return too. The invariant asks of every page and of the exported file what
  `RowIsWhole` asks of the row, and that a page edits with the build that migrated
  its document. `WorkKept`, `SchemaKept`: `StoredWorkStays` and `SchemaNeverFalls`,
  as long as one build answers at a time and none returns. The invariant says that
  the build that answers understands the row, and that a page which quotes the
  current version has, once migrated, all of the row's work.
- `CrewKept`: `CrewHolds`, for any phones, commands under way and lost answers. The
  invariant says of each command where its shift is: not yet in the row, or in it
  exactly once under the version its answer will quote.

`Register_proofs`, each part for any number of its rows and any set of its values:

- `NumbersStay`: `NumbersRunOn` of `Series`, where each pattern prints the year and
  nobody changes the shape of a series that has documents (`ShapeStays`). The
  invariant relates three places: the numbers as printed, the years the documents
  are dated, and the counter of each year, which is the number after the last
  of its year, also while documents of a later year are withdrawn one by one.
- `PartiesTyped` and `ScopeNeverMoves` (`ScopeStands`) hold whatever `Manners` are
  taken. `TaxIdsKept`, `CodesKept`, `OneLevelKept`, `PayersKept` and `LinksKept` each
  prove one invariant of `PartiesHold`, and each hypothesis names exactly the
  manners that section 6 shows to break it; `PartiesKept` puts them together.
- `HoursKept`, `ApprovedHoursKept`: `HoursHold`, `ApprovedHoursStand` and
  `ClosedJobsGainNothing`, where neither of `Slips` happens.
- `RegisterAgreesAlways`: papers, bills and orders name each other, and the rows of
  a bill come to its base within the cent that is accepted of typed rows, however the
  split is rounded, whatever is read, deleted and billed again. `PurchasesKept`: `PurchasesHold`, where every paper is read with
  its base (`BasesAreRead`): what was split of a paper came to that base within a cent,
  and what the bill charges comes to it exactly. The sum of the rounded shares is where the lemmas of
  `Tables_proofs` come in.
- `Reconciled` and `ClosedLinesKept`: `BankReconciles` and `ClosedLinesStand`, with no
  hypothesis. The invariant adds to the conjuncts of `BankReconciles` that a payment
  is the doing of a call already made and that a line's pair is a line already
  imported; what a paper is paid is a sum over payments, so each step shows which
  payments it adds and removes and the lemmas say what that does to the sum.

`SalesBook_proofs`, for any customers, chapters, changes, instalments, amounts, years
and bounds:

- `BookKept`: `BookHolds`, where both series print the year and have different
  patterns (`ShapesTellApart`, as `ensureSeries` makes them; section 6 shows the
  second is needed). The book is a table of rows by id, so the order of issue is the
  order of ids. The invariant (`Sound`) has the chain and each series *listed*: a
  sequence of ids, ascending, that are exactly the invoices issued here (of that
  kind), whose k-th has the number and the amount of the k-th link. A link is the
  hash of those before it (`Linked`), the number of an invoice shows its year and
  its series (`Numbered`), the counter of each year is the number after the last
  (`CountedUp`), and a change or an instalment that names an invoice is named by it
  (`Pointed`). Each operation is a lemma on books (`IssueSound`, `WithdrawSound`,
  `HandBackSound`, `EditSound`, ...), so a re-addressing, which is up to three of
  them in one step, is their composition. `RebuiltIs` says what rebuilding
  the chain behind an edited invoice comes to.
- `NobodyIsBilledBeyond`: `BilledWithinScope`, and `FiledInvoicesKept`:
  `FiledInvoicesStand`, with no hypothesis on the series. The ceiling is checked
  against the book as it is when the invoice is issued, which for a replacement is
  not the book the step began with: in between the original was withdrawn or
  credited. The proof is about the two sums of `Net` when a row joins or changes.
- `ContractsKept`: `ContractsHold`, for any extras, days and bounds, where people
  take back only the annex put in force last and do not let go of a contract with an
  annex waiting (`{"newest", "hold"} \subseteq Habits`; section 6 shows both are
  needed). None of its conjuncts is inductive. The invariant (`Orderly`) says that the
  annexes of a contract are numbered in their order, that each one in force has one
  milestone and no milestone is of another, that an invoice and its milestone name
  each other, that an extra has one annex at most and only once it was accepted, that
  an annex that waits is one of the contract the job holds, with no days counted and
  no work, and that what was not accepted has neither. Each operator of the module is
  a lemma on deals (`ApplyKeeps`, `RemovedKeeps`, `WrittenKeeps`, `ScheduleKeeps`, ...),
  an action is a composition of them, and `RemoveAllContractAnnexes` is an induction
  over the annexes from the last (`EmptiedKeeps`).
- `DaysCountedOnceKept` (`DaysCountedOnce`), where moreover days in force are not
  lowered (`"grow"`), and `SignedKeepsItsJobKept` (`SignedKeepsItsJob`). For the first
  each lemma also says by how much the date runs ahead of the days counted.

`Office_proofs`:

- `PackagesTyped` unconditionally, `PackagesKept` (`PackagesHold`) where no two bills
  carry one number (`NoNamesakes`): what the adviser accepts is a number of a
  quarter, and the theorem is about the bills.
- `SentKept`, `DeclinedKept` and `DraftsKept` each prove a conjunct of `OutboxHolds`
  from the absence of the mishap that section 6 shows to break it; `OutboxKept` puts
  them together. The invariant of the drafts counts, for each message, the draft in
  the mailbox, the one a call is filing and the answer not yet heard.
- `TasksAreOne` unconditionally; `AlertsKept` (`AgendaHolds`) where nothing an alert
  rests on happens again (`Lapses = {}`). The invariant says of each note what was
  true when it was written, and that facts only grow.
- `MarginsKept`: `MarginsHold`, for any quantities, costs and bounds, where none of
  the `Liberties` is taken (section 6 shows each of them to break it). The two
  equalities about costs follow from where the costs are: the rows of the table and
  what waits are a partition of the costs, and `SumByPart` says what the parts of a
  partition come to. That a cost stays in the table while the scope moves under it
  needs the rest of the invariant (`MInv`): a version continues from one that was
  accepted and has all of its chapters, in their places, with all of their lines
  (`Lineage`, `Grown`); each annex continues from the annex before it and its price
  is the difference (`ChainRows`); the annexes in force are the first ones and the
  version in force is the last of these (`ChainEnds`); so what is in force was
  sold for the first version and the sum of the annexes in force (`BuiltInv`).
- `LedgersKept`: `LedgersHold`, for any amounts, suppliers, numbers and chapters,
  where none of the `Habits` is taken: a receipt names an invoice once, a quote a
  chapter once, and no change is decided after the close. A receipt is checked row by
  row against what its invoice owed before it; the proof shows that with one row each
  that is what the whole receipt pays (`PaidInIs`), and that what an invoice was paid
  is a sum that grows by exactly that (`PaidOfIs`). What is said chapter by chapter
  adds up by `SumByPart`; for the budget that needs the frozen rows to bear different
  chapters (`OneRowEach`), since the code looks up the first.
- `MatchingKept` (`MatchingHolds`), for any statements, papers, periods and
  tolerances, and with `LedgersKept` `CapabilitiesKept` (`CapabilitiesHold`): as long
  as nothing has a likeness (the screen shows every line, no two payments out fit one
  in, a line is matched to the papers of one party). What the scan over the lines has
  found among the first of them (`FoundWell`) is carried from line to line: its pairs
  fit and share no line, an out that fits is not passed over, and an in that would do
  as well for a pair without alternatives was taken by another out before. Then
  two outs fit that in, which the hypothesis excludes, so what is marked in bulk had
  no rival. For a press that settles, `TakesAre` shows that the papers in
  their order take together what the line reaches and no paper more than is left of
  it: all before the last that takes anything are taken whole. The invariant
  `MatchInv` adds that the legs of a transfer paid nothing and that a line settled at
  one press is settled until it is freed.
- Accounts, for all sets of people, links and configured accounts and any number of
  requests at once, with crashes and the expiry of links anywhere: `TypeCorrect`,
  whose invariant adds that a request past its checks has a row to write to, since no
  row is deleted; and `OverlapsNoted` (`Spec => []AInv`): what a request found when it
  checked (another administrator, an account that is not disabled, a link not yet used,
  no other working link of the person) still holds when it writes, or the account
  or link concerned is in its `meanwhile`. From it `LastAdminKept` (`LastAdminStays`),
  `LinksAreKept` (`LinksHold`) and `OnlyAdministratorsRestore` (`DisabledStaysDisabled`).
- `KeepsAnAdministrator`: `SomebodyAdministers`, where at most one request is in
  progress (`Serial`); the run `acc_orphan` shows that it needs this. With one request
  every `meanwhile` is empty, so the excuses of the three properties never apply.

`Tables_proofs` are the lemmas: what a sum over a finite set comes to when an
element joins, leaves or changes, what the parts of a set come to, and that a sum of
parts within bounds is within bounds. The induction theorems of the library take an operator for the property
they prove, which the provers cannot instantiate. The lemmas go around it by stating
the property as a *set*: that the naturals are well founded is a fact about a
relation, so a set of naturals that is not empty has a least member, and
the set of the parts of a finite set for which a sum behaves is all of them. Each
fold then exists as a function on the parts of the finite set it is taken over.

The theorems rest on the assumptions named in the modules and on nothing else.
Those are about constants only: that a role which may save the register reads
all of it, that every edit has an author, that amounts and bounds are natural
numbers, that a rate is worth something, that what a file says of a line is how
often it lists it, that the bounds leave room for a job of one line, that
builds and quarters are counted from 1, that a job has finitely many chapters
and changes and every day a year, that chapters to budget are finitely many,
that extras are finitely many, each a variation or a change, and add days
within the bound on the date, that the papers to pay are finitely many and numbered in
the order they were registered, and that every line has a day of a period shown.

Only model-checked:

- the liveness properties (the prover does not treat fairness and `ENABLED`);
- `OffersHold` (quotes, the price book and the workbooks), whose operators walk
  sequences with the folds of the library;
- `PlanHolds`: what the two passes of `Network` compute for every plan is an
  induction over its links.

## 6. Where the code and its comments part

Five disagreements have a run with a shortest trace; `PROJECT.json` quotes both
sides.

- A page whose answer was lost conflicts with itself (`ws_self_conflict`).
- Two invoices issued at once are sealed behind the same predecessor (`inv_fork`).
- A draft that is being changed is saved whole over the quote that was accepted
  meanwhile (`inv_drift`): `quoting/service.ts:53-59` and its like compare nothing.
- Two administrators can step down at the same time (`acc_orphan`).
- Progress recorded while an adicional waits for its signature is lost when it
  comes into force (`progress_lost`).

Three more are the overlaps that the properties of `Accounts` excuse. They need two
requests at once on one link or account, and happen in the run `office`:

- A form that is sent twice sets the password twice (`user-admin.ts:418-446`): both
  requests read the link before either stamps it, and `useToken` stamps it again, where
  `stores.ts:500` calls the link single use, "never accepted twice".
- Two invitations issued at once leave two links that work: each retires the older
  ones before the other has minted its own (`user-admin.ts:268-280`).
- An account that is disabled while its owner activates it, or signs in for the first
  time, is active again: the state is tested, the password hashed, and `active`
  written over whatever is there by then (`user-admin.ts:432-443`, `473-498`).

The others met while modelling are kept behind a constant: with the value in the
middle column (and the other parts left out of `Parts`) TLC shows the property on
the left violated, by a trace of the length given where that was noted. Those
without a constant are properties that the modules state and no run lists.

| Property | Constant | Where, and what happens |
| --- | --- | --- |
| `ReloadKeepsWork` (Workspace) | - | `erp-sync.js:171`: a page that comes back reloads over work that was not stored |
| `NoEditVanishes` (AuxDocs) | `Returns = TRUE` (6) | `erp-sync.js:203`: the same for an auxiliary screen |
| `RowIsWhole` (Ladder) | `Turns = {"straddled"}` (5) | `erp-store.js:182-225` looks at no schema: a page of one build saves a document of the next |
| `StoredWorkStays`, `SchemaNeverFalls` (Ladder) | `{"overlap"}`, `{"rolled back"}` (5 to 7) | `erp-runtime.ts:311-348` migrates what comes in and not what is stored: the older build's save replaces the newer document |
| `NoNumberTwice` (Series) | `Dated = {slash}` (5) | engine 2494-2506: a series restarted each January whose pattern does not print the year repeats its numbers |
| `NoNumberTwice` (Series) | `Reshape = TRUE` | engine 2404-2411: the shape of a series is changed once documents carry it |
| `BookVerifies`, `SeriesMatchesBook` (SalesBook) | `CreditShape = slash` (3) | engine 2420-2441: `configureSeries` compares a pattern with the numbers of its own series, so a credit note can carry the number of an invoice |
| `OfferedOrBilled` (3), `ReaddressedWhole` (4), `FiledPeriodStands` (4), `ChangeBilledOnce` (8) (SalesBook) | - | engine 8455, 8590; 8504-8507; 8263: an instalment stays invoiced after its invoice went, a re-addressing ends half done, a foreign invoice leaves a filed quarter |
| `ShowsAllItSettled` (6) (Bank) | - | engine 10500: a line matched to several papers shows what the last one settled |
| `StagesKnowTheirInvoices` (Contracts) | `Habits = {"grow", "hold"}`, `Variations = {}` (9) | engine 6335-6339 against 8085 |
| `DaysCountedOnce` (Contracts) | `Habits = {"newest", "grow"}` (8) | engine 6283-6288: annexes taken back in another order |
| `CostedAndNamed` (Labour) | `Slips = {"refused"}` (3) | engine 15133 against 15155: a refused correction has already written |
| `ApprovalCoversWeek` (Labour) | `Slips = {"late"}` (4) | engine 11243: hours for a week approved already |
| `BilledAtItsBasis`, `LedgerMatchesJobs` (3) (Purchasing) | `Readings = {full, gross}` | engine 9061 against 7319-7322; 10345-10347: a paper read with its total alone |
| `NothingDangles` (Purchasing) | - | engine 14943-14960, 7219 |
| `NumbersAreUnique` (Budgets) | `TypedNumbers <- MCTypedLikeNext` (5) | engine 3992: a typed number meets the next one |
| `ScopeNumbersAreUnique` (Budgets) | `ExtraQuotes = {lift, pool}` (13) | engine 4716-4722: two extras take one chapter number |
| `PaperMatchesAnnex` (Budgets) | `Liberties = {"rearranged"}` (7) | engine 3470-3475 |
| `StageSaysWhatWaits` (Budgets) | `{"asked again"}` (5) | engine 4969-4971 |
| `AdicionalRevisesWhatStands` (Budgets) | `{"late answer"}` (9) | engine 4825-4832, `erp.html:30900`: a superseded adicional is answered |
| `TaxIdsAreUnique` (Parties) | `Manners = {"brought back"}` (5) | engine 2658, `erp.html:28584` |
| `OneLevel` (4), `LinksAreChosen` (5) (Parties) | `{"loses its role"}`, `{"retired manager"}` | engine 2702-2722, `erp.html:28609-28622` |
| `PayersExist` (Parties) | `{"pays a job"}` (6) | engine 2794-2852: a party that only pays is deleted |
| `CodesAreUnique` (Parties) | `{"an older one"}` (5) | engine 2553: the next code is counted from the size of the file |
| `SpokenResolves` (Trades) | `Untidy = {"renamed"}` (4) | engine 1885-1900 against 2095-2100 |
| `FilingKeepsOrder` (Trades) | `{"out of the middle"}` (7) | engine 2053-2077 |
| `SameSheetTwice` (BookImport) | `Careless = {"named twice"}` (1) | `erp-book-import.js:387-414`: each row is compared with the book as it was, so a subpartida given two prices takes one after one upload and the other after the next; line 700 says nothing may change |
| `BlankErasesNothing` (2) (BookImport) | `{"left blank"}` | `erp-book-import.js:469, 488`: an empty price of a budget's sheet becomes a zero, and the price in the book with it; line 390 says a blank cell erases nothing |
| `RecoveredIsBack` (6, 5) (BookImport) | `{"untitled"}`, `{"old figures"}` | `erp-book-import.js:446, 871`: a recovered partida without título takes the one of the partida before it, where line 861 says nothing is inherited; a partida with one line missing brings the old figures of the others, into the book too |
| `OneProgress` (4), `DoneIsAllOfIt` (4) (Planning) | `Slips = {"typed here"}`, `{"less"}` | `erp.html:8650` against `erp-bridge.js:232-235`; scheduling `service.ts:133-136` |
| `FrozenStays`, `DrawerDrawsNothing` (6) (Planning) | `{"emptied"}`, `{"presses on"}` | `erp-bridge.js:194`; `erp.html:8663-8669`: the drawer works on the plan it was opened on |
| `LetGoFloatsBack` (5) (Planning) | - | `cpm.ts:134-137`: the first task holds the start of the plan |
| `NothingOverpaid` (Ledgers) | `Habits = {"named twice"}` (3) | receivables `service.ts:57-68`: two allocations to one invoice |
| `ChaptersAddUp`, `DecisionsStand` (Ledgers) | `{"chapter twice"}`, `{"decided late"}` | projects `service.ts:116-126, 175-210` |
| `TableFoots`, `LinesFoot`, `SignedIsBuilt` (Margins) | `Liberties = {"cut"}`, `{"costed"}`, `{"any order"}`, `{"again"}` (5 to 9) | a line that was costed leaves the scope; annexes come into force in another order |
| `RevenueIsTheScope` (Margins) | - | engine 11776-11781 against 11938-11941 |
| `FiledFiguresStand` (Closing) | `Freedoms = {"after the package"}`, `{"before its end"}`, `{"taken back"}` (3 to 5) | engine 8936-9010, 8178-8186, 8263 |
| `JustifiedByName` (Closing) | `{"namesakes"}` (6) | an exception is justified under a number two bills bear |
| `SendingKeepsCosts` (6), `AttachedIsDocumented` (4), `ReopenedIsOpen` (5) (Closing) | - | engine 12602-12604 with 11740: sent papers are costs no more; 12234 against 14862: a paper attached later; 14824 against 8189: two notions of a closed quarter |
| `FiledOnce` (8), `DeclinedStaysOut` (6), `SentStillStands` (9) (Outbox) | `Mishaps = {"at once"}` or `{"reloaded"}`; `{"declined"}`; `{"undone"}` | a draft filed twice, after it was cancelled, or for an invoice withdrawn |
| `ReachableIsNotBlocked` (4), `NotChasedWhenPaid` (10) (Outbox) | - | a message blocked before the address was known stays so; a reminder goes out when paid |
| `HiddenWasSeen` (Agenda) | `Lapses = {"owed again"}`, `{"renewed"}`, `{"another bill"}` (5) | engine 13470-13480, 13517-13519: a new condition under an old key is hidden |
| `PackageIsAskedFor` (Agenda) | - | engine 13453-13467: only today's quarter is looked at |
| `SureIsNoGuess` (Matching) | `Likenesses = {"two out"}`, `{"across the end"}` (5) | `match.ts:340-377`: a rival that another proposal took, or that lies outside the period shown |
| `OneClickNamesThem` (Matching) | `{"mixed"}` (3) | `match.ts:206-229` |

(*engine* is `site/erp-engine.js`.)

## 7. Not modelled, and why

`PROJECT.json` gives the reason for every component that is *not_modelled*. The
modules stand for about an eighth of the repository's lines; the largest of the
rest has no behaviour to model: the dictionaries of `site/i18n*.js` (14 000 lines),
the bundles `site/erp-factory.js` and `.cjs` generated from `packages/` (5 800), the
catalogue pack and the seed (4 000), and most of `site/erp.html`, which renders.

- What each rung of the ladder changes, the readers of spreadsheets and the
  demonstration history: transformations of data, one document at a time.
- The settings documents of a tenant: their comment says the last save wins and the
  code refuses the loser of a race (`erp-runtime.ts:137-155`); `ErpState` models
  their route, not their content.
- The engine's methods that no screen calls (`renumberChapter`, `runRecurring`,
  `voidMovement`, `setPartidaItems` and the `clear...` methods,
  `upcomingMilestones`, `reopenAlert`), its queries, forecasts and price
  arithmetic.
- The kernel's resolution of capabilities, the factory, the access table, the tax
  tables: pure functions of configuration.
- Catalogue, suppliers, crm, visits and time: pure functions from a value to the
  next one, which nothing but the control tower's demonstration calls.
- Sign-in: tokens and hashes are functions of their input; the in-process
  counter of attempts restarts with the process.
- Mail transport, rendering, file formats, text recognition, the mobile shells and
  the operations scripts: no state that several actors share.

## 8. Plan

The modelling is as complete as the code allows at this level. What is left is
to prove more:

1. `Trades` and `Budgets`: the parts of `OffersHold` that walk no sequence.
