# Toadie in TLA+

Toadie is an ontology registry. Its server (Kotlin, Ktor, Exposed, PostgreSQL) keeps
user-defined *blueprints* (entity types with typed relations) and the *entities* that
instantiate them, Backstage-like catalog files, a few global dictionaries, and the accounts
and sessions of its users. A React client talks to it over REST.

This directory holds a formal model of the parts in which order matters: TLA+ modules
translated from the source, TLC runs on small instances, and proofs checked by TLAPS for
instances of any size. `PROJECT.json` maps every definition to the lines it models, lists
the runs, the theorems, the hazards of the code and the disagreements found.

Unless said otherwise, paths below are relative to `server/src/main/kotlin/`.

1. [The system](#the-system)
2. [The modules and the code](#the-modules-and-the-code)
3. [The runs](#the-runs)
4. [Fairness and deadlock](#fairness-and-deadlock)
5. [What is proved](#what-is-proved)
6. [What is only model-checked](#what-is-only-model-checked)
7. [Disagreements with the code's own comments](#disagreements-with-the-codes-own-comments)
8. [What is not modelled](#what-is-not-modelled)
9. [Remarks on the code](#remarks-on-the-code)
10. [Plan](#plan)

## The system

Requests run concurrently in one or more server processes. All durable state is in
PostgreSQL; transactions are READ COMMITTED unless stated, so two statements of one
transaction may see different committed states, and what separates requests is the table
locks, row locks, unique indexes and version comparisons the code asks for. Some state is
in the memory of one process: sign-in challenges, throttles, caches, budgets, permits.

| Component | State | Operations | What is hard | What makes it correct |
|---|---|---|---|---|
| Ontology registry (`blueprints/`, `entities/`) | `blueprints`, `entities`, the ontology revision | create, update with a cascading rename, delete, list, read, import, sync | writers of two tables that refer to each other by *identifier*; readers that take no lock | references resolve whatever interleaves; caps hold; a revision names one content |
| Dictionaries (`dictionaries/`) | `dictionary_entries` of three dictionaries | replace the whole document | a replace is many statements; only HIERARCHY is locked | a value a blueprint names stays; the stored document is the one acknowledged; the default flag |
| Accounts and sessions (`auth/`, `users/`) | `users` with `auth_version`, `auth_sessions`, `password_reset_tokens`; MFA challenges and SSO hand-offs in memory | login, second step, SSO callback and exchange, refresh, logout, password change and reset, identity change, unlink, delete | slow hashes and mail between a check and its use; parallel requests of one session | what authenticates reflects the credentials of now; what ended stays ended |
| Last administrator (`users/UserService.kt`) | the same rows and their row locks | create, promote, demote, delete | row-by-row locking, deadlock, timeouts | somebody can always administer |
| Read budget (`infra/concurrency/ReadLedger.kt`) | three atomics | reserve, charge, close; the sampler's snapshot and endInterval | lock-free | nothing leaks; peaks are reported |
| Entity import and sync (`EntityImport`, `EntitySync`, `SourceWrite`) | none of its own | plan, then one transaction per row, in two passes | half-done batches; a write version that is a millisecond of the clock; a fetch outside any transaction | nobody else's change is overwritten |
| Catalog files (`catalog/`) | `catalog_files` with a revision, and their event log | save, sync, import, delete, history | optimistic revision, checked under a row lock that is taken after the row was looked up | no lost update; the history tells every change of a field |
| Token blocklist (`auth/TokenBlocklistService.kt`) | a table and a 30 s cache | revoke, isRevoked | a read that fills the cache after a revocation | a revoked token stays revoked |
| Throttles and single-use stores | bounded in-memory maps | attempt, lock out, issue, consume, evict | parallel attempts at a limit, eviction at the cap | a lockout survives; one use per code |
| SSO (`auth/sso/`) | account links, discovery and key caches | callback, create or link, stale-while-refresh cache | two first sign-ins at once; the leader of a refresh is cancelled | one account per identity; refreshes are spaced and somebody always leads |
| Bounded execution, jq (`infra/concurrency/`, `entities/JqCalculation.kt`) | pools, queues, a quarantine | submit, time out, cancel | a deadline that fires while a task starts | permits come back; the right task is quarantined |
| Statement timeouts, response deadlines (`infra/db/`) | what each connection was last told, pending answers | set, roll back, await | an answer after a rollback or a deadline | never a timeout that is not the connection's; never another exchange's answer |
| Telemetry (`telemetry/`) | buckets, cluster lock, heavy-collection claims | sample, store, claim | several processes; crash after a claim | one writer per bucket; a dead claim is taken over |
| Integration API and MCP (`integration/`) | clients, key hashes, rate windows, permits | authenticate, revoke, limit | revocation between lookup and use; windows at the cap | a revoked key stops; limits hold |
| Web session transport (`web/src/api`) | localStorage shared by tabs, a refresh in flight | fetch, refresh once, log out | late answers of a former session; two tabs | a late answer neither installs nor ends another session |
| Web layout saver and graph page (`web/src/hooks/useGraphLayout.ts`, `useGraphLayoutWorker.ts`, `useLargeGraphGate.ts`) | the layout document, a debounce timer, a queued and an in-flight save; a worker, its jobs, the gate | edit, save, fail, retry, dispose; lay out, supersede, time out | edits during a save; replies of jobs that were superseded | the last edit is what is stored; positions belong to their graph |
| Web pages (`web/src/pages`, `web/src/components`, `web/src/utils`) | forms seeded from a query, dialogs, batches, stored queries, tables | edit, save, overwrite, sync, import, pick, delete, switch | other clients' writes, late and lost answers, re-reads under an open form | what a page writes is what its user saw |
| Entity graph, filters, computed properties, query language, conversions | none | pure functions of one read | - | - |
| Labels, annotations, tags, types, lenses, saved queries, layouts | one row each | create, update, delete | nothing that spans two rows | unique names |
| Authorization, audit, mail, outbound fetch, HTTP plugins, start-up | - | guards, log lines, I/O | - | - |

How they interact: entity writes read blueprints under a shared table lock; blueprint
writes take the same table exclusively, and so does the replace of HIERARCHY, whose values
blueprints name. Every authenticated request reads a session row together with its
account's `auth_version`; every change of an account that must end its sessions increments
it. `UserService` both guards the last administrator and advances `auth_version`. Whole-
workspace reads reserve room in the read budget, which the telemetry sampler reports.

## The modules and the code

```
Registry            the abstract registry: every write atomic
  ^ refines
Ontology            the transactions: table locks, snapshot, decision, write
  ^ extends
OntologyReads       readers beside the writers
EntityImport        a batch of entity documents: plan, two passes, other users
CatalogFiles        requests on catalog files: lookup, row lock, guard, event
Dictionaries        replaces beside blueprint writes
AuthSessions        accounts, sessions, sign-in steps, grants
Administrators      row locks, deadlock detector, timeouts
ReadLedger          atomics of the read budget, and the sampler

WebSession          tabs, calls and refreshes over one localStorage
LayoutStore         the abstract store of an account's layout document
  ^ refines
LayoutSaver         the page's debounced saver
GraphPage           the gate on large graphs, the layout worker, its runner
DocumentEditors, SourceSync                          edit pages and their dialogs
ImportBatches, SourceDocuments                       import pages; what a file holds
AccountQueries, QueryBuilder, SavedViews             queries and saved views
ListPages, ListContents, FeatureFlags, OneTimeKeys   tables, switches, keys
DictionaryEditors, RegistryModals                    dictionary and registry forms
BlueprintForm, EntityForm, CatalogForm, ReportTables the functions behind forms and reports
WebPages            the pages side by side, and what is proved of them together
MC*                 one instance module per run, which puts parts side by side
*Proofs             theorems
```

The definitions named `Mutant: ...` in comments are deliberate faults: each shows that the
property it belongs to can fail if the code had that bug. No specification uses them.

Several runs put independent components side by side: a behaviour is one of one *part*, and
the variables of the others rest. That shares an instance, not a behaviour.

### The server

**Registry.** `blueprints` and `entities` are functions from row ids to rows; a row is
unused, active or soft-deleted. A blueprint has one target *identifier* per relation key; an
entity has a blueprint *row*, a reference per key and a team. The module has three layers,
which `Ontology` reuses: verdicts (`CanCreateEntity`, ...) translate the checks of a
handler, each judged on a pair of tables; effects (`EntityReplaced`, ...) translate its
statements, the rename cascade included; actions (`UpdateEntity`, ...) do both at once and
bump the revision. The system blueprint `_team` is seeded (`SeededTeam`) and protected.
Identifiers are compared as the code compares them after folding case, so a model value
stands for a folded identifier; a multi-valued relation is one key per element.

**Ontology.** One transaction per writer: `Begin`, `LockBlueprints`, `LockEntities`, a
`Decide...` that reads and judges, a `Write...` that runs the statements and commits;
`Refuse` and `UniqueViolation` roll back, and `Abort` stands for a timeout or a lost
connection at any point. `ModeOf` is the table of LOCK TABLE modes of
`BlueprintService.writeTransaction` and `EntityService.writeTransaction`, `Conflict`
PostgreSQL's compatibility of them, and `ahead` its queue: a request waits for conflicting
requests queued earlier, not only for holders. The rename cascade writes rows computed from
the *snapshot* the transaction read, kept in `plan`, so that a stale snapshot would be
visible. Every write that went through is a step of `Registry` (`ImplementsRegistry`).

**OntologyReads.** `read` is two READ COMMITTED statements (the row, then the blueprints it
is rendered with); `list` is several statements on one REPEATABLE READ snapshot
(`Visible`). Neither locks.

**EntityImport.** A batch is planned over the workspace as read (`orderWithDeferral`: rows
whose references resolve first, then a forced pick that defers optional references), then
applied in two passes of one transaction per row. Other users edit, rename (with the cascade
of the registry) and delete between any two rows (`disturbances` bounds them), a row may fail
in either pass, and names come in two spellings that fold to one. A row's write version is a
stamp of a clock; a guard is the stamp the planner saw. The recursion of the planner is a
recursive function over the rows left.

**CatalogFiles.** A request is looked up without a lock (`activeRowOf`), then locks its row,
then compares the revision it was given, writes the row and appends at most one event, then
commits; creates and renames go through the unique index on active names. Saves, syncs,
deletes and the rows of an import share these steps and differ in their guards. A document is
an identity, a body and the `order` of its lists: another document stamps the row and bumps
its revision, but an event is written of fields that differ (`Told`), and entries that only
moved are none (`CatalogFileEvents.kt:206-213`). So the history ends at every field of the
row, not at its order, and "modified since the sync" is compared with revisions, not with
events. `inFlight[c].seen` keeps the row the client was looking at, of which the code sends
the revision; an event keeps, for the properties, whether it synced and the revision it left.

**Dictionaries.** `replaceLocked`, statement by statement: `Read` (snapshot, checks),
`DeleteRow` for each missing entry, `ClearRow` for each default flag, `UpdateItem` and
`InsertItem` in document order, `Commit`. A transaction's rows are its `own` until it
commits; a row in hand blocks other transactions (`RowFree`), a conflicting one makes an
insert wait (`Storable`). `Locked` is the HIERARCHY branch (the lock of `blueprints`),
`UsesDefault` the NAMESPACE rules. `CheckHierarchies` and `StoreBlueprint` are the two
halves of a blueprint write that names hierarchies.

**AuthSessions.** Whatever lets its bearer act (a session row, a challenge or hand-off, a
mailed grant, a request under way) carries a *warrant*: the account, its `auth_version` when
it was read, what was proved and the identity (email, role) the account had. The code stores
account and version, and puts email and role in the tokens; the proof is what the version is
supposed to stand for, and only properties look at it. Steps follow the places where a
request can be overtaken: between the password check and the session row (`Login`,
`PrepareSession`, `CreateSession`), between consuming a challenge and reading the account
again (`TakeClaim`, `RereadAccount`), inside a renewal (`LockAccount`, `ReadExpiry`,
`RenewSession`), inside a logout (`SelectSession`, `DeleteSession`), around the slow hash of
a new password (`ProvePassword`/`ChangePassword`, `CheckGrant`/`CompleteReset`) and around a
mail (`RequestReset`, `IssueGrant`, `RevokeGrant`). Row locks are derived from where
requests stand (`AccountFree`, `SessionFree`).

**Administrators.** `Start` lists the active administrators, `LockAdmin` locks and
re-evaluates the next of them in id order, `Finish` locks the target, decides and commits.
`BreakDeadlock` is PostgreSQL's deadlock detector failing one transaction of a set that waits
only for itself, `Abort` any other failure at any point (a statement timeout, a lost
connection). A failed transaction is answered an error and not run again: `Database.kt:266-272`
turns Exposed's retries off. A request that comes back is a new `Start`.

**ReadLedger.** Every step is one access to one atomic. A reservation's `add` is `Load`,
`Swap`, `NoteSince`, `NoteInterval`; the sampler's reading is `SnapshotHeld`,
`SnapshotSince`, `SnapshotPeak`, then `Stored` or `NotStored`, and `endInterval` is a loop
of `EndRead`, `EndHeld`, `EndSet`, `EndCheck`. `reached` is a history variable: the highest
total since the reading began, and since it ended.

### The web client

**WebSession.** One `store` (localStorage), and per tab its cached session, its calls and its
flows (sign-in, sign-out, password, SSO exchange). A call carries the tokens it went out
with; a 401 joins or starts the one refresh of the tab, and its retry is made only while the
store still holds the same session. Every answer may be late or lost. A *family* is the
session a sign-in made, through all its refreshes.

**LayoutStore, LayoutSaver.** The abstract store says what an account is owed: its document
moves along its edits, and "nothing pending" means the last one is stored. The saver is
`useGraphLayout.ts`: load, edit, debounce, one write in flight, a queued one behind it, a
failed one kept for the next edit or the page's disposal, and the guard that a write leaves
only under the session that opened the page.

**GraphPage.** `useLargeGraphGate.ts` (the limit, "show everything", the fold saved in the
document) and `useGraphLayoutWorker.ts`: jobs numbered by a counter, a worker that may be
spawned, fail, overstay or be terminated with its reply on the way, a retry once without it.

**DocumentEditors.** One page per behaviour (catalog file, entity, blueprint, conversion
mapping): the detail query with its reads in flight, the form it seeds once, the revision
that guards a file, the waived findings, the overwrite and sync dialogs beside the form and
the re-read that follows them. A document is the number of the write that stored it.

**SourceSync.** The three sync dialogs: five queries, each keyed by what it was asked with,
the comparison and the dry run derived from them, the confirmed request and its guard.

**ImportBatches.** The four import pages: input, chunks, rows rebased to their documents,
reports, the confirm dialog that previews a converted batch. **SourceDocuments** is what
`catalogImport.ts`, `ontologyImport.ts`, `sourceSync.ts` and the tiers editor read out of parsed documents.

**AccountQueries** (a query kept per account in localStorage, with a snapshot of it in
memory), **QueryBuilder** (the builder, its completion and diagnostics, the server's checks
it must satisfy), **SavedViews** (lens and query pickers). The builder's issues and touched
fields have paths `<<i, field>>`, of condition `i` or of the rest of the model (0); what is
shown at a path is its first issue (`issueAt`). Removing a condition moves those behind it up,
while the touched paths keep their numbers; `moved` remembers for the properties that it did.
A picker may save again, and close its editor, over a write: `request` has a slot for each
write under way, and an answer closes the editor open by then.

**ListPages** and **ListContents** (tables by page; filters, sort, controls),
**FeatureFlags** (switches, whose writes overlap while only the last one toggled is disabled,
and bulk changes beside them), **OneTimeKeys** (a key shown once),
**DictionaryEditors** (whole-document forms), **RegistryModals** (one row at a time).

**BlueprintForm, EntityForm, CatalogForm, ReportTables.** Pure: rows and fields from a
document and back, validation, findings at a field; error classes, groups, order, windowing.
Their laws (round trips, what validation refuses, what a filter keeps) are operators that
`MCWebPages` looks at subject by subject.
What a text is - blank once trimmed, a numeral, JSON, of some grammar - is a constant of the
forms, so that a law speaks of any texts; `MCWebPages` takes some of each sort, with the
blanks that are trimmed away. Left out: lengths, and texts that are only trimmed and passed on
(descriptions, icons).

Pages that exist twice with the same code (lenses and saved queries, the list pages, the
three editors of registries) share one definition, whose lines name either copy.

## The runs

`tlc -config X.cfg M` for each run; all pass except the three violations, which are the
subject of [the disagreements](#disagreements-with-the-codes-own-comments).

| Run | Module and configuration | Shows |
|---|---|---|
| `registry` | MCOntology, `_registry` | plans are still valid when written; relations, instances and teams resolve; unchanged references keep their target row; each step is one of `Registry` |
| `registry_progress` | MCOntology, `_liveness` | caps hold with the last place contended; every transaction ends |
| `workspace` | MCWorkspace | a list sees what its revision names; a guarded import row overwrites nobody, its report and dry run are true; a guarded catalog write replaces the row its client read, and the history accounts for it |
| `ontology_read` (violation) | OntologyReads, `_read` | a single read may fail on a registry that is always consistent |
| `auth` | MCAuthSessions | sessions and grants match their account and stay ended; one ID token per session; a change proves the old password and ends everything |
| `administrators` | MCAdministrators | an administrator remains; refusals are justified; which deadlocks exist; the read budget adds up and bursts reach the next interval; every request and `endInterval` end |
| `dictionaries` | MCDictionaries | named hierarchies stay; the stored document is the acknowledged one; which saves a unique index may refuse |
| `namespace_default` (violation) | Dictionaries, `_default` | entries can be left without a default |
| `web_session` | MCWebSession | no call, refresh or sign-out acts on another session than its own |
| `web_graph` | MCWebGraph | layout writes keep their session and implement the store, edits are written; positions belong to their graph, layouts are answered, long ones are asked for |
| `web_pages` | MCWebPages | pages write what was seen, offer what they can do, keep accounts apart; the laws of their functions |
| `import_cycles` (violation) | EntityImport, `_check` | a required reference is refused as circular although it lies on no cycle |

Bounds, and why they are enough for the question:

* `registry`: three blueprint rows (one seeded), two entities, four blueprint identifiers
  so that a rename can always go to a fresh one, one relation key, two writers, four
  commits. The invariants relate at most two rows and one rename or delete between them;
  four commits allow create, create, refer, and then the rename or delete. One key suffices
  because keys are treated independently. The caps equal the rows, so they never bind here.
* `registry_progress`: three writers, so that somebody can be overtaken in a lock queue, and
  caps of one entity, so that two creates compete for the last place.
* `workspace`, lists: one writer and one reader. A reader takes no lock, so further readers
  add nothing, and the writers exclude each other (proved). Imports: three documents and at
  most one row with nobody about (a forced pick needs two, and one to resolve it); two
  documents with two disturbances, one before and one after a guard; two documents in two
  spellings. Catalog: two clients, two ids, two names, bodies and orders, two writes of a
  file, which begins as created by hand or from a source: a sync and two changes, the second
  undoing the first, or a change before a second sync.
* `ontology_read`: one reader, one entity, one blueprint.
* `auth`: one account and one session, since no step relates two accounts or two sessions of
  one account; two concurrent requests, passwords, identities and grants (a used grant has a
  sibling), two credential changes, one tick and a lifetime of one. `mailed` divides the
  behaviours: sign-ins in two steps and two changes, or grants, a clock and one change.
* `administrators`: three accounts and two transactions: a removal must have a second
  administrator to rely on and a third row to be promoted meanwhile. Two reservations, a
  capacity of two, estimates and charges of one or two: refusals by contention and by size, a
  pool drawn exactly, partly and beyond. (The ledger's invariant was also checked with a
  capacity of three: 6.9 million states.)
* `dictionaries`, `namespace_default`: two values, documents of at most two entries, three
  ids (an insertion needs an unused one), two replaces, one blueprint. A swap of values, a
  moved flag and an entry deleted under a replace all fit.
* `web_session`: two tabs, of which one makes two calls that may share a refresh, while
  either signs in or out; two sessions; one clearing of the storage from outside.
* `web_graph`: two accounts with three sessions, two of them of one account; two edits (one
  in flight, one behind it); three jobs and requests, so that a superseded one and a retry
  coexist. (The instance with 5, 4 and 4 passes too.)
* `web_pages`: three writes of a document, two references and copies, two documents in
  chunks of one, two rows, two accounts, two keys. In the query builder two
  conditions, one of which may move up, or a connection by itself (`MaxParts`; a connection
  counts for two), since the issues of one do not depend on the other, and five fields touched
  (`MaxTouched`): a blueprint and the property and value of two conditions. Saved views have two
  writes under way (`InFlight`, interchangeable): a late answer needs one write to be answered
  and one editor opened since. A dialog opens only while there is a slot for its write. They are those of the lens picker; that of saved queries does
  less, as it ignores a row picked again. One write of a switch at a time (`SwitchWrites`),
  which no bulk change waits for and no property reads. Each bound (`MaxWrites`,
  `MaxRevision`, `MaxVersions`, `MaxRuns`, `MaxParts`, `MaxTouched`, `MaxIds`, `MaxKeys`, `MaxRequests`,
  `MaxLogins`, `MaxMounts`, `InFlight`, `SwitchWrites`) is a guard of the actions that count. A sync
  starts at `u1` and `c1`, and the first saved view at `u1`, since references, copies and
  contents are interchangeable.
* `import_cycles`: two documents, no other user.

Symmetry sets are used in safety runs and, for reservations only, in `administrators`, whose
liveness properties treat all reservations alike and assume fairness of none of them. They
contain ids, requests and names that no definition singles out by a `CHOOSE` that reaches a
state: in AuthSessions identities, and in Dictionaries values, stand in unused rows and are
left out; row ids are compared by order in Administrators and are no symmetry either.

## Fairness and deadlock

* `Ontology` (`FairSpec`): weak fairness per transaction of its lock, decide, refuse and
  write steps, not of `Begin` or `Abort`. A statement that waits for a lock is granted it in
  queue order; a statement that runs is bounded by `statement_timeout` and a transaction that
  idles by `idle_in_transaction_session_timeout` (`infra/db/Database.kt:88-176`), which end a
  transaction rather than leave it open. `Grantable` makes lock requests wait for the
  conflicting requests ahead of them, so weak fairness is enough: a grant, once possible,
  stays possible.
* `Administrators`: strong fairness of each transaction's steps. A row may be locked and
  freed by others again and again; PostgreSQL serves waiters of a row in order, which weak
  fairness does not say. The deadlock detector always ends a circle after `deadlock_timeout`.
  Nothing else need fail: `Abort` is in `Next` without fairness.
* `ReadLedger`: weak fairness of `EndInterval` alone. Its body never suspends, so the
  sampler's coroutine, once in it, is run. No fairness is assumed of reservations; the loop
  ends because each repetition needs a new total in the accumulator, which only grows until
  the next reading.
* `LayoutSaver` (`SaverFairness`): timers fire, requests are answered or fail. Edits,
  sign-ins and the user's leaving are not fair.
* `GraphPage` (`RunnerFairness`): a worker answers, fails or overstays its timer; React
  renders what was set. The user does nothing fairly.

Deadlock is checked in `registry`, `registry_progress`, `workspace`, `ontology_read`,
`administrators` and `import_cycles`. It is not in the other runs (`CHECK_DEADLOCK FALSE`):
`auth`, `dictionaries` and `namespace_default` really stop, when versions, instants and rows
that are never reused are spent; so do the web runs, when their bounded sessions, edits,
jobs, mounts and writes are, and a subject of a law never moves.

## What is proved

All of these hold for every value of the constants that satisfies the module's assumptions,
which say no more than that ids, caps and bounds are of the right kind and that markers such
as `None` are not ids. PostgreSQL's locks, unique indexes and row visibility are modelled as
documented, not proved. Each theorem is an inductive invariant and one lemma per action.

**The registry and its transactions** (`WorkspaceProofs`). `RegistryInv` adds to types and the
three resolution properties that active identifiers are unique and that the seeded team
blueprint stands. Uniqueness is what makes "rewrite whoever names the old identifier" reach
exactly the referrers; the standing of `_team` is what keeps stored teams meaningful
(`TeamsTheorem`, `InstancesTheorem`). `OntologyInv` says what a transaction holds at each
point, that held locks are compatible, and `PlanStillValid`. From the modes alone, at most one
transaction is past its locks; therefore nobody changes what a decision was based on before
it is written, so the write is a step of the registry (`Refinement`). Types, caps and
resolution for the running system (`TypeCorrect`, `PlansStayValid`, `CapsAlwaysHold`,
`RegistryHolds`) follow through the refinement. `NamesInv` says which row a reference means,
and gives `FollowingTargets`. `ReadsInv` remembers what each revision named, and gives
`Snapshots`: a list reads one content, and never an entity without its blueprint.

**Accounts and sessions** (`AuthSessionsProofs`). `AuthInv` is types, `RequestsFit`, and:
`WarrantsSound` (a warrant whose version is the account's is true of the account: the
strengthening from *active* sessions to every stored or travelling warrant is needed because
a request carries one long before a row exists); `LogoutsExclude` (one logout at a time is
past its SELECT, and a token handed out means the row is gone); `RenewalsExclude` (one
renewal at a time holds the account's row, so no expiry is stored between its read and its
UPDATE). From it: `SessionsMatch`, `GrantsMatch`, `IdTokenOnce`, and the action properties
`EndedStayEnded`, `RenewalsExtend`, `ChangesProve`, `ChangesEnd`.

**The last administrator and the read budget** (`AdministratorsProofs`). `AdminInv`: a
transaction that saw another administrator still holds that row (`Relies`), and a transaction
holds only rows it listed, all below those it has still to lock (`HoldsInOrder`). The first
gives `SomeAdministrator`. The second gives `OrderPreventsDeadlock`: along a circle of waiting
transactions the wanted id would climb for ever, which is shown with a well-founded minimum,
so one of them must want a target it did not list. `RefusalInv` adds what a transaction that
found nobody knows, and gives `Refusals`. `LedgerInv` counts the budget: its total is the size
of a set of bytes, a disjoint interval for each open reservation, so that a step adds or takes
an interval and no sum is needed; `PeakInv` says what the two accumulators cover at each point
of a reading. Together `BudgetIsAccountedFor`.

**Dictionaries** (`DictionariesProofs`). Under `Locked`, `DictInv` says that one writer at a
time is under way and that, throughout a replace, each named value is carried by a row that
the document keeps under that value, rewritten or not yet (`HierarchiesKnown`). `StoreInv`
says what has been written so far, and gives `HierarchiesStored`. Without the lock, `OwnInv`
says that the flags are cleared before any is set, and gives `SwapsAlone`.

**Imports and catalog files** (`WorkspaceProofs`). `FilesInv`: whoever holds a row's lock
read it under that lock, revisions only grow, the last event tells the row (`Whole`), and
the last sync still is what its baseline and revision are compared with (`Shown`): `GuardHolds`,
`HistoryHolds`. `ImportInv`: a guard is older than the clock of its batch (`GuardsAreOld`),
what others wrote since bears a later stamp (`ForeignIsLate`), stamps are past (`StampsArePast`),
and a first pass overtaken by others leaves its second pass a stamp that no longer matches
(`ForeignOvertakes`): `ImportsGuarded`. The clock of the model ticks between a plan and its
disturbances; see the remarks for what happens when it does not.

**The web client's session** (`WebClientProofs`). `SessionInv`: each call, refresh and flow
belongs to one session, tokens of a session are only where that session was, and a tab's cache
is the store's session or one it has not yet heard the end of. `NoMixing`,
`OnlySignInsInstall`, `SessionsEndOnPurpose`.

**The web client's forms** (`WebClientProofs`, after the session, with which they share
nothing). The laws that `LawsHold` looks at subject by subject, here for any texts: the
constants say what a text is once trimmed, lowered, parsed. Each theorem's hypotheses say what a
form's values look like: its families are sequences of rows, its types are types, a number it
lists has no blanks around it, trimming leaves nothing of no text.
* Blueprint: a row that would take the identifier of one before it has an error, so the rows of
  a form that may be submitted are as many as their identifiers (`RowsHaveTheirOwnIds`,
  `IdsAreRows`): `SubmitsLoseNoRow`, and with it `HierarchiesAreSentAsShown`. Type by type:
  `RowsSendWhatTheyShow`. Rows are well ordered: `BlockedSubmitsShowTheirErrors`.
* Entity: input by input (`TextSettled`, `ListSettled`, ...), an error is at the input that
  edits the draft, and a draft without one is sent and chooses what is offered:
  `TypedIsSentOrBlocks`; `LinksKeepTheirTexts`.
* Catalog file: `FilesSendTheirKind`, `FilesAreNotOfferedThemselves`, and that one edit of the
  labels keeps them apart, `EditsKeepLabelsApart`.

**The layout document and the graph page** (`WebGraphProofs`). `SaverInv` relates document,
queue, flight and timer; it maps every step of the saver to a step of `LayoutStore`
(`SaverRefinement`) and gives `WritesStayInSession`. `RunnerInv` says which job each reply
can be of, although numbers are compared and not kept (`PositionsMatch`); `PageInv` what the
gate was asked (`LongLayoutsAsked`).

**Pages** (`WebPagesProofs`, `WebPages`). `WebPagesProofs` declares the constants and variables
of each page, beside the modules it extends, and proves each page by itself; the theorems take
what they need of the constants as hypotheses.

* `QueryInv` (a snapshot says whose it is): `QueriesAreOwn`, `PagesNarrowByTheDraft`.
* `KeyInv` (an answer on its way names the login that asked): `KeysAreShownToTheirLogin`.
* `SyncInv`: a row read at a revision has the reference of that revision, and a confirmed
  request carries the copy, the guard and the verdict of one comparison; so whoever writes
  meanwhile either moves the guard or changes nothing compared: `SyncsWriteWhatWasCompared`.
* `EditorInv`: a file's form guards what it shows; an answer still under way was read after
  the page's own last write, since that write cancels the fetch before it; so a form that has
  been seeded again is no older than the write: `EditorsReplaceWhatIsSeen`.
* `FlagInv` (a run stores, loses or has yet to write each of its rows, and what failed is no
  more than what was agreed to), with any number of switches' writes under way:
  `BulkChangesAreWhole`.
* `ViewInv` (a row of mine stays mine, and what a rename carries the row has held, in each of
  any number of slots and in the editor): `RenamesKeepTheRow`.
* `ModalInv` (a modal that waits has a save of its own mount under way): `ModalsSendTheirOwn`.
* `DictionaryInv`: a save under way carries nothing that is stored yet, two saves share no new
  row, and a form shows new rows that are stored only while it is frozen or its own save has
  yet to be read again: `RowsBecomeOneEntry`, `DictionariesSendTheRules`.
* `BatchInv`: the rows a batch has, and the lines of the answer on its way, are of its own
  documents; a reference is kept only with the very text it was fetched as; and the guards of
  the batch that is confirmed are no newer than those of the preview on the screen, nor than
  the versions there are. The last part is why a conversion that arrives late cannot smuggle
  in a newer guard: `ReportsNameTheirDocuments`, `ConfirmsStoreWhatIsShown`.
* `BuilderInv`: unless a removal moved conditions up, a condition with a value has been touched
  at its own path; and a model that is said to have worked makes a query over some schema. With it, the client's checks imply the server's over
  any schema, whatever the case of its names, and a query that another schema takes away
  leaves an error that is the first at a path on the screen and shown there, or is wrong only
  in values after a removal (see the remarks): `BuilderOffersWhatIsAccepted`. Names are assumed
  to have no dollar, which `BLUEPRINT_IDENTIFIER_REGEX` and the relation keys
  (`blueprints/BlueprintValidation.kt:19`, `:148`) and `NAMESPACE_REGEX`
  (`dictionaries/Dictionary.kt:74`) see to.
* What a table says of its answer, and the revision a delete names, follow from the
  definitions of `ListPages` alone (`EmptyIsAnswered`, `FilesGoAsSeen`).

`WebPages` puts the pages side by side as the run does, and `PagesInv` says that the page of a
behaviour keeps its invariant. From it, under all the pages' assumptions together, five of the
six properties of `web_pages`: `PagesReportInOrder`, `PagesKeepAccountsApart`,
`PagesOfferWhatTheyCan`, `PagesFollowTheReread`, `PagesWriteWhatWasSeen`. `MCWebPages` extends
`WebPages` with the laws and their subjects.

## What is only model-checked

* Liveness: `EveryTransactionEnds`, `NothingWaitsForEver`, `EditsAreWritten`,
  `PendingLayoutsAreAnswered`. Progress under fairness is out of this prover's reach.
* `ReportsAreTrue` (`NeverSilentlyPartial`, `PlanIsKept`). What the planner computes is a
  recursion over the rows left, and the dry run's verdicts are compared with those of the
  same recursion at another workspace: an induction over data, with an operator as its
  parameter, which no installed prover can instantiate.
* `LawsHold` as a whole. The laws of the forms above are proved for any texts; the others, for
  the same reason as the plan, are not: what a form opened from a document sends back
  (`SavesAsOpened`, `OpensAsStored`, `OpensAsSent`), findings and folds over sequences, reports,
  windows and columns.
* `HierarchiesStoreTheirDocument`: `HierarchiesStored` proves it of a dictionary that is
  replaced under the lock; the run has one without a lock beside it.

## Disagreements with the code's own comments

1. `ontology_read`. `entities/EntityService.kt:312-315` says that the blueprint of any active
   entity "is guaranteed active here". `read` is two READ COMMITTED snapshots; if the entity
   and then its blueprint are deleted between them, the lookup finds nothing and the request
   fails instead of answering 404.
2. `namespace_default`. `dictionaries/Dictionary.kt:42` says of the default namespace
   "exactly one per document". NAMESPACE is replaced without a lock; while one administrator
   empties the document another adds its first entry, and the UPDATE that clears the flags
   clears the new one's. Both are answered 204 and no default is left.
3. `import_cycles`. `openapi/documentation.yaml:3263-3267` says that only a cycle through a
   mandatory reference is INVALID, and that a document naming a later sibling is written
   after it. When nothing is ready, `orderWithDeferral` forces the lowest index left, on a
   cycle or not: a component that requires a system which optionally names itself is refused
   as "Circular required reference"; in the other order both are stored.

## What is not modelled

* Data that no property distinguishes: property values, formats, descriptions, byte budgets,
  per-blueprint caps, languages, audit lines, wording.
* Aggregation targets and `format: user` values: they behave as relation targets and as teams
  do, and are represented by them. Case folding is done by the code before it compares.
* Creation of accounts by SSO, discovery and token verification, the provider's sign-out:
  an SSO callback finds or links an existing account.
* Lockouts, attempt counters and capacities of the sign-in stores: `AuthSessions` has their
  single use and expiry only. The token blocklist comes on top of the session row.
* Tokens as such: they are signed and carry the session id; a request presents a session.
* Several processes: a database row does not care; in-memory claims are per process, and a
  process that restarts loses them, which is `ClaimExpires`.
* In `ReadLedger`, the refusal counter and the lifetime peak, which only grow.
* The server's pure parts: the query language, filters, aggregation, computed properties,
  conversions between formats. One read each; their isolation is that of `OntologyReads`.
* The import of blueprints, whose planner has no second pass.
* YAML and JSON parsing, drawing, routing, translations, generated API types.
* Everything `PROJECT.json` lists as `not_modelled`, with its reason, and the hazards without
  a property, each with its note.

## Remarks on the code

Not disagreements with a comment, but what a maintainer may want to know. Each was met while
a definition was translated, or is a state a run reaches.

* `OnlyPromotionsDeadlock` leaves one deadlock, a removal whose target is promoted between the
  listing and its locking. With retries off (`infra/db/Database.kt:266-272`) one of the two
  requests is answered an error.
* A peak of the read budget that is admitted between the two statements of `snapshot()` and
  closed before `endInterval()` is in neither reading (`ReadLedger.kt:77-79`, `88-89`); only a
  telemetry figure is affected. `LedgerKeepsCount` speaks of totals after the reading.
* `BlueprintService.kt:242-246` calls it a follow-up that the dictionary write takes the
  `blueprints` lock; `DictionaryService.kt:76-91` takes it by now, as `Locked` does.
* `infra/db/StatementTimeoutCache.kt:60-72`: the check and the set of `known` are not one step
  with `forget()`.
* Catalog: an *unguarded* import row that looked up a file renamed by another user before it
  took the lock overwrites the renamed file; the comment in `CatalogFileImport.kt` considers
  only that it vanished. An unguarded sync after the reference changed stamps the content of
  the old one. A save that only reorders a list makes a file read as modified since its sync
  (`CatalogFileService.kt:346-355`) with no event that says by what.
* Entity import: an unguarded replace of a row that another user renamed meanwhile to a name
  the document refers to makes that reference one to itself, reported UPDATED. The dry run does
  not see that a respelled identifier makes siblings that use the other spelling INVALID, STALE
  or an error. Two writes within one millisecond, or a clock set back, pass the guard.
* Editors: after a failed re-read the blueprint's old form returns with the next successful
  fetch and Save reverts the sync (`EditBlueprint.tsx:57-61`, `76-79`, which says so); `own` is
  reset there. A Save pressed while the re-read is under way reverts it too, on entity and
  blueprint pages. "Save anyway" sends the parked document with the revision held by then
  (`EditCatalogFile.tsx:49-53`, `useCatalogFileSave.ts:77-88`), of which `ReplacesAsSeen` says nothing.
* Batches: a report may appear under text edited meanwhile; a chunk stored with its answer
  lost leaves caches as they were; a reconnect runs the dialog's conversion again.
* Query builder: removing a condition moves the later ones to paths whose fields may not have
  been touched (`EntityQueryBuilderModal.tsx:128-132`, `257-272`). If the schema then makes the
  value of a moved condition invalid, the query cannot be used and no field says why, as
  `valueInvalid` is not among `STALE_SCHEMA_ISSUES` (`107-114`). No comment claims otherwise;
  `SaysWhy` excepts a builder after such a
  removal whose issues are all of values, and no other.
* Saved views: Edit right after "Save changes" renames with the old content
  (`EntityQueryPicker.tsx:95-110`, `187-198`, and `LensPicker`). A page without kinds counts as
  unmodified against a lens of all kinds. Query completion ignores comments when it scans
  brackets, and offers the left node's relations on an incoming edge.
* Lists: deleting the last row of the last page shows "empty" beside a total
  (`CatalogFiles.tsx:176-230`). After a 409 the delete dialog keeps its stale revision until it
  is opened again.
* Features: a switch writes the whole set from a row that may be stale, and so does a bulk
  change; Retry uses the feature selected by then. `EditUser` saves account and language in two
  requests; `useResetPassword` and `CreateUser` do not ask whose session it is now.
* Dictionary forms: rows stay editable during a save and are overwritten by the re-seed; the
  PUT carries no revision, so a form opened from a cached list removes entries others added; a
  failed background read unmounts the form; a save whose answer was lost may be sent again as
  new rows. Registry modals: dismissed during a save, its late success closes whichever modal
  is open (`Types.tsx:127-130`).
* Blueprint form: rules of a type are checked whatever the type is now
  (`blueprintFormValidation.ts:140-145`, `172`, `246`), so an error at a hidden input blocks the
  save; colours are sent while the calculation is not colorized; an object keeps
  "embedded-url"; array items' enums and the sign-in details of another spec than
  embedded-url are dropped; a default of an array of objects becomes "[object Object]"; equal exclusive bounds and an
  array without a type of items pass here and are refused by the server.
* Entity form: labelled URLs and relations are shown no finding; a stored value of another
  type opens blank and is dropped on save, as is an undeclared relation; `{}` passes as an array of objects; an unset
  required boolean is not flagged; texts are trimmed. Catalog form: of several findings at one
  label or annotation the last one is shown.

## Plan

What is left, in this order:

1. `NeverSilentlyPartial` apart from what the planner computes: a reported row is stored
   whole, whatever order it was planned in.
2. Hazards without a property: the throttle, the blocklist's cache, bounded execution, the
   stale-serving cache, two first sign-ins of one identity.
3. The pure parts of the server that one read calls: filters, aggregation, the query language.
