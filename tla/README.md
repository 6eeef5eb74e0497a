# Verification of MecoFlow

MecoFlow follows the material of an industrial project from its bill of
materials (BOM) to the stock committed to it: requisitions, purchase orders,
shipment notices, goods receipts, inspections, allocations, and from these the
readiness of the project. It is a TypeScript monorepo: a NestJS API
(`apps/api`), a worker process (`apps/worker`), a Next.js front end
(`apps/web`), a PostgreSQL schema with triggers (`packages/database`) and the
pure readiness calculators (`packages/readiness`).

This directory holds TLA+ models of its logic, the TLC configurations that check
them and TLAPS proofs about them. `PROJECT.json` lists the components, the runs,
the source lines behind every definition, the hazards the properties are aimed
at, the disagreements found, and the theorems. Paths below are relative to the
repository.

## 1. The system

### How it runs

* **Commands.** Every write of the API is one interactive PostgreSQL transaction
  at READ COMMITTED. A handler locks rows with `SELECT ... FOR UPDATE`, reads
  (some rows it has locked and some it has not), compares the request's
  `expectedVersion`, decides, writes with conditional updates
  (`updateMany ... where status, version`), and appends a transition and an audit
  row. Inserting a row takes a `FOR KEY SHARE` lock on the rows its foreign keys
  name. An exception rolls everything back.
* **Database guards.** Row triggers in the migrations restate the immutability
  and quantity rules in SQL, written independently of the repositories.
* **Events.** Triggers and commands append rows to `outbox_events`; worker
  processes claim them with `FOR UPDATE SKIP LOCKED`, work outside any
  transaction and settle them. A claim older than five minutes may be taken over.
* **Outside.** Object storage, a virus scanner, Redis (a lock and a heartbeat),
  SMTP, an OIDC provider.

Handlers of different API requests interact only through rows. Nothing in the
API is kept in memory between requests.

### Components

| Component | State it keeps | Operations | What makes it correct |
|---|---|---|---|
| Requisitions (`api/requisitions`) | status and lines, each drawing on a BOM line | create, submit, approve, reject, cancel | requisitions never cover more than a line's need without an override; a cancelled one is ordered from by no live order |
| Purchase orders (`api/purchase-orders`) | status, numbered revisions, their allocations of requisition lines, commitments | create, revise, send, acknowledge, cancel, commit | live orders never order more than was approved; what is acknowledged is what was sent; nothing is written in a closed project |
| Receiving (`api/receiving`) | notices, draft and posted receipts, lots, adjustments | create and move a notice, draft a receipt or correction, post | received stays within shipped, shipped within ordered; a posting is all or nothing and happens once; lots hold exactly what was posted |
| Inspection (`api/inspections`) | definitions, inspections, their snapshot of checks | define, create, record, finalize | buckets partition the corrected quantity; a lot is dispositioned once; plain acceptance rests on conforming checks |
| Allocation (`api/allocations`) | allocations of lots to BOM lines | allocate, release, consume | committed stock stays within accepted stock; conditional stock is only used as such |
| Notification worker (`worker/notification-processor.ts`) | outbox events, notifications, e-mail deliveries | claim, prepare, deliver, finish, fail | an event is settled with its deliveries; nothing is sent twice; nothing waits for ever |
| BOMs and BOM import (`api/boms`, `worker/bom-import-*`) | revisions and lines, imports and their rows | import, confirm, edit, review, release, supersede | one released revision per BOM; released lines change only in a correction that overlaps the review; a confirmed import is never overwritten |
| Readiness (`worker/readiness-*`, `packages/readiness`) | snapshots, outbox events | coalesce, recalculate, sweep | a processed event is known to the latest snapshot; a good status is true of the rows; every change shows in the end |
| Documents (`api/documents`) | documents, their numbered versions, links | upload, scan, submit, approve, reject, replace, download | at most one approved version; what is cited as evidence stays readable |
| NCRs (`api/ncrs`) | reports, numbered responses | create, issue, respond, close, cancel | numbers are unique; an answered report is never cancelled |
| Projects (`api/projects`) | categories, projects, members, milestones, work packages | commands on one aggregate, transitions | histories chain; the plan lies within the project; a manager remains |
| Item master (`api/items`) | categories, units, specification attributes, items | create, update, deactivate | active items rest on active categories and units and have every required value |
| Identity, authorization, administration (`api/identity`, `api/authorization`, `api/administration`) | logins, sessions, profiles, memberships and their roles | sign in, authenticate, sign out, administer | one session per login; role sets are not mixed; nobody changes more than the documented duties |
| Requirement status (`packages/readiness/src/material-requirement-status.ts`) | none | shares supply among needs | defined on every set of rows the commands can produce |
| Notification inbox, reports, scorecards | preferences and read marks; none | own-user commands; read-only projections | arithmetic of the aggregates |
| Web, health, monitoring, scripts, infrastructure | none of the domain | presentation, I/O, deployment | outside the models |

### What is hard about it

* Drafts reserve nothing; the check that counts happens when a receipt is
  posted, against rows other transactions are changing.
* Quantities are sums over append-only rows in different tables, kept consistent
  only by the rows the handlers lock, and the handlers lock different rows.
* Handlers also read rows they have not locked (a requisition's status, a
  project's state).
* Lock orders differ: a correction locks the project before the lot, an
  allocation the lot before the project.
* A worker's work spans many transactions and an SMTP conversation; it may be
  killed in between, or be overtaken while it is still running.
* A recalculation is serializable, but takes its snapshot in the statement that
  waits for the project's lock, and the commands it races are not serializable.
* Projects, items and documents are mostly decided on rows that are not locked;
  a conditional update, a unique key or a deferred trigger is what is left to
  refuse the loser, where there is one.
* Authorization is spread over a seeded matrix, fifteen policies and the services
  that choose one of them, and is decided once, on memberships as they were when
  the request arrived.

`PROJECT.json` gives each hazard its line and the properties aimed at it.

## 2. The modules

```
 MaterialRules                          vocabulary and pure rules
    |      \
 LotStock  MaterialTables               what a lot promises; tables and sums
    ^      /     |     \
    |  Receiving Inspections Allocations  DatabaseGuards
    |      \_____|_____/_________________/
    |--------- MaterialFlow              commands as atomic steps   (refines LotStock)
    |              |   + RequirementStatus
    |          MaterialStatus            can the status be calculated from these tables?
    |--------- LotTransactions           commands as transactions   (refines LotStock)
               Procurement               requisitions and orders as transactions
               NotificationDelivery      workers, deliveries, mail server
               BomImport                 upload, import workers, Redis key, confirmation

 RequirementStatus                       pure calculators; ReadinessCalculator
    \------- ReadinessCalculator         also builds the scopes from the rows
                 |
             ReadinessWorker             event loops, sweep, recalculation

 RowLocks                                PostgreSQL row locks, plans of locks
    |--- EngineeringTables --- Projects, Items, Boms --- Engineering
    |--- QualityTables ------- Documents, Nonconformance --- Quality

 Policies --- Commands --- Access        who may do what; sign-in and administration

 SumTheorems                             finite sums, for the proofs
 *_proofs                                theorems
 MC*                                     instances for TLC
```

### LotStock: what is promised of one lot

The abstract specification: a lot comes into being awaiting inspection with a
positive quantity, corrections move its quantity while it waits, one disposition
splits exactly that quantity into accepted, rejected and quarantined, and then
nothing changes any more. `MaterialRules` holds the finalization
decision (`inspection-quantity.ts`) and the lifecycles.

### MaterialFlow: the tables and the commands as atomic steps

`MaterialTables` declares one project's tables as functions from keys to
records and the sums the repositories query. `Receiving`, `Inspections` and
`Allocations` have one action per repository method, with the whole of its
writes: posting a receipt creates the lots *and* their inspections; finalizing
updates inspection *and* lot. `DatabaseGuards` states the triggers as predicates
of one committed step, and `DatabaseAgrees` says that no step of the
repositories is one a trigger refuses.

Kept: every status check, quantity check and write. Abstracted: decimals are
integers in the smallest unit; a check conforms or not; names, notes, documents
and row versions are left out. The versions are left out because every
command re-reads its row under a lock and refuses a stale `expectedVersion`
before it changes anything; the models let any request come at any time, which
includes the requests the code accepts.

### LotTransactions: the same commands, lock by lock

Eight commands on one lot (post, a rival receipt of the same notice line,
correct, inspect, save, finalize, allocate, settle) as concurrent transactions.
`Plan` is the list of row locks of each handler in its order; `Acquire` takes the
next one when nobody holds a conflicting one and reads what the handler reads
under it; `Passes` is what the handler has checked so far; a commit writes and
releases everything. `DeadlockAbort` is PostgreSQL choosing a victim. Each
column the other commands could change in between is visible as soon as it is
committed, as at READ COMMITTED.

### Procurement: requisitions and orders, step by step

The same form for requisitions and purchase orders, with two differences that
matter: steps that read without locking (the state of the project in `revise`,
the status of a requisition in `prepareRevision`), and `CloseProject`, which
waits for locks on the project's row and for nothing else. The plan of creating
a requisition locks the project, the BOM lines and the project's requisition
headers; that of creating an order the project and the requisition lines; a
revision the order and the requisition lines. `Overriding` names the commands
whose actors have the override permission; whether such a request also gives
the reason an override needs is left open until it would take more than is left.

### NotificationDelivery: the worker

One outbox event, its deliveries, and worker processes whose program is the
sequence of database calls of `notification-processor.ts`, each a step of its
own. A claim is identified by its `lockedAt`, represented by the attempt that
set it. Of time the model keeps whether an `availableAt` has come and whether a
claim is older than five minutes. `Send` is the mail server, which may accept a
message and lose its reply. What goes wrong is a constant: `crash` (the process
is killed and started again, perhaps with other settings), `database` (a call
throws), `reply` (the server's answer is lost), `overlap` (the five minutes pass
while the worker is still at it). `faults` counts
each kind, so that a property can say which faults it survives.

### BomImport: one file from upload to draft revision

The request that uploads a file, the workers that parse it and the request that
confirms it. A worker's round is claim, `redis.set`, read, PARSING, fetch and
parse, store, `redis.del`, with `fail` on any error of `process`; each call is a
step. Confirmation is one step: it holds the lock of the import's row, for which
every write of a worker waits. The model keeps three facts of the clock: the
Redis key lives one minute, a claim five, and a failed attempt is retried after
a few seconds. `ClaimExpires` and `RetryDue` therefore find no worker at the
event, unless the fault `overlap` says that one was slower. What the parser
makes of a file is reduced to accepted or rejected, and rows to the state of
the item master they were matched against, so that two parses may differ.
`Clean`, `MaxAttempts`, `Faults` and `MaxFaults` are its bounds.

### ReadinessWorker and the calculators

`RequirementStatus` and `ReadinessCalculator` are the two calculators of
`packages/readiness` as pure operators: allocation of shipments, lots and
accepted stock to the needs that share an order line; gates, scores in
hundredths, exceptions and the thresholds that make a status. The second part of
`ReadinessCalculator` builds their input from a project's rows, including the cases
the code refuses.

`ReadinessWorker` runs them. A row change appends an event (`ChangeRows`); this includes
the certificate definitions, which have a trigger of their own (migration
`20260722060000`). Only new names and codes of items and units (`Rename`) and a new date
are announced by nothing. A definition used by several projects is changed for one project
at a time in the model. A project may thus be told late of what the code tells all
projects at once, which adds behaviours and removes none of a single project.
A loop claims one event and all others of its project (`Claim`), begins the
serializable transaction (`Begin`, which takes the snapshot), commits or finds that
another recalculation has committed since, retries, and completes or fails the
whole claim. The sweep takes the projects in their order and writes a batch
unless the source and the date are those of the latest one. Faults, counted by `MaxTrouble`,
are a process killed (`Die`), a statement that fails and a claim that grows old
(`Oversleep`); `NextDay` changes the date. `overtaken` records the projects for which a recalculation compared with a
batch that was no longer the latest.

### Engineering: projects, items and bills of materials

`RowLocks` holds the lock modes of PostgreSQL and what it means to follow a plan of
locks. A command of `Projects`, `Items` or `Boms` is a request with its plan; at a
`"check"` in the plan, or at the start when it locks nothing, the handler's
conditions are evaluated on the committed rows and what it read is noted; `Commit`
writes with the conditions of the update (status, version, unique keys). A command
whose condition fails has been refused and leaves nothing. `Engineering` composes
the three; `overtaken` marks a transaction during which another one
committed. A behaviour starts in one of two populated databases and runs the commands of one
"agenda" (those that meet on the same rows). In one the item is active and holds a value of
an attribute that may become required; in the other it is deactivated and its
category, without active items, may be deactivated or be given a required attribute while
an item is being created in it.

### Quality: documents, evidence and nonconformance reports

The same form for `Documents` (with the upload in its two requests, the scan
outside any transaction, the review, replacement and the evidence an inspection
cites) and `Nonconformance`. The triggers of documents and reports are predicates
of a step, as in `DatabaseGuards`.

### Access: who may do what

`Policies` begins with the seeded matrix of roles and permissions and gives every
policy class as sets of demands on a principal, and `Commands` is the policy each service
method asks for and the routes that reach it. `Access` adds the state: login rows,
callbacks that read and delete one in two statements, sessions, and requests that authenticate in one query and
then act on the principal they read; administration commands read and write in two
steps. `ChangesAreDuties` compares the permissions that result with the table in
`docs/AUTHORIZATION_MATRIX.md`, restated in `Duties` and `Reserved`.

## 3. The runs

All runs but `readiness` set `CHECK_DEADLOCK FALSE`: these models really may stop,
when every bounded identity has been used and every row is in a final state.

| Run | Bounds | What it shows |
|---|---|---|
| `stock` | 2 receipts or corrections, 1 check, 1 allocation; either one line of two units with one notice and two order revisions or an allocation, or two lines of one unit each with two notices | shipped within ordered; lots, receipts and notices add up; lot and inspection are decided together, by what the checks say; the triggers accept every commit; refinement of LotStock; the requirement status can be calculated unless a lot was emptied. Each command is one step: races between them are what `lot_races` and `procurement` run, and a notice against a revision of its order is run by neither |
| `lot_races` | any 2 of the 8 commands at once, 1 unit shipped and one more drafted, 2 allocations, fair | states agree; conservation; committed within accepted; known lock cycles; refinement; every transaction ends |
| `procurement` | 2 requisitions, 2 orders of 2 revisions, 2 connections, a need of 1, only revisions may override | ordered within approved; covered within required; acknowledged what was sent; nothing created after closing |
| `delivery` | 2 workers, 2 deliveries, 2 attempts, any 1 fault, mail on or off, fair | an event is settled with its deliveries and for good; nothing is accepted twice but where nobody can know better; every claim ends |
| `bom_import` | 2 workers, 2 outcomes of matching, 3 attempts, any 2 faults, fair | one draft per import; import, file and event agree; a confirmed import stays as it is; every import settles |
| `access` | 2 users, 2 organizations, 3 memberships, 2 logins, callbacks and requests, each role and one pair, one change or two that overlap | one session per login; role sets are not mixed; every change anybody can make is a documented duty of one of the user's roles |
| `engineering` | 2 transactions at a time, 2 or 3 commands of one of six agendas, on two databases with a project, a BOM with three revisions and an item that holds the attribute's value or is inactive | histories chain; the item master holds; a release replaces; undisturbed commits keep the rules no lock protects and the lines of all but drafts; lock cycles involve a release |
| `quality` | 2 transactions at a time of one of four agendas, 2 documents of 2 versions, 2 inspections, 2 reports of 2 responses | evidence stays readable; numbers never collide; an answered report is never cancelled; the triggers accept every commit |
| `readiness` | 2 event loops and the sweep, 2 events, 2 attempts, 2 tries, 2 troubles; 1 or 2 projects, about 1,800 initial sets of rows, fair | processed events are known to the latest batch; good news is true of the rows; snapshots catch up; every event ends |
| `cancelled_requisition`, `lost_record`, `stranded_event` | the smallest instance that shows it | see section 4 |

Why the bounds are enough to be interesting. Over-receipt, over-order and
over-coverage need two contenders for one quantity; a correction against an
inspection needs a quantity that can shrink without vanishing, hence two units
in `stock`; a broken all-or-nothing posting needs two lines; a
deadlock and a stale read need two transactions and two rows. `procurement`
keeps to a need of one unit, where a second claim on it is already too much:
what it can get wrong is which rows are locked and counted, and the arithmetic
is one sum and one comparison. `engineering` and `quality` run every pair of
commands that touch common rows, and three where a rule spans three rows. In
`readiness` most sets of rows are only swept once, which compares the two
calculators with what their result promises; five of them also change, with
events, kills, failures and a new day in between. Every property has a mutant of the code
(`PROJECT.json`, "mutants") that TLC finds within the very same bounds.

Symmetry is used only for identities the modules treat alike, and only where
safety and action properties are checked. In the worker models the number of
faults bounds the attempts (one more attempt needs one more fault);
`MAX_ATTEMPTS` is 2 or 3 instead of 5. `CommittedWithinAccepted` and the other sums are
over sets of two or three rows.

### Fairness

* `LotTransactions!FairSpec`: weak fairness of ending a transaction (the API
  process keeps running it; PostgreSQL detects deadlocks) and strong fairness
  of getting a lock (PostgreSQL queues the waiters of a row in order, so a lock
  that is released again and again reaches each of them). Nothing is assumed
  of clients.
* `NotificationDelivery!FairSpec`: weak fairness of every worker's own steps
  (calls return or throw, and the loop polls every half second) and of the
  clock. Faults are never fair, and bounded.
* `BomImport!FairSpec`: the same for the workers of the import loop, which polls
  every second, and for the clock. Nothing is assumed of the requests: an
  upload may never get beyond the object storage, and nobody has to confirm.
* `ReadinessWorker!ReadinessSpec`: weak fairness of each event loop and of the sweep, whose
  timers `main.ts` starts and restarts for ever. Changes, new days and faults are
  bounded and not fair.

## 4. What the checks found

Runs with `"expect": "violation"` check what a document says and find that
the code does otherwise.

* `cancelled_requisition`: cancelling an approved requisition locks the header
  and counts live allocations; creating an order locks the lines and reads the
  header without a lock. Both pass, and a live order stays on a cancelled
  requisition (`docs/DOMAIN_MODEL.md:84`).
* `lost_record`: a message the mail server has accepted is sent again when the
  update to SENT throws, because the same `catch` puts the delivery back to
  PENDING (`docs/SECURITY_MODEL.md:117`).
* `stranded_event`: an event whose last attempt leaves a delivery to be retried
  goes back to PENDING, where nothing ever claims or dead-letters it
  (`docs/NOTIFICATIONS_API.md:24`). No fault is needed for it.

Some properties hold only under a condition they name, and the condition marks a
limit of the code rather than of the model. By component:

**Notification worker.**

* `SettledWithItsDeliveries` and `AcceptedOnce` (and `OneWorkerPerEvent`, which is proved)
  hold as long as no claim has grown five minutes old under its worker. `deliver`
  reads a delivery without a lock and updates it by id, so after a takeover two
  workers may be at one delivery, and one may reopen what the other has sent.
* `AcceptedOnce` also excepts a lost reply of the mail server and a failed
  record of its answer.

**Orders.** `NothingCreatedAfterClosing` is about creations, which lock the project.
`revise` reads the project's state without a lock, so a revision can be
committed just after the project was closed.

**BOM import.**

* `ConfirmedIsFinal` excepts a worker that overslept its claim and a commit
  whose answer was lost. In both cases `process` or `fail` writes an import that
  was confirmed in the meantime, since neither looks at what it overwrites; the
  unique index on the source import is what still keeps a second draft from
  being made (`AtMostOneDraft`, without exception).
* `ImportsSettle` excepts a worker slower than its claim, and a Redis key that outlives
  its round after
  a crash or an error of `redis.del`. Each worker that finds the key gives the
  event back at once with the attempt counted, so a key that stays for a minute uses
  up the attempts that are left in seconds, and the import stays QUEUED for good.
* An import whose creation committed but whose answer was lost has its file taken
  back, and fails after its attempts; `ImportsSettle` covers it.
* A stale claim is taken over whatever its attempts, so each fault that leaves
  a claim behind can add an attempt to an event beyond the cap. The same is true of
  the notification worker.

**Readiness.**

* `OnlyEmptiedLotsStopStatus`: `calculateMaterialRequirementStatus` throws on a lot
  whose quantity is zero after corrections (`material-requirement-status.ts:435`), and
  `receiving.repository.ts` (1062-1067) lets corrections take a lot to exactly zero.
  `docs/ASN_RECEIVING_API.md:15` forbids negative results only. From then on the project cannot be
  calculated, its events fail, and the sweep, which has no `catch` per project
  (`main.ts:172`), never reaches the projects behind it. The property says this is the
  only way in which the commands of the material flow stop the calculation.
* `SnapshotsCatchUp` therefore asks that the project *and those before it* can
  be calculated. What nothing announces (names and codes of items and units, and the
  date) is found by the sweep only. `ProcessedMeansKnown` therefore compares everything
  but the names.
* Two changes escape their announcement when transactions overlap, and are left to the
  sweep; no run shows them, because the model changes rows and enqueues in one step.
  The trigger on certificate definitions looks for projects with a RELEASED revision of the item
  in its own statement, and so misses a release that commits just after. And no trigger
  announces a change of `bom_lines`, which matters when a line changes after
  its release (see below).
* `ProcessedMeansKnown` excepts a project in `overtaken`: a recalculation takes its
  snapshot when it asks for the advisory lock, so it may find its result equal to
  a batch that another one, which held the lock, has just superseded, and
  completes its events without writing (`docs/READINESS_API.md:59`). The next sweep
  repairs it.
* `EventsEnd` names an end that was not meant: `fail` decides by the attempts of the
  event that chose the project (`readiness-processor.ts:345`) what becomes of all events
  of the claim. A new event may be FAILED on its first attempt, or one with
  used-up attempts return to PENDING, where nothing claims it.
* `GoodNewsIsTrue` counts open reports about the project and about order lines that serve
  a released need. A report about any other line of the project is held against nobody:
  it belongs to no line of the calculation (`readiness-input.repository.ts:337`).
* A recalculation that began before midnight may write a batch of the old date after
  one of the new date; the next sweep repairs that too.

**Projects, items and bills of materials.** `UndisturbedCommitsKeepRules` is about
transactions that no other one overtakes, because the rules it lists are read without
a lock: that a project keeps an active manager (`projects.repository.ts:687`;
`docs/PROJECTS_API.md:19`), that milestones and work packages lie within the project's
dates (437, 750), that values respect the precision of their unit (the services validate
before the transaction, `items.service.ts:142`, 280), that a released revision has active
items and units (`boms.repository.ts:658`), that members, milestones,
work packages and revisions of a closed project stay as they are (552), and that lines
change only in a draft. Two concurrent commands can break each of them. Two remarks on lines:

* `updateLine` (`boms.repository.ts:447-520`) never looks at the project's state. A line of a
  draft of a completed or cancelled project can be corrected, in one transaction that nobody
  overtakes. `docs/PROJECTS_API.md:23` says that such projects are read-only. The
  property leaves out these lines for that reason (`PlanOf`), and says
  of lines only that those of other revisions than drafts do not change.
* The check of `updateLine` and the trigger behind it (`guard_bom_line_mutation`) read the revision's
  status without a lock on it. If the revision is reviewed and released between
  the update of a line and its commit, the line of a released revision changes;
  `docs/BOM_API.md:9` says that the database rejects mutation after review. The model
  has this behaviour (`overtaken` transactions), nothing forbids it, and readiness
  learns of it from the sweep.

`WaitCyclesInvolveRelease`: releasing locks BOMs, revisions and then the project;
confirming an import, superseding and reviewing take two of them in another order.
PostgreSQL aborts one of the two. No other circle exists among these commands.

**Documents.** A document whose newest version failed its scan, was rejected or has an expired upload can
get no further version: only an approved one can be replaced. Evidence is
no longer "current" once a replacement upload has begun, although the approved
version stays readable, so an inspection can refuse evidence that is still valid.

**NCRs.** `docs/NCR_MATERIAL_ALLOCATION_API.md` says that internal notes are shared by
the close command only; `create` accepts the flag as well
(`ncrs.repository.ts:198`). The models leave the notes out, so no run shows this.

## 5. What is proved

TLAPS proves, for every value of the constants under the modules' named
assumptions (the sets of connections, items, receipts, allocations and the like are
arbitrary; where a proof adds them up they are assumed finite, and quantities are
natural numbers with no bound a proof could rest on):

* `SumTheorems`: what the other proofs need of `SumFunctionOnSet`, the finite sum in
  which the models write the aggregates of the repositories. The library proves nothing
  about it, and induction over finite sets takes an operator as a parameter. Each fact
  is therefore proved by a smallest counterexample: if a property of subsets fails for
  one, it fails for one of least cardinality (`SmallestSubset`), and for that it is
  contradicted by taking one element away. From the definition alone this gives that
  the recursion has a solution and only one (`SolutionExists`, `SolvesUnique`), how a
  sum changes with one summand, monotonicity, sums over a part, sums grouped by a
  key (`SumByKey`), along a list without repetition (`SumOfList`) and of a table by its
  rows or by its columns (`SumExchange`).
* `LotTransactions_proofs`: for any number of connections, any shipped quantity
  and any finite set of allocations, type correctness, `LocksExclude`,
  `LockedReadsAreCurrent`, `StatesAgree`, `LineConserved`, `AcceptedConforms`, and
  that the transactions implement `LotStock` (`Refinement`). The inductive
  invariant `IInv` is the conjunction of the first six. None of them is
  inductive alone: that a commit conserves a line needs that what it read
  under the line's lock is still current; that needs that whoever writes the row
  holds its lock, and so that conflicting locks are never held together. The
  proof has a lemma per action for each conjunct, and one that says which
  plans lock which row, at which place. `CommittedWithinAccepted` follows from the
  same invariant and the sums: an allocation adds one summand, checked against
  what the lot's lock keeps current. For `WaitCyclesAreKnown` the rows are ranked: both
  plans of any pair but the known one climb some ranking, so of two that wait for each
  other each would hold a row above the one it waits for. Of `LotStock` itself
  its type, the partition of the buckets and the finality of dispositions are proved
  for every limit (a valid decision partitions the quantity it is taken on, and nothing
  moves the quantity afterwards); through the refinement both promises carry over to the
  transactions (`BucketsPartitionLot`, `DecisionsAreFinal`).
* `MaterialFlow_proofs`: for any numbers of items, notices, receipts, lots and
  allocations, `ShippedWithinOrdered`, `StockMatchesReceipts`, `InspectionDecidesLot`,
  that every step is one the triggers accept (`DatabaseAgrees`), that every lot is a
  `LotStock` (`ImplementsLotStock`), and that the requirement status stops at emptied lots
  only. The invariant adds how the tables refer to each other (a posted receipt is of an
  arrived notice, a lot of a posted receipt, a notice of the revision it was written for)
  and `PostedWithinShipped`, the bound across all receipts of a notice line. That bound
  is the limit `LotStock` is instantiated with. The triggers check again,
  row by row and from other columns, what the handler checked on sums; each acceptance
  lemma derives the one from the other and the invariant.
  `OnlyEmptiedLotsStopStatus` needs `BucketsFillLots`, that a decided lot
  holds what was decided of it, and two sums: over the notices of a revision,
  shipments stay within the order, and over its receipts, taken notice by notice, so
  does everything the lots hold. A refusal of the calculator other than at an emptied lot
  would need one of these to be exceeded.
* `MaterialFlow_proofs`, last part, about `ReadinessWorker`: for any number of loops,
  projects, events, attempts, tries and faults and any rows, `ProcessedMeansKnown` and
  `GoodNewsIsTrue`. It assumes of the rows only what their columns are
  (`ReadinessAssumption`, `RowsTyped`).
    - For the first the invariant (`ReadinessInv`) follows a change of the rows, other than of names, until
      a batch tells of it: either an event is left that is not processed, or the latest batch
      has it, or the project is in `overtaken` (`AnsweredIsTold`). A process
      that works with old rows is always warned (`Informed`): a batch was written
      since it began, another one found the latest batch right, or there is an event it has not
      claimed. In the first case it may not commit unless it finds nothing new, and that,
      like the second case, puts the project in `overtaken`; in the third it leaves the event
      to others. Those who read old rows and would find them in the latest batch all lack
      one and the same event (`DeceivedLackOne`), so none of them answers for it.
    - For the second, whoever is about to commit holds the rows there are, unless commands
      still change them (`ReadsStand`); the rest is about the calculators. Each line's
      fields are traced to the rows (`LineTells`), each status to its test
      (`StatusTells`). That COMPLETE means enough certified stock for all needs
      together needs that no unit is counted twice: the ranges of a line's quantity that
      belong to its needs are disjoint, because they are laid out in one order
      (`OwnRangesAreDisjoint`); disjoint ranges share out a lot's certified units and no
      more (`DisjointShares`); and these shares are added up by need on one side and by lot
      on the other.
* `Procurement_proofs`: for any numbers of connections, requisitions, orders and lines and
  any quantities, `CoveredWithinRequired`, `OrderedWithinApproved`,
  `AcknowledgedWasSent` and `NothingCreatedAfterClosing`. A handler checks a sum some
  steps before it writes, and not all who change the summands are kept out by its locks.
  The invariant `ReadsAreGood` says what survives: what was read is still an upper bound,
  since only those who release can get past; and whoever is beyond a check
  holds the lock that keeps its outcome true.
* `Engineering_proofs`, first part: for any numbers of connections, projects, items, units,
  attributes and revisions and any commands on them, `HistoriesChain`, `ItemMasterHolds`,
  `ReleaseReplaces`, `WaitCyclesInvolveRelease` and `UndisturbedCommitsKeepRules`. It
  rests on two assumptions: `EngineeringAssumption`, on the constants, and
  `DatabaseAssumption`, that the databases a behaviour starts in are what the commands
  leave (`PlanInOrder`, `ItemsInOrder`, `BomsInOrder`; TLC evaluates it on those of the
  run). The inductive invariant `Inv` says
    - that the tables are in order and what is active uses what is active;
    - that conflicting locks are never held together (`Exclusive`). A plan is computed
      from the rows: which attributes an item's command locks, or which revisions a
      release, depends on which there are. So each commit also has to leave alone
      the plans of the commands that are under way, as far as they have come, which the
      category's and the BOM's lock sees to;
    - for each kind of command, what it has found when it is past its check and may
      still rely on (`Decided`): an attribute about to become required is held by every
      active item of its category, since whoever writes an item shares the lock on the
      category which the attribute's command holds alone (`LocksKeepApart`);
    - that a row has the version a command has read only if it is the row that was
      read (`Past`), because every write advances the version. This alone orders two
      transitions, and `HistoriesChain` needs no lock.
  For `WaitCyclesInvolveRelease` the kinds of rows are ranked, and the plan of every
  command but a release climbs the ranking (`PlanClimbs`); attributes are left out of it,
  since nobody waits for one without the lock of its category. In a circle, whoever waits
  for a row of the highest rank would wait for somebody who waits higher still. For `UndisturbedCommitsKeepRules` the
  invariant adds that what a transaction read without a lock is still so unless another
  committed since (`Fresh`); each rule then follows from the handler's conditions.
* `Engineering_proofs`, second part, about `BomImport`: for any number of workers, attempts
  and faults of any kind, `ImportMatchesEvent`, `OneWorkerParses` and `ConfirmedIsFinal`, with
  their exceptions, and `AtMostOneDraft` without one. The invariant `InTime` adds to the
  first two what they rest on: an event somebody may claim has nobody at it and a stale
  one has no key set (`ClaimableIsFree`), and at every place of its program a worker knows
  what the event and the import say (`WorkerKnows`). It holds until a worker oversleeps,
  which faults only ever count up to. `ConfirmedIsFinal` needs one more fact, that
  a worker whose round has failed still holds its claim, and that is what a
  lost reply breaks. `AtMostOneDraft` rests on the unique index alone, since a
  worker may well overwrite the status the confirmation looks at.
* `NotificationDelivery_proofs`: for any number of workers, recipients, attempts and
  faults, `OneWorkerPerEvent`, `SettledIsFinal`, `SettledWithItsDeliveries` and
  `AcceptedOnce`. Two invariants are needed because the guarantees fail under
  different faults. Finality holds whatever goes wrong and rests only on the
  condition of each update. The others hold until a claim grows old: whoever is at
  work has the claim the event records, so nobody else does; what it still has to do
  and what it has noted about each delivery agree with the delivery's row; and a
  delivery that may have been accepted is never PENDING again.
* `Access_proofs`: for any number of users, callbacks, requests and memberships,
  `OneSessionPerLogin` (whoever is past deleting a login row has one nobody else
  deleted, and only such a callback makes a session), `RolesAreOneChoice` (as long
  as a membership has the version that was read, it has the roles that were read;
  every write of either kind advances the version) and `ChangesAreDuties`: each unsafe
  method of each part asks for a permission that the seed gives only to roles with the
  duty (`Guarded`, a lemma per part), so whatever roles a principal combines, on
  whatever project, one of them has it. Uploads, which are open by two ways, have a
  lemma of their own.
* `Quality_proofs`: for any number of connections, documents and reports,
  `CreationsNeverCollide`, `AnsweredIsNeverCancelled`, `EvidenceStaysReadable` and
  `TriggersAccept`. None is inductive. For the reports the
  invariant says that of two transactions past their first lock no two have the same
  one, and that what each has decided under it, the free number, the allowed transition,
  the count of answers, still holds; so whoever writes a report disturbs nobody's
  decision. For the documents (`DocumentsInv`) it says that the tables are in order (what
  a run's first databases are assumed to be, `DatabasesInOrder`), that the locks of
  versions and inspections keep transactions apart, and, for each place of each plan, what
  the transaction has found and may still rely on (`Prepared`). Evidence stays
  readable although its recording locks nothing of the document, because a document that
  has an approved version never ceases to have one: a version stops being
  approved only in the transaction that approves its replacement.

Proved without being checked by a run: the type invariants, `LocksExclude`,
`LockedReadsAreCurrent`, `AcceptedConforms`, `ReadsAreGood`, `BucketsFillLots`,
`DocumentsInv`, `Inv` of `Engineering_proofs`, `ReadinessInv`, `OneWorkerParses`,
`OneWorkerPerEvent` and the promises of `LotStock`.

Only model-checked is liveness (`TransactionsEnd`, `ClaimsEnd`, `ImportsSettle`,
`SnapshotsCatchUp`, `EventsEnd`): it needs ENABLED and the fairness of section 3, which
the prover does not handle. Every safety and action property of a run that passes is
proved. The three runs that expect a violation show single behaviours, and
there is nothing to prove about them.

## 6. What is not modelled, and the plan

Left out of modelled components (status `partly`): the keys that tell a retried
posting from a conflicting one and the numbering of receipts; commitments of
suppliers after acknowledgement, and prices; the in-app notification rows; the worker's heartbeat; the cell-by-cell parsing of workbooks.

Not modelled: presentation, logging and metrics, configuration, deployment scripts (no
state of the system); the notification inbox (single-row commands of the row's
owner); the read-only projections of requirement status, readiness, reports and
scorecards; object storage, the scanner, the identity provider and the mail server
beyond their answers.

What would come next: posting keys (theorem: a key posts at most once); commitments of
suppliers; the scorecard arithmetic as operators against a reference definition.

## 7. Running it

In this directory:

    tlc -workers 2 -config MCMaterialFlow_flow.cfg MCMaterialFlow
    tlc -workers 2 -config MCReadiness.cfg MCReadiness
    tlapm LotTransactions_proofs.tla
    tlapm NotificationDelivery_proofs.tla

and the same for the other `MC*` modules, with the configuration `PROJECT.json` names, and
the other `*_proofs` modules. Every run ends within five minutes.
