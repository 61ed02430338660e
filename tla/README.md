# Alice-EVE: specifications, model checks and proofs

TLA+ modules for the relay server and the desktop application of Alice-EVE (Go,
PostgreSQL and SQLite), the TLC configurations that check them on small
instances, and theorems about them that TLAPS checks for every value of the
constants. `PROJECT.json` lists components, runs, mutants, the source lines each
definition translates, findings, hazards and theorems.

    tlc -workers 2 -config Scheduler.cfg MCMarketScheduler.tla
    tlapm MarketSchedulerProofs.tla

## 1. The system

`relay-server/` is the server; one or more of its processes share a PostgreSQL
database. `desktop-app/` (Go, Wails, React) reads the game's logs and talks to
the server over HTTPS and WebSocket, `mobile-app/` (Flutter) polls it. Paths
below are relative to `src/relay-server/internal/` unless they say otherwise.

| Component | State | Operations | Interacts with | What makes it correct |
|---|---|---|---|---|
| `marketplan` planning jobs | rows of `market_plan_jobs` with state, token, lease, attempt, signature; results | Create, Cancel, RequeueWatching, Claim, engine step, Commit, Fail | snapshots of `marketdata`; several worker processes | one live plan per slot; one claim can persist; results never go back; every snapshot reaches the watching plans |
| `marketdata` collector | batches, pages, `region_market_snapshots` | BeginBatch, AppendPage, Publish, Fail | ESI client, scheduler, `marketplan` | `published_at` grows |
| `marketdata` scheduler | collection jobs, schedules with back-off | EnqueueDue, Claim, RenewLease, CompleteJob, FailJob, RecoverExpired | collector, other processes | one collector of a region; a dead worker's job is recovered; every schedule is tried again |
| transactional outbox (`conversations/transactional_outbox.go`, `realtime/outbox*.go`) | `realtime_outbox` | domain writes, ClaimOutbox, Complete, Fail, the worker's loop | delivery log, notifier | every committed intent becomes one event; a lost lease disturbs nothing |
| delivery log (`realtime/postgres.go`) | `delivery_events`, `device_delivery_cursors`, `realtime_event_acks` | Publish, Replay, AckEvent, MarkDelivered | outbox, hub, WebSocket handler | one row per event ID, cursors unique and without late arrivals; acknowledgements stay |
| hub (`realtime/hub.go`) and notifier | per target: retained events, next cursor, subscriptions; bounded channel of hints | Publish, Subscribe, Close, wakeups | delivery log, WebSocket handler | no event lost between replay and live stream; no double close; no deadlock |
| legacy endpoints (`api/server.go`) and `store` | pairing codes, devices, envelopes | pair, publish, sync, ack, revoke, SSE | hub | what was accepted can be synchronised |
| `conversations` | conversations, messages, agent runs and their events | create, close, send, status, run transitions, reconcile | outbox | one message per client key; nothing gets into a closed conversation; every run state announced |
| `accounts` | accounts, sessions, token families | issue, refresh, authenticate, revoke | `api` | a refresh token has one heir; revocation is complete |
| `auth`, `authn`, `api/sso.go`, `api/device_auth.go` | OAuth transactions, challenges, identities | start, callback, poll, complete | `accounts`, `evegrant`, `esisync` | one session per login, of the identity's account, after its grant |
| `esisync`, `evegrant` | `eve_sync_jobs`, the refresh grant | Enqueue, Claim, RunOnce, refresh | ESI, login | one worker per kind; a rotated token is not lost |
| `esi`, `esipublic`, `esidata` | error budget, holds, caches | Wait, Observe, fetch, store | ESI | the budget is respected; unmarked answers are current |
| `notifications`, `settings` | push tokens, documents with versions | register, revoke, dispatch; compare-and-swap | `api`, FCM | no lost update; a push goes to the device that asked |
| `routeplanner` | graph of the active build, cache | Route | static data | a route is a shortest one of a build that was active |
| `trade`, `risk` | none | pack, chain, legs, evaluate | `marketplan` | plans can be carried out; the bounded search loses nothing while its bounds do not bite |
| `migrations`, `sdeimport` | schema version, builds | run, import | all | a migration runs once; one active build |
| desktop realtime client | cursor, seen events, channel to the UI | Start, Stop, read, save, hand over | server | each event once, in order, and in the end |
| desktop relay client (`app/relay.go`, `pairing.go`) | tokens in memory and in the vault, pairing | login, request, refresh, sign out | server | no refresh token is presented twice; sign-out revokes |
| desktop outbox | table of messages | Enqueue, SendPending | server | nothing leaves unaccepted |
| desktop ingestion | offsets of log files, events | scan, commit | desktop outbox | every line stored once |
| desktop static data (`eve/sde.go`, `evesde/`) | handle of the selected database, entries | open, import, index, look up, route | window | the database that answers is open |
| mobile application | cached lists | poll, register push | server | (user interface) |

The behaviours that are hard: workers that stall past their lease, crash between
claim and commit or time out on a statement that still runs; cursors that are
allocated before they are visible; transactions at READ COMMITTED whose UPDATE
does not see a row inserted meanwhile; state that is read, checked and used in
later calls; publishers, wakeups and connections racing in the hub under one
mutex and one `sync.Once` per subscription; handles and tokens that are
exchanged under a lock and used outside it. `hazards` in `PROJECT.json` lists
them line by line, with the properties that cover them.

## 2. What is modelled

Each module models one component: VARIABLES are its tables, maps and what its
goroutines hold between two steps; an action is one SQL statement or
transaction, one critical section, or one call to another party. Where a
component has a durable and an in-memory implementation, a variable chosen in
`Init` says which one runs (`durable`, `inTable`, `store`). Failures are actions
of their own, bounded together by `MaxFaults`, and never fair. Actions that
stand beside a definition in the same file with a slightly different name
(`ClaimableAnyLease`, `RecoverClaimed`, `OverwriteIdentity`, ...) are the mutants
of `PROJECT.json`: what a plausible bug would make of the definition.

### The relay server's jobs

**`MarketPlanJobs`.** One record per row of `market_plan_jobs`: `Create`
(supersede and insert under the slot's advisory lock), `Cancel`,
`RequeueWatching`, `Claim`, `Commit`, `Fail`. `Worker.RunOnce` is the `phase` of
each process and the set `claims` of what its goroutines hold; `Search` is the
moment the engine reads the visible snapshots, `Planned` the moment `time.Now()`
is taken for the commit. Failures: `Crash`, `LeaseExpires` while the holder still
works, `PersistTimeout` (the process gives up, the statement may still run),
`PersistLost`, `StepFails`, `PublishFails`. The default lease is two minutes, a
slice 90 seconds and a statement five, so a lease that ends under a working
claim is counted as a fault. Time is what comparisons see of it; the engine's
result is represented by the snapshots it read (`basis`). `cancelled` is a
history of the rows a client has cancelled. The states `routing` and
`optimizing`, which `docs/architecture.md:38` lists, are assigned nowhere.

**`MarketScheduler`.** `tick` is three steps of each process (`RecoverExpired`,
`EnqueueDue`, `ClaimJobs`), `process` with its heartbeat is the stages of a claim
(`Collect`, `Publish`, `Finish`, `Book`; `HeartbeatLost` and `HeartbeatFails`
cancel it). A claim takes its stamp in `Collect` and publishes later; `after` and
`passed` remember whether a younger snapshot was published in between. `overrun`
is the history of leases that ended under a worker that still ran (`Stall`);
`LeaseExpires` is for workers that are gone. A job has the priority of its
region's schedule row, which no code writes (`priority`, chosen in `Init`), or a
client's, which is the greatest; `Before` is the claim's order, by priority and
then by time. A region of low priority can thus starve while regions above it are
due all the time, and `EveryRegionTried` says exactly that: a region is collected
again and again, or, while it waits, regions the schedule ranks higher are.
Clients that asked for refreshes without end could keep any region waiting: that
case is cut off by `MaxRequests`. A failed job of a dead worker is recovered
without the schedule's back-off; back-off is not in the model (`TimePasses` may
come at once), and no property is about it.

**`EsiSync`.** `Login` stores a grant and queues one job per kind (`Enqueue`,
which takes a running job from its worker, as the code does); `Worker.RunOnce` is
`Claim`, `Load`, `RefreshAccepted` or `RefreshRefused`, `Save`, `Fetch`, `Store`,
`Finish`. A detail request refreshes the same grant and saves nothing
(`RefreshDetail`). The authorization server is external: it may rotate a refresh
token, which ends the old one. `broken` is the history of the cases in which the
code cannot keep the grant usable (overlapping readers, a lost or unsaved
rotation); `overrun` is that of jobs taken from a worker.

### From a domain transaction to a client

**`RealtimeOutbox` and `EventLog`.** `Write` is any transaction that inserts an
intent next to its message or run. Dispatchers claim a batch (`ClaimOutbox`),
publish row by row (`NextRow`, then `PostgresDeliveryRepository.Publish`) and
complete or fail each. The publishing transaction is `Lookup`, `Allocate` (the
`ON CONFLICT DO UPDATE` that locks the counter row) and `Insert` with the commit,
because others run in between. Requests of the legacy endpoint publish to the
same tables; `Replay` is a client paging from its cursor. A claim's random token
is represented by its dispatcher: it has dropped the claims of one batch before
it makes the next, so a stale token of its own never meets a fresh one.
`EventLog` is the abstract specification: one append-only log per target, an
event joins one log at its end at most once, a reader only moves forward.
The refinement mapping is in `RealtimeOutbox`: a log is the list of its target's
rows in cursor order, a reader's position the number of rows up to its cursor
(`Log`, `ImplementsEventLog`).

**`Conversations`.** `Service` reads and checks, then writes in a later
repository call: a handler keeps the checked request in `req` between the two
(`CheckSend`, `InsertMessage`, `CommitMessage`; `CheckStatus`, `WriteStatus`;
`CheckStart`, `CreateRun`; `CheckEnd`, `EndRun`). In PostgreSQL the entity and
its intent are one transaction whose cursor is drawn before the commit from one
sequence; in memory each conversation counts its own, and the service publishes
run events afterwards, best effort. The reconcile endpoint
takes a boundary cursor, then lists conversations and their messages one by one.

**`Hub`.** Publishing goroutines, the goroutine of `consumeWakeups` and
connections of one target. `h.mu` is held from one step to the next only where
its holder can wait: while it calls `closeOnce.Do` of the subscribers it dropped.
`Close` is `closeOnce.Do` entered, `CloseLocked` the part under `h.mu`. With a
repository, persisting and broadcasting are two steps and `Subscribe` reads the
rows before it registers; without, the hub assigns cursors and replays under the
mutex. `AppendElsewhere` is an outbox worker or another process that appends a
row and sends a hint. **`DeliveryAck`** has the handlers of WebSocket
connections, the pool, row locks, events, acknowledgements and the acknowledged
prefix; `AckEvent` is `BeginAck`, `SelectForUpdate`, `SecondConnection`,
`UpdateRow`, `RecordAck`. `UpdateRow` waits for the lock of its own call, so only
a lost connection leads beyond it, and then the transaction rolls back.
What goes out to the connections when a page is broadcast, and what a queue keeps,
are functions that are recursive in the number of events handled (`Fanned`,
`KeptAfter`), so that they can be proved about. `Delivery` is the two side by side;
they share no variable.

**`LegacyRelay`.** Pairing by code, publication in three steps (`HasMessage`,
`PutMessage` with `CommitMessage`, `PublishHub`), synchronisation pages,
acknowledgement and revocation over both stores. In the database a message takes
its cursor when its INSERT begins and is seen when it commits. `ORDER BY cursor
LIMIT n` is the set of the `Smallest` n rows and the page's last cursor: a phone
keeps the rows it has received in no order.

### Accounts and logins

**`Sessions`.** One account: issue, `PresentToken` and `Rotate` with the row's
lock and its commit, replay detection (`FindSpent`, `RevokeFamily`), revocation of
a session, a device or the account (two statements). An UPDATE of many rows works
on the rows its snapshot saw and waits for those that are locked, but does not
see a row inserted meanwhile.

**`Login`.** Transactions and challenges; the callback's steps `FindIdentity`,
`CreateAccount`, `CreateIdentity`, `SaveGrant`, `IssueSession`, `MakeSession`,
`StoreDevice` in several handlers, for the browser (bound to a cookie) and for
the desktop (which polls). `echoes`, chosen in `Init`, says whether the provider
returns the nonce as a query parameter, which `api/sso.go:121` asks for: where it
does not, the browser's callback is refused and the desktop's is not.

### Services and algorithms

- **`RoutePlanner`**: callers of `Route` share one graph, loaded under a mutex
  when the active build changes, and a cache; a search expands one system per
  step, and a context may be cancelled (`leaving`) between two. The links of a
  system are a set: the loader's query sorts them by ID, but no answer may depend
  on that, so the step chooses in which order the unmet ones join the queue. What
  the code keeps in `seen` is the domain of `depth`; the path is read back through
  `prev`.
- **`TradePacking`, `TradePlanner`**: candidate packing and the two beam searches
  in integers (hundredths, per cent), one level of the beam per step; the
  reference definitions enumerate every packing and every path.
- **`LocalRoute`**: the desktop's Dijkstra search, step by step, over every map
  of four systems.
- **`PublicData`**: cache, service mutex, limiter and ESI of several requests, with
  a clock; quotes go past cache and mutex.
- **`Documents`**: optimistic updates of settings and of notification preferences,
  the latter in memory and in their table. **`PushTokens`**: registration, revocation and
  dispatch with FCM's attempts.
- **`DatabaseSetup`**: the migration runner of several processes and releases
  (sets of migrations with a version and a checksum) under its advisory lock, and
  imports that retire the active build and activate theirs under the partial
  unique index, at READ COMMITTED.

### The desktop application

- **`DesktopRealtime`**: loops of successive generations that share the IDs seen,
  the stored cursor and the channel to the UI; the server is external and may
  prune. `excused` is the history of the events the code gives up (a failed save,
  a stop, a crash).
- **`LogTail`**: files as sequences of bytes of which only line feeds matter, a
  scan's budgets of bytes and records, the transaction that stores event and
  cursor. A scan begins, opens a file, commits a record or closes the file per step,
  and may fail in between. `tailing` is the state of `Tailer.Start`: its first scan
  precedes the loop, and when that scan fails `Start` returns the error,
  `LocalIngestion.Start` drops it and nothing scans until the application starts
  again (`"off"`). `EveryLineHandled` excepts that state.
- **`DesktopOutbox`**: overlapping passes of `SendPending`, the relay's answer or
  its loss, back-off with a clock, restarts.
- **`DesktopSession`**: requests that refresh and are sent again, login, pairing,
  sign-out, restart from the vault; memory and vault are written in separate
  steps, and a write to the vault or an answer of the server may be lost.
- **`SdeIndex`**: calls of the window that open, import, install, index and look
  up; the handle is exchanged under the lock and the old one closed outside it.

### Composition

`Delivery`, `MCDesktop` and `MCServices` put components that share no state
into one run: a variable `part`, chosen in `Init` and never changed, says which
one takes steps; the others keep an initial state. A component's invariant is
its type invariant and its safety property, stated in its own module. This adds
no interleaving and takes none away: it explores the sum of the parts' states,
not their product.
What really interacts is in one module: login, grant and jobs in `EsiSync`,
collector and planner in `MarketPlanJobs` (`Stamp`, `Publish`), outbox, delivery
log, legacy publisher and clients in `RealtimeOutbox`, conversations and their
intents in `Conversations`, limiter, cache and ESI in `PublicData`.

## 3. Runs

Bounds are the CONSTANTS of each cfg. Deadlock is checked in the runs of
`MarketPlanJobs` and `MarketScheduler`, whose workers poll for ever; the other
systems are bounded (finitely many events, requests or faults) or really stop,
and their cfgs say `CHECK_DEADLOCK FALSE`.

| Run | Shows | Why its bounds are enough |
|---|---|---|
| `MarketPlanSafety` | `LeaseExclusive`, `OneUncancelledPlan`, `NoMissedSnapshot` (one region), `ResultsNeverGoBack` | two rows of one slot, two hashes (equal or not), two processes and two stamps; with three tokens and one fault a row is claimed again while an old claim or an abandoned statement is alive |
| `MarketPlanLiveness` | `SnapshotsReachPlans` under fairness | two slots, batch of one, so the order of claims matters; one crash or stall; a third token, because a cancelled row keeps one |
| `Scheduler` | `SchedulerInvariant` (types, one collector of a region), `SnapshotsMoveForward`, `EveryRegionTried` | two processes compete for two regions with one slot each; one region is above the other or both are alike, and a client's refresh puts the lower one in front; the fault (of one process, which may be either) lets one lease end under its worker, so that two collections of a region overlap |
| `EsiSync` | `EsiSyncInvariant` (types, one worker per kind, data move forward), `GrantStaysUsable`, `EveryKindTaken` | two workers, two logins: a second login meets a running job and a refresh; a detail request rotates in between; seven tokens, more than the grant, the workers and the requests can hold, so that the guard on a fresh one (`Fresh`) never binds |
| `Outbox` | `NoSkippedEvent`, `PublishedIsMaterialised`, `ImplementsEventLog`, and under fairness `EveryIntentApplied` | two dispatchers compete for one intent, a request publishes to the same device or another: three transactions race on one counter, and one ID is asked for on two targets; three faults let a lease end, its new holder fail and the old one come late; pages of one row |
| `Conversations` | `ConversationsInvariant` (types, one message per key), `RunStatesAnnounced`, `SnapshotMissesOnlyLate`, `ClosedTakesNothingNew`, `EndedStays` | two handlers and four requests: a send and its retry around a close, two updates of one run, two conversations of which one is listed before the other is written; pages of one; cursors need no bound, since requests are bounded |
| `Delivery` | `DeliveryInvariant` (types, a closed channel gets nothing more), `MemoryDelivers`, `ProcessedStays` | two publishers and the waker can each drop the connection that closes; channel and history of two, four cursors and three IDs: both overflow and a forgotten ID is published again. Two handlers on a pool of two run it dry; three lost connections |
| `Sessions` | `SessionsInvariant` (types, one heir), `RevocationIsComplete` | three handlers: a rotation, a replay and a revocation at once; three sessions of one or more families |
| `Desktop` | `TailInvariant` (types, every line stored once), `ClientInvariant` (types, events once, in order, none skipped), `EveryLineHandled`, `EventArrives` | two files whose lines exceed the scan's budget; three events, two loops of which the older is stopped with an event in hand, a channel of one, a crash, failure or disorder |
| `Services` | `PlansHold`, `RoutesAreShortest`, `AcceptedIsRecoverable`, `QueueInvariant`, `PublicDataIsSound`, `DocInvariant`, `PushInvariant`, `SetupInvariant`, `SdeInvariant`, `CredentialsAreSound`, `LoginsAreSound`: the twelve parts, with their types (`PlansHold` has two: the trade planner and the desktop's route search) | in each part two callers or handlers, both implementations, and bounds that bite: a cache of one entry, cargo holds and budgets that bind, a limiter's hold, releases with different checksums, two imports, and a restart or a fault |
| `HubCloseDeadlock` | violated: `CloseReturns` | one publisher, one connection |
| `SessionsReplay` | violated: `FamilyRevokedWhole` | as `Sessions` |

Symmetry is used in safety runs only, over sets whose members the specification
never tells apart. One intent in `Outbox` means that batches of several rows are
left to the theorems of section 4, which hold for any number; for liveness they
are a limit of this run, as is one kind in `EsiSync`.

### Properties that except something

Several properties are stated as the code can keep them, the excepted case
being named by a history variable and each being a finding or a comment in the
code: `overrun` (a lease that ended under its worker, or a job that a login took
from it), `broken` (overlapping readers of a grant, or a rotation that is not
saved), `escaped` and `late` in `Sessions` (a rotation or login that overlapped a
revoking statement), `excused` in `DesktopRealtime`, `rewritten` in `LogTail`,
`cancelled` in `MarketPlanJobs`, `lost` in `DesktopSession`.

### Fairness

- `MarketPlanJobs`: weak fairness of each process' loop (`Worker.Start` runs a
  ticker until it is closed), of each claim's engine step and statement (both
  have time limits), of the expiry of a lease nobody uses, and of a snapshot's
  commit. Crashes, stalls and lost statements are not fair.
- `MarketScheduler`: weak fairness of each process' ticks and of its goroutines
  (requests and statements have deadlines), of the expiry of a dead worker's
  lease, and of a region's time coming.
- `EsiSync`: weak fairness of each worker, of the expiry of a dead worker's
  lease and of `run_after` coming.
- `RealtimeOutbox`: weak fairness of each dispatcher (`OutboxWorker.run` polls),
  of publishing requests, of `available_at` passing, and of a client reading on;
  strong fairness of a dispatcher's `Allocate`, because PostgreSQL queues waiters
  for a row lock. No wakeup is assumed: polling alone carries
  `EveryIntentApplied`.
- `Hub` (run `HubCloseDeadlock`): goroutines run, connections read, and
  `CloseLocked` is strongly fair: `sync.Mutex` hands itself to a waiter that
  starves. The counterexample is thus not a matter of scheduling.
- `Desktop`: weak fairness of the scanner's ticker (it ticks only once a first
  scan has succeeded), of each loop's steps (dials
  and reads have deadlines, waits end) and of the UI taking events.

### Findings

`PROJECT.json` has each with the sentence it contradicts. Two are shown by a run
that ends in a violation: `HubCloseDeadlock` (`closeOnce` and `h.mu` are taken in
both orders, `realtime/hub.go:566`) and `SessionsReplay` (a replacement that is
being inserted escapes the revocation of its family, `accounts/postgres.go:116`).
The others were met while translating the code, and the modules have the code's
behaviour:

1. `marketplan`: a cancelled plan keeps its fencing token and comes back to life
   next to its successor; the signature is a maximum over regions of stamps taken
   before commit, so a late commit may be covered unread.
2. `realtime`: broadcasts overtake each other since the cursor is assigned before
   the mutex is taken; an event between replay and registration is lost to the
   connection; wakeups read only events that are known once a page is retained;
   `AckEvent` waits for its own row lock.
3. `conversations`: a second event of one type of a run is dropped by its outbox
   ID; a retry consumes rate budget in PostgreSQL; a reconcile answer lacks a
   message that was open at its boundary.
4. `esisync`: a detail request's rotated refresh token is dropped.
5. `store`: the primary key of messages is the ID alone, so IDs of two accounts
   collide. `esi`: only `postJSON` reports to the limiter. `notifications`: the
   records of two devices that register one token collide in memory, and
   `Dispatch` never reads the table. `trade`: a lot's destination is the first
   eligible candidate of its type.
6. Desktop: the cursor is saved before the event is handed over; the identity of
   a log file is its path alone; credentials may be deleted without revocation;
   past `MaxAttempts` there is no back-off.

## 4. What is proved

Eight modules of proofs. Their theorems hold for every value of the constants that
satisfies the named assumption of the component: numbers are naturals, batches and
pages are not empty, the "nobody" values are not members of the sets they stand
beside, a release has one migration of a version, and the desktop's initial devices
are within the bound on devices, the history of the hub and the pages of the relay are
not empty, the waker, the publishers and the two devices differ, there is a build of the
map, and a system of it has finitely many links. Sets of jobs, workers, regions,
handlers, devices or messages may be of any size. Each argument has the same shape:
an inductive invariant, one step of the proof for each action, and theorems that
read their property off it.

**Planning jobs** (`MarketPlanJobsProofs`).

- `TypeCorrect`: type correctness, with the equivalence of lease and token.
- `FencingHolds`: `LeaseExclusive` is not inductive, because a row's new token
  could be one that an old claim still holds. The strengthening `TokensDistinct`
  says that no two claims share a token. It is kept since `Claim` draws tokens
  that neither a row nor a claim uses and hands out each once (an injection),
  and no other action makes a claim. `TokenStep` and `FenceOnlyFalls` say that
  a row's token changes only to a fresh one or to none: a claim that lost its
  fence never regains it.
- `ResultsMoveForward`: an action property; needs `Ordered`: stamps are handed
  out in order and a region's visible snapshot only gets newer (`StampsAhead`);
  a claim has read nothing newer than what is visible and, as long as it has
  the fence, nothing older than the row's results (`ReadsBehind`); results are
  not newer than visible snapshots (`BasisBehind`). When a claim commits, its
  fence excludes every other claim of the row, so nobody's reading can become
  older than the results.
- `OnePlanPerSlot`: `Spec => []OneUncancelledPlan`. The strengthening
  `DeadRowsReleased` (a row that is not live, and that no client has cancelled,
  has no token) is what `Superseded` establishes and `Cancel` does not: with it,
  no commit or failure can make a dead row live, and only `Create` makes one
  live, alone in its slot.
- `SignatureIsRead` and `OneRegionMissesNothing`: whoever signs a row has seen a
  snapshot as new as the signature (`Signed`): the process that queues it again
  sees it in the visible snapshots, a claim with the fence read it, a watching
  plan's results were computed from it. That holds for any regions. With one
  region it says that the plan read every snapshot up to its signature, which is
  `NoMissedSnapshot`. With two it does not: a snapshot that was stamped before
  and committed after another region's is covered unread, as the findings say.
  So the theorem states its one region as a hypothesis.

**Outbox and delivery log** (`RealtimeOutboxProofs`). `IInv` is the conjunction
of the type invariant, `CursorsBounded` (rows and clients are at or below the
counter of their target), `Allocated` (whoever holds the counter has exactly the
next cursor), `Dispatching` (a dispatcher publishes to the target of its row, and
completes only what is in the log), the three properties, and that the log is
finite. `OutboxInvariant` proves `Spec => []IInv`; `NothingSkipped`, `EventsOnce`
and `PublishedHasEvent` follow, and `PublishedRowsStay` is an action property
under the same invariant. The argument for `NothingSkipped`: a new row's cursor is
greater than the committed counter, which no client's cursor exceeds, because the
row lock keeps a second transaction from allocating until the first has committed
or rolled back.

`OutboxKeepsTheLog` is the refinement `Spec => ImplementsEventLog`. The initial
tables are empty logs. `Insert` puts a row past all others of its target, which
lists as an append of an event that no log has; `Replay` moves one reader by the
page it was given, and the log up to its new cursor is a longer prefix; every
other step leaves rows and readers alone and is a stutter. The list of a target's
rows is a CHOICE over orderings of a finite set, so the steps rest on lemmas that
there is one such ordering, what it is after a row has been put last, and which
of its prefixes a page is. They are proved without induction on the set: of two
orderings that differ, the least place where they do is a contradiction
(`OrderLemmas`: `HasMinimum` and what follows from it).

The same module has the legacy endpoints: `AcceptedStaysRecoverable`
(`AcceptedIsRecoverable`). `RelayInv` has what is stored of the requests on the way
(`EnvelopesSound`: who is about to call the hub has its envelope in the table), that
an open insert has a row of its own which nobody sees (`InsertsSound`), so that its
rollback takes nothing from anybody else, that a row is ahead of the reader of a
process in memory or received (`ReaderSound`), and that a code on its way has made no
device (`CodesSound`). For `ReaderSound` a page must leave nothing behind its cursor
(`PageIs`): the smallest of some rows are before the others (`SmallestFirst`, by
counting), and the cursor is the maximum of the page.

**Delivery** (`ConversationsProofs`, second half). The hub's invariant `HubInv` is
`ClosedIsUnregistered`, that a connection which is not open has nothing and is
nowhere (`ConnsSound`), what an actor holds of events between two steps
(`ActorsSound`), and, without a repository, `MemorySound`: the kept events are the last
ones broadcast, and a connection was sent those after its cursor without a gap.
From it: `DeliveryInvariantHolds` and `MemoryDeliversAlways`. The work is in the
fan-out of a page (`Fanned`) and the trimming of the queue (`KeptAfter`), which are
functions recursive on `0..Len(page)`: what they give is proved by `CountUp`
(`OrderLemmas`), that a set with 0 and the successor of each of its members below m
contains `0..m`, by the least counterexample. The acknowledgements' `AckInv` counts
the connections of the pool (idle, one for each statement, one for each open
transaction) and says which calls hold a row's lock; `AcknowledgedStaysProcessed` is
the action property `ProcessedStays` under it.

**Conversations** (`ConversationsProofs`). `ConvInv` has, beside the properties,
what a handler's check guarantees until its write: cursors in use have been drawn
(`CursorsDrawn`), an open transaction is of PostgreSQL and nobody else has its key
or cursor (`CommitsApart`), a run that is about to be created is not there and one
handler creates it (`StartsApart`), and, of a reconcile answer, what it has not
read below its boundary is late, beyond a full page, or of a conversation still to
be read (`SnapshotSound`). From it: `OneMessageOfAKey` (`ConversationsInvariant`),
`RunsAreAnnounced`, `SnapshotsMissOnlyLate`, and under it the action properties
`EndStatesStay` and `ClosedTakesNoMore`.

**Collection jobs** (`MarketSchedulerProofs`). `OneCollectorOfARegion`,
`SnapshotsOnlyForward` and `SchedulerIsSound` (`SchedulerInvariant`, with the
types and the waiting line). The invariant: a claim that still collects has its
region's token and a current lease unless the region is in `overrun`
(`CollectorsHold`), no two claims of a region share a token (`OneToken`), a claim
is not recorded as overtaking itself, and one that was passed is of an overrun
region. Two collectors of a region that is not overrun would have the same token
and so be the same claim; a claim is passed only by another that is in flight at
the same time.

**ESI** (`EsiProofs`). Synchronisation: `OneWorkerAtAKind`, `DataOnlyForward`,
`SynchronisationIsSound` (`EsiSyncInvariant`) and `GrantIsUsable`
(`GrantStaysUsable`). The first three: who is at a kind owns its running job
unless the kind is in `overrun` (`WorkersOwn`), nobody is at a kind whose lease
has ended (`NobodyPastLease`), and data fetched later is on its way beside a
worker's only after an overrun (`OvertakenOverran`). The grant: as long as nothing
is `broken`, one reader holds it (`OneReader`), what it read is what is stored
(`ReadersHold`), and either the stored token or the one about to be saved is
accepted (`NewAccepted`, `Usable`). Public data: `PublicDataStaysSound`
(`PublicDataIsSound`). A limiter keeps the latest hold it was told of that is not
over (`LimiterSound`); a slow request that still sleeps starts before its process'
next slow slot (`CallSound`), so that a later slow request of the process gets
another start (`StartsDiffer`); and what is about to be stored was fetched by the
clock's time, so that what a caller finds unexpired was.

**The desktop application** (`DesktopProofs`), each part by its own invariant:

- `NothingLost` (`QueueInvariant`): a pass that holds an ACK for its current row
  holds it because the relay has taken the message.
- `DatabaseStaysOpen` (`SdeInvariant`): a handle is open exactly when it is the
  selected one or one that a call is to install or close, no two calls hold the
  same, and no call reads while another switches, since a lookup holds the read
  lock.
- `LinesAreStored` (`TailInvariant`): `StoredExactlyOnce` compares what is stored
  with the lines between where the file was first seen and its cursor. It becomes
  inductive with three facts: the cursor is where a line ends, or where the file
  began to be read; what a scan has buffered still stands in the file at the
  cursor (`Reading`), since the game only appends; and the cursor is within the
  file (`LinesSound`). A commit then adds exactly the line from the cursor to the
  first line feed after it (`LineFound`), and an append leaves the lines before
  the cursor alone (`LinesStay`). A file replaced at its path loses all three,
  and the property excepts it.
- `EventsReachTheUI` (`ClientInvariant`): the loop that runs is never behind the
  stored cursor, so what it saves is above everything handed over; loops that have
  been stopped hold events of their own at or below it (`Pushing`), which is where
  `late` comes from. For what must not be skipped: every event up to the running
  loop's cursor, and up to the one it was sent last, is handed over, in hand, or
  dropped in a way the code is known to (`Rolling`, `Covered`), no step takes
  anything out of that set, and what has been seen is in it (`AllCovered`), so
  that skipping an event as seen loses nothing.
- `CredentialsStaySound` (`CredentialsAreSound`): the refresh token in memory is
  the latest of its device, or the request that holds `refreshMu` has rotated it
  and has not yet put the new one there; likewise the vault until the new one is
  saved (`NothingBehind`). A sign-in that saves is of a device whose token nobody
  holds yet (`SignInSound`), so that it cannot overwrite a newer one. That one
  expiry fails no request needs a second invariant, of the time in which nothing
  was disturbed (`Calm`): the device is then at its first or second access token,
  a request that waits for the mutex was sent with the first, and one that is sent
  again goes with the second.

**Sessions and services** (`ServicesProofs`), each by its own invariant:

- `OneHeirOfAToken` (`SessionsInvariant`) and `RevokedStaysRevoked`
  (`RevocationIsComplete`): what a handler is about to do rests on rows that are
  there: a rotation's row is live, locked by it alone, and came before the account
  was revoked (`RequestsSound`, `RotateApart`); the session that an heir replaces
  is there and live no longer (`Lineage`); no row is `late` while the account is
  active (`Past`).
- `EditsAreKept` (`DocInvariant`): a request under way holds its base document
  with its own field edited, or the reset document, and the stored document is
  replaced only when it equals that base.
- `PushesAreSound` (`PushInvariant`): a dispatch holds a copy of a token that was
  its device's and live, and the insertion keeps one row per device and token.
- `LoginsStaySound` (`LoginsAreSound`): what a request goes on with is a
  transaction or a challenge that it has taken and nobody else has
  (`TakenOnce`); an account that has no identity yet is one request's alone
  (`OneIdentityEach`), so that two requests of one new character end with one
  account; and what is ahead of a session has the account of an identity and its
  grant saved (`Entitled`).
- `DatabaseIsPrepared` (`SetupInvariant`): who holds the migrations' lock has run,
  in order, a part of what its release has and the schema lacks, and has the
  schema within its release (`PlanHolds`); a migration in the schema was run with
  all the others of some release (`SchemaOfReleases`), so one that runs later with
  a lower number was unknown to that release. An import that is about to commit
  has retired all that is active, and no other is about to (`ImportInv`).
- `RoutesStayShortest` (`RoutesAreShortest`): what a search has met is a tree of
  passable systems around its start, each one level below the one it was met from
  (`Tree`); its queue is in the order of depth, nothing is more than a level below
  the first of it, and what has left it has met all its passable neighbours or is
  as deep as allowed (`Frontier`). `NoShorterWay` counts up along a way: as far as
  the search has come, whatever the way reaches has been met at that depth or less,
  so no way as short as the depth of the queue's head leads to the destination. A
  path read back from the destination is such a way (`PathIsWay`), and with an
  empty queue there is none. A caller has a build that was active since it asked
  (`CallSound`), and a cached answer is the right one of its key's build
  (`CacheSound`), whatever the graph in memory has become.

**Only model-checked.**

- Liveness (`SnapshotsReachPlans`, `EveryRegionTried`, `EveryKindTaken`,
  `EveryIntentApplied`, `EveryLineHandled`, `EventArrives`): fairness and ENABLED
  are outside the prover.
- `PlansHold`: the trade planner's searches are compared with definitions that
  enumerate every packing and every path, and the desktop's route search (Dijkstra
  over an order of several costs) with the cheapest of all ways. The packing is
  folds over sequences sorted by a comparison, operators with an operator as
  parameter that the provers do not instantiate; what such a fold computes, and the
  least cost over all ways, is induction over data. Functions that are recursive on
  `0..m` are within reach (`CountUp`, see Delivery and the routes), folds,
  `SelectSeq` and RECURSIVE operators are not.
- That a closing connection returns (`CloseReturns`) and that a family is revoked
  whole (`FamilyRevokedWhole`) are false; the two violating runs show it.

## 5. Not modelled

- Candidate search (`trade/`'s order book query): one SQL query over floats, no
  state of its own.
- HTTP middleware and handlers: decoding, authorization and headers in front of
  the modelled operations.
- The mobile application and the windows of the desktop: user interfaces that
  keep copies of the server's answers.
- Of components that are partly modelled: `AckCursor`, `MarkFailed`,
  `ClaimPending` and `Prune` of the delivery repository (called from tests only),
  the reconnection of the LISTEN connection, SSE framing, the rate limiter of
  conversations, verification of ID tokens and signatures (one outcome), decoding
  of ESI answers, the pages of a market collection, the rows of an import, the
  choice of an update, prompts and lookups of the local agent.

## 6. Plan

Done: the modules above and the theorems of section 4. Left, in this order:

1. A theorem about the desktop's route search, with its costs as a function that is
   recursive on a number.
2. The pages of a collection as steps, composed with `MarketScheduler`.
3. `DesktopRealtime` composed with `Hub` instead of an external server.
4. Larger instances: two kinds in `EsiSync`, two intents in `Outbox`.
