# Verification of the merchant transaction backend

TLA+ models of the NestJS backend under `src/src`, their TLC instances and
machine-checked proofs. Paths below are relative to the repository; `transactions.service.ts`
and the like are the files under `src/src`.

## The system

One Node process serves the HTTP API and runs the background worker. It talks to
PostgreSQL (tables `merchants` and `transactions`), to a RabbitMQ broker (one durable queue)
and to a cache behind `cache-manager`.

| Component | State | Operations | Talks to |
|---|---|---|---|
| Transaction creation (`transactions.service.ts`) | rows of `transactions`, requests in progress | `create`: insert, clear the first cached page, publish without waiting | database, cache, publisher |
| RabbitMQ service (`rabbitmq.service.ts`) | `isReady`, the channel, the wrapper's buffer | `connect`, `publish`, `consume`, connection events | broker |
| Worker (`transactions.worker.ts`) | running callbacks | `processTransaction`: 5 s, draw an outcome, update, on error mark FAILED | database, ack/nack |
| Transaction list (`findAll`) | cached pages | get, two queries, set | cache, database |
| Rate limiter (`redis-throttler-storage.service.ts`) | hit counters and block entries | `increment`, called by the global guard once per throttler | cache |
| Authentication (`auth.service.ts`, `jwt.strategy.ts`) | rows of `merchants` with one refresh hash each | `register`, `login`, `refreshToken`, `logout`, the guard | database, bcrypt, JWT |
| Cache module, bootstrap, configuration | settings | start-up | |
| Logging, filters, interceptors, DTOs, Swagger, merchants module | none that matters | | |

What is hard here: nothing is transactional across the database, the cache and the broker, so
every `await` in `create`, `findAll`, `increment`, `register` and `refreshToken` is a point where
another request, a lost connection or a crash can come between. Delivery is at least once, no
prefetch limits the callbacks, publication is not awaited, and both caches are check-then-act.

What makes each part correct:

- pipeline: no transaction is stranded silently; a confirmed event is decided; a transaction
  whose event no fault hit is decided once; messages leave the broker;
- list: a merchant's own rows, consistent with `meta`, complete unless overtaken, finally fresh;
- both together: an outcome a client was shown stands unless its event is processed again or the catch
  block overwrites it, and PENDING leaves the cached pages for good;
- pagination: the pages partition the list, and walking them misses nothing;
- limiter: the limit holds, blocks are respected, nobody is rejected for requests never sent;
- authentication: one merchant per email; sessions of a merchant do not shut each other out; a
  refresh is refused only for a dead token or a statement that fails just then.

`PROJECT.json` lists the hazards line by line, each with the properties that watch it.

## Modules

| Module | Models |
|---|---|
| `TransactionPipeline` | create, publish, the broker's queue, consume, the worker; restarts, lost connections, failing statements |
| `TransactionLedger` | the abstract promise: a stored transaction stays open until decided or openly abandoned |
| `TransactionPipelineProofs` | the inductive invariant, the safety theorems and the refinement |
| `Pagination`, `PaginationProofs` | skip, the positions on a page and totalPages as operators, and their arithmetic |
| `TransactionList`, `TransactionListProofs` | findAll through the cache against create, an abstract worker, expiry and restarts, and its proofs |
| `System`, `SystemProofs` | the pipeline and the list together: the real worker and `create` under the cache; the refinement of the list |
| `PageWalk`, `PageWalkProofs` | a client walking the pages while rows are added, and its proofs |
| `RateLimiter`, `RateLimiterProofs` | the guard and `increment` of one client address, and what its counters bound |
| `RateLimiterWindowProofs` | the limiter over time: pauses, blocks and windows |
| `AuthSession`, `AuthSessionProofs` | register, login, refresh, logout and the guard, and their proofs |
| `MC*` | TLC instances: scaled constants and symmetry |

`TransactionPipeline` implements `TransactionLedger` (`Ledger`, `ImplementsLedger`); `System`
instantiates the pipeline and the list and implements the latter (`ImplementsList`); `PageWalk` and
`TransactionList` share `Pagination`. Operators marked "Mutant" are altered copies of the
definition that follows them; no specification uses them. Replacing the original by its mutant
shows that the property named in `PROJECT.json` depends on it.

### State and actions against the code

**TransactionPipeline.** `proc`, `ready` and `channel` are the process, `isReady` and the
wrapper's open channel. `rows` is the status column; `pc` and `pub` are where `create` and
the publication of its event are (`skipped` by `publish`, `rejected` by the wrapper, `lost` with the
connection or the process); `msg` and `job` are the broker's messages and the running
consume callbacks. `Start`, `Connect`, `SetupChannel`, `Listen`, `LinkDown`, `StartTimeout` and
`Crash` are bootstrap, the connection events, the setup functions, the end of bootstrap and failures; `Insert`,
`InvalidateFails`, `Publish` are `create`; `Send`, `Confirm`, `PublishFails` the wrapper;
`Deliver`, `Decide`, `DecideFails`, `Fallback`, `FallbackFails`, `Ack` the callback around
`processTransaction`; `Settle` the broker. `disturbed` is history: the
transactions whose event the broker held, or was sent and had not confirmed (`UnderWay`), when a
connection or the process was lost. Decisions taken:

- A statement may fail before or after it took effect (`InsertFails`, `DecideFails`,
  `FallbackFails`).
- `isReady` follows the connection, not the channel: the server may listen, and `create` publish,
  before the setup functions ran (`Listen` does not wait for `channel`).
- On a disconnect the wrapper resends some of the unconfirmed messages and loses others
  (nondeterministic); the broker requeues whatever was delivered and not settled.
- A callback that outlives its channel calls `ack` on a closed channel, which throws; the
  `nack` in the catch block throws as well, and the unhandled rejection ends a Node 20
  process. A supervisor starts it again.
- Queue order is left out: callbacks run side by side, so no order reaches the worker.
- `disconnect()` never runs (no shutdown hooks); `updateStatus` of the service has no caller;
  a consumer cancel (`msg` null) is not modelled.

**TransactionList.** `table` holds rows in the order they become visible, which is taken for the
order of `createdAt` (`PageWalk` drops that assumption). The rank of a row counts the merchant's rows
from the newest down to it; `PageOf` takes the rows whose rank is between skip and take. A page is the set of
its rows: how they are arranged on it is for `PageWalk`, which keeps positions, and no property of the list
asks. `findAndCount` is two queries, rows first. `late` and `seen` are history.
The answer of a fill and the storing are one step: nothing another actor sees lies between.
A `get` may miss although the page is cached (`Miss`): `cache-manager` answers a failing one so.
The model needs only asynchronous `get`, `set` with a time to live and `del`. Whether Redis
or the in-memory store of `cache-manager` is behind them shows at a restart only (`redis.config.ts`
goes on without Redis when it cannot connect): `Restart` keeps the pages or loses them, and ends the
requests in flight. A store that changes between Redis and memory from one process to the next is
not modelled: pages left in Redis could then come back, for one time to live at most.

**System.** `order` says whose rows are stored and in which order; with the pipeline's `rows` it makes
the `table` of the list (`Table`). `Save` is the insert of both, `Answer` the invalidation with the
publication, `Die` every end of the process with the list's `Restart`, `Work` what the pipeline does
besides; `Ask`, `Serve` and `Expire` are the list's. `overwritten` is history: the transactions
whose outcome the catch block of `processTransaction` overwrote. `UpdateStatus` of the list has no
counterpart: `ImplementsList` shows that the worker, redelivered, failing or crashing, is one.

**RateLimiter.** A request passes the throttlers its endpoint does not skip, one after the
other; `checked` is the `now` taken before the counter is read. An entry is gone once its time
to live has passed. Addresses share nothing, so one is modelled. A request that arrives is a
fixed choice among those that have not: identities are arrival order. A call that fails rejects, as
the catch block expects (`CacheFails`), or is answered as a miss, as `cache-manager` 7 does
for `get` (`GetMisses`). `Restart` keeps the counters or loses them, and its requests are never answered.

**AuthSession.** A registration is the id of its row, a login or refresh that of the tokens it
signs. bcrypt reads 72 bytes, and a refresh token's first 72 are the JWT header and the first
half of the merchant's id, so `Compare` sees the merchant only. `validate` of the
strategy returns `userId` and `email`, hence no `sub` for `logout`. Handing out tokens that
other requests present, expiry at any time, and statements that fail before or after they took
effect are all included. Passwords are never changed by the code.

**PageWalk.** `TransactionList` reduced to one reader. A row has a `createdAt`, which need not grow
with the order in which rows become visible: one that commits late appears below newer ones. Rows
with equal `createdAt` may come in any order, another one for every query (`MayShow`). An
answer is the list of the first `n` rows, as of now (`ReadPage`) or earlier (`ReadCachedPage`);
`inOrder` remembers whether a page was older than the one before it. Then, and for a row that shares
its `createdAt`, a walk can miss rows: `WalkMissesNothing` says that nothing else can make it.

## Runs

| Run | Module / configuration | Shows |
|---|---|---|
| `pipeline_safety` | two creates, two message places, two callbacks, two faults | type correctness, `PendingIsAccountedFor`, `EventsReferToRows`, `UnackedHasOneCallback`, `DecidedOnce`, and the refinement of the ledger |
| `pipeline_liveness` | one create, the same places and faults | `CreatedIsDecided`, `BrokerDrains` |
| `pipeline_processed` | one create, one fault | refuted: `CreatedIsProcessed` (README.md:255); wrapper rejections and double update failures are left aside, so the fault itself is to blame |
| `list_safety` | two merchants, three rows with changing status, the first page, one reader | `OwnTransactionsOnly`, `MetaCoversData`, `HotPageComplete` |
| `system` | one transaction from POST to its outcome, one reader of the first page, two faults | `ImplementsList`, `ShownOutcomeStands`, `EventuallyFresh`, `ConfirmedIsShown` |
| `list_created` | two readers of the first page | refuted: `CreatedIsListed` (README.md:261) |
| `limiter_sequential` | four requests, one in flight, two windows, one and four throttlers | `AdmittedWithinLimit`, `BlockIsRespected` |
| `limiter_concurrent` | four requests, two in flight, one failing or missing cache call or a restart | `QuietClientAdmitted`, `RejectedOnlyAboveLimit` |
| `limiter_transactions` | the transaction endpoints | refuted: `RejectedOnlyAboveDocumented` (README.md:265) |
| `page_walk` | four rows with three creation times, pages of one or two | `WalkMissesNothing`, `EveryRowOnOnePage` |
| `auth_safety` | two registrations, three session requests, one failing statement | `EmailHasOneMerchant`, `SessionsCoexist`, `TokensComeFromLogin`, `RefusedOnlyForCause` |
| `auth_logout` | a login and a logout | refuted: `LogoutInvalidates` (auth.controller.ts:89) |

The refuted statements are findings: a connection lost around a create, or a crash right after its
answer, leaves the transaction PENDING for ever though the broker is back, a slow fill
brings the old first page back after the invalidation, the transaction endpoints carry the
auth throttle, and logout updates by an id that is undefined.

### Bounds

- Two creates, so that events can be confused; two places in the queue, so that a resent
  message and its original exist together; two callbacks, so that one that outlived its channel
  overlaps its successor; two faults, so that a crash can follow a lost connection.
- Two merchants, so that keys can collide; three rows, more than a page of two; a page size of 2
  stands for 10. A page that nobody clears, as create leaves all but the first, is what a failing `del`
  makes of the first in `system`; the offsets of further pages are in `page_walk`, and the proofs about
  the list and the system hold for any set of pages.
- Limits 4, 2, 3 and 1 for 100, 20, 50 and 10, in their order; a window of one or two ticks,
  since only whether a write falls into the window matters; enough requests to exceed the limit
  and to come back after the block.
- Four rows in pages of one and two: full, partial and empty last pages, up to four creates during
  a walk, ties and late commits on both sides of a page boundary; the proofs cover every number.
- One transaction, message place, callback and page, and two faults in `system`: an update reported as
  failed before or after a lost connection, a redelivery to the next process, a second outcome, a crash
  between a read and its fill. Two of anything else multiply the liveness graph beyond reach;
  what needs two is in the components' runs, which `ImplementsList` connects.
- Two registrations race for an email; a login, a refresh and a third session request are the
  shortest history in which one session could disturb another.

`CHECK_DEADLOCK FALSE` is set where the bounded requests, rows or time run out.

### Fairness

`Fairness` of the pipeline: the supervisor restarts the process (`Start`), the connection manager
reconnects (`Connect`, `SetupChannel`), bootstrap ends (`Listen`), the event loop carries an
accepted request and a started callback through (`Publish`, `Decide`, `Fallback`, `Ack` with their
failing variants), the wrapper sends, and the broker confirms, delivers and settles. `System` adds
that a list request which started goes on and that stored pages expire. It is weak throughout. No client has
to send a request and nothing has to fail or to stop failing, beyond the bound on faults.

## Proofs

`TransactionPipelineProofs` shows, for any sets of transactions, messages and callbacks and any
number of faults:

- `Invariance`: `Spec => []Inv`, where `Inv` adds to the stated properties what makes them
  inductive: how far a request is determines whether its row and event exist, a live callback's
  message is unacknowledged and about the same transaction, and what a callback has already
  written by the time it settles. Without the last part acknowledging could strand a PENDING row.
- `TypeCorrect`, `PendingAccounted`, `EventsHaveRows`, `OneCallback`: the invariants of
  `pipeline_safety`, from `Inv`.
- `OneOutcome`: `DecidedOnce`, from a second invariant, `Calm`, about every transaction that is not in
  `disturbed`, whatever happened to the others: its message and its callback exist only between the
  publication and the settlement, once, and its row is undecided until its callback decides it. A fault
  keeps this because whatever has a message, a callback or an unconfirmed publication becomes
  disturbed (`LossCalm`); before and after that nothing is left to redeliver.
- `Implementation`: initial states map to initial states of the ledger, every step to a step
  or a stutter.

The proof has one lemma per group of actions and per conjunct they can disturb.

`PageWalkProofs` shows for any number of rows, any creation times and any page size that the pages
partition the list (`PagesPartition`) and that a walk misses nothing (`NothingMissed`). Its invariant
says that after `page` pages every row with a `createdAt` of its own at a position read so far
has been seen; rows that come in between only push it further down. The arithmetic facts
about `Skip` and `TotalPages` are lemmas.

`AuthSessionProofs` shows the four properties of `auth_safety` and its types for any number of
registrations, session requests and faults (`OneMerchant`, `SessionsLive`, `TokensFromLogin`,
`RefusalsHaveCause`). The invariant adds that the stored token of a merchant was signed
for that merchant, that every request past its first step belongs to an existing row and goes
back to a login, and that a granted session's merchant has a stored token: since bcrypt sees no
more than the merchant in it, any stored token of the merchant will do.

`RateLimiterProofs` shows for any number of requests in flight, any positive limits and any number
of failing calls and restarts that nobody is rejected below the limit (`RejectionsAboveLimit`). The
invariant, `NothingCountedTwice`, bounds what a counter holds, and what a request has read
from it, by the number of requests that went past reading it; a block entry exists only where this
number is above the limit. Lost updates and forgotten counters only lower the count.

`RateLimiterWindowProofs` adds time. `PauseIsEnough` needs no more than the above: every
entry in the cache expires at most one window after a request that wrote it was last at work
(`EntriesHaveWriters`), so a request that nothing came before or during for longer finds no
counter and no block, counts 1 and is admitted (`AloneCountsOne`). The other two theorems are
about clients that wait for each answer, with no failing call (`Sequential`, which is how
`limiter_sequential` instantiates the bounds); without it both are false (see the divergences below).

- `BlockLasts`: `BlockIsRespected`. A block entry lives no shorter than the block it names
  (`BlocksOutlive`: `checked` is never after the write), whoever went on past a check found no block that
  lasts (`NoneFound`), and no later write shortens what a client was told (`ToldStands`): a block is
  written only by a request that found the former one over. So whoever passes the check that
  rejected another does so after that block (`Waited`).
- `WindowsHold`: `AdmittedWithinLimit`. The last throttler's counter is written in the step that answers,
  so it lives as long as the window the answer opens (`CounterLives`) and counts whoever is in it
  (`RecentCounted`, `WriterCounts`). The theorem assumes that "strict", the last of the four, has the
  least limit (`StrictIsLeast`), as the defaults of `rate-limiter.config.ts` have it. The assumption is
  needed: the counters of the throttlers before the last are written earlier than the answer, expire
  earlier than the window it opens, and TLC finds one admitted request too many where "default" has
  the least limit.

`TransactionListProofs` shows the list's properties for any merchants, rows, readers, page numbers and
page sizes (`OwnTransactions`, `MetaCovers`, `HotPageMissesNothing`). Ranks of a merchant's rows are
1, 2, ... up to their number, each once (`RankType`, `RankInjective`, `RankSurjective`), which gives
what a page holds (`PageIsSound`) and that a first page is full or holds every row (`FirstPageFull`). The
invariant says the same of a page from its query to the answer and in the cache: its rows are the
merchant's, each once, and fit, together with the rows skipped, into the rows there are while the count is
still to come and into its total afterwards; and unless an invalidation overtook it (`late`), a first page
on its way shows every answered create. An invalidation between query and fill is why the last part
needs `late`, and a create between the two queries why the first distinguishes the phases.

`SystemProofs` shows that the composition implements the list (`Implementation`): a step of the pipeline
inserts a row, answers a create, ends the process, or changes the status of a stored row to a final
one (`WorkShape`), which is the list's `UpdateStatus`; `OrderMatchesRows` keeps the refined table a
function of the two. `ListPromises` carries the list's theorems over to the system through the refinement.
`OutcomeStands` combines both invariants: whatever a page shows was shown before or is in the table now
(`VisibleStep` of the list), and a decided row changes only as the pipeline's `Calm` allows: `Updates` carries the
reason with every update, and the two histories keep it (`RowsChange`, `HistoryGrows`).

The assumptions are those of the modules: bounds are natural numbers, page numbers and sizes are positive,
the set of requests of the limiter is finite, `Null` is no row and no request; `SystemAssumption` repeats
for `System` what its components assume of faults, page numbers and page sizes.

Every invariant that a passing run checks, `DecidedOnce`, `RefusedOnlyForCause` and both refinements are
proved. Only model-checked: liveness (`CreatedIsDecided`, `BrokerDrains`, `EventuallyFresh`,
`ConfirmedIsShown`), which rests on fairness and is outside what the prover handles.

## Divergences without a run of their own

Seen in the models while they were written, each one change of a configuration or one formula
away:

- Overlapping requests exceed a limit: `AdmittedWithinLimit` fails with `MaxInFlight = 2`, and so it does
  with one failing call (`MaxFaults = 1`).
- A block can be left early: with three requests in flight a slow one replaces a block by a shorter one and
  another overwrites the counter with what it read before; one failing call is enough too. Both refute
  `BlockIsRespected`.
- The limits come from the environment. Where another than "strict" is the least, an endpoint without
  a decorator admits one request too many even without overlap: set `Limit` so in `limiter_sequential`.
- Every hit restarts the counter's time to live, so a client that never exceeds the limit in any
  minute can be blocked after a while; and requests sent after a block ended can be blocked
  at once, while the counter is still alive ("Total block time: 60 seconds", README.md:268).
- Endpoints without a decorator (the root, logout) run all four throttlers, so 10 per minute binds
  where README.md:267 says 100: `limiter_transactions` with `Endpoint = {"undecorated"}`.
- "Just one worker processing messages sequentially" (README.md:284): two callbacks are in phase
  "working" together after two creates, without any fault.
- A redelivery draws a second outcome over the first, also over one a client was shown: `disturbed` in
  `DecidedOnce` and `ShownOutcomeStands` names exactly when.
- "Only caching the first page with 10 items" (README.md:261): every page is cached, only that
  one is cleared. "Didn't enforce a max page size" (README.md:259): the DTO has `Max(100)`.
- The loser of two racing registrations is answered 500, where the controller documents 409
  (auth.controller.ts:51): the constraint's error is not mapped.
- `refreshToken` answers 401 'Invalid or expired refresh token' when the database fails.

- The order of the list is not total: rows with equal `createdAt` can be shown twice or not at all by
  a walk, with or without creates (`WalkMissesNothing` without `Unique`).

## Plan

Done: pipeline with ledger, list, their composition, pagination, limiter and authentication; proofs of
every safety property and of both refinements.

Left: an abstract limiter with one counter per window that the sequential one implements; how far
overlapping requests can exceed a limit, as a function of `MaxInFlight`; `System` with two readers if a coarser
pipeline is found that it still implements.

## Not modelled

- Logging, Swagger, CORS, the greeting of the root endpoint: output without state.
- Exception filter, response interceptor, validation and DTOs: stateless mappings; the ranges they
  enforce on `page` and `limit` are assumptions of the models.
- Environment and database configuration, migrations: settings and generated SQL; the constraints that
  matter are in the models of the tables.
- Merchants module: one read without a caller.
- Code without a caller or effect: `reset` of the limiter, `updateStatus` of the transactions service,
  `validateMerchant`, `disconnect` (no shutdown hooks are enabled).
- Timing beyond order (5 s of processing, 10 s of start-up) and several API processes:
  `docker-compose.yml` runs one.
