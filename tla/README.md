# A TLA+ verification of eventledger

eventledger is an event-sourced bank ledger in Go: accounts, deposits,
withdrawals and transfers, with Postgres as event store, an in-process bus, a
projector for the read models and a saga that settles transfers. This project
models it in TLA+, checks the models with TLC and proves with TLAPS every safety
property that the passing runs check: of the command side, the saga, the
projector, the API's idempotency, rate limiter and statement pages, and the store
in memory. Paths below are relative to `src/`.

## The system

| Component | State | Operations | Talks to |
|---|---|---|---|
| Account aggregate, `internal/domain` | none (pure) | `Apply`, `Replay`, decisions | – |
| Event store, `internal/eventstore/postgres.go` | tables `events`, `snapshots` | `Append`, `Load`, `saveSnapshot`, `HasTransferEvent`, `PendingTransferDebits`, `LoadUnprocessed` | Postgres |
| Store in memory, `internal/eventstore/memory.go` | streams, log, marks | the same, for tests | – |
| Command side, `internal/app` | locals of each call | the commands, `mutate`, `publish` | store, bus |
| Bus, `internal/bus` | bounded channel per partition, `done` | `Publish`, deliver, `Close` | handlers |
| Transfer saga, `internal/saga` | bounded queue, workers | `Handle`, `process`, `CatchUp`, `Close` | app, store |
| Projector, `internal/projection` | read-model tables, `processed_events` | `Handle`, `CatchUp`, `Apply` | Postgres |
| Queries, `internal/query` | none | `Balance`, `Statement`, `Transfer` | Postgres |
| HTTP API, `internal/api` | `idempotency_keys`, token buckets | handlers, `idempotent`, `Allow`, janitor | app, queries |
| Boot and shutdown, `cmd/api` | – | catch-up, start, SIGTERM | all |

A command loads an account (snapshot, then later events), decides, and inserts
the new event at the next version; `UNIQUE (aggregate_id, version)` makes one of
two concurrent writers fail and start over. The event is then published. The
saga picks debits off the bus and credits the destination or reverses the debit.
The projector sees every event before the saga does and keeps balances, statement
and transfers, each event in one transaction with its mark in
`processed_events`. A boot first projects what is not marked, then takes up
unsettled debits, then listens. Commands come in through a middleware that
reserves the request's `Idempotency-Key`, runs the handler and stores its answer.

What is hard in it:

* no lock is held between the queries of a command, so all of them interleave;
* the answer to a `COMMIT` can be lost;
* the process can die between any two calls, and only the tables survive;
* the saga's check for an earlier settlement is not in the transaction of the
  settlement;
* the bus drops events during a shutdown, and the saga both consumes from the
  bus and publishes to it;
* publication is not ordered with the append, so events reach the projector out
  of version order, and any one projection may fail;
* requests with one key overlap, clients hang up, which cancels every later
  query of the handler, and repeat requests whose answer they did not get;
* the rate limiter fills buckets only when they are used and forgets them.

What makes each part correct:

* aggregate and store: streams have no gaps, no prefix is overdrawn, snapshots
  equal the replay they replace and never go back;
* command side: each command is atomic and its answer true;
* saga: a debit has one owner, a transfer is settled once and in the end;
* projector: read models equal a fold of the projected events, in any order and
  however often delivered, and every event is projected in the end;
* queries: pages of a statement do not repeat or skip entries;
* idempotency: one execution per key, true answers, and a key does not stay
  reserved;
* rate limiter: no more requests pass than a token bucket lets through;
* bus: per-account order, no deadlock.

`PROJECT.json` lists the hazards at their lines, with the properties that
address them.

## Modules

| Module | Models |
|---|---|
| `Account` | `internal/domain`: events, `Apply`, `Replay`, decisions, business errors |
| `EventStore` | the table `events` as a value, the insert and the queries of `postgres.go` |
| `CommandSide` | `internal/app` over `postgres.go`, one step per query |
| `AtomicLedger` | abstract: a bank where commands act at one instant |
| `CommandSideRefinement` | the mapping from `CommandSide` to `AtomicLedger` |
| `TransferSaga` | `internal/saga`, the bus as it sees it, boot, crash and shutdown |
| `TransferSpec` | abstract: none → pending → completed or reversed |
| `ReadModel` | the projector's tables as values: `Apply`, `LoadUnprocessed`, `Balance`, `Transfer` |
| `Projector` | `internal/projection` with commands, bus, saga, boot, crash and shutdown |
| `Idempotency` | `idempotent`, `idempotency.go`, the command handlers' answers |
| `RateLimiter` | `ratelimit.go` |
| `TokenBucket` | abstract: buckets that fill as time passes |
| `Statement` | the pages of `Statement` while the projector inserts |
| `QueryApi` | `Statement` behind `RateLimiter`: `withRateLimit` |
| `MemoryStore` | `memory.go` next to the tables of `postgres.go` |
| `ReplayTheorems` | what replaying a stream gives, with and without a snapshot, and what decisions append to it |
| `CommandSideProofs` | the inductive invariant of `CommandSide` and what follows; it implements `AtomicLedger` |
| `TransferSagaProofs` | the saga's invariants, its refinement of `TransferSpec`, money conserved |
| `ProjectorProofs` | the projector's invariants, and `TransferSpec` as a client sees it |
| `IdempotencyProofs` | one execution per key, true answers |
| `QueryApiProofs` | the window bound, the refinement of `TokenBucket`, stable pages |
| `MemoryStoreProofs` | the store in memory answers as Postgres does |
| `CollectionTheorems` | sums over finite sets, queues and partitions, recursive functions, what is left of a filtered log |
| `MCCommandSide`, `MCTransferSaga`, `MCProjector`, `MCIdempotency`, `MCQueryApi`, `MCMemoryStore` | instances for TLC |

### Account and EventStore

An event is its envelope with the fields of all payloads merged; the owner is
reduced to whether it is blank. A stream is a function from versions to events,
because `UNIQUE` makes it one; nothing in that representation rules out gaps.
`Accumulated(base, rows)` is the loop of `Replay` as a recursive function. The
error of `Apply` for an unknown type cannot occur: only `NewEvent` with one of
six constants produces events. Balances are unbounded integers: at 10^8 cents
per event, `int64` overflows after 9·10^10 events on one account.

### CommandSide

`pc[p]` is the next query of goroutine `p`. `Begin` starts a command; `Open` or
`LoadSnapshot`, `LoadEvents` lead to the decision; `AppendOk`, `AppendAckLost`,
`AppendConflict` are the outcomes of `Append`; `Backoff` is the bottom of
`mutate`'s loop; `SaveLoadSnapshot`, `SaveLoadEvents`, `SaveUpsert` are
`saveSnapshot`; `Publish` is one turn of `publish`'s loop. `Fail` is any error of
a query (including a serialization failure) or the context ending during the
backoff, `SaveFail` the same within the best-effort snapshot. `Crash` keeps the
tables and forgets the rest. `published[a]` is the version of the account last
handed to the bus. `since[p]` is auxiliary: the length of the account's stream
when the command began. `ConflictsMeanProgress` compares it with the length now:
every conflict of a command, and its own commit, is an event added in between,
however long the stream was before.

`AtomicLedger` has balances, transfers and callers, nothing else. Its balances
are mapped to the sums of each stream's amounts, its transfers to the streams'
transfer events, and a command has been applied once its events are committed.

`Append` is one step, at its `COMMIT`: it runs in a transaction, and another
writer's insert of the same version waits for it. What the environment may issue
is restricted to what it can know: ids come from `NewID`, so they are fresh and
unknown until `OpenAccount` returns; the saga settles a transfer with its debit's
fields, one worker at a time (this is `OneOwner`, checked in `TransferSaga`).

### TransferSaga

Here load, decide and commit are one step, which `ImplementsAtomicLedger`
justifies; the query of `HasTransferEvent` stays a step of its own, and so does
the publication that follows a commit. `unpublished` holds the debits of clients
inside `StartTransfer`, `bus` the partitions (buffer plus the event being
delivered), `queue` the saga's channel, `resuming` the loop variable of `CatchUp`.
`step[w]` walks a worker through `process`. After SIGTERM (`phase = "stopping"`)
new calls of the workers fail and channels with a `select` on the context may
drop; `CatchUp` has no such `select`. `Exit` is the end of `main`.

With `Failures` any call may fail without effect, or commit and lose its answer.
A commit sent by a process that dies is taken to have reached the database before
the next boot reads it. The projector, the other handler of the bus, publishes nothing and
reports no error to the bus, so it only delays deliveries and is left out.
Conflicts with deposits and withdrawals are covered by `Failures`
(`ErrTooManyConflicts` is a technical error to the saga).

`abandoned` is auxiliary: debits this life of the process has given up, because
`StartTransfer` got an error for a commit that took effect or because the
reversal failed ("will retry on next boot"). `NoOrphans` says that these are the
only unsettled debits nobody holds, and that a boot leaves none. `lost` is
auxiliary too: transfers credited by a commit whose answer was lost. These are
the ones `saga_double_settlement` is about; `MoneyConserved` and the mapping to
`TransferSpec` except them and nothing else.

### ReadModel and Projector

`ReadModel` holds the four tables in one record and `ApplyTx`, one transaction of
`Projector.Apply`: nothing if the event is marked, nothing if `applyEvent` fails,
else the row, the statement entry, the transfer and the mark together.
`applyEvent` fails when `bump` meets no row and when the counterparty is not a
UUID (`Malformed`), because `statement` casts it. The settlement's `UPDATE` of
`transfers` does nothing when there is no row, and does not fail.

`Projector` puts it into the service. A command is one step up to its commit;
`unpublished` holds the batches between commit and `Publish`, one event at a time,
so two writers of one account publish in either order. `bus` has the partitions,
`Deliver` runs both handlers in their order. The saga is `process` without its
counting of attempts: `handed` are the debits it has to credit, `reversing` those
whose credit it gave up. `Credit` is a call of `CreditTransfer`: done, refused, or
committed with the answer lost, upon which `process` tries again or, after its last
attempt, compensates; in `CreditFails` the database fails all the attempts left.
`Reverse` and `ReverseFails` are the compensation, the latter left to the next boot.
So a transfer may be settled twice here too. A commit whose answer is lost is never
published. `Boot`, `CatchUp` (one event a step),
`CatchUpFails` (`fatal`) and `Serve` are the start of `main`; after `Shutdown` all
of the projector's transactions fail and `Publish` may drop; `Exit` waits for the
partitions to drain. `known` keeps commands to account ids that `OpenAccount`
returned; a transfer may name any id as its destination, opened or not, but none
that is being opened. `missed` is auxiliary: events this life will not project.
`MaxFaults` bounds failed calls, lost answers, crashes and signals together.

`TransferRowsFollowSpec` maps the row of a transfer to `TransferSpec`'s status. A
transfer that the log both credits and reverses is the exception
(`SettledTwice`): its reversal is projected first, and the next boot, which finds
the credit nobody published, turns `reversed` into `completed`. The mapping takes
the two final statuses of such a transfer for one, so the property still says that
it is pending once and then final for good, not that it keeps the final status a
client polled: it does not, a consequence of the double settlement below.

Transactions of the projector are serial in the model. In the code those of two
partitions overlap, but touch different rows: an account belongs to one
partition, a settlement is recorded after the projector was through with its
debit, well or not, and of two settlements of a transfer the first was never
published, so only a boot projects it, alone.

### Idempotency

One goroutine per request goes through `Insert`, `Select`, the command, `Complete`
and `Reply`. The command is one step with one of three results: it takes effect
and makes up an id (`Succeed`), it is refused (`Refuse`), or a call fails with the
commit done or not (`Break`). `Faults` chooses among clients that hang up, which
cancels the context of all later calls, failing queries and crashes. A status is
what `writeError` and the handlers give, a body is 0 or the number of the
execution, which stands for the id in it. Answers are small and held back by
`net/http` until the middleware returns, so a client that got an answer was there
during `Complete`. Nothing in the repository deletes keys, so the `SELECT` of
`Reserve` finds its row. Retries of a client are requests like any other.

### RateLimiter and TokenBucket

`Allow` and a sweep hold the mutex and are one step each. No tick passes a sweep
that is due, which the janitor's ticker justifies to within one of its periods. Time is in ticks,
tokens in fractions, of which a request costs `cost`. The refinement mapping
gives each client the level its bucket would have if `Allow` were called now, and
a full one if there is none. That the limiter implements `TokenBucket` rests on
`Idle * rate >= burst` (`RateLimiterAssumption`): an idle bucket is full by the
time it is forgotten. In the code 300 s at 50 tokens per second against 100.
Floats are taken as exact.

### Statement, QueryApi and MemoryStore

In `Statement` an entry is its `occurred_at`. Entries of one account have distinct
times, because a command decides on the account's last event, at least a round
trip to the database after it was made. `Project` inserts any entry not there
yet, so an old one may appear behind the cursor or before it. `Newest` is the
`ORDER BY ... LIMIT`, by rank: the i-th row is the one that i - 1 others precede. `QueryApi` puts the
reader behind `withRateLimit`: a page is read if `Allow` says so, else it is a
429 and the client asks for the same page again, while other requests of both
clients draw on the buckets.

`MemoryStore` issues each call to both stores and compares answers. Its calls are
those of the command side: batches decided on the account at some version it has
had. `Malformed` are ids that are not UUIDs, which the API passes on as it gets
them. There the stores differ: `Postgres.Load` and `Postgres.EventsByAggregate`
fail with a syntax error, as `aggregate_id` is a column of type `uuid`, where
`Memory.Load` returns `ErrAccountNotFound` and `Memory.EventsByAggregate` nothing.
A client gets 500 from one and 404 from the other, and the saga, for which only
the second is a business error, compensates a transfer to such an id at once with
`Memory` and after its retries with Postgres. `MemoryMatchesPostgres` claims equal
answers for UUIDs, and for other ids only that no command gets past `Load` on either.
The stores also differ in calls no command issues: `Memory.Append` refuses an
expected version ahead of the stream, where Postgres would leave a gap; it answers a
malformed batch with `ErrConcurrency`, and keeps in its log the events that precede
the malformed one; and an empty batch on a stale version is a conflict to it and
nothing to Postgres.

## Runs

| Run | Instance | Shows |
|---|---|---|
| `commands` | 2 goroutines, 2 accounts, openings with and without deposit, deposits, withdrawals, one transfer with credit and reversal, refusals, commands until version 4, 2 attempts, snapshot every 2 versions | type, contiguity, no overdraft, faithful and monotone snapshots, conflicts mean progress, locals consistent, commands terminate, implements `AtomicLedger` |
| `publish_order` | 2 goroutines, 1 account | **violated**: events of an account published out of version order |
| `saga_failures` | 2 transfers, 2 workers, 2 partitions, queue of 1, 2 attempts, `Failures`, fairness | one owner per debit, no orphans, no double credit or reversal, money conserved, implements `TransferSpec`, every transfer settles |
| `saga_double_settlement` | 1 transfer, 1 worker, `Failures` | **violated**: credited and reversed |
| `saga_backpressure` | 3 transfers, 1 worker, partition and queue of 1 | **violated**: transfers stay pending for ever |
| `projector_failures` | 2 accounts on 2 partitions, 1 transfer, commands until 4 events, 3 faults, fairness | balances and statements are the fold of the projected events, redelivery and reordering are harmless, nothing is forgotten, transfer rows follow `TransferSpec`, but for which of two final statuses, every event is projected, the service recovers |
| `projector_stuck_pending` | as `projector_failures`, 2 faults | **violated**: a settled transfer shown as pending for good |
| `projector_boot_loop` | 1 account, a destination that is no UUID, 1 fault | **violated**: the service never comes back |
| `idempotency_faults` | 3 requests at a time, 1 key, 2 payloads on two routes, all faults | one execution per key, answers true, stored answers stay |
| `idempotency_abandoned` | 2 requests at a time, clients hang up | **violated**: 409 for ever |
| `query_api` | 2 clients, buckets of 1⅓ tokens, ⅔ of a token per tick, 5 ticks, idle after 2, sweep at every tick; 3 entries, pages of 2 | implements `TokenBucket`, window bound, buckets are forgotten, pages are stable |
| `memory_matches` | 2 accounts of up to 3 versions, 1 transfer, an id that is no UUID | both stores answer alike on accounts, and let no command through on the other id |

Bounds. `MaxVersion` stops new commands on a stream of that length; commands in
progress still finish. Two writers, streams of up to five versions and a snapshot
every second one are enough for a writer to be overtaken twice and give up, for a
`Load` to see a snapshot newer than when it began, and for two `saveSnapshot`s to
race; the proofs cover any number of writers. Two attempts stand
for 5 (and for `creditRetries` = 3): the first, and the last, which behave
differently. Two workers and a queue of one are enough for a full queue, for two
transfers in one order on the bus and another in the workers, and for a worker
busy while the other is not. Amounts are 1 cent with 1 cent of funds, so each
withdrawal competes for the whole balance. Four events (and the settlement and
publications that follow) are enough for an opening with deposit, two movements
published out of order, or a transfer with its settlement, and three faults for a
projection that fails, a crash, and a failure or crash of the boot that follows.
Three requests with one key are an owner, a
rival and a retry after the owner has gone. Five ticks see a bucket drained, forgotten and made anew, and three entries a
full page, a short one, and insertions on both sides of the cursor. `MaxVersion`,
`MaxEvents`, `MaxFaults` and `MaxTime` are bounds of the models, not of the code.
Goroutines are
interchangeable and a symmetry set, except where liveness is checked; so are the
accounts of `MemoryStore`. In `commands` TLC tells states apart without `published`
(`VIEW Unpublished`), which no guard reads and only `PublishedInOrder`, a property of
another run, mentions.

Deadlock. The command side may stop: once every account has reached `MaxVersion`
nobody issues commands any more, so its configurations do not check deadlock.
The same holds for the projector once `MaxEvents` and `MaxFaults` are used up.
`MemoryStore`, `QueryApi` and `Idempotency` always have a step: a call, a request.
The saga's check it too: a service that is up can always crash, one that is down can boot.

Fairness. The command side needs none: `CommandsTerminate` bounds the steps a
command still has and says that each one brings the bound down. That every
command returns then needs only what Go and Postgres give, that a goroutine's
next query ends, with a result or at the deadline of the request's context, and
room on the bus for `publish`.
`TransferSaga!FairSpec` is weak fairness of each worker, each partition, each
client's pending publication, the boot (an operator restarts the service) and
its exit. Clients, crashes and signals have none. `Projector!FairSpec` is weak
fairness of what the service does by itself, the boot included; faults
are finite in number, so it stays up in the end, unless a boot fails.
`Idempotency!FairSpec` has weak fairness of each handler and, as assumptions on
the environment, strong fairness of a client's retry and of a command's success
when it is run again and again; `RetriesAreAnswered` further asks that clients in
the end wait for their answers. `EveryTransferSettles` asks
that the service stays up from some point on; without that, every attempt could
be cut by the next crash.

### The six violations

* `publish_order`. Writer 1 commits version 2, writer 2 commits version 3 and
  publishes it, then writer 1 publishes version 2. The bus keeps the order of
  publication within a partition (`internal/bus/bus.go:4`, README guarantee 3),
  and that is not the order of versions.
* `saga_double_settlement`. The `COMMIT` of the last credit attempt takes effect,
  its answer is lost; `process` compensates, and `ReverseTransfer` asks only
  whether the transfer was reversed. The money exists twice. In the read model
  (`Projector` has the same case) the reversal is published and projected, clients
  poll `reversed`, and the next boot projects the credit, which nobody published: its
  `UPDATE` sets `completed` whatever the row says.
* `saga_backpressure`. A worker holds a committed credit and waits to publish it
  on a full partition; the partition's goroutine waits for room in the saga's
  queue; the queue is full and its workers are all in `publish`. Only a signal or
  a crash resolves it. The code's sizes (1024 events per partition, 1024 in the
  queue, 4 workers) make it rare, not impossible.
* `projector_stuck_pending`. The projection of a debit fails once and is logged;
  the saga, next in line, settles the transfer; the settlement's projection
  updates no row of `transfers`, and is marked. The next boot projects the debit
  and inserts `pending`. Balances and statement are right all the same
  (`ReadModelsFaithful`).
* `projector_boot_loop`. `StartTransfer` debits for any destination; the saga
  reverses, as for any account that does not exist. The debit's projection fails
  at the cast to `uuid` and is logged. The next boot finds it unprocessed,
  `CatchUp` fails, `fatal`, and so does every boot after it.
* `idempotency_abandoned`. The owner's client hangs up; `Complete` uses the
  request's context and fails; the row keeps status 0. A crash or a failed query
  between `Reserve` and `Complete` does the same.

A neighbour of the last one has no run of its own. A command that gives up after its
retries answers 409 with `Retry-After`, without any effect; `idempotent` stores that
answer like any other and replays it to the retries it asked for.
`RetriesAreAnswered` is violated there too, with `Outcomes` set to
`{"ErrTooManyConflicts"}` and no faults: the command is never run again with that key.

## Proofs

The proofs hold for every value of the constants that the `ASSUME`s of the models
allow, and so for any number of accounts, goroutines, workers, partitions and
requests. Bounds such as `MaxVersion`, `MaxEvents` or `MaxTime` are arbitrary
naturals there.

| Theorem | States | From |
|---|---|---|
| `CommandSideTypeOK`, `StreamsHaveNoGaps`, `NeverOverdrawn`, `SnapshotsAreHistory`, `ConflictsAreProgress`, `CommandsHoldHistory` | `TypeOK`, `VersionsContiguous`, `NoOverdraft`, `SnapshotsFaithful`, `ConflictsMeanProgress`, `LocalsConsistent` | `IInv` |
| `SnapshotsNeverRegress`, `CommandsEnd` | `SnapshotsMonotone`, `CommandsTerminate` | `IInv` |
| `CommandSideIsAtomic` | `ImplementsAtomicLedger` | `IInv`, `Claims` |
| `SagaTypeOK`, `DebitsHaveOneOwner`, `NoTransferIsForgotten`, `SettlementsAreIdempotent` | `TypeOK`, `OneOwner`, `NoOrphans`, `NoDuplicateSettlement` | `SagaInv` |
| `SagaImplementsTransferSpec` | `ImplementsTransferSpec` | `SagaInv` |
| `MoneyIsConserved` | `MoneyConserved` | `SagaInv`, `MoneyInv` |
| `ProjectorTypeOK`, `ReadModelsTellTheLog`, `DeliveryIsIdempotent`, `NoEventIsForgotten`, `PolledTransfersFollowSpec` | `TypeOK`, `ReadModelsFaithful`, `RedeliveryHarmless`, `NothingForgotten`, `TransferRowsFollowSpec` | `ProjectorInv` |
| `IdempotencyTypeOK`, `KeysExecuteOnce`, `ClientsAreToldTheTruth`, `StoredAnswersNeverChange` | `TypeOK`, `OneExecution`, `AnswersTrue`, `StoredAnswersStay` | `IdInv` |
| `WindowsArePaidFor`, `IdleBucketsGo`, `LimiterIsATokenBucket` | `WindowBound`, `BucketsAreForgotten`, `ImplementsTokenBucket` | `LimiterInv` |
| `ApiIsLimited` | the same three of the API, pages included | `LimiterInv` |
| `PaginationIsStable` | `PagesAreStable` | `PageInv` |
| `MemoryIsPostgres`, `CatchUpInOrder` | `MemoryMatchesPostgres`, `UnprocessedInOrder` | `StoreInv` |

The assumptions: the empty id is no id and the amount limit is a natural
(`AccountAssumption`); requests are commands, `maxRetries` and `SnapshotEvery` are
positive (`CommandSideAssumption`); amounts are positive and within the limit,
queues have room for one event, each account hashes to a partition, and finitely
many accounts are opened beforehand (`TransferSagaAssumption`,
`ProjectorAssumption`); destinations that are no UUID are account ids all the same
(`ReadModelAssumption`); payloads are a route and a body
(`IdempotencyAssumption`); the idle time is long enough to fill a bucket
(`RateLimiterAssumption`), as it is in the code: 5 minutes, against a burst of 100
at 50 a second; a page has 1 to 100 entries, as `Statement` sees to, and the times
of entries are a finite set, of any size (`QueryApiAssumption`); the amounts of
the calls to both stores are within the limit (`MemoryStoreAssumption`).

### Command side

None of the safety properties is inductive alone: that a commit leaves no negative
balance depends on the writer's aggregate, which may be stale; that a conflict is an event since the command began depends
on that aggregate being at least as old as the conflict. `IInv` therefore adds

* `StreamsWellFormed`: each row sits at its version, and exactly the first opens
  the account;
* `LocalsConsistent`: the aggregate a command holds is the account's state at
  some past version, and the events it is about to insert are what it decided on
  exactly that aggregate.

The step that matters is `CommitKeepsHistory`: if the stream has grown since the
aggregate was read, version `acc.version + 1` exists and `UNIQUE` refuses the
insert; so when the insert succeeds the aggregate is the last state, the decision
was taken on it, and appending the event keeps every earlier state and adds one
with a balance that the decision checked. `CommandsEnd` shows that every step of
a command lowers `StepsLeft`, case by case.

`ReplayTheorems` supplies the facts on replay. A recursive function over
versions is not open to induction in the prover directly, so
`AccumulatedIsTheLoop` derives its recurrence from the definition, by building
runs of the loop of every length, and `ReplayOnSnapshot` shows that replaying the
later rows on the state at version `v` gives the state at the end. That is why
`Load` may use a snapshot, even one newer than the command's first query.

For `AtomicLedger` the same argument says more: as the decision was taken on the
last state, whose balance is the sum of the stream's rows (`SumOfStream`), it is
the ledger's verdict at the commit (`VerdictIsDecision`), and the rows inserted
are the ledger's effect (`CommitTakesEffect`). A refusal is the verdict at the
second query of `Load`. That no transfer is settled twice does not follow from
`UNIQUE`, for the debit and the settlement are on two accounts; it needs
`Claims`: commands on one transfer never run at the same time, and what
`HasTransferEvent` found missing is missing until its finder's commit. `Claims`
rests on what `MayIssue` says of the callers, which for the saga is
`DebitsHaveOneOwner`.

### Saga

`SagaInv` says where an event can be: `OnePlace`, that the pending publications,
`CatchUp`'s list, the partitions, the queue and the workers' hands are disjoint and
each holds an event once. So at most one worker works on a debit, and `Answers`
can say that what `checkCredit` or `checkReverse` found holds until the append,
that a transfer in the process is unsettled unless the answer to its credit was
lost, and that only such a transfer can be both credited and reversed. `Kept` is
`NoOrphans` on the places instead of the transfers. `MoneyInv` states conservation
as one equation of sums; each commit moves an amount from one side to the other.

### Projector

`ProjectorInv` ties the tables to the log: `Faithful`, that balances, statement and
transfers are what the processed events add up to, in whatever order they were
applied; `Flight`, the counterpart of `OnePlace`; and `Ahead`, that what is not
processed is in `CatchUp`'s list during the boot, and later on its way or known to
have failed. `TransactionIsFaithful` is the step of the transaction, and
`UnprocessedRows` says that `LoadUnprocessed` leaves nothing out. For
`PolledTransfersFollowSpec` the status a client sees depends on the order in which
a debit and its settlements are projected. What is needed of the log is that no
transfer is credited after its reversal (`LogGoesOn`). `Flight` says so of the
saga's debits, on their way or in its hands, with `OneDebit`, that a transfer is
debited once and so has no second debit to credit. A transfer settled twice is
therefore credited first, and counts as settled twice from its reversal on, that is
before a row can say `reversed`: a commit never changes what the mapping makes of a
row (`RecordingIsNotPolled`), and a transaction takes it one step on at most
(`TransactionGoesOn`).

`DeliveryIsIdempotent` follows from `Faithful` as well: what was processed decides
the balances and the statement (`TablesFollow`), so two orders of delivery that
process the same events leave the same rows, and a marked event changes none. The
rows of `transfers` are not part of it: their order matters, which is
`projector_stuck_pending`.

### Idempotency and rate limiter

`IdInv`: the owner of a key has the row to itself (`Ownership`); what was executed
was reserved, with that payload, once (`Executions`); and an answer is true of the
request and stays so (`Truth`). The last is not about the past only: a refusal
must stay true, so `Hopeless` says that nobody can come to the command with that
key any more.

`WindowBound` speaks of all windows and forgets the level of the bucket. `Paid`
adds it: what passed since `s`, together with what the bucket would hold now, is
paid for by a full bucket and the inflow since `s`. That a sweep loses nothing is
where the assumption on the idle time is used: a bucket that is swept is full.

### Statement pages

`PagesAreStable` says nothing of the cursor, on which the next page depends.
`PageInv` adds it: everything read is at the cursor or newer, and everything there
was at the start has been read or is older than the cursor. A page that keeps this
is one as `IsPage` describes: newest first, leaving out nothing newer than its last
row, and nothing at all if it is short. That the `SELECT` returns such a page
(`PageRows`) is an argument on ranks: a row's rank, the number of rows newer than
it, is different for every row and less than their number, so every rank is taken
(`EveryRankTaken`), and a newer row has a lower one. Insertions change neither
what was read nor what is older than the cursor from the start.

The limiter's theorems are about `RateLimiter`; `ApiIsLimited` carries them over
to `QueryApi`, whose steps are steps of the limiter or leave it alone.

### Store in memory

`StoreInv`: the streams in memory are the rows of the table, without gaps
(`SameStreams`), and the log holds the same events, each account's in the order of
versions (`SameLog`). A batch continues the stream from the version it was decided
on (`BatchesFit`, with the lemmas on decisions that the command side's proof also
uses). If that is the last version, both stores take it; if not, its first event
has a version that exists, so `Memory` sees a longer stream and Postgres runs into
`UNIQUE` (`SameAnswers`). So both change alike or not at all.

### Sums and recursive functions

The provers have no induction over data. `CollectionTheorems` derives what is
needed of sums over finite sets (`TotalRemove` and what follows from it) and of
functions defined by recursion on naturals (`LoopExists`) from the definitions, by
the least counterexample. `WhatIsLeft`, that a loop which skips some rows of a log
keeps the others in their order, serves both stores' `LoadUnprocessed`.

### Only model-checked

Liveness under fairness is out of the prover's reach and stays with TLC:
`EveryTransferSettles`, `EveryEventProjected`, `ServiceRecovers` and
`RetriesAreAnswered` (the last only as a violation). For the saga the safety half of
the argument is proved: a debit nobody holds is settled or was given up
(`NoTransferIsForgotten`), so what TLC adds is that holders make progress. The
same goes for the projector with `NoEventIsForgotten`. The six violations are
counterexamples of TLC.

## Not modelled

* `waitForDB`, `migrate`, `envOr`, logging and the health check: I/O without state
  of the program's own.
* Routing, JSON, `validateIdempotencyKey`, `clientIP`: pure functions of one
  request. A malformed key or body that is too large is refused before anything
  happens.
* `MemIdempotency`: tests only, one map under a mutex.
* `last_version`, `updated_at`, `open` and the texts in the read models: written,
  and in part returned, but nothing decides on them.
* A shutdown while the projector catches up: it ends the process through `fatal`,
  as `CatchUpFails` and `Crash` do.
* The commands' retry loop, the saga's queue, workers and count of attempts, and the
  bus's bounds in `Projector`:
  `CommandSide` and `TransferSaga` have them.

## State of the project

Every component with state of its own is modelled and checked, and every invariant,
action property and refinement of a passing run is proved for all values of the
constants. Liveness is checked on the instances of the runs only. When the code
changes, the definitions to revisit are those that `PROJECT.json` maps to its
lines.
