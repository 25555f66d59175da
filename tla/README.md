# A TLA+ development for AP3X-Solana

This directory holds TLA+ specifications of AP3X-Solana, TLC configurations that
check them on small instances, and TLAPS proofs of the results that matter most.
Everything is translated from the TypeScript under `src/packages/`; `PROJECT.json`
names, for each definition, the lines it stands for.

To repeat a run: `tlc -config OutboxSingle.cfg MCWebhookOutbox`. To repeat the
proofs: `tlapm OutboxProofs.tla`, and so for each module in `...Proofs` and for
`SequenceLemmas`; the longest takes five minutes.

## 1. The system

AP3X-Solana is a set of packages for automated trading on Solana. All of it
runs on Node: code between two `await`s is atomic, and anything may happen at an
`await`. So the processes of these specifications are promise chains and timers,
and their steps are the stretches of code between two awaits.

    chain --> geyser client / webhooks / backfill --> signal bus --> signal queue
                                                                         |
       portfolio <-- landed trades <-- strategy runtime  <---------------+
           |                              |     ^
           +--> position changes ---------|-----+
                                          v     |
              vault, assembly, fees --> executor +--> submitters (RPC, Jito) --> chain

### Inventory

| Component | State | Operations | What makes it hard | What makes it correct |
|---|---|---|---|---|
| Webhook receiver (`solana-webhooks/server`) | semaphore, requests in progress | `ingest` | requests run side by side; an insert fails half-way | a 200 means everything is stored; permits are conserved |
| Outbox table (`outbox/sqlite.ts`, `postgres.ts`) | rows: receivedAt, processed, attempts | insert or ignore, pending, markProcessed, markFailed | redelivery; writes from a stale batch; processes sharing a table | a processed row stays processed; attempts are bounded |
| Drainer (`outbox/drainer.ts`) | running, stopRequested, waiter, a timer, a cycle | start, stop, drainOnce, cycle, processOne | crash between emit and mark; two loops after stop/start | at-least-once; stop is quiet; every row settles |
| Helius driver (`drivers/helius`) | the webhook's configuration, last event time | subscribe, remove, reconcile, receive, normalize, health | two read-modify-writes at once | configuration as asked for; no record dropped |
| Executor (`solana-executor`) | in-flight map, attempts, submitter health | `submit`, retry, failover, confirmation | timeouts that race a landing; a send that failed but got through | one execution per intent; verdicts are true; every call settles |
| Bundle accumulator | open groups with a timer each | add, flush | timer against full group; one bundle stands for many calls | each call in one bundle, once |
| Strategy runtime (`solana-strategy`) | instance map, quarantine flags, listeners | register, deregister, start, stop, pause, resume, dispatches | tasks queued before a trip; hooks that throw; removal during a dispatch | order per instance; guards hold; deregister resolves |
| Instance queue | a promise chain | enqueue | rejections must not break the chain | FIFO, never stalls |
| Guards | windows of times, day and total PnL, peak | recordDecision, recordError, recordRealized, open positions | window edges, day change, resume | limits hold over any window |
| Backtest harness (`backtest.ts`) | pending signal, captured trades, PnL series | run a fixture, report | hooks queued behind the barrier | the report is complete and its series is the ledger |
| Signal queue (`signal-queue.ts`) | buffer, dedup map, subscribers | push, subscribe, unsubscribe, drain | the Map changes while it is walked; early returns | nothing lost but to overflow; order; no lost wakeup |
| Signal bus, producers (`bus.ts`, `producer.ts`) | producers, consumers, dedup, walks | register, dispose, emit, close | concurrent walks, deferred starts by id, close during a walk | who is registered is called; repeats have a cause |
| Signal sources | cursors, gaps, tasks | start, stop, updates, blocks, lines | late and repeated updates; stop in the middle of a batch | losses are reported; a walk is complete; ids agree |
| Portfolio store, accounting, reconciler | positions and lots in files | observe, rebuild, correct, applyLandedTrade, reconcile | read-compute-write with awaits between; failing writes | no lost update; lots add up; convergence to the chain |
| Portfolio reconstruction, backfill, catch-up | page cursor, kept signatures | page, fetch, replay | the head moves while paging; transactions withheld | exact ranges; lots true and equal to the balance |
| File-backed stores | a chain of saves per key | save, load, delete | crash between write and rename | a reader sees a whole value; saves in order |
| HTTP client (`solana-core`) | circuit, failures, probe flag | request, retry, abort | two requests at the half-open breaker, and one sent before it opened | a second probe has its cause; settles; never leaks the slot |
| RPC pool (`solana-connectivity`) | endpoint health, latency, cursor | call, pick, probe, pin | health changed by calls in flight | probes are spaced; an outage is probed |
| Geyser client | queue, stream, checkpoint, gap | subscribe, enqueue, drain, load, save, close | crash against checkpoint; drop-oldest; late updates; listeners that throw | checkpoint is honest of what came in time; each loss has its cause |
| Transaction stream | socket, acks, RecentSet | open, subscribe, notify, drop, retry, close | notifications before the last acknowledgement | no repeat in memory; reconnects are told |
| Vault | handles, encrypted records, reserve | addWallet, unlock, lock, rotateKey, signTransaction | handle used after lock; overlapping signatures | one live key; the reserve is kept by one caller |
| Transaction assembly, fees | account lists; a slot window | compile, sign, decompile; observe, tier | several lookup tables; late slots | a message reads back; a window is exact |
| Decoders: logs, IDL, SPL, Metaplex | none, or one record | parse, decode | logs cut short, old layouts, damaged accounts | nothing invented, hidden or misattributed |
| Metadata resolver | memory LRU, file cache, fetches | resolve | fetches of one URI ending in any order | what is served was fetched; LRU order |
| pump.fun market data, signals database | none; a table | reads, quotes, routes; ingest, as-of queries | the market moves between two reads; late rows | each vault read is of one moment, and the stale part is known; no lookahead |
| Paper backtester | trades, capital, slots | exits, replay, Monte Carlo | exits must not see the future; two engines | the engines agree; drawdown is the worst fall |

`PROJECT.json` lists these parts with their files and their status, and the
hazards of the code, each at the line where it bites, with the properties that
would catch it.

## 2. Modules

| Module | Models |
|---|---|
| `WebhookOutbox` | receiver, table and drainer together |
| `OutboxDelivery` | abstract: what the outbox promises per row |
| `OutboxProofs` | theorems about `WebhookOutbox`: with any number of loops, and with one |
| `PostgresOutbox` | several processes on one table |
| `HeliusDriver` | admin client, authentication, normalisation, health |
| `Executor` | executor, in-flight map, bundle accumulator, submitter health, the chain |
| `StrategyRuntime`, `TradingProofs` | runtime, instance queues, guards, use of executor and portfolio; theorems of it and of `Executor` |
| `Backtest` | the backtest harness: fixture, barrier, captured trades, report |
| `SignalQueue`, `SignalBus`, `SignalSources`, `SignalProofs` | the queue; the bus with its producers; the three sources; their theorems |
| `HttpClient`, `RpcPool`, `ConnectivityProofs` | retry loop and breaker; routing and endpoint health; their theorems |
| `GeyserClient`, `TxStream`, `StreamProofs` | the two live streams, with crashes and reconnects; their theorems |
| `HistoryWalk` | the four readers that page through a growing history; its theorem is in `StreamProofs` |
| `Accounting`, `Lots` | `reduceLots()` as functions; the ledger a sequence of trades makes |
| `Portfolio`, `StoreProofs` | portfolio store and reconciler over one file; theorems of it, of the file stores, the vault and the backtest |
| `FileStore`, `AtomicStore` | write-then-rename stores; abstract: saves take effect whole and in order |
| `PaperBook` | exit rules, replay and Monte Carlo of the paper backtester |
| `Vault` | one wallet under concurrent calls |
| `TxAssembly`, `PriorityFee` | compile, sign and read back; the fee window |
| `EventLogs`, `IdlDecoding`, `TokenAccounts` | logs and registry; accounts and events by IDL; SPL, Token-2022, Metaplex and holders |
| `MetadataCache` | the metadata resolver |
| `PumpMarket`, `SignalsDb` | reads and routing on pump.fun; the database of observed events |
| `ComponentProofs` | theorems of `PostgresOutbox`, `HeliusDriver`, `PumpMarket`, `SignalsDb`, `MetadataCache` and `Lots` |
| `Selection`, `SequenceLemmas` | `Only`, the filter of several modules; what it, flattening and a loop over a list do, proved |
| `MC...` | the constants of the runs, and the runs of several components |

In every module a definition between a `Mutant` comment and the original it
precedes is a faulty variant of that original; it is used by no specification
and serves to show that a property notices such a fault.

A run of several components (`MCTrading`, `MCSignalQueue`, `MCConnectivity`,
`MCStreams`, `MCStores`, `MCComponents`) puts together components that share no
state, each in its own variables, and gives a behaviour to one of them: the variable
`focus` says which (in `MCComponents` one of the constant `Foci`, so that `Components` and
`AssemblerLookups` share the module). That checks each component as a run of its own
would, and claims nothing of their composition. What one component sees of another (the executor's
answers in the runtime, a store's in a stream, the chain in all) is chosen freely
in the component's own module, so it covers whatever the other does. The parts the
code really interleaves are modelled in one module: receiver, table and
drainer; executor, accumulator and chain; runtime, queues, guards and
portfolio reads; bus, producers and consumers; store and reconciler; geyser
client, backfill and checkpoint; harness, queue, runtime and simulated executor.

### WebhookOutbox

State: `rows` is the table; `request` the `ingest()` calls in progress and
`available` the semaphore; `running`, `stopRequested` and `waiter` the drainer's
fields; `loop` one record per timer chain or `drainOnce()` call, with the await
it is at; `acked` and `emits` are history.

| Action | Code |
|---|---|
| `Deliver`, `RejectSaturated`, `InsertNext`, `InsertThrows`, `Respond` | `ingest()`: take a permit or answer 503, one insert per event, `finally` |
| `Start`, `Stop`, `DrainOnce`, `RunCycle`, `EndCycle` | the drainer's lifecycle and its timer chain |
| `Query`, `NextRow`, `Emit`, `EmitThrows`, `MarkProcessed`, `MarkFailed` | `cycle()` and `processOne()`, split at each await |
| `DbThrows` | a store call rejects: the cycle ends, the chain goes on |
| `Crash` | the process dies at any point; rows stay, all else is lost |
| `Tick` | time passes |

The payload of a row is abstracted to the outcome it leads to (`Kind`: ok, no
driver, corrupt, unmappable) and the number of its events. The batch a loop
works on is a snapshot, as in the code: it may be out of date when it is used.

### PostgresOutbox and HeliusDriver

`PostgresOutbox` takes the same statements one level up: several processes with a
pool each (`InitBegins`, `InitReturns`, `InitFails`, `CloseOutbox`) insert and drain one `table`
without a lock, each with a `batch` of its own; `shared` and `unmarked` record the
causes a repeat may have: two batches held the row, or an update of it was rejected or lost when its
process died between the emission and the mark (`ProcessCrashes`). `HeliusDriver` keeps the configuration Helius holds
(`webhook`) and each admin call between its GET and its PUT (`admin`), the records
of an accepted request and what `normalize()` makes of them, and the times
given to the health probe.

### Executor

State: `call` holds for each `submit()` the attempt, the await it is at and its
result; `inFlight` the map from intents to executions; `failedAt` the health
trackers; `group` the open bundles and `flights` the bundles being sent; `chain`
what became of each signed transaction, and `outcome` (history) what the
executor concluded of each attempt. The submitters an attempt or a bundle has still to
try are positions (`subs`) in the intent's preferences or in `JitoOrder`, taken from the
first on. The network is external: a submitter that
throws may have passed the bytes on, and a transaction that was sent may land,
revert or expire at any moment until the end. `Submit` joins the execution in
flight; `PrepareFails`, `NoSubmitter`, `Route`, `SendOk`, `SendFails`,
`SendExhausted` are one attempt on the single path; `AddToBundle`, `FlushTimer`,
`FlightOk`, `FlightFails`, `FlightExhausted`, `FlightUntipped` the bundle path;
`PollAsk`, `StatusLanded`, `StatusReverted`, `StatusNothing`, `RevertedLogs`,
`PollTimeout`, `ConfirmThrows` the confirmation; and `EndAttempt` is the end of
each of them: another attempt or a result for everybody who shares the slot.

### StrategyRuntime and Backtest

State: `instances` is the map, `queue` the promise chain of each record (its
head is the running task, `pc` the await it is at), `quarantined` and `guard`
the guard's flag and windows, `dereg` the `deregister()` calls under way,
`tripping` the `onShutdown` hooks `tripGuard()` started outside the queue,
`subscribed`, `tickTimer`, `timers` and `listeners` what `start()` attached;
`realized` is the portfolio's PnL per wallet. A signal task goes through
`HookDecides`, `AddressResolves`, `SubmitResolves`, `Adapt` and, per trade,
`ReadBefore`, `Apply`, `ReadAfter`, then `CheckPositions`. Any of the awaited
calls may throw (`HookThrows`, `TaskThrows`). Filters are a relation between
signals and records; an intent is the pair of signal and instance. The clock never
goes backwards, so the times a guard keeps are in order and the filter on a window
drops a prefix of them: `Recent` is what remains behind it, and has no value if what
the filter keeps were anything else.

`Backtest` runs the same chain as the harness wraps it: `FixtureSignal`,
`FixtureEnd` and `DispatchSignal` feed the instance queue (`tasks`, `step`), the
wrapped strategy leaves its signal in `pending`, the simulated executor takes it
(`captured`, `decisionLog`), trades go through the lots of `Accounting`, and
`StopRuntime` is the barrier after which the results are read.

### SignalQueue, SignalBus and SignalSources

`SignalQueue`: `buffer`, `dedup` and `subscribers` are the fields; `current`, `handling`
and `rest` are the dispatch loop: the signal it holds, the handler it awaits and
the part of the Map it has still to visit (names added during the walk are
visited, names removed are not). The rest is history. Each handler call is one
await; a handler that throws is reported and the walk goes on, so resolving and
rejecting are one action, `HandlerEnds`. Listeners of the emitted events are
taken not to throw.

`SignalBus`: `producers` and `consumers` are the Maps, `wrapped` the state of each
producer object with the start microtasks queued for it, `walks` the emissions
under way, each with the rest of its walk. `StartProducer` and `SkipStart` are the
microtask, which looks up the id and not the object; `CloseBus` and `StopsSettle`
are `close()`.

`SignalSources`: the geyser source's `arrived` and `gaps`, the historical source's
`walk` (batches of blocks, with stops between and during the awaits) and the
fixture's `replay` read one chain with skipped slots and events that do not decode. A line
that does not parse ends the replay in `error` (`FixtureThrows`); a file that cannot be read
or unpacked leaves it `lost`, with neither `end` nor `error` (`FixtureFails`).

### HttpClient and RpcPool

`HttpClient` keeps the circuit, its failure count, the age of its opening and the
probe flag, and for each request the await it is at: `Request` is admitted by
the pre-check or `RequestRejected`, then `FetchOk`, `FetchFinal`,
`FetchRetryable` and `DelayOver`; `CallerAborts` fires the caller's signal. History:
`probes` are the requests admitted while half-open that are still out, `overtaken` those of
them that lost the slot to the settlement of a request admitted before.
`RpcPool` keeps, per endpoint, health, streak, cooldown and the time to its
probe; a `Call` picks and claims, and `Answered`, `Failed` and `RateLimited`
arrive when they arrive, at whatever the endpoint has become by then.

### GeyserClient, TxStream and HistoryWalk

`GeyserClient`: the chain produces transactions and slots (`ChainTx`,
`ChainSlot`, `ChainSkips`), and transactions that come after the status of their slot, or of
later ones (`ChainLateTx`, `SendLate`); `sub` holds per subscription its queue, the update in
hand, the await of the drain loop (handler, gap backfill or checkpoint save) and its
`lastSlot`; `stored` is the checkpoint. `ListenerThrows` leaves the loop with what is queued,
until the next update starts it again; `CrashAndRestart` kills the process at any
point. `TxStream`: the socket, what the server serves and has acknowledged, the
retry delay and `RecentSet`. Both record in history what a consumer was handed
and told. `HistoryWalk`: one action per page, in which the chain may have grown
(`WalkLands`); `Replays` turns a wallet's changes into lots with `Accounting`.

### Portfolio, FileStore, Accounting and Lots

`Portfolio`: `file` is the position file, `mutex` the operations chained on it, each
with what it has read; `OpStep` is its next stretch between awaits, `WriteFails`
and `AuditFails` its errors; `PassReads`, `PassFetches`, `PassRebuilds` and
`PassEnds` a reconciliation. `FileStore` splits a save into opening the temporary
file, finishing it and renaming (`OpenTmp`, `FinishTmp`, `Rename`, `Unlink`), with
errors and crashes between; it implements `AtomicStore`, in which a save is one
step. `Accounting` is `reduceLots()` by its three methods with truncating division.

### Components without partners

`Vault` splits each call at its awaits: a call keeps what it has read, and a handle
shares its key buffer with a signing call, so that `LockWallet` zeroes it under the
signature (`SignedByItsHandle`). `PaperBook` grows a price series point by point, closes trades on it,
resamples them and plays a sample through both engines. `PumpMarket` moves the
market, the pool's virtual reserves included, between the requests of one read; `SignalsDb` ingests rows in any order and
evaluates the queries on the table. `TxAssembly` builds a message and reads it
back. `EventLogs` lets the runtime (external) execute, write its log line by line
and cut it, and the parser rebuild the invocations from the lines.
`TokenAccounts` and `IdlDecoding` write an account as its program does, then cut or
change it or upgrade the program, and decode. `PriorityFee` and `MetadataCache`
keep, beside the code's window and Maps, the whole history they must agree with.

Decoders work on cells: one cell stands for a scalar of several bytes (in
`IdlDecoding` a number is cells of base `Radix`, so that a cut inside a number is seen).

## 3. Runs

| Run | Result | States | Bounds | Shows |
|---|---|---|---|---|
| `OutboxSingle` | pass | 461,000 | 2 rows (2 events and 1; one is corrupt), 3 requests on 2 permits, 2 attempts, 1 loop, 1 crash, 1 database error | the service is sound, and implements `OutboxDelivery` |
| `OutboxOverlap` | pass | 97,000 | 2 rows, one unmappable, batches of 1, 2 loops, 2 starts, a `drainOnce` | the same rows under overlapping loops; `stop()` resolves; every row settles |
| `CallsAndGuards` | pass | 1,511,000 | 2 calls of one intent, 2 attempts, 2 RPC submitters and 2 unusable Jito ones, cooldown; 2 instances with 2 trades per transaction | shared and true verdicts, double landings only after ambiguity; books per guard |
| `BundlesAndQueues` | pass | 179,000 | 2 intents in one group, one tip, bundle of 2, 2 Jito submitters; 1 instance, 3 signals, 1 fault, 1 pause, 1 `deregister()` | bundles, order and limits; calls settle, queues drain |
| `SignalDelivery` | pass | 243,000 | queue: 2 ids, 3 pushes, buffer of 2, 3 subscribes, 1 `drain()`; bus: 2 producers of one id, 2 consumers, 2 emissions, 3 registrations; sources: 3 slots, batches of 2, 1 replay | nothing lost, repeated or reordered without its cause; stops are quiet; walks end |
| `Connectivity` | pass | 49,000 | 3 requests, 2 attempts, threshold 2; 2 endpoints, 2 calls, thresholds 1 and 2, cooldown 1 to 2 | a second probe has its cause; the pool comes back; calls settle |
| `Streams` | pass | 646,000 | 2 subscriptions, queue of 2, 3 slots, of which one may send its transaction late, 1 crash, 1 fault or listener that throws; 2 requests on a socket, 3 transactions, 3 drops; history of 3 transactions in 2 slots, pages of 2, 1 withheld | losses have their causes, every reconnect is told, history is exact |
| `Stores` | pass | 206,000 | 1 mint, 2 operations, 2 passes, 2 landings, 1 fault; 2 keys, 2 values, 2 saves, 1 error or crash; 3 signals of up to 2 trades, any hooks | no lost update, refinement of `AtomicStore`, complete reports; convergence |
| `Components` | pass | 1,066,000 | the bounds named in `Components.cfg`, for 13 components | the books, keys, bytes and memories listed below are right |
| `RuntimeRemove` | violation | | 1 instance, a signal during `deregister()` | a removed record still runs |
| `LotProceeds` | violation | | 2 trades | a partial sale counts part of its proceeds |
| `AssemblerLookups` | violation | | 1 instruction, 2 tables | compiled indices and lookups follow different orders |

Each pass is for an instance in which the interesting case happens: a failure
between two events of one row, a crash after emission and before the mark, an
insert that fails after another succeeded, a third request that finds the
semaphore empty, a retry whose predecessor lands late, a bundle that is full
when its timer fires, a trip with tasks behind it, an overflow while a handler
is slow, a consumer that registers under a walk, a request that was sent before
the circuit opened and settles when it is half-open, a crash between a delivery and
its checkpoint, a transaction whose slot's status was saved before it came, a notification before the last acknowledgement, a transaction that
lands between two pages, a trade and a correction queued behind a pass, a crash
between write and rename, an `unlock()` that decrypts beside another, two signatures
that check one balance and a `lock()` between, a row tried more often than its limit, a pool
that opens or changes its virtual reserves between two reads, a health probe past the threshold
with an older event behind the newest, a log cut inside an invocation. A second crash, a third
attempt or a fourth signal repeats a situation the smaller instance already has.
Behaviours stop at the bounds, so deadlock is not checked; liveness properties take
its place.

### What the properties say

Most properties of the runs are conjunctions of named parts:

| Property | Parts |
|---|---|
| `ServiceIsSound` | `EveryRepeatHasACause`, `StopIsQuiet`, `PermitsBalanced` |
| `OutboxProgresses` | `StopResolves`, `AckedIsSettled` |
| `CallsShareTheTruth` | `TypeOK`, `OneExecutionPerIntent`, `SharedResolution`, `VerdictIsTrue` |
| `BundlesAreSound` | `TypeOK`, `RejectedIsUnsent`, `BundledOnce` |
| `GuardsAreTrue` | `RuntimeTypeOK`, `GuardSeesOwnTrades`, `LossQuarantines` |
| `RuntimeSafe` | `RuntimeTypeOK`, `SubmitsInOrder`, `DecisionRate`, `LossQuarantines` |
| `RuntimeDrains` | `QueueDrains`, `DeregisterResolves` |
| `QueueSafe` | `TypeOK`, `NothingLost`, `ReceivedInOrder`, `DedupHolds`, `NoLostWakeup` |
| `BusSafe` | `BusTypeOK`, `RepeatsHaveACause`, `NoEarlyRepeat`, `DueIsHandled`, `DisownedIsQuiet` |
| `SourcesSafe` | `SourcesTypeOK`, `LossIsReported`, `SameEventSameId`, `WalkIsComplete` |
| `StoppedStaysQuiet` | `ClosedIsQuiet` of the bus, `ReplayStopsAtOnce` of the fixture |
| `DeliveryEnds` | `DrainResolves`, `EmissionsEnd`, `SourcesEnd` |
| `ConnectivitySafe` | `BreakerSafe` (`HalfOpenHasProbe`, `SecondProbeNeedsStraggler`, `ClosedBelowThreshold`), `PoolSafe` (`HealthIsTheStreak`, `PinIsBest`) |
| `CallsSettle` | `RequestSettles`, `OutageIsProbed`, `CallSettles` |
| `StreamsSafe` | `GeyserSafe` (`CheckpointIsHonest`, `NothingSlips`, `LateIsLostWithItsStream`, `RestsWhenEmpty`), `TxSafe` (`NoRepeatWithinMemory`) |
| `HistoryIsExact` | `SweepIsExact`, `CatchupIsExact`, `BlocksAreExact` |
| `RebuiltLotsAreTrue` | `RebuildIsTrue`, `LotsAreTheBalance`, `ClaimedBasisIsTrue` |
| `ResumeIsTold` | `CheckpointGoesBackByOverlap`, `ReconnectIsTold` |
| `StreamsRecover` | `QueueIsDrained`, `StreamComesBack`, `WalkEnds` |
| `StoresSafe` | `PortfolioSafe` (`NoLostUpdate`, `ChangesTellTheFile`, `PnlTellsTheFile`), `FileStoreTypeOK` |
| `BacktestSafe` | `DecisionsNameTheirSignal`, `SeriesIsTheLedger`, `ReportIsComplete` |
| `StoresSettle` | `Converges`, `SavesSettle`, `BacktestReturns` |
| `VaultSafe` | `OneLiveHandle`, `LiveKeyHasAHolder`, `SignedByItsHandle`, `ReserveNeedsOverlap` |
| `PgSafe` | `OrphanNeedsOverlap`, `RepeatNeedsSharing`, `TriesAreBounded` |
| `LotsSafe` | `TokensAreCounted`, `BasisIsConserved`, `ProceedsAreNotInvented`, `OldestGoesFirst` |
| `PumpSafe` | `BuiltForALiveVenue`, `RecipientIsAccepted`, `OnlyVirtualIsOlder`, `ChecksAreTrue`, `PagesJoinUp`, `QuotesAreExact` |
| `AssemblySafe` | `HeaderIsExact`, `ReadsBack`, `SignedInOrder` |
| `ReadingsAreExact` | `PaperSafe`, `DbSafe`, `AssemblySafe`, `LogSafe`, `TokenSafe`, `IdlSafe`, `FeeSafe` (`WindowIsExact`, `TiersAreOrdered`) |
| `CacheSafe` | `MemoryIsMostRecent`, `ServedWasFetched`, `CachesAgree` |
| `HeliusSafe` | `CallsAreExact`, `OnlyTheSecretOpens`, `NothingIsDropped`, `HealthTellsSilence` |

Where it needs saying:

* `EveryRepeatHasACause` bounds the emissions of an event by one plus the failed
  attempts, crashes and database errors: redelivery alone never repeats one. It
  is stated for one loop; two loops working on the same batch may each emit.
* `DoubleLandingIsAmbiguous`: the retry loop signs anew, so two transactions of
  one intent can both take effect, but only when the executor did not know the
  fate of the first (a timeout, or a send that failed and got through). This is
  what the code guarantees; it is not a guarantee against double execution.
* `GuardSeesOwnTrades` and `LossQuarantines` are for instances that have a wallet to
  themselves (`Alone`), whatever the others share. With a shared wallet and mint the
  difference the guard books includes what the other instance realised between the
  two reads.
* `LossQuarantines` leaves out histories with faults: when the read after
  `applyLandedTrade()` throws, the guard does not learn of the loss.
* `NothingLost` and `ReceivedInOrder` are for subscribers that never
  unsubscribed. One that leaves and comes back during a walk is at the end of
  the Map and gets the same signal again.
* `RepeatNeedsSharing` and `TriesAreBounded`: two processes may share a batch, for
  `pending()` takes no lock; then a row may be emitted twice and its attempts counted
  once; the same comes of an update that was rejected, or that a crash between the emission and the
  mark lost. The properties say that nothing else causes either.
* `CheckpointIsHonest` and `NothingSlips` leave out what the client could not have
  known (before its first slot), what its full queue dropped and what a backfill
  failed to fetch; these are the losses, and the properties say there are no others, of the
  transactions sent before the status of their slot. A late one may be behind the checkpoint
  already, so it is in addition lost with the stream or the process that ends while it is queued, and
  when there is no stream: `LateIsLostWithItsStream`.
* `QueueIsDrained` excepts a queue whose loop was left because a listener threw, `SourcesEnd` a
  replay whose file cannot be read and one that was stopped: the code promises neither an end.
* `SecondProbeNeedsStraggler`: a request sent before the circuit opened that settles while it is
  half-open opens or closes the circuit and clears the flag under the probe in flight. Nothing else
  lets a second probe out beside it.
* `ReconnectIsTold` is about steps: the one in which the last subscription of a later socket is
  acknowledged calls `onReconnect()`, for all the drops since the stream was last served, and no
  other step does.
* `OnlyVirtualIsOlder`: of what `pumpSwapPoolState()` adds up, both vaults are of one moment of the
  call and the virtual reserves of one of its moments.
* `Converges` says that the file comes to agree with the chain, not that it does
  so soon: a reconciliation that races `applyLandedTrade()` counts a trade
  twice until the next pass.
* `ReserveNeedsOverlap`, `LeakNeedsOverlap` and `OrphanNeedsOverlap` name
  the overlap a damage needs; the code does not exclude the overlap.
* `ReadsBack` is for messages whose looked-up accounts come from one table; for
  several see `AssemblerLookups` below.

### Fairness

The fair specifications assume that what Node promises happens: timers fire,
pending promises are continued, time passes, and awaited calls (hooks, handlers,
store and RPC calls) settle one way or the other. Nothing is assumed of callers, of
the provider, of the chain, nor of how a call settles: it may always throw. A
hook that never settles would hold up its instance for good; the code has no
timeout for it, and the liveness results are conditional on that.
`AckedIsSettled` is further conditional on the drainer being kept running, and
`DrainResolves` on pushes ending (the bound on pushes): `drain()` looks until the
buffer is empty, and a producer that is never slower than the handlers could
keep it from ever being so. `OutageIsProbed` assumes that some caller keeps calling
the pool, and `StreamComesBack` that a server which has once answered is there again.
`Converges` is the only one that needs strong fairness: a reconciliation pass can
fail any number of times, but not always, and the reconciler's interval goes on.

### Where code and documentation disagree

| Run | Statement | What happens |
|---|---|---|
| `RuntimeRemove` | `runtime.ts:241` tasks "complete before the record is removed" | a signal dispatched while `onShutdown` is awaited is queued behind it |
| `LotProceeds` | `accounting.ts:16` "`proceedsLamports` is the total lamport proceeds" | a sale of part of a lot divides by the lot and not by the sale, so part of the proceeds is in nobody's PnL |
| `AssemblerLookups` | `transaction-assembler.ts:63` "All writable ALT keys first (in the order their ALTs were passed ...)" | with two tables that both hold looked-up keys, the indices of the instructions follow one order and the lookups another |

The following statements are definitions of their modules too, and TLC refutes each
when its name is added to the configuration named; they have no run of their own
because they are of a kind with the properties the runs do check.

| Statement | With | Source | What happens |
|---|---|---|---|
| `StopIsQuiet` (`WebhookOutbox`) | `OutboxOverlap.cfg` | `drainer.ts:112` "Resolves when the in-flight cycle (if any) completes" | `stop()` leaves the pending timer alone; after `start()` two chains share one waiter, and the first cycle to end resolves it for both. It holds with one start |
| `NeverThrows` (`Executor`) | `CallsAndGuards.cfg` | `executor.ts:26` "never throws for user-visible failure modes" | an RPC error while polling rejects the promise of `submit()` after the transaction was sent |
| `HooksAreSerial` (`StrategyRuntime`) | `BundlesAndQueues.cfg` | `runtime-architecture.md:552` "All hook dispatches ... run through this queue" | `tripGuard()` calls `onShutdown` directly (`runtime.ts:494`) |
| `StoppedIsQuiet` (`StrategyRuntime`, a PROPERTY) | `CallsAndGuards.cfg` | `runtime.ts:280` "Stop accepting new dispatches" | listeners on executor and portfolio stay, and are doubled by the next `start()` |
| `ChainsAreComplete` (`Backtest`) | `Stores.cfg` | `backtest.ts:625` | a hook queued behind the barrier runs after the results were read |
| `CheckpointCoversLate` (`GeyserClient`) | `Streams.cfg` | `geyser-client.ts:53-58` "we can get an account update for slot 100 after a slot update for slot 101. Using slot updates as the timeline source-of-truth keeps the detector simple and correct" | a transaction that comes after its slot's status may be behind a saved checkpoint; a crash, or a stream that ends, while it is queued loses it, and the next subscription finds no gap |
| `ListenersAreHarmless` (`GeyserClient`, a PROPERTY) | `Streams.cfg` | `geyser-client.ts:45` "If a listener throws, it is caught and re-emitted as 'error'" | `emit('update')` (:656) and `emit('gap')` (:633) are in no `try`, nor is an `'error'` without a listener: the drain loop is left and what is queued waits for the next update |
| `OneProbeAtATime` (`HttpClient`) | `Connectivity.cfg` | `http-client.ts:145`, `:460` "at most one probe request may be in flight" | a request admitted before the circuit opened fails while it is half-open: the circuit opens again and the flag is cleared under the probe in flight, and after the recovery time the next request passes as a second probe |
| `ProbeDecides` (`HttpClient`, a PROPERTY) | `Connectivity.cfg` | `http-client.ts:27` "the outcome of that request decides the next transition" | the outcome of such an earlier request closes or opens the circuit while the probe is still in flight |
| `ReservesAreOneMoment` (`PumpMarket`) | `Components.cfg` | `pool-state.ts:94` "Effective quote reserves the program prices with" | the virtual reserves are of the first request and the vaults of the second: when both change between, the sum is one the pool never priced with |
| `ProgramsAreLookedUp` (`TxAssembly`) | `Components.cfg` | `transaction-assembler.ts:72` "Program IDs can resolve through ALTs" | `compileAccounts()` keeps every invoked program static (as its own comment, :320, says it must), and `HeaderIsExact` relies on it |
| `ShorterThrows` (`IdlDecoding`) | `Components.cfg` | `idl-decoder.ts:141` "Throws when [...] the data is shorter than the layout" | data that ends where a field does is read as an older layout's, without the fields behind it (:167); only a cut inside a field throws |
| `TimeLimitIsLast` (`PaperBook`) | `Components.cfg` | `walk-forward.ts:6` "in priority order: hard stop > take profit > trailing stop > time limit" | past the hold limit the trade ends for time whatever the price is; the limit is looked at first |
| `ToldIsBefore` (`TxStream`, a PROPERTY) | `Streams.cfg` | `tx-stream.ts:57` "`lastSlot` is the last slot seen before it" | a notification of the new socket raises `lastSlot` before the last acknowledgement calls `onReconnect()` |
| `NoSilentOverwrite` (`Vault`, a PROPERTY) | `Components.cfg` | `vault.ts:164` "accidentally overwriting a production key is a footgun we refuse to offer silently" | two `addWallet()` calls both find no record, and the later one replaces the earlier one's |

Met while modelling, inside the models but not stated as properties:

* a failed row waits for its retry delay while later ones pass it (`store.ts:47`
  says "FIFO across retries"); a timeout is retried by the executor itself (the PRP-02
  design says the caller decides); tasks queued before a trip trip again
  (`runtime.ts:482` calls it impossible);
* a request its caller aborts counts as a failure of the server (`http-client.ts`);
  several failures in flight each double an endpoint's cooldown (`health-state.ts`);
* an update the geyser client drops raises no gap, and a listener of `dropped` that throws (not
  modelled) loses the update that made room for itself and throws into the stream's `data` event
  (`geyser-client.ts:608`); the loop a listener leaves rejects a promise nobody awaits, by Node's
  default the end of the process, which is `CrashAndRestart`; the portfolio emits "realized-pnl"
  before the write that may fail (`store-file.ts:221`);
* a fixture that cannot be read or unpacked: the errors of the file stream and of gunzip have no
  listener (`fixture.ts:27-29`), an uncaught exception or a `start()` that never settles, where the
  contract of a source is `end` or `error`;
* a caller that pages `fetchRecentTrades()` is told to drop the cursor's own signature
  (`fetch-recent-trades.ts:110-112`), but `before` leaves it out: who follows loses nothing by looking for
  it and would by dropping the first entry (`PagesJoinUp` is of a caller that drops nothing);
* `lock()` during the await of the balance zeroes the key that is then used to
  sign (`wallet-handle.ts:223`): `signed` takes the value `ZeroKey`, and `SignedByItsHandle` says when;
* concurrent `init()` calls leak a pool (`postgres.ts:81`) or a handle
  (`sqlite.ts:165`); Helius admin calls are last-write-wins, as documented;
* a trade that begins and ends at time 0 leaves its slot free (`monte-carlo.ts:207`);
  a scan for holders never asks the Token-2022 program (`holders.ts:91`), and bytes
  of a cut Token-2022 header are ignored; after a truncation, lines are
  attributed to whichever invocation is open (`parse-logs.ts`); an account index is
  written as a byte, so more than 256 accounts wrap (`transaction-assembler.ts:506`);
* the fee window is documented as `[lastSlot - windowSlots, lastSlot]`
  (`priority-fee.ts:355`) and is one slot shorter (`:361`).

## 4. Proofs

Every theorem is for all values of the constants of its component, from the assumption
the component's module states about them (`OutboxAssumption`, `ExecutorAssumption` and
so on: limits are positive or natural, orders are sequences of what they order, model
values differ). Two theorems assume more, that `Loops` is a single loop; see below. Each
inductive invariant was checked by TLC on a small instance before it was proved.

| Module | Theorem | Says |
|---|---|---|
| `OutboxProofs` | `TypeCorrect` | `Spec => []TypeOK`: also that no row is charged more than `MaxAttempts` attempts |
| | `AckedPersisted` | `Spec => []AckedIsPersisted` |
| | `ProcessedEmitted` | `Spec => []ProcessedWasEmitted` |
| | `ProcessedStays` | `Spec => ProcessedIsFinal`, an action property, with any number of loops |
| | `PermitsReturn` | `Spec => []PermitsBalanced` |
| | `OneLoopService` | `Spec => []ServiceIsSound`, if `Loops = {l}` |
| | `OneLoopDelivers` | `Spec => ImplementsDelivery`, if `Loops = {l}`: the refinement of `OutboxDelivery` |
| `TradingProofs` | `CallsShareTheirVerdict` | `Spec => []CallsShareTheTruth` |
| | `SecondLandingIsAmbiguous` | `Spec => []DoubleLandingIsAmbiguous` |
| | `BundlesLoseNothing` | `Spec => []BundlesAreSound` |
| | `RuntimeIsSafe` | `RuntimeSpec => []RuntimeSafe` |
| | `GuardsKnowTheirTrades` | `RuntimeSpec => []GuardsAreTrue` |
| `ConnectivityProofs` | `BreakerIsSafe`, `PoolIsSafe` | `HttpSpec => []BreakerSafe`, `PoolSpec => []PoolSafe` |
| | `ProbesKeepTheirDistance` | `PoolSpec => ProbesAreSpaced`, an action property |
| | `ConnectivityIsSafe` | both, of the specification the run `Connectivity` checks |
| `StoreProofs` | `NoFileIsTorn` | `FileStoreSpec => []FileStoreTypeOK` |
| | `StoresAreAtomic` | `FileStoreSpec => StoreIsAtomic`: the refinement of `AtomicStore` |
| | `PortfolioIsSafe` | `PortfolioSpec => []PortfolioSafe` |
| | `StoresAreSafe` | both, of the specification the run `Stores` checks |
| | `VaultIsSafe` | `VaultSpec => []VaultSafe` |
| | `RotationIsSafe` | `VaultSpec => RotationKeepsTheKey`, an action property |
| | `BacktestIsSafe` | `BacktestSpec => []BacktestSafe` |
| `StreamProofs` | `GeyserIsSafe`, `StreamIsSafe` | `GeyserSpec => []GeyserSafe`, `TxSpec => []TxSafe` |
| | `CheckpointGoesOn`, `ReconnectsAreTold` | `GeyserSpec => CheckpointGoesBackByOverlap`, `TxSpec => ReconnectIsTold`, action properties |
| | `StreamsAreSafe`, `ResumingIsTold` | the same, of the specification the run `Streams` checks |
| | `HistoryIsRead` | `WalkSpec => []HistoryIsExact` |
| `ComponentProofs` | `PgIsSafe`, `HeliusIsSafe` | `PgSpec => []PgSafe`, `HeliusSpec => []HeliusSafe` |
| | `PumpIsSafe`, `CacheIsSafe` | `PumpSpec => []PumpSafe`, `CacheSpec => []CacheSafe` |
| | `DbSeesNoFuture` | `DbSpec => NoLookahead`, an action property |
| | `LotsAreSafe` | `LotsSpec => []LotsSafe` |
| `SignalProofs` | `QueueIsSafe` | `Spec => []QueueSafe` |
| | `BusIsSafe` | `BusSpec => []BusSafe` |
| | `LossesAreReported`, `SourcesAreSafe` | `SourcesSpec => []LossIsReported`, `SourcesSpec => []SourcesSafe` |
| | `StoppedPartsAreQuiet` | `MCSpec => StoppedStaysQuiet`, two action properties of the specification the run `SignalDelivery` checks |

`SequenceLemmas` has no theorem of the code: its lemmas are the inductions the others cite.

### The outbox with any number of loops

    IInv == TypeOK /\ CycleInv /\ RequestInv /\ AckedIsPersisted /\ ProcessedWasEmitted

`ProcessedWasEmitted` needs to know that a loop about to mark a row has emitted all of
its events, which in turn needs that a loop at event `ev` has emitted those before it,
and that the row is in its batch: `CycleInv`. `AckedIsPersisted` needs to know that a
request has stored what it has got past: `RequestInv`. `ReceiverStep` treats the actions
of requests, where rows only appear (`RowsStay`) and loops do not move;
`LoopPreserves` the drainer's, where only the record of the loop that moves changes
(`CycleInvMove`), emission counts only grow (so what other loops have achieved remains
true, `CycleInvFrame`), and rows never disappear. That is why overlapping loops,
which break `StopIsQuiet`, cannot break these. `ProcessedIsFinal` rests on less: rows in
a batch and processed rows are in the table (`StoredInv`), so that neither a redelivery
nor a stale batch can open one again. `PermitInv` counts the requests in progress against
the free permits, by the library's facts on cardinalities.

### The outbox with one loop

Two loops may emit one row each, and `stop()` may resolve while the other works: with
them `StopIsQuiet` and the delivery contract are false (`OutboxOverlap` explores
them). What the code promises of the ordinary case, one chain of timers, is stated
as a theorem with the hypothesis `Loops = {l}`; `OutboxSingle` is an instance. The
invariant is `OneLoopInv == IInv /\ PermitInv /\ LoopControl /\ WorkInv`. `LoopControl`
ties the drainer's fields to the loop: a waiter stands for its cycle, a timer that will
begin one belongs to a running drainer. `WorkInv` is the account of emissions: the rows a
batch has still to meet are as the query saw them (`Fresh`), a row's emissions are at
most its attempts, plus the crashes and database errors, plus one for a row that is done
or under way (`RepeatsPaid`), and events of a row went out in order (`Descend`). From
these, `StepRefines` maps every step to a step of `OutboxDelivery` or to a stutter: an
insertion accepts, an emission emits, a mark settles or retries, all else stutters.

### The executor

    ExecInv == TypeOK /\ Slots /\ Sharing /\ Verdicts /\ Tries /\ Packing

`Slots`: a call that executes holds the slot of its intent, and a slot that is held is
held by a call that executes. `Sharing`: an attached call is attached to one that
executes, and a settled one has the result of the call it ran with, so results cannot
drift apart while an execution is retried. `Verdicts`: what a result claims is on chain,
and stays, because the chain decides a transaction once; a call between the two RPC
calls of `confirmLanded()` already knows of a revert. `Tries`: attempts to come have sent
nothing, earlier ones ended in a retryable way, and one that ended early sent nothing;
`DoubleLandingIsAmbiguous` is read off from it. `Packing`: calls waiting for a bundle
are in groups and flights that are disjoint and without repetition, groups are shorter
than a bundle, and nothing of a group, or of a flight without a tip, was sent. From
that, the sets `BundledOnce` counts are singletons (`OnePlace`) or empty (`NoPlace`).

Actions are grouped by what they do to calls: those that move one call or a bundle's
calls inside an execution (`MovingKeeps`, `OneMoves`), those that end an attempt
(`EndingKeeps`, `OneEnds`), in which one step may settle any number of calls, the bundle's
own (`AddKeeps`, `TimerKeeps`, `GivenUpKeeps`, `AcceptedKeeps`, `RefusedKeeps`), and
those of the network and the clock.

### Breaker and pool

`HttpInv` adds to `BreakerSafe` that the probe slot is taken exactly while the circuit
is half-open, and that a request that waits has an attempt left; the case to get right is
a request that was admitted before the circuit opened and settles when it is half-open
(`SettlementMovesOn`): it puts the probe it overtakes among `overtaken`, so that of the probes
still out only the newest is not. `PoolInv` adds to the health of an endpoint `CooldownIsServed`: the time
since the last probe and the time to the next make up at least the base cooldown, whatever
happened to the endpoint in between; `ProbesAreSpaced` follows since a probe needs the
latter to be zero. That `PinIsBest` needs the first of a set of endpoints in the
rotation: `LeastNatural`, by the well-foundedness of the naturals.

### The runtime

    RuntimeInv == QueuesInOrder /\ WindowsHold /\ BooksBalance /\ WiringTyped

`QueuesInOrder`: in a queue the signals are in the order of their dispatch, and later than
any that was submitted, but for the head once it is past its submission. What else is
appended (hooks, ticks, the copies each listener makes of a change) is no signal
(`CopiesArePlain`), so it disturbs nothing, and a task that ends, however it ends, leaves a
shorter queue with the same order (`QueuesAfterEnd`).

`WindowsHold`: `DecisionRate` is about decisions that went through, while the guard counts
those it remembers, the ones that tripped included, and forgets the old. `Remembered` ties
the two: of the decisions that went through and are still in the window, the j-th from the
end is not later than the j-th from the end of those remembered. When a decision is recorded
both count one more (`DecisionRecorded`); when it trips, only the guard does. If a window
held one decision too many, the guard would remember too many and trip. That the filter drops
a prefix is `RecentFacts`, which needs the least element of a set of positions.

`BooksBalance`: between `Apply` and `ReadAfter` the guard is behind by exactly the difference it
is about to read; on the first day the day's amount is all there is; and a loss past a limit
is one that tripped when it was recorded (`LossTrips`), since the peak is at least zero. Other
instances do not get in because a wallet that is not shared is written by its own record
only; after a fault nothing is claimed.

### Stores, vault and the shared table

`FileStoreInv`: a save that has begun is the oldest of its key and of a value
(`BegunIsWaiting`), and one that has written has it whole in its temporary file
(`WrittenIsWhole`). The abstract step is the rename, or the unlink of a deletion;
opening, writing, failing and crashing stutter.

`PortfolioInv` is about the mutex: only the operation at its head has begun, what it has
read is what the file holds until it writes, and so no update is computed from a position
that another one has replaced. Up to the first fault the change events told and the
realized PnL add up to the file; a fault ends that claim and not the first.

`VaultInv` types the calls by what they
have read so far, and adds that a signing call names a finished unlock
(`SigningIsOpened`), a handle belongs to the unlock that made it, a passphrase change
has read the seed it will write until something replaces the record
(`RotationsReadTheSeed`), and that signatures that never overlapped are at most one
(`OneInTheAir`). `SignedInv`, kept beside it, says what a call signed with: its handle is a
finished unlock (`SignersHaveSigned`), which stays as it was and, once locked, locked
(`HandlesAreOpened`). `PgInv` has a half about pools, `OneOpening`, and one about batches: for a
row no two batches ever shared, `TriesAreOnRecord` says that the number of tries is the
number on record, plus the one under way.

### The streams

    GeyserInv == GeyserTypeOK /\ CheckpointIsHonest /\ OneAlive /\ OneLoopAhead /\ LateIsKnown
                 /\ (txs and stored.slot do not run ahead of the chain)
                 /\ \A k \in Subs : Sound(sub[k], tip, Prompt, Accounted)

A checkpoint is a `lastSlot` that was saved, so `CheckpointIsHonest` needs the same of every
subscription (`SeenIsAccounted`), and a `lastSlot` is raised by a slot's status. Before that
status the transaction of its slot, if it is one of `Prompt`, those that are sent in time, must
have been accounted for: it stands before it in the
queue, or was handed over or dropped (`StatusComesAfter`, which for the slot in the making
speaks of the end of the queue). While a gap is filled the transactions up to the
update in hand are accounted for or still to fetch (`GapIsOnTheWay`). The loop rests only on an
empty queue, or with what a listener left in it by throwing, and an update that arrives then starts
it at once (`LoopSound`). `DrainKeeps`
treats the loop's head, which three actions share, and `EnqueueComesAfter` an arrival, with
the head that makes room for it. `CheckpointGoesBackByOverlap` needs more: without an
overlap at most one loop is busy, and it is ahead of the checkpoint (`OneLoopAhead`) by
what it has seen or, when it has seen nothing, by what is in its queue. A closed
subscription is sound too, because its loop may finish the update in hand and save; only
what is in its queue is owed to nobody. Of the late transactions `LateIsKnown` says where each
is: still to be sent, queued, accounted for, or gone with its stream; an arrival that is none of `Prompt` disturbs nothing of
the rest (`SendLateKeeps`).

`TxInv`: the memory is the end of the sequence of what was delivered
(`RemembersTheLast`), so that what is not remembered is not among the last; and while an
acknowledgement is awaited a slot seen since the drop is an early one
(`SeenSinceIsEarly`). `OwesTelling`: a started stream that is not served in full has dropped
since it last told so; hence the step in which it is served again tells of more drops than
before, and it is the only one that tells.

### Queue, bus and live source

    QueueInv == TypeOK /\ (the signal in hand was given to somebody)
                /\ Delivery(...) /\ Memory(...) /\ NoRepetition(...) /\ NoLostWakeup

Queue and bus forget in the same way, so what they need of it is stated once, about a Map
`d`, a time to live `l` and a window `w`. `Memory`: a signal that was accepted is still in the
map, with no more entries behind it than were accepted since, unless its time or its window
is over. Evicting the expired prefix keeps that (`MemoryOutlivesEviction`), remembering one
more and dropping the oldest keeps it (`RememberingKeeps`), and whoever is not in the map
repeats nothing (`ArrivalIsNew`). In the queue what counts are the signals that are
buffered or were handed over; one that an overflow dropped may come again.

`Delivery` is about the rest. The buffer holds the last pushes without a hole (`Contiguous`),
so every push is still buffered, or the one in hand, or past. A push that is past was
handed to each name that has stayed, or is in hand with that name still to visit, or is lost
(`Complete`). The walk awaits a handler while pushes overflow the buffer: what leaves it
then is later than the signal in hand and counts as lost (`OvertakenIsLost`). A name that
has left and come back is promised nothing of this.

    BusInv == ProducersTyped /\ DisownedAreHeld /\ WalksTyped /\ CallsHaveCauses
              /\ DueIsOnTheWay /\ BusRemembers /\ ClosedIsEmpty

`CallsHaveCauses`: the calls of a consumer by one emission are at most its registrations, and
fewer as long as the walk has still to come to it. `DueIsOnTheWay`: who is due was
called or is in the rest of the walk, and the walk is of a producer it takes. One iteration
of a walk is `WalkKept`; `WalkGoesOn` uses it for the first, inside `Emit`, and for those that
follow a handler. `DisownedAreHeld` strengthens `DisownedIsQuiet` by the microtasks: one that
is queued for a disposed producer, and will find somebody under its id, is of a producer
in `usurped`. Producers and walks do not need each other's half. After `StopsSettle` no walk
has a name left (`ClosedIsEmpty`), so that those that go on call nobody. `LossInv` says of
every update what `LossIsReported` says of the newest, since `lastSlot` may move back.

### Induction over data: SequenceLemmas

The library's induction theorems take an operator, which the provers cannot instantiate. A
set can take its place: `InductionOnSet` (a set that holds 0 and with every number the next
one holds them all) follows from the well-foundedness of the naturals, and
`SequenceInductionOnSet` from it. With these, `Iterates` builds a function whose value at k
comes from the one at k - 1, and the library's recursive `FlattenSeq` and folds are shown to
be such functions. So one element more is one piece more (`FlattenAppend`), one element to
keep or to leave (`OnlyAppend`, `OnlyKeeps`), or one step of a loop more (`FoldedGrows`). The
theorems on the historical source, the Helius driver, the backtest and the readers of history
rest on them.

### Historical source, readers of history

`SourcesInv`: what the historical source has told is at every moment all that the slots up to
some slot hold (`UpTo(h)`): while a batch is asked for, of those before its cursor; while its
blocks are walked, of those before the next block to walk, where the rest of the batch
has to be every block that is there (`Rest`). Skipped slots add nothing (`SkippedAddNothing`),
so the cursor may jump over them; a prefix of the range it is whatever stops it. An id is
the position among all events of a transaction, before the filter, in all three sources.

    WalkInv == WalkTyped /\ SlotsGrow /\ BeforeBegin
               /\ SweepWalks /\ SweepFetching /\ CatchupWalks /\ BlocksWalk
               /\ SweepIsExact /\ CatchupIsExact /\ BlocksAreExact

The chain grows at its end while a reader comes down from the newest. `Seen`: what
it holds falls, and lies at its cursor or above. `NoHole`: of what a catch-up yielded
nothing is left out between its oldest and its newest, nor up to what had landed at its
start. A page is a falling list (`PrefixFalls`), so cutting it at a limit or at the range's
lower end leaves out only what is below the cut.

### The backtest

    BacktestInv == BacktestVarsOK /\ Queue(tasks, stage) /\ AtHead /\ LogOfCaptured /\ BooksOK

`Queue`: no signal is behind the barrier (`BarrierIsLast`), so that once it has run there is
nothing left to decide. `AtHead`: the signal in `pending` is the one of the task at the
head from the decision to the submission, which is why a logged decision names its own
signal. `LogOfCaptured`: the captured trades are the logged ones, and the one being applied.
`BooksOK`: the PnL series adds up to what was realized, whatever the lots are. The
drawdown is the largest fall of the series by induction on it (`DrawdownIsTheFall`).

### Helius driver, pump.fun, database, metadata cache

`HeliusInv == AdminInv /\ ReceiverInv`: `wanted` is what the calls that have written asked
for on top of what each had read, and a call between its GET and its PUT knows what it was
asked for; the events are those of the last body, by `OnlyKeeps`.

`PumpInv == MarketInv /\ ClientInv /\ SeenInv /\ TradeInv /\ ChecksInv /\ PagesInv`. The history
variable `seen` collects what the market has shown since a call began, and covers the
present while it is under way (`SeenInv`); what a trade has read so far was shown
(`TradeInv`), though the coin may have moved to another venue in between. `PagesInv`: the
trades told reach, in falling order, down to the next transaction to fetch, with none left
out but those that failed. The quotes are exact by a few facts on division (`DivisionIs`,
`OutIsRoundedUp`).

`DbSeesNoFuture` needs the type of the table only, and that a row with a later moment is in
no result as of an earlier one (`LateRowIsUnread`), whatever else is selected by.

`CacheInv`: the order in which answers were used is known from the whole history, each
URI once (`OnceEach`), and the memory holds the newest of it (`KeepsNewest`): a hit moves an
entry to the end of both, a late answer replaces or inserts it, and what is evicted is the
oldest of the memory and older than all that stay. Files outlive a restart, and there is
none without a directory.

### The ledger of lots

    LotsInv == BasisIsConserved /\ ProceedsAreNotInvented /\ OldestGoesFirst /\ TokensAreCounted
               /\ there are at most `trades` lots, each with a basis of at most MaxCost

The last part is what makes the allowances for rounding inductive: a sale by average cost
keeps less than a token of each lot too much, and with it at most MaxCost of basis, so the
allowances grow by one such share per lot, and `t * t + t <= (t + 1) * (t + 1)`
(`AllowanceGrows`).
What one call of `reduceLots()` does is proved first, for lists of any length, by
induction over the loop (`FoldedGrows` of `SequenceLemmas`). `SaleIsExact`: by FIFO and
LIFO the tokens left are those there were less those sold, the basis left and the cost
make up the basis there was, and the shares of the proceeds, each rounded down, come to
no more than the proceeds. It rests on `WalkSells`, whose invariant relates what the walk
has taken to the lots it has passed; LIFO is the walk over the list reversed, whose sums
are the same (`SumsReverse`). `LastIsLeft`: a lot behind enough others is kept as it is.
`SaleIsAveraged` bounds the rounding of average cost, from the bounds on one lot's share
(`OneShare`) added up over the list (`SharesAreTaken`).

### What is checked by TLC only

* Liveness (`OutboxProgresses`, `EveryCallSettles`, `RuntimeDrains`, `DeliveryEnds`,
  `CallsSettle`, `StreamsRecover`, `StoresSettle`): fairness and ENABLED are outside the
  prover's reach.
* What the computations over whole values return: the replay of the paper backtester, the
  score of the database, the decoders, the message compiler and the order statistics of the
  fees (`ReadingsAreExact`), the lots rebuilt from a history (`RebuiltLotsAreTrue`). These are equal
  to a reference definition on all inputs up to the bounds. Some sort with `SetToSortSeq` or
  select with `SelectSeq`, which the provers cannot open; the others would need one
  induction each, as the drawdown has.

## 5. Not modelled, and the plan

Left out for good: byte layouts (base58, compact-u16, message encoding),
cryptography, wire protocols, the diagnostics CLI, telemetry and log events,
instruction builders, the scripts and the examples. They hold no state that other
parts depend on, or are external.

Left out of parts that are modelled: swap tracing and the daily close, whose
amounts are inputs of `Portfolio`; `metrics.ts` of the paper backtester; the
balance arithmetic of the landed-trade adapter; single Token-2022 extensions, which
are one value each; the latencies of the RPC pool, which are ranks.

What would come next, in this order:

1. Proofs by induction over the data of what is checked by TLC only, first `WindowIsExact`
   and `LogSafe`, then that replayed trades give the lots of the ledger (`RebuildIsTrue`).
2. The composition of the signal bus with the queue and the runtime in one module,
   with the sources' checkpoints across a restart.
3. The portfolio over several wallets, with reconstruction running beside the
   reconciler.
