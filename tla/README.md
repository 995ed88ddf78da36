# A formal model of the checkout backend

This directory holds TLA+ specifications of the backend under `src/backend`, the
configurations that model-check them with TLC, and theorems about them that
TLAPS checks.  Everything is translated from the code; where a document, comment
or test says something else than the code does, the run that shows it is listed
under "Disagreements".

## 1. The system

Four services talk through Kafka topics: Checkout and Inventory, each with a database
of its own; Analytics, which keeps everything in memory; and Catalog, which publishes
its list of items for the others.  A load balancer in front of them carries no protocol
state; a seed may replace Checkout's scan log while everything runs.

| Part | State | Operations | Talks to |
|---|---|---|---|
| Checkout, transactions (`service.py`, `hotpath.py`, `repo.py`) | `transaction`, `transaction_item` | start, scan, complete, read | Catalog's events (prices) |
| Checkout, completion saga (`saga.py`, `repo.py`) | `transaction.status`, `completion` row (state, epoch, total, `updated_at` as a lease) | begin, take over, record RESERVED, finalize, roll back, reopen | Inventory, through `checkout.completions.v1` and `inventory.stock.v1` |
| Checkout, reply client (`stock_events.py`) | waiters keyed by (transaction, epoch), one set per worker process | ask and wait, re-publish, dispatch a reply | both topics |
| Checkout, recovery loop (`recovery.py`) | the rows a pass has claimed | claim rows whose lease ran out, drive each | the saga's own steps |
| Checkout, abandoned sweeper (`sweeper.py`) | none | OPEN to CANCELLED | the transaction table |
| Checkout and Inventory, outbox (`outbox.py` in each) | `outbox` rows | insert with the state change, publish and mark, sweep, purge | Kafka |
| Checkout, scan relay (`relay.py`) | `relay_state` (position, log token), advisory lock, the gap it waits for | publish the contiguous prefix of the scan log, skip a gap after a grace, announce a reset | `checkout.scans.v1` |
| Inventory (`handlers.py`, `reserve.py`) | `inventory_stock`, `stock_adjustment` by (transaction, epoch), `low_stock_alert` | reserve, release | `inventory.stock.v1` |
| Consumer loop (`consumer_loop.py`) and bus client (`bus.py`) | offsets, a batch in progress, retry counts | poll, handle in parallel by key, retry, dead-letter, commit | Kafka |
| Catalog (`store.py`, `publisher.py`) and its snapshots (`snapshot.py`) | catalog entries; copies in each service | publish all and a marker with their number, read until complete | `catalog.items.v1`, compacted |
| Analytics, source (`scan_source.py`) | rows of the topic's tail, the highest id, caught up or not, the log's token | apply scans and resets, read after an id | `checkout.scans.v1` |
| Analytics, pipeline (`pipeline.py`, `scan_window.py`, `popular_items.py`) | the tail's position, the hole it waits for, two queues, counts, the latest slot, the published window | read in id order, skip a hole after a grace, slide, count, rank, publish, answer | the source, in memory |
| Analytics, supervisor (`supervisor.py`, `state.py`) | the running tasks, back-off | bootstrap from the source, restart, start over on a new log, drain | the pipeline |
| `tools/verify_invariant.py` | none | compares the services' reports when nothing is in flight | reports |

What is hard here: a completion spans two databases and two topics; messages are
delivered late, more than once, and not always in the order they were written;
a request handler, its retry in another worker and the recovery loops may drive
one saga at the same time; a worker may stop between any two local transactions;
an answer may be lost although the COMMIT happened; scans commit out of the order
of their ids.

What makes each part correct, in short:

* Inventory: every unit is on the shelf or held by one reservation; one attempt
  gets one verdict; a released attempt never takes stock; nobody drops through
  the low-stock threshold unannounced.
* Saga: the two Checkout rows never disagree; a sale holds exactly the basket it
  charges for; stock is never orphaned; a completion that was begun ends.
* Outbox and consumer loop: no event is lost and none is invented, whoever dies
  or fails; a committed position never runs ahead of what was handled; the effects
  of one key come in order.
* Relay: the saved position never covers a scan that is not on the topic or may
  still commit; scans go out in order, and all of them in the end.
* Analytics: a published window is what a pure function of the scan log says,
  whoever was restarted; it never gets older; it catches up.
* Snapshots: a service that says it is ready knows the whole catalog.

The hazards, each at its line and with the properties that watch it, are in
`PROJECT.json`.

## 2. The modules

| Module | Stands for |
|---|---|
| `StockLedger` | Inventory: stock, records, alerts, and the two channels |
| `CompletionSaga` | Checkout's transactions, saga, reply client, recovery and sweeper, on top of `StockLedger` |
| `SagaInvariants` | inductive invariants of the saga |
| `Purchase` | the abstract specification: a purchase as one system would make it |
| `SagaRefinesPurchase` | the refinement mapping |
| `Topic` | one partition of a Kafka topic, shared by the next two |
| `Outbox` | the transactional outbox of Checkout and of Inventory |
| `ConsumerLoop` | the loop of every event consumer, and the consumer group around it |
| `Channel` | the abstract specification of the two together: a reliable channel |
| `Delivery` | an outbox joined to a consumer group, and the refinement mapping |
| `LedgerStatements` | Inventory as its database runs it: statements, snapshots and locks of overlapping sessions; implements `StockLedger` |
| `StoreReports` | the services' reports and the operator's tool that compares them |
| `ScanStream` | the topic of scans, between the next two |
| `ScanRelay` | Checkout's scan table and the relay that publishes it |
| `ScanWindows` | Analytics: source, pipeline, supervisor and answers |
| `CatalogSnapshot` | Catalog's publisher, the compacted topic, and the snapshots of the other services |
| `LedgerProofs`, `StatementsProofs`, `SagaProofs`, `SagaSoleProofs`, `DeliveryProofs`, `ScanRelayProofs`, `ScanWindowsProofs`, `CatalogProofs` | theorems |
| `MCStockLedger`, `MCStatements`, `MCSaga`, `MCOutbox`, `MCConsumerLoop`, `MCDelivery`, `MCScanRelay`, `MCScanWindows`, `MCCatalog` | small instances for TLC |

The saga's modules take the way of a message for granted: a set of requests and a
set of replies.  `Outbox`, `ConsumerLoop` and `Delivery` are about that way, with
events that are only numbers; `Channel` is where the two halves meet.

### StockLedger

`stock`, `record` and `alerts` are the tables `inventory_stock`,
`stock_adjustment` and `low_stock_alert` (a count per SKU).  `HandleReservation`
and `HandleRelease` are the two handlers; each is one local transaction in the
code (`session.begin()` around the statements and the outbox insert), hence one
step.  `reserve.py`'s single SQL statement appears as its three outcomes:
`ReserveApplied`, `ReserveShort`, `ReserveReplayed`.

`requests` and `replies` stand for the outbox, the topic and the consumer
together.  They only grow: a message in the set has been committed by its sender,
and may be handled at any time later, any number of times, in any order.  That is
weaker than what Kafka gives (order per key among published messages) and is what
the code really has, since a first publish that fails leaves the row to a sweeper
that may send it after a later message of the same key.

### CompletionSaga

| Model | Code |
|---|---|
| `status`, `basket`, `charged` | `transaction.status`, its items, `total_amount_cents`.  `charged` is the basket the total prices; a total is a function of the basket because prices are fixed at the scan |
| `saga[t]` | the `completion` row: state, epoch, total, and `fresh`, that is `updated_at > now() - lease` |
| `driver[d]` | a request handler in `saga.complete`, or a recovery loop inside `saga.rollback` or `finalize_step`; `pc` is the next local transaction or the wait it is in |
| `claimed[d]` | rows returned by `claim_stuck` and not yet driven, with the state they had then |

Every action is one local transaction, one wait that ends, or a crash.  A wait
ends with an answer (`GotReserved`, `GotRefusal`, `GotReleased`) or with the
timeout, which may come at any moment.  `Answered` looks at every reply ever
committed, so a late copy of an old reply may resolve a new waiter of the same
(transaction, epoch).  `DriverDies` covers a crash, a cancelled request and an
error no handler of errors catches; a recovery loop loses the rest of its batch.

The request handler's two tries (`complete` calls `_begin` again after finishing
an old rollback) are the flag `again` and the program counter `begin`.

A takeover is two steps, since other workers run between its two statements.
`ReadForTakeover` locks the transaction row (`saga.py:125`) and reads the completion
row with a plain SELECT; `TakeOver` writes the state it read (`seen`) and commits.
While its program counter is `takeover`, `TxLocked` keeps all others from the
transaction row, and so from `_begin`, step 3 and `reopen`; recovery's claim and the
rollback's mark only write the completion row and go on.  The other local transactions
of the saga take their locks before they read what they decide on, and are one step.

Four constants say what is assumed of the environment:

* `LeaseCoversDriver`: a lease does not run out under a live driver.  The code
  hopes for it (10 s lease against a 3 s reserve budget) but does not enforce it.
* `LoneCompensator`: a COMPENSATING saga is taken up by one driver at a time.
  Nothing in the code ensures it: `_begin` does not look at the lease of a
  COMPENSATING row.
* `TakeoverAlone`: no recovery pass claims a saga while a call takes it over.
  Nothing in the code ensures it either: a claim does not touch the row that the
  takeover has locked.  It takes two statements of one local transaction to run
  around a recovery pass, so it is rare, but no lock or condition excludes it.
* `CommitAckKept`: a COMMIT of step 3 that succeeded is seen to succeed.

With all four the saga has one driver at a time, and everything one would want
holds.  With any of them off it may have two, or one that is wrong about the
outcome: each is turned off alone to show what goes wrong without it
(run `two_compensators`; `MCSagaStaleTakeover.cfg`, `MCSagaLostAck.cfg` and
`MCSagaLateDriver.cfg`, see section 5), and all are off in `saga_races`, which is about what holds regardless.

### Purchase and its refinement

`Purchase` has no messages, attempts, drivers or leases.  The mapping: a
transaction that is OPEN or COMPLETING is an open purchase (the public API says
OPEN for both); a purchase holds what the record of its current attempt holds.
That every step maps to a purchase step or to a stutter says in particular that
late, repeated and reordered requests are invisible, that a rollback puts back
exactly what was taken, and that an earlier attempt never shrinks the shelf.

### Topic and Outbox

`outbox.py` is the same program in both services.  `row[e]` is the outbox row of
event `e` (`published_at` set or not, then purged), numbered in the order of the
rows' ids.  `writer[e]` is the `publish_now` that follows the COMMIT; it is two
steps because the process may die between the publish and the mark.  A sweep is
one transaction: `claim[w]` are the rows it has locked and not yet published,
`marked[w]` those it has published and marked, visible to others only with
`SweepCommits`.  A row lock is membership in one of the two sets, so `SKIP
LOCKED` is a condition of `SweepClaims` and the writer's mark waits for the lock.

A publish that "fails" may only have timed out: `publish` gives up after 3 s, the
client's own request after 5 s.  `adrift` holds the events the client may still
send.  `Republish` is Checkout's second and third publish of a request while its
answer is awaited; Inventory has none, and a model with more steps is a safe
reading of it.  Age (2 s before a sweep, an hour before a purge) is left open: a
row is old enough at any time.

### ConsumerLoop

| Model | Code |
|---|---|
| `topic`, `committed`, `owner` | the partition, the group's offset and its member, all the broker's |
| `position[c]`, `batch[c]` | the client's position; the records returned by `poll` and not committed |
| `running[c]` | keys that hold a slot of the semaphore |
| `done[c]`, `tries[c]` | records whose `_handle_one` returned; `attempt` of the others |
| `applied`, `dead` | effects of the handler, by event; the dead-letter topic |

`Handle` is a handler that returns, `HandleTransient` one that raises `Transient`,
`HandleFails` one that raises anything else; in the last two the handler's COMMIT
may have happened all the same.  `Rebalance` gives the partition to a member,
which starts from the committed offset; the former owner does not notice and
finishes its batch.  What the broker refuses is its commit (`Commit` asks for
ownership), and a refused or failed commit is passed over (`CommitFails`): the
loop polls on from its own position, although the comment at `bus.py:357` expects
the batch to be redelivered.  That is harmless, and `OwnerHasSettled` says why.

### Channel and Delivery

`Delivery` runs an `Outbox` and a `ConsumerLoop` on one topic.  An event is sent
when its row exists and got when it was handled or became a dead letter.  With that mapping the
path implements `Channel`: safety for any faults, and delivery in the end if
faults end.

### LedgerStatements

`StockLedger` takes a request in one step.  Here a request is a transaction of a
`session` of some worker: `Begin` takes the snapshot of the first statement
(`prior`), `LockStock` takes the row locks of `locked` one by one, and the
decision, the insert of the record, the tombstone, the record's lock and the
restore are steps of their own.  What a statement sees follows READ COMMITTED:
`prior` is as old as the statement, a locked row is read after the lock is
granted.  An insert of a key that another session has inserted waits for its
COMMIT and then fails (`ReserveConflict`, which begins again) or does nothing.
`Aborts` is a lost connection at any moment.  Two sessions may handle requests of
different transactions at any time; requests of one transaction overlap only
after a rebalance under a batch in progress, and `raced` remembers that they did.
`ImplementsLedger` says that a COMMIT of a session that did not race is the one
step of `StockLedger`; `NoUnitLost` and `NoDeadlock` need no such condition.  For
one that did race the run `duplicate_reserve` shows the one thing that goes wrong.

### StoreReports

`SoldReport`, `StockReport` and `Check` are the two services' reports and checks 1
to 4 of `tools/verify_invariant.py`, as functions of the saga's state;
`StoresAgree` says that the tool passes when nothing is in flight.  Its checks 5
and 6 are `CursorReport` in `ScanWindows` and `ScanCount` and `Relayed` in
`ScanRelay`.  The tool's requests are not atomic: on a busy system it may fail
without anything being wrong, and the model does not judge that.

### ScanStream, ScanRelay

| Model | Code |
|---|---|
| `scans[i]` | the row `i` of `transaction_item`: its id not handed out, in an open statement, committed, or never to commit |
| `log`, `saved` | `scan_log.token` (tokens as numbers), the row of `relay_state` |
| `lock`, `relay[w]` | the advisory lock; the local variables of `run_pass` in worker `w`, and `_gap` |
| `stream` | the partition of `checkout.scans.v1` |

A pass is up to five steps, with failures and crashes between any two:
`ReadState`, `ReadToken`, `ReadBatch` (the committed prefix, `Walk`) or `SkipGap`,
one `PublishScan` per event, `SavePosition`; or `SaveFresh`; or `PublishReset` and
`SaveReset`.  `PublishFails` leaves any part of a batch on the topic and saves
nothing.  The grace is time: `GraceCovers` states the assumption that it outlasts
a scan's statement (1 s against statements of milliseconds), and without it
`EveryScanIsPublished` is false: an id that commits after its gap was skipped is
never published.  `LeadersOutlive` lets a leader live on without its lock, as it
may for five seconds; `SchemaDropped` lets the log be replaced by dropping the
schema.  A failed publish of the client that arrives later than the next event of
the same worker is left out (the client keeps the order of one producer).

### ScanWindows

| Model | Code |
|---|---|
| `source` | `KafkaScanSource`: position in the topic, rows kept, `highest_applied`, `caught_up`, `log_id` |
| `sup` | `PipelineSupervisor`: starting, running, in back-off, draining, drained |
| `tail` | `TailIngest`: last id read, next boundary, rows pending behind a hole, the hole waited for |
| `q1`, `slot` | the queue after the tail, and the `LatestSlot` before the output |
| `buffer`, `boundary`, `counts`, `written` | the filters' own variables |
| `window`, `latest`, `cursor` | `state.py`, what the API reads |

`WindowFilter`, `AggregationFilter` and the ranking in between are one step per
mark of the first queue: the queues between them only delay.  `q1` has one entry per id
that the tail has passed, with the scan of that id, if there is one, and a watermark, if it is a
boundary.  The deques of rows are sets, since they are filled in id order and each id
once: their order is that of the ids.  A pass of the tail is one step; the code's first
queue may make it wait inside a pass, which delays nothing but the tail.
`DrainedIsPublished` asks for a window only of a pipeline that has marked a boundary
(`tail.next > tail.first`): one that stops before has none.  What is assumed of the rest: events of one log
come in id order but for holes and repeats of the relay's last batch (that is
`ScansGoOutInOrder` and `PublishFails` of `ScanRelay`, with one leader), the tail
polls often enough that the buffer (`Keep`) never evicts a row it has not read,
an empty poll means the end of the topic (`EmptyPollsLie` turns that off: see
section 5), and a drain ends before its timeout.  A reset that repeats the token a
source already has, and strays of the next log before its reset, are not modelled.

### CatalogSnapshot

`topic` is a set of records with their offsets, since compaction removes older
records of a key at any time.  `publisher` sends the items in order, in chunks,
then the marker; a failed chunk may still arrive later (`late`).  A reader polls a
batch and applies it in any order that keeps the order of each key, which is what
the consumer loop does; `ReaderRestarts` starts over from the first record.  The
catalog is the same at every start: with one that shrinks, a snapshot keeps the
items that are gone (there are no tombstones).  The comment that the marker "never
overtakes" the items (`snapshot.py:64`) is not literally true, since a batch is
handled by key; what it is for, that ready means complete, holds because the
marker is a number to be reached.

## 3. The runs

| Run | Checks | Shows | States |
|---|---|---|---|
| `stock_ledger` (`MCStockLedger.cfg`) | `LedgerTypeOK`, `StockConserved`, `OneVerdict`, `LowStockAnnounced`, `RecordsOnlyAdvance` | Inventory under any sender: two transactions with two attempts each ask for and release the last units of two SKUs, every request late, repeated, reordered or never handled. | 179,561 |
| `reserve_statements` (`MCStatements.cfg`) | `NoUnitLost`, `NoDeadlock`, `ImplementsLedger` | The same handlers statement by statement, as READ COMMITTED runs them in two overlapping sessions: snapshots, row locks, waiting inserts and lost COMMITs do what one step of StockLedger does, as long as requests of one transaction do not overlap, and no unit is lost even when they do. | 90,353 |
| `duplicate_reserve` (`MCDuplicates.cfg`) | `OneVerdict` | Two copies of one reservation request overlap, after a rebalance: the one that waits for the stock finds too little left and answers "rejected" for an attempt that is APPLIED. | violated |
| `saga` (`MCSaga.cfg`) | `NothingOrphaned`, `SoldHoldsItsBasket`, `ReleaseHasItsState`, `FinalizedOnReservation` | Two transactions fight for one unit through two request handlers and a recovery loop, with crashes, timeouts and retries, as long as each saga has one driver at a time (all four switches on). | 896,110 |
| `saga_races` (`MCSagaRaces.cfg`) | `RowsAgree`, `RepeatsAskTheSame`, `SoldWasReserved`, `OutcomesStand`, `EveryCompletionEnds` | What still holds with every switch off: leases run out under a live handler that races recovery, recovery claims a saga between the read and the write of a takeover, both roll back the same saga and a COMMIT's answer is lost; and that every completion that is begun ends all the same. | 35,885 |
| `purchase` (`MCPurchase.cfg`) | `StoresAgree`, `ImplementsPurchase`, `HeldStockSettles` | With one driver at a time (all four switches on) the two services together behave as one system that holds, sells and puts back baskets, over three attempts and a basket that grows between them; their reports agree whenever nothing is in flight, and stock taken for an attempt is sold or comes back to the shelf. | 44,025 |
| `two_compensators` (`MCSagaTwoCompensators.cfg`) | `StoresAgree` | Two drivers finish one rollback: the slower reopens the next attempt, whose stock stays taken with nothing in flight. | violated |
| `delivery` (`MCDelivery.cfg`) | `MarkedIsPublished`, `PurgedIsReachable`, `ImplementsChannel` | Outbox, topic and consumer group together are a reliable channel: only what a transaction writes takes effect, it is settled in the end over crashes, failed publishes and rebalances that end, and what the outbox has forgotten its consumer can still find. | 46,029 |
| `consumer_loop` (`MCConsumerLoop.cfg`) | `NothingSkipped`, `KeysInOrder`, `CommittedAdvances`, `EveryRecordSettles` | Two members of a consumer group on one partition: batches, failing and malformed records, dead letters, deaths, rebalances under a batch in progress, commits that fail or come too late; and whatever fails for a while, every record is handled or becomes a dead letter. | 34,783 |
| `scan_relay` (`MCScanRelay.cfg`) | `SavedIsPublished`, `ReaderHasThisLog`, `ScansGoOutInOrder`, `EveryScanIsPublished` | Two workers contend to publish scans that commit in any order or never, over a log that is replaced, failed publishes, crashes between any two statements of a pass, and a leader that outlives its lock. | 205,642 |
| `scan_windows` (`MCScanWindows.cfg`) | `WindowsTypeOK`, `PublishedIsComplete`, `AnswersOnDemand`, `DrainedIsPublished`, `NeverOlder`, `CatchesUp` | Analytics over a stream with holes, repeats and a reset: the source, the tail, the filters and their queue, restarts of the pipeline and of the process, and a stop that drains. | 58,642 |
| `catalog` (`MCCatalog.cfg`) | `NoItemIsUnknown`, `MarkerHasItsItems`, `SnapshotsLoad` | Catalog publishes its three items in two batches over compaction, publishes that fail and arrive later, stops and restarts, while a reader loads them in batches that mix the keys. | 32,341 |

Configurations beside the runs, for `tlc -config <file> <module>`:

| Configuration | Module | What it shows |
|---|---|---|
| `MCOutbox.cfg` | `MCOutbox` | types, `MarkedIsPublished`, `SweepsAreApart` and the proofs' `OutboxInv` for three events of two transactions (282,397 states) |
| `MCSagaInvariants.cfg` | `MCSaga` | the proofs' `RaceInv` and the safety of `saga_races` with a second request handler (685,823 states) |
| `MCSagaSole.cfg` | `MCSaga` | `SoleInv`, what one driver at a time gives (44,025 states) |
| `MCSagaStaleTakeover.cfg` | `MCSaga` | violates `FinalizedOnReservation` (section 5) |
| `MCSagaLostAck.cfg` | `MCSaga` | violates `ReleaseHasItsState` (section 5) |
| `MCSagaLateDriver.cfg` | `MCSaga` | violates `FinalizedOnReservation` (section 5) |
| `MCEmptyPolls.cfg` | `MCScanWindows` | violates `PublishedIsComplete` (section 5) |
| `MCSchemaDropped.cfg` | `MCScanRelay` | violates `ReaderHasThisLog` (section 5) |

Bounds and why they are enough:

* Two transactions are what it takes to compete for a unit; two SKUs to have a
  basket that fits on one line and not on another.  One transaction with several
  attempts is what races inside a saga need, so those runs have one transaction
  and no unit to spare for an orphan.
* Two request handlers and one recovery loop are the call, its retry in another
  worker, and recovery; a second loop behaves as a second handler that resumes a
  rollback.
* `MaxEpoch` bounds attempts per transaction.  Two is enough for an old attempt
  to disturb a new one; the refinement run has three.  Liveness under racing
  drivers has one handler and one loop over two attempts; `MCSagaInvariants.cfg`
  adds the second handler for safety.
* `Baskets` bounds what is scanned.  In the runs with growing baskets a shopper
  whose attempt failed scans another unit, so attempts differ in what they ask.
* Symmetry is used only in runs without liveness, over transactions and handlers,
  which no definition tells apart.
* Deadlock (of the model) is checked for Inventory, whose consumer can always
  handle a request again, and for the loop and the path.  In the saga all
  transactions may be closed, in the scan runs all ids and failures be used up, and
  the catalog be published: nothing is left to do, so those runs switch it off.
  Deadlocks of the database are the invariant `NoDeadlock`.
* `MCOutbox.cfg` has two events of one key and one of another, two sweepers (a
  third would skip what the two have locked), and batches of two out of three.
  One copy per event (`MaxCopies`) still reaches every order of first copies; more
  copies only repeat, and the proofs cover any number.
* The loop run has two members, one slot, two records of one key and a malformed
  one in front; with three records (949,258 states, safety) nothing new happened.
* `reserve_statements` has two overlapping sessions, over two transactions and two
  SKUs in the order of their names; a third session (1,251,239 states) waits as the
  second does.  The same instance violates `OneVerdict` in `duplicate_reserve`.
* `scan_relay`: two ids are the least with a gap, two logs the least with a reset,
  two workers a leader and its successor.  One failure at a time; the proofs hold for
  any number of everything.
* `scan_windows`: four ids, a window of three that slides by two, so that windows
  overlap, the first is shorter than `Window`, and the log ends both on and off a
  boundary; one hole or repeat, one restart, one reset.  `Replay` and `Keep` are in the
  code's proportion (a window, a slide and repeats), stated by `WindowsAssumption`.
  `MaxLag` bounds how far the source is behind: what it applies later might as well
  arrive later.  Five ids (163,068 states) and an instance that evicts rows were
  clean, too.
* `catalog`: three items in batches of two make a marker in a batch with an item and
  an item in a batch of its own; one failure, stop or restart.
* The delivery run has one event, two sweepers and two consumers: what two events
  do to one another inside each half is the business of the runs above and, for any
  number of events, of the proofs.

Fairness of the loop and the path (`FairLoop`, `FairPath`): sweepers and consumers
run for ever (their loops catch every error but cancellation), and the group
gives the partition to some member.  No fairness is asked of writers: a
`publish_now` may always die.  `FaultsEnd` assumes that from some moment on
nothing fails; without it a broker or database that is down for ever delivers
nothing, and no retry could help.  Counted failures of a handler need not end.

Fairness of the scans.  `FairRelay`: each worker's loop goes on, statements of
scans end, a worker notices that its lock is gone, and a gap to which the relay
keeps coming back is over its grace some time (strong fairness of `SkipGap`: a new leader
waits anew).  `FairWindows`: the event loop runs some task that can run (weak
fairness of all the tasks' steps together, as one thread gives).  `FairReaders`:
readers poll for ever; nothing is asked of Catalog.  Failures are bounded by
`MaxFaults`, so they end.

Fairness of the saga (`FairSpec`): a live driver takes its steps, time passes, and requests
that were committed are delivered and handled (the outbox sweeper and the
consumer loop retry without end).  That presumes that some copy of each
request is handled, and not all of them fail for reasons that count and become dead
letters (`ConsumerLoop`): every rollback announces its release anew, but a bug that fails
each of them leaves the saga COMPENSATING.  `GetsThrough` says that who waits for the lock of the transaction row,
which a takeover holds for one local transaction, gets it some time.  Crashes, timeouts and failed finalizes may
happen any number of times; strong fairness of a loop's steps says only that they
do not hit the same step on the same transaction every time for ever.  Nothing
is asked of shoppers.

## 4. The proofs

The theorems hold for any sets of transactions, SKUs, handlers, loops and sessions, any
`MaxEpoch`, opening stock and baskets, and both values of every switch, under
the named `ASSUME`s of the modules (which TLC evaluates in every run).  Two of those
say that a set is finite: `TxAssumption`, for the sums over transactions, and
`SessionsAssumption`, since among infinitely many sessions each may wait for another
without a cycle.

* `LedgerProofs`.  The inductive invariant `LedgerInv` is the type invariant with
  `RepliesReportRecords` (a reply is only ever written next to the record it
  reports, and a record only advances, so an old reply stays true), `OneVerdict`,
  `StockConserved` and `LowStockAnnounced`.  `OneVerdict` needs that once "reserved"
  has been said the record is APPLIED or RELEASED, once "rejected" has been said it
  is REJECTED or RELEASED, and that the two never lead to one another.
  `StockConserved` is about a sum over all attempts: `GrowsUp` and `CountsUp` show
  that the sum over a finite set is what one term adds to the sum over the rest, so
  a step that writes one record moves the sum by that record's units, and
  `UnitsConserved` is the balance of each handler.  The step lemmas are stated for the
  ledger's own part of the state, so that the saga's proofs reuse them.
* `StatementsProofs`.  `StatementsInv` says of every session what its statements have
  seen and locked (`Sound`): what it has computed from a locked row is what the row
  still says, its program counter tells which rows it has locked, and no other session
  has any of them (`Apart`).  So no COMMIT overwrites another's: stock is
  conserved, whether requests of a transaction overlap or not.  For
  a session that did not race, the record it read before its locks is
  the record it finds at its COMMIT, and its writes are one step of `StockLedger`
  (`StatementsMakeLedger`).  `OrderPreventsDeadlock`: what a session has locked is
  before its own next row, so of the sessions that lock rows the one whose next row
  comes last waits for none of them; a session that waits for the insert of a
  record waits for one that has all its stock rows.
* `SagaProofs`.  `CoreInv`: types, attempt numbers within bounds, and
  `RowsAgree`.  The heart is that every write to the completion row is guarded
  either by the row not being closed or by the transaction being COMPLETING,
  which agree by induction.  `RaceInv` adds that everything in flight belongs to an
  attempt that has begun, that a request asks for the basket of its attempt as
  long as the attempt lasts, and that whoever may finalize has seen the stock
  reserved.  It needs no switch: it is what survives racing drivers, takeovers that write
  back a stale state included.  For those it needs that the one who takes over holds
  the transaction row (`TakeoverHoldsTx`): so the saga is not closed in between, its
  epoch is the one that was read, and a state RESERVED that is written back was reserved
  (`SawReserved`).
* `SagaSoleProofs`, under `SoleDriver` (the four switches of section 2).  `SoleInv`
  adds that a transaction has one driver or one claim, whose lease has not run out
  and which knows the row as it is (`OneAttendant`, `AttendedIsFresh`,
  `DriverIsCurrent`, `ClaimIsCurrent`); that what a takeover has read is still so when it
  writes, since nobody else gets hold of an unattended saga whose transaction is locked
  and which recovery may not claim (`TakeoverIsCurrent`); that an attempt ends only when its record is
  refused or released (`EndedAttemptsOver`) and is released only by a rollback
  (`ReleaseMeansRollback`); and that the attempt in progress holds the basket
  it has priced (`ReservedHolds`, `PricedAsTaken`).  The four properties of the `saga`
  run follow.  The crux is that a driver alone may reopen what it rolls back:
  it waits for the release or for a refusal, so that all older attempts are over
  when the next one begins, and nobody else is on the way to reopen that one.
  In the second part of the module, `SagaMakesPurchases` maps each step of the saga
  and of Inventory to a step of `Purchase` or to a stutter; `SoleInv` is what
  makes late and repeated requests stutter.  `StoresAlwaysAgree`: when nothing is in
  flight, a transaction holds units if and only if it is completed, and then its
  basket, so that both sums have equal terms (`SumOfSelected`).
* `DeliveryProofs`, in three parts.  `OutboxInv`: who is about to mark a row has
  published it, so marks are never early; locks make the claims of sweepers disjoint
  and keep the writer and the purge away from claimed rows.  `LoopInv`: what the owner
  has polled is settled but for its batch (`OwnerHasSettled`), and below any batch,
  whoever holds it, everything is settled (`BatchesRestOnSettled`).  The first makes a
  commit safe even after a failed one, the second keeps a former owner's late effects
  in key order.  Both hold along the path, and with them `PurgedIsReachable` and the
  refinement's safety part: each step is a `Send`, a `Get` or invisible.
* `ScanRelayProofs`.  `RelayInv`: nobody holds a token of a log to come, so what
  a pass read of an old log says nothing of the new one (`TokensPast`); ids are
  handed out in order (`IdsInOrder`), so that a gap below a committed id is never
  filled by an id not yet handed out; and what a pass has read, or is about to
  save over, is settled or still in its hands (`ReadIsSettled`, `BatchIsSettled`).
  The batch is the lowest committed ids above the position (`RowsAreLowest`, by
  cardinalities), so an id in a skipped gap is neither committed nor open nor
  free: it never will commit.  No part of it asks for a lock: the lock is for
  order, not for safety of the position.  Order is `OneLeaderInv`, which holds
  unless the schema was dropped or a leader outlived its lock: only the leader is in a
  pass and its position is the saved one (`LeaderLeads`), the log that the topic
  announced last is the saved one (`TopicIsCurrent`), what a reader has of that log
  ends where the pass stands (`PassStands`) and has no hole below the position
  (`ReaderMissesNone`).  `ReaderIsCurrent` and `ScansAreInOrder` follow.
* `ScanWindowsProofs`.  Four of its five theorems assume `~ EmptyPollsLie`: with polls
  that are empty before the end of the topic a window may be published half-filled
  (section 5).  `PipelineInv` follows a scan along its way:
  - *the topic*.  A log's ids are said in order but for repeats (`SaidInOrder`), and
    since a scan was said every event is a higher scan or noise (`FewEvents`).  So a
    scan more than `Replay` events ago is at least a window and a slide below the
    newest one, which is what `WindowsAssumption` asks of `Replay`.
  - *the source* (`SourceInv`).  Each scan the topic has said up to the source's place is
    among its rows or old: so far below another one that no window to come reaches it.
    That holds of a replay that starts in the middle of the topic, and of the row that
    goes when `Keep` is reached.
  - *the tail* (`TailInv`).  Above the tail the source has all there is (`TailReads`), and
    a hole ends below the lowest pending row, so that a pass takes every scan of the ids
    it passes and nothing that comes later is below it (`PassTakes`, `PastStays`).
  - *boundaries* (`NextInv`).  Boundaries are the multiples of the slide from the first
    on, and the next one is the first above the tail.
  - *the filters* (`FiltersInv`).  The queue has an entry for each id from where the
    filters are to where the tail is, in order, with the scans of that id; the buffer
    has the rows between what has been evicted and there, and `counts` counts those up
    to the last boundary.  That evicting by id takes away what was once
    added, and no more, is the balance of `Counted` (`CountedIs`); that the difference
    never is below zero, where the code would cut it off, is part of it.
  - *the slot and what is published* (`SlotInv`, `LatestInv`).  What waits in the slot is
    the window at the last boundary; without one that window is published.  A window
    published before a restart is no newer than the first of the new pipeline.

  `PublishedCountsAreTrue`, `WindowsOnlyGetNewer` and `StopsPublishTheLastWindow` are read off.
  `AnswersAreTrue` needs `WindowInv` besides: the deque holds the newest rows since the start of
  the tail, and these reach down to the bottom of the window asked for.
  `WindowsTypes` needs none of it, and holds of polls that lie, too.
* `CatalogProofs`.  A marker is only ever behind all items: what has been
  published before it is still there, since compaction leaves the last record of
  a key.  A ready reader has counted as many items as the catalog has, and it
  holds only items of the catalog, so it has all of them.

What cannot be proved with the provers at hand stays with TLC: liveness (fairness and
ENABLED), which includes the delivery half of `ImplementsChannel`.  The library's
induction theorems take an operator as a parameter, which the
provers cannot instantiate; the lemmas on sums, on drained prefixes and on the newest
rows do without, by well-founded induction over a set of subsets, by a least
counterexample, or by cardinalities.

## 5. Disagreements

* `services/checkout/src/checkout_service/saga.py:146` (run `two_compensators`, property `StoresAgree`).  tools/verify_invariant.py:11 and 14 state that "initial_stock - current_stock equals the units on COMPLETED transactions" and that "every APPLIED reservation belongs to a COMPLETED transaction and vice versa". A COMPENSATING saga is taken up without looking at its lease (saga.py:146-147), and reopen (repo.py:119-128) is not keyed by the epoch. Two drivers may finish the same rollback; after the first, a call begins the next attempt, and the second reopens that one: its driver cannot finalize, answers 503 and releases nothing, so its units stay APPLIED under an OPEN transaction that no recovery pass looks at.
* `services/inventory/src/inventory_service/reserve.py:198` (run `duplicate_reserve`, property `OneVerdict`).  reserve.py:38-40 says of two identical reserves that race that "the loser's insert into `stock_adjustment` fails and it is repeated in a fresh transaction", and reserve.py:9-10 that "a repeated `reserve` returns the recorded result without a second decrement". That is so only if the stock covers both. If the winner takes the last units, the loser, whose statement began before the winner's COMMIT and waited for the stock lock, sees no record in its snapshot and too little stock in the locked rows: it inserts nothing, so nothing fails, and falls through to _RECORD_REJECTED, whose ON CONFLICT DO NOTHING keeps the APPLIED record while the reply says "rejected". Checkout then reopens without a release (saga.py:194-199) and the units stay taken. Copies overlap when a rebalance moves the partition under a batch in progress.

Five more, each shown by a configuration beside the runs:

* `saga.py:156` (`MCSagaStaleTakeover.cfg`).  repo.py:101-103 says that step 3 is
  guarded so that "a completion that was rolled back elsewhere is not finalized behind
  its back", and saga.py:154-155 of a takeover that "Every step is idempotent, so
  taking over cannot double-apply anything". A takeover reads the completion row with
  a plain SELECT (saga.py:143) and writes the state it read in a later statement
  (saga.py:156); what it has locked is the transaction row, which recovery's claim
  (repo.py:132-140) and mark (saga.py:66-67) never touch. After a driver has died and
  its lease has run out, a call reads RESERVING, recovery claims the same row, and the
  call writes RESERVING back: the saga has two drivers although no lease ran out under
  a live one. Inventory reserves, the call notes it, recovery marks the row
  COMPENSATING and announces the release, and the call's finalize, guarded by the
  transaction's status alone, completes the transaction: its stock goes back to the
  shelf.
* `saga.py:213` (`MCSagaLostAck.cfg`).  saga.py:63-64 says of COMPENSATING and the
  release that "the release can never be forgotten, and is never announced without the
  state". `except Exception` around step 3 also catches a connection that is lost
  after the COMMIT took effect. The rollback that follows finds the completion row
  COMPLETED and leaves it alone (repo.py:98), but writes the release to the outbox all
  the same (saga.py:65-68): Inventory puts back the stock of a COMPLETED transaction,
  and reopen (repo.py:119-128) finds nothing to reopen.
* `repo.py:108` (`MCSagaLateDriver.cfg`).  `repo.py:101-103` says that step 3 is
  guarded so that "a completion that was rolled back elsewhere is not finalized
  behind its back".  The guard is the status alone, without the epoch: a handler
  that outlives its lease finds COMPLETING again after a rollback and a retry, and
  finalizes the new attempt, whose stock may not be reserved.
* `scan_source.py:75` (`MCEmptyPolls.cfg`).  supervisor.py:94-95 promises that "The
  first window published is b0 itself (complete), never a half-filled earlier
  boundary". The source takes an empty poll for the end of its replay, but the bus
  client also returns an empty list when the broker is not there yet and when a poll
  fails (bus.py:324-335). With such a poll after the first event of a replay, the
  pipeline bootstraps from that event's id and publishes a window that lacks scans
  which the topic has and the source has not: in the configuration, the window that
  ends at 2 without the scan 2.
* `seed.py:36` (`MCSchemaDropped.cfg`).  `--reset` drops the schema and
  `relay_state` with it; the relay takes that for a fresh database, for which
  "nothing was ever published, so there is nothing to reset" (`relay.py:60`), and
  announces no reset.  A running Analytics goes on with the old log's scans, and
  takes the new log's first ids for repeats.

And a weakness that no text of the repository denies: a relay whose leader lives on
without its lock may publish ids out of order (`ScansGoOutInOrder` excludes it by
`outlived`).

## 6. What is not modelled

Prices and totals in cents, names on receipts, request ids, health endpoints and
the HTTP layer are data or wording.  The HTTP gateway, the load client, the mock
server and the scripts hold no protocol state.  The order of equal counts in the
ranking is data.  Of the bus client, encoding, reconnecting and the in-memory bus
of the tests are left out.  The consistency tool's requests are not atomic, and
its waiting is not modelled.  Seeds run before the system, but for the one that
replaces the scan log.

Topics keep what is published for as long as anyone reads it.  The broker keeps
`checkout.completions.v1` and `inventory.stock.v1` for a day
(`events/topics.yaml:33` and `41`), and the outbox forgets published rows after an hour:
a consumer group that is down for longer than a day loses events, and
`PurgedIsReachable` says nothing of that.

## 7. Plan

Every invariant that a run expects to hold, and every action property, is proved (under the
hypotheses that section 4 names).  Left:

1. `ScanRelay` and `ScanWindows` joined: that the relay's topic, between two resets, is
   one that `ScanArrives` may make is now stated only by `ScansAreInOrder` on the
   relay's side and by `InOrder` on the other's.
2. The liveness properties stay with TLC.
