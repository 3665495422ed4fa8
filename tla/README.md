# A TLA+ development for artemis-light

artemis-light is a Rust framework for on-chain bots: collectors turn chain data
into events, strategies turn events into actions, executors carry actions out,
and an engine runs them as tasks joined by two broadcast channels. This
directory models the parts in which concurrency, failure and order decide
whether the program is right, checks them with TLC on small instances and proves
the core of them with TLAPS for every instance. Paths below are relative to the
repository's crate source (`src/` of the repository).

## 1. The system

| Component | State | Operations | What makes it correct |
|---|---|---|---|
| Persisted collector (`persistence/persisted.rs`) | replay-once flag; per subscription the tip, the stored position, the segments, a poison token | `subscribe`: open the live source, read the tip, read the stored position, Replay, chunked Backfill, Live Tail | every event from the start block on is delivered; the Store holds a gap-free, canonical prefix |
| Writer pipeline (`persistence/writer/mod.rs`) | the two writers below | `persist_and_emit`: backfill into the settled writer or the window, hand over, live tail into the window | the window writes after, and above, the settled prefix |
| Block writer (`writer/block.rs`) | open group, health | `record`, `finish` | one transaction per complete height, in order; halts rather than leave a hole |
| Confirmation window (`writer/window.rs`) | buffered groups, head, watermark, health | `record`, `record_seeded`, `absorb`, `retract`, `halt`, the flush loop | nothing is stored before it is buried, nothing twice, nothing over a gap |
| Gap-free core and Store (`writer/mod.rs`, `store.rs`, `sqlstore.rs`) | event table, progress row, sticky health flag | `encode`, `flush`, `fail`; `write`, `stored_position`, `replay` | rows and position commit together; a failure halts for good |
| Event collector (`collectors/event_collector.rs`) | the node's log subscription | `subscribe_indexed`, `query_range`, `tip` | events and retractions in the node's order |
| Collector driver and reconnect policy (`engine/driver.rs`, `engine/reconnect.rs`) | loop state, failure count, the root and fatal tokens | subscribe, pump, back off, escalate | a broken source takes the engine down, with the reason set first; a cancelled engine stops |
| Engine and channels (`engine.rs`, `engine/channel.rs`) | task set, two broadcast rings | `run`, spawn, sync, pump | consumers are ready before producers start; lag is survived; shutdown ends every task |
| Mempool executor and pricing (`executors/mempool_executor.rs`, `executors/pricing.rs`) | pinned nonce, remembered hashes, fees, replacement and failure counts | price, send, watch, replace, sweep the receipts | an action takes effect at most once, its fate is reported, `execute` returns |
| Executor wrappers (`executor_ext/`) | failure count of the breaker, recent instants of the rate limit, flag of the gate | retry, limit, break, gate, expire, fall back | the cap holds in every window; an open breaker lets nothing through |
| Positions (`persistence/position.rs`) | a block height, or a time frontier (an instant and the identities seen at it) | `advance`, `contains`, `sort_key`, `resume_key`, `encode`, `decode` | `advance` never goes back, what is contained stays contained, a resume misses nothing |
| SQL store (`sqlstore.rs`, `query.rs`, `dialect.rs`) | event tables, progress table with or without the position column, migration flag | `write` as a transaction of DDL, migration, insert, upsert; `stored_position`, `replay` | first-write races are benign; a resume is exact in every shape of the tables |
| Records (`record.rs`, `schema.rs`) | inferred columns, frozen by the first event of a subscription | `encode`, `decode` | an event that cannot be stored is refused before the transaction |
| Serving (`serving/`) | none of its own; a pool and a shutdown token | `/health`, `/tables`, `/schema`, `/status`, `/rows` | a client that pages gets every row up to the reported block, once |
| Block, log, mempool and channel collectors (`collectors/`) | polling queue with attempts, lookups under way, a receiver | subscribe or poll, fetch, retry, give up, look up | every item is delivered once or given up after all its attempts |
| Combinators (`collector_ext/`, `strategy_ext/`) | which source is being polled; the cooldown instant | chain, merge, fall back, map, filter, cool down | the sources' contracts; no action inside the quiet time |
| Feedback pipeline (`executor_ext/report.rs`, `collectors/channel_collector.rs`, the feedback example) | the outcomes channel | report, collect, learn | the loop closes: what was accepted is confirmed and not submitted again |

The engine spawns one driver per collector. A driver calls `subscribe` of its
collector, pumps the stream into the event channel, and calls it again when the
stream ends. A persisted collector's stream carries its whole writer pipeline:
the Store is written while the driver polls, and every `.await` on the way is a
point where the chain may have moved or the task may be gone. The drivers share
two cancellation tokens with all other tasks.

The collectors' writers may share one SQL store and its pool, and the serving
layer, usually another process, reads the same tables while they are written. An
executor under `Report` feeds a collector of the same engine.

The hard parts, with their lines, are the `hazards` of `PROJECT.json`: the live
source is opened before the tip is read, reorgs cross the boundary of backfill
and live tail, a flush loop dies half way, a commit fails ambiguously, a stream
is dropped unpolled, a late backfill window fails, arithmetic at both ends of
the key space, two-step escalation, unbiased selects, zombies, receivers that are
overrun, a send that times out while the node accepts it, races for one nonce,
operator actions between the steps of an action, first writes that race on DDL and
on a migration, column types frozen anew by every subscription, a boundary instant that
is read twice, a commit whose outcome is unknown, a page read while rows are added,
a retry queue that reorders blocks, a verdict that goes out while nobody listens.

## 2. The modules

| Module | Models | |
|---|---|---|
| `GapFreeWriter` | the core and the Store's contract | constants, `table`, `progress`, `write`, `failed_write` |
| `BlockPosition`, `TimeFrontier` | the two positions of `position.rs` | operators only, one per method of the trait |
| `ConfirmationWindow` | `window.rs` for block positions | extends `GapFreeWriter`; one operator per method, and a stand-alone `Spec` over every call sequence its caller can make |
| `BlockWriter` | `block.rs` for block positions | extends `GapFreeWriter` |
| `EventSource` | the chain behind an event collector | `mine`, `reorg`, the live subscription, `query_range` |
| `Persisted` | `persisted.rs` and `persist_and_emit` | extends `EventSource`, instantiates both writers over one Store; backfill windows that are too large are bisected |
| `PersistedBoundary` | the same with two history variables | what the backfill tail delivered and the live tail has not repeated, and whether it saw a retraction |
| `DurablePrefix` | the abstract promise about the Store | `Persisted` implements it (`StoreIsDurablePrefix`) |
| `Frontier` | both writers, `persist_and_emit` and `persisted.rs` where the position is a frontier (policy Dedupe), and bounded mode | extends `TimeFrontier`; over the ledger feed of the example |
| `Record` | `record.rs`, `schema.rs`, the value side of `dialect.rs` | operators over kinds of values |
| `SqlStore` | `sqlstore.rs`, `query.rs` | extends `Record`; any number of collectors that share one store; shown to implement the Store of `GapFreeWriter` |
| `Serving` | `serving/` | extends `SqlStore`: the layer reads what the writers commit |
| `CollectorDriver` | `driver.rs`, `reconnect.rs` | any number of drivers, root and fatal token |
| `Engine` | `engine.rs`, `channel.rs` | extends `CollectorDriver`: start-up, the two channels, strategy, executor and observer tasks around the drivers, shutdown |
| `Pricing` | `pricing.rs` | operators only |
| `MempoolExecutor` | `mempool_executor.rs` | extends `Pricing`; one `execute` against a node |
| `ReliabilityStack` | `executor_ext/`, `backoff.rs` | the wrappers around one executor, as the repository's README nests them |
| `Sources` | the block, log and mempool collectors and two of them in a `Chain`, `Merge` or `Fallback` | |
| `Feedback` | the feedback pipeline: strategy wrappers, `Fallback`, `Report`, `FilterMapAction`, `ChannelCollector` | extends `Sources` |
| `*Proofs` | theorems | see section 5 |
| `MC*` | TLC instances | constants of the runs |

How state corresponds to code:

- A position is a block height in `0..MaxKey`, `MaxKey` standing for `u64::MAX`.
  `Option::None` is -1, below every key, so "some `f` and `key <= f`" is a plain
  comparison. `advance` is the maximum, additions saturate.
- A row is a model value; two events are equal exactly when their rows are, as
  the window compares rows. An event that `encode` rejects is a member of
  `Unencodable`.
- One Store write is one step. It succeeds, or (with `WriteFails`) returns an
  error with or without having taken effect, because an error from COMMIT says
  nothing.
- The flush loop of the window awaits one write per group, so each write is a
  step (`flush`), and `maturing` holds the keys the loop has still to write.
- `subscribe` has three steps (`subscribe_live`, `read_tip`, `open_segments`),
  one per await on the chain. The reads of the Store in between share a step
  with the query that follows: only this stream writes the Store.
- `poll_replay` is the first poll: it sets the replay-once flag and delivers the
  archive, which is already in memory.
- `crash` drops everything but the Store, at any moment; `stream_ends` is the
  loss of the live connection, `drop_unpolled` the loss of a stream whose
  sibling in a composite failed to subscribe.
- A backfill window that the node refuses as too large (`ResponseCap`) is split;
  `parts` holds the halves still to be queried, the phase is `split`, and the
  chain moves between two halves. All of a window is fetched before any of it is
  pulled.
- In `Frontier` an event is named by its identity; the feed may publish an event
  up to `Jitter` instants behind the newest, and reports a tip that lags by as
  much. `query_range` answers in any order, or sorted by instant if the feed sorts
  (`sorts`, chosen once): the example's feed does, the contract does not ask for it.
  A writer is a record (`settled`, `window`), because both keep a watermark
  frontier of their own. `to_block` is chosen anew by every process, so that an
  archive written without a bound is read with one and the other way round.
- In `SqlStore` every statement of a write is a step, so that other collectors'
  statements come in between. PostgreSQL is assumed at READ COMMITTED: CREATE
  TABLE IF NOT EXISTS waits for another creator and then fails with a duplicate
  object, ADD COLUMN excludes every other statement on the table until it is
  committed. SQLite has one connection, so its transactions do not overlap. The
  shape of the progress table is absent, old (no position column), nullable (the
  column was added) or current (created with it). The migration flag is set after
  the commit and lost with the process. Every `subscribe` makes a Record of its own,
  whose inferred columns are frozen by the first event it encodes, while the table
  keeps its types. A stream ends, or is dropped, at any await (`stream_ends`) and the
  driver subscribes again in the same process; `restart` does the same to all streams
  and to the store's flag. Either is the only way out of a halt. `foreign` has the
  tables whose columns an earlier subscription inferred, or an older binary made. Values are abstracted to
  their kinds (`Record`): what a column accepts, and what it then holds, depends
  on nothing else. One row is bound per write.
- In `Serving` one request is followed at a time and each of its reads is a step.
  The client takes a block from `/status` and pages up to it by offset, with the
  limits of `Limits`, until a page is shorter than the limit reported. `reply`
  keeps an error only if it is about a table; 503, 400 and a 500 for a failed read are
  not told from a success by any property.
- In `Sources` an item is a hash. `fate` says whether an item that was sent to a
  stream is still owed, `tries` counts its fetches; every fault is taken from one
  budget, `MaxFaults`. What a stream still owes
  when it ends is lost with it, as in the code.
- In `Feedback` the engine's two channels are bounded sequences; overrunning them
  is the business of `Engine`. The outcomes channel keeps its capacity and drops
  the oldest. Time is the age of the cooldown's stamp.
- In `EventSource` a reorg replaces the blocks from some height on; the node
  sends the removed logs again, lowest or highest block first, and then the new
  ones. Unless `DeepReorgs`, a block buried `FinalDepth` deep under the highest
  block ever seen is never replaced.
- A driver's state names the await it is in. The cancels of fatal and root are
  two steps. The select around `subscribe` is biased, the others are not, so an
  event, an ended stream or an expired sleep may win over a cancelled token.
  Time is not modelled: whether a stream was up for `healthy_uptime` is a free
  choice, except for collectors in `Zombies`.
- A broadcast channel is the number of messages sent, a receiver the number of
  the next message it reads; the ring keeps the last `capacity` of them. tokio
  reports the lag and moves the receiver on in one `recv`, `into_stream` swallows
  the report, so the jump is part of the next delivery. Taking an action off a
  strategy's stream and sending it are one step: after a cancellation between the
  two nobody receives it. The branch of `run` for a token cancelled during
  `sync_state` is left out: until `run` returns nobody else holds the token. The
  drivers are those of `CollectorDriver`: they are spawned last, an event a driver
  takes from its stream is sent in the same step, and root is the token every other
  task observes.
- In `MempoolExecutor` a request to the node is on the `wire` until the node
  handles it, which may be after the caller's timeout. Whatever the node accepted
  may be mined while the account's nonce is its own, replaced or not, and other
  transactions of the account compete. The nonce is pinned at the pending count
  (`PendingCounts`), which is above the account's when some of those are in the pool. A watch that times out may have missed a
  mined transaction. The fault modes are constants (`RpcFails`, `SendTimesOut`,
  `LookupFails`).
- In `ReliabilityStack` time is relative: ages and remaining times that `tick`
  moves on. One action is in hand at a time, because the executor's task awaits
  `execute`. The operator's `reset` and `flip` happen between any two steps.
- Variables called history exist only in the model: `seen`, `deep`, `owed`,
  `retracted`, `caller`, `got_events`, `got_actions`, `watches`, `underpriced`,
  `passed`, `in_row`, `dropped`, `foreign`, `delivered` (of `Frontier`), `fate`,
  `tries`, `since`, `accepted`. No guard reads them; `foreign` also tells
  the initial archives of `SqlStore` apart.

## 3. The runs

| Run | Bounds | What it shows |
|---|---|---|
| `window` | 4 keys, depth 2, 3 rows of which one unencodable, 2 rows per group, failing writes | nothing is written before it is buried, twice or downward, and nothing buried is held; seeding, rewinding, retracting, halting, reopening, and saturation at the last key all occur |
| `persisted_faults` | heights 0..3, depth 2, one reorg, blocks with none, two or one unencodable event, windows of 2 that may be bisected, failing queries and writes | the Store refines `DurablePrefix`; nothing stored is hidden, nothing delivered has a gap, halted writer or not |
| `persisted_deep` | heights 0..3, depth 1, one reorg of any depth, failing and bisected queries, fair polling | a healthy, caught-up window has stored only canonical blocks; without a deep reorg, persistence halts only after a growth between the two reads of `subscribe`; without a retraction, an event carried by backfill and live tail is delivered once; buried events are stored at last |
| `frontier` | 4 identities of which one unencodable, instants 0..2, jitter 1, depth 1, failing writes, any `to_block` | an identity has at most one row and one delivery per stream; the stored frontier lists exactly what is stored at its instant; over a feed that sorts its answers, while the depth covers the jitter, a live tail that has caught up has stored or holds every event |
| `archive` | any number of subscriptions and restarts; two tables, one inferred from a field that is small or above i64::MAX, one declared NUMERIC; i64::MAX = 1, u64::MAX = 2; both backends, fresh or old archive; failing statements, commits and reads; pages of one row | DDL and migration races halt nobody, resumes are exact, a write of several statements is the atomic write of the Store contract, pages are complete, every error has its cause |
| `drivers` | 3 drivers, one a zombie, limit 3, fairness | the order of an escalation; a zombie is given up; a cancelled engine stops |
| `engine` | a strategy, an executor, an observer, a collector that may fail once, 2 events that lead to no or three actions each, rings of 1 and 2 messages, fairness | nothing flows before every strategy is ready; only lag loses messages; no task ends before shutdown and all of them end after it, be it the caller's or an escalation; actions are executed |
| `pipeline` | 2 hashes, one discarded; log then block in a chain, log and mempool merged, block falling back to mempool; 2 fetch attempts, 1 lookup, 2 faults; 3 trades, 2 allowed, 1 routed; cooldown 1, an outcomes channel of 1, fairness | no item is lost or doubled, the composites keep their contracts, the quiet time is kept, the loop closes |
| `executor` | 2 replacements, 2 repeated watches, one foreign transaction, four bids, all faults, fairness | one effect, no false success, no false failure of a known submission, bounded watches, no underpriced replacement, termination |
| `stack` | threshold 2, 3 calls per 4 ticks, 3 retries with a backoff factor of at most 2, actions that expire at once, soon or never, fairness | the cap; a breaker that opens after fresh failures; every action is answered |
| `spurious_halt` | heights 0..3, depth 1, no reorg, no faults | **violated**: see below |
| `executor_lost_send` | as `executor`, no failing lookup | **violated**: see below |

The bounds are the smallest at which the cases meet. With depth 2 and heights
0..3 a backfill has a settled part, a pending tail of two heights, two windows,
and room for live blocks that mature it; one reorg already meets every phase of
a subscription, and the crash and drop actions are unbounded, so any number of
subscriptions follow one another. Two events in a block are needed for a block
that is retracted log by log. `MaxKey` is above every height plus the depth in the
composed runs, so that saturation is the business of the `window` run alone.
`MaxRows` bounds the rows of a group in the `window` run. In `frontier` two
identities share an instant in some behaviours and straddle a boundary in others;
jitter and depth of one are the least that reorder. In `archive` a sort key above
i64::MAX exists (2) and two writes fit below it; an old archive holds one of the
two tables, so that the other's first write meets the migration; either table may
create, migrate, lose the race, or die in any statement. In `engine` a ring of one
event is overrun by the second, three actions of one event overrun a ring of two, and
the third of them (`Followed`) is the last there is or is overrun by the second event's. In `pipeline` two faults are
what it takes to use up the attempts of one item or to fail an executor and its
fallback. In `executor` two replacements make a sweep of three hashes, in which the
mined one is first, middle or last, and `MaxForeign` lets the nonce be taken by
somebody else. In `stack` the window is shorter than an action with its backoffs, so
that old and new calls share it, and the third retry is past the saturation of the
backoff's factor (`MaxFactor`, u32::MAX in the code). In `archive` the field of the
inferred table is small in one event and above i64::MAX in another, so that two
subscriptions freeze different types, both in one process and across a restart.

Every property of a passing run has a mutant of the code model that breaks it
(`mutants`), kept beside the definition it changes.

### Disagreements between code and documentation

Two have a run that shows them:

1. `spurious_halt`: `subscribe` opens the live source, then reads the tip, and
   the window's watermark starts at tip - depth. If more than depth blocks are
   mined in between, the live source holds events at or below the watermark, and
   `record` takes the first of them for a reorg deeper than the depth: persistence
   halts until the stream ends. The comment in `subscribe` knows only the three
   cases boundary overlap, in-window fork and deep reorg. `HaltHasCause`
   (`persisted_deep`) shows that without a deep reorg and a failing write or event,
   persistence halts only in a subscription that read a tip other than the one at
   which it opened the source.
2. `executor_lost_send`: a replacement is remembered only after its send
   returned. One whose send times out may still be accepted and mined; the sweep
   does not know its hash and `execute` reports a failure, while the comment on
   `send_with_replacement` and CONTEXT.md say that a transaction that mined is
   never reported as one. `KnownIsReported` is what does hold.

Others were seen while modelling; the models contain the behaviour, and where a
property had to be stated more weakly because of it the property is named:

- `rewind` turns a seeded group into one that expects its rows again; a second
  rewind (the node retracts log by log) drops it, and an identical re-emission is
  delivered downstream a second time, against the comment on `rewind`. The Store
  is not affected. `OverlapDeliveredOnce` is what holds.
- `BlockWriter::covered` asks the watermark, and a frontier contains every earlier
  instant, stored or not. A backfill that answers with the instants 1, 2, 0 writes the
  group of 1 when 2 arrives; the event at 0 is then taken for a re-observation, neither
  stored nor delivered, and no resume asks for it again. The comment on `covered` and
  the test beside it say that an event out of order is not swallowed, and that a halt
  keeps it for a restart; that is so only while nothing above it was flushed.
  `NothingLost` therefore speaks of feeds that sort; the other three properties of
  `frontier` hold in any order.
- `Deadline` drops an expired action with Ok, and the breaker clears its count on
  every Ok; CONTEXT.md says the drop is invisible to it. An executor that never
  succeeds need not open the circuit. `FreshFailuresOpen` is what holds; it says
  nothing of failures with an expired drop among them.
- A Record freezes its inferred columns anew in every subscription, from the first
  event that subscription encodes, while the table keeps the types it was created
  with. It takes no restart: a reconnect of the driver is enough. A first event of
  another kind then fails to bind on PostgreSQL and halts persistence, and is stored
  on SQLite, where the serving layer answers 500 for it. `FailureHasCause` and
  `ErrorHasCause` name this cause: a table of `foreign`, the first of them only if its
  columns really differ from the Record's, the second only on SQLite.
- `ensure_value_fits` looks at INTEGER columns only; a declared REAL or BLOB column
  can still refuse a value in the middle of the transaction.
- `record.rs` advises NUMERIC for values above i64::MAX. On SQLite the catalog
  reports such a column as TEXT, the column holds a number, and reading it fails
  (`ErrorHasCause`). The proof of `ErrorHasCause` for every kind of event showed two
  more such columns, which the run's instance does not have: SQLite keeps a float
  with a fraction in an INTEGER column, and text in a REAL or BLOB one, as they
  are, and the serving layer answers 500 for the row. `Misread` is all of them.
- `advance_watermark` says that a NULL position cannot occur; `stored_position`
  handles the case that it does, for a row an older binary wrote after the
  migration.
- A source of a `Merge` that has ended is not subscribed again while the other
  lives. Polled blocks leave out of order after a retry, and the retry queue is lost
  when the polling stream ends.
- `Report` around `FilterMapAction` reports Ok for an action that was skipped, so a
  strategy takes it for executed (`LoopCloses` speaks of routed trades only).
- The failure count of a collector is also reset by the end of a stream that was up
  for `healthy_uptime` (CONTEXT.md knows only the delivered event); a fee below ten
  units is escalated to itself by the integer division, short of the node's bump
  (the theorem `EscalationClears` has the bound); escalation takes no account of a
  gas bid; a repeated watch gets a whole confirmation timeout again, so an action
  can hold its task for `WatchBudget` timeouts and not for the
  `(max_replacements + 1)` of the comment; the gate's flag is read once, before the
  waits of the layers below it.

## 4. Fairness

`PersistedBoundary!BoundarySpec` has weak fairness of the stream as a whole: the driver polls
the stream whenever it can make a step. Nothing makes the chain move, a query
fail, a connection drop or the process die. `BuriedEventuallyStored` assumes
that subscriptions stop ending and persistence stays healthy, because the
unflushed window is dropped on purpose when a stream ends and a halted writer
stays halted. It speaks of events buried under another *event*: the window's
head moves with events, not with empty blocks.

`CollectorDriver!DriverFairness`: a cancelled token stays ready and `select!` picks a
random ready branch, so the cancelled branch is taken at last even against a
stream that is always ready; the two steps of an escalation are synchronous. A
zombie's subscribe answers and its streams end by definition. Nothing is assumed
of other collectors: a subscribe may hang for ever.

`Engine!FairSpec`: the runtime polls every task; `process_event`, `execute` and the
observers return; a driver takes the cancelled branch and finishes an
escalation, as above.
Not assumed: that `sync_state` returns, that a source sends anything, that a
strategy's stream of actions ends by itself.

`MempoolExecutor!FairSpec`: weak fairness of the executor alone. Every await of it
is bounded by `rpc_timeout` or the confirmation timeout, so it can always go on;
the node need not do anything.

`ReliabilityStack!FairSpec`: the task runs, the executor inside answers, and time
goes on.

`Feedback!Fairness`: blocks keep coming, a driver subscribes again, every task runs,
the executors answer, and time goes on. The outside world fails finitely often
(`MaxFaults`); no failure is forced. `collect_outcome` is strongly fair: in the code
a send to the event channel never waits, so the model's bound on the inbox
(`MaxQueue`), which ticks may fill again and again, must not starve it.

`window`, `persisted_faults`, `frontier`, `archive` and the runs that end in a
violation check safety only and assume no fairness.

## 5. The proofs

`ConfirmationWindowProofs` proves, for every set of rows, key space, depth and
failure mode, the three properties of the `window` run and three more: the types,
that every buffered group lies above the watermark and the watermark at or above the
stored position, and that a halted window writes nothing more. Neither the watermark
property nor the maturity property is inductive alone: the flush step needs that
the keys it writes are buffered and above the watermark, and that a halted
window has nothing buffered. The inductive invariant is

    IInv == TypeOK /\ WindowAboveWatermark /\ NothingMatureHeld /\ HaltedIsEmpty

with one lemma per operation. The argument: only `flush` and the settled writer
write; `flush` takes the lowest collected key, which is buffered, hence above
the watermark, hence above the stored position, so a write goes upward and the
watermark it leaves is still below every other buffered key; `record` refuses a
key at or below the watermark; a rewind only removes groups; a failed write
clears the buffer, so that an ambiguous commit cannot be followed by another
write. The action properties follow from `IInv` step by step.

`PersistedProofs` proves what the project is most about, for chains of any height
and contents, any depth, start block and chunk size, with failing queries and
writes, reconnects and crashes:

| Theorem | Shows | Hypotheses |
|---|---|---|
| `BaseAlways` | the control state is consistent | none |
| `DeliveredBeforeStored` | `NoStoredEventUnseen` | none |
| `InvAlways` | the inductive invariant below | `FinalDepth <= Depth` |
| `CaughtUpIsCanonical` | `HealthyMeansCanonical` | `FinalDepth <= Depth` |
| `HaltsForCause` | `HaltHasCause` | `FinalDepth <= Depth` |
| `StoreRefinesPrefix` | `StoreIsDurablePrefix`, the refinement | `FinalDepth <= Depth`, no deep reorgs |
| `PrefixStaysCanonical` | what `DurablePrefix` entails: all that is stored up to the stored position is canonical now | none |
| `StoreIsCanonicalPrefix` | the same of the collector's Store | as the refinement |
| `CaughtUpIsDelivered` | `CaughtUpMeansDelivered` | as the refinement |
| `OverlapIsDeliveredOnce` | `OverlapDeliveredOnce` | none |

`FinalDepth <= Depth` is what a caller of `with_confirmation_depth` promises: a
block under that many others is final. `DeepReorgs` breaks the promise on purpose;
where a theorem does not exclude it, the statement holds then too. Both hypotheses
are met by runs: `persisted_faults` has no deep reorgs, `persisted_deep` has them.

The argument. `Base` is the control state, one conjunct per concern: types, the
source, the tip that was read, the Store against the stored position, the parts of a
split window (they tile what is still to be queried), and, while filling, what is
fetched and what each writer holds. It is inductive by itself, with one lemma per
action. On top of it, the chain comes in through one notion:

    Continues(F, g, got, c)

the queue F of live items takes what was got of block g to its content c: either the
rest of c follows in F, in order and without interruption, or F first retracts the
block and then holds all of it. A source step extends the queue and moves the chain
so that this is kept (`MovesShifts`: the items of a reorganisation are computed by a
recursive function of `EventSource`, which is unfolded one height at a time and
proved by induction in `AddedItems` and `RemovedItems`). Then

    Inv == Base /\ LiveOK /\ AboveTip /\ Backfilled /\ Broken /\ LiveGets
             /\ OnePartial /\ StoredClean /\ Buried /\ Queued /\ Shallow

says: the queue leads to the canonical chain (`LiveOK`); above the tip that was read
nothing was taken yet (`AboveTip`); what the backfill stored, holds or has fetched
of a block is all of it unless the queue still speaks of the block (`Backfilled`,
`Broken`); in the live phase the queue continues what the window holds (`LiveGets`),
at most one block in part (`OnePartial`); no stored block of this subscription will
be taken back by the queue (`StoredClean`), which is where a
retraction below the watermark halts; the watermark is buried (`Buried`), so that
without a deep reorganisation no retraction in the queue reaches it (`Queued`,
`Shallow`). The refinement follows action by action: only a settled block, the end of
the backfill and a flush write, each at the next height, which is final because it is
buried, and with all of its rows because the queue has nothing more to say about it.
`DeliveredBeforeStored` needs `SeenInv` instead: whatever a writer holds was delivered
or is in the archive that was replayed; a re-emission the window suppresses was
delivered when it was seeded.

`OverlapIsDeliveredOnce` is about `PersistedBoundary`, whose steps are steps of
`Persisted`, so that `Base` holds there too. `BoundaryInv` adds three things to it.
`QueueInv`: between two retractions the live source goes upwards, and what no retraction
follows is of a block of the chain; a reorg that retracts nothing has replaced empty
blocks only, which is why its events may follow directly. `HeadInv`: until a retraction
is taken, either no group of the window has met the live source, or the live source goes
on from the window's head, so that an event behind the head rewinds seeded groups only,
and these keep their rows as the ones to expect. `OwedInv`: whatever the backfill tail
delivered, the live source has not repeated and the watermark has not passed is due in
its group. After a retraction a second rewind may drop such a group, which is why the
property excludes them.

Induction over the naturals is used as a fact about a set (`Induction`: a set with 0
that is closed under successor is all of them), which the provers can instantiate.

`FrontierProofs` proves all four properties of the `frontier` run, for every finite set
of identities, any length of time, jitter, depth and failure mode, and any sequence of
reconnects, restarts and changes of `to_block`:

| Theorem | Shows | Hypotheses |
|---|---|---|
| `TimeFrontierLaws` | the laws of `Position` for frontiers | none |
| `BaseAlways` | the Store, the writers and the feed agree | none |
| `NeverStoredTwice` | `StoredOnce` | none |
| `FrontierIsExact` | `SeenAtBoundary` | none |
| `NeverDeliveredTwice` | `DeliveredOnce` | none |
| `NothingEverLost` | `NothingLost` | a feed that sorts, `Depth >= Jitter` (both inside the property) |

The laws are what the rest of persistence takes for granted of a `Position`: `advance`
never goes back and is associative, a position contains what it was advanced by and goes
on containing it after any further advance, `contains(w, p)` is the same as
`advance(w, p) = w`, and whatever is not contained lies at or above the resume key, so
that a resume misses nothing. `SqlStoreProofs` has the same for block heights
(`BlockPositionLaws`).

`StoredOnce` and `SeenAtBoundary` are not inductive alone. What makes them so is

    Base == TypeOK /\ StoreInv /\ SettledInv /\ SourceInv /\ OpenedInv
              /\ PendingInv /\ WatermarkInv

`StoreInv`: the stored frontier is exact and no row is doubled. `SettledInv` and
`PendingInv`: an open or pending group holds events of one instant, each once and none
of them stored, under a position that lists exactly them; it lies at or above the
watermark, on its own side of the cut. The settled writer's watermark is the stored
frontier itself. `WatermarkInv`: a healthy window's watermark covers every stored row,
during a backfill every one above the cut, so that what is not covered has no row; the
`absorb` at the end of the backfill is what makes it so below the cut, where the settled
writer has written behind the window's back. An ambiguous commit may leave the Store
ahead of the watermark, and halts the writer for that reason. `SourceInv` and
`OpenedInv` say what was fetched and where `subscribe` has got to.

`DeliveredOnce` needs `DeliveredInv`: whatever a healthy stream has delivered is covered
by the writer that would meet it again, the settled one at or below the cut while the
backfill runs, the window otherwise.

`NothingLost` needs `LostInv`: each event of the feed is at most the jitter behind every
earlier one (`FeedInv`), a bounded wrapper has an empty window (`CappedInv`), and, for a
feed in order under a depth that covers the jitter, whatever the stored frontier or the
position of a resume covers is stored (`StoredKept`, `ResumeKept`), and a published
event is stored, or with a writer, or still to come: from the backfill (`BlockKeeps` at
or below the cut, `WindowKeeps` above it) or from the live source (`LiveKeeps`). The
heart is the flush: a group k is written when the head is at least k + Depth, and
whatever is still to be pulled is at or above the head less the jitter, hence at or
above k; the frontier of k tells the events at k itself apart. With Depth < Jitter the
step fails, and the event is lost.

`SqlStoreProofs` proves `FailureHasCause` for any number of collectors, tables, event
types and old tables, on both backends. Its inductive invariant joins the types with
`RaceOK`, what each step of a transaction knows of the progress table (a second attempt
starts only once the table is migrated for good, an insert never misses the position
column, the flag is set only after that); `AloneOK`, on SQLite at most one transaction is
open, so that there is nobody to race with; `ColumnOK`, the columns of a table that is
not foreign are those of the Record that now writes it, declared, or frozen by the
subscription that is still running, and what is being written has passed `encode`; and `VerdictOK`, the property for every halted writer. `RaceOK` is the
reason why one retry is enough: a duplicate object is reported only after the other
transaction has committed.

The same module proves the other four properties of the archive. `ArchiveInv` says of
each table: its rows go strictly upwards (`RowsOK`); its progress row holds the block of
the last of them, and a position that is NULL or the text of that block
(`ProgressOK`); a collector that is not down has reached exactly that block, what it is
writing lies above it, and has passed `insert_rows` when it commits (`WriteOK`); every
row decodes as the types the catalog reports, on PostgreSQL in every table, because a
column holds only what its type says, whoever made it, on SQLite in every table that is
not foreign and not `Misread` (`CellOK`). It needs `ColumnOK` of the invariant before.
The end of streams, of one or of all, is one lemma for both invariants (`EndStreamsInv`,
`EndStreamsArchive`): it leaves the archive as it is and moves what an inferred Record
left behind into `foreign`. Rows that go
upwards are what turns the replay, which sorts, into an initial segment of the rows
(`ReplayIs`): hence `ResumeIsExact`. `StoreGrows`, one fact for every step of the store,
says that a table only gains rows, above its progress row: hence
`BelowWatermarkIsFinal`.

`SqlImplementsStore` is the refinement of the Store contract that `BlockWriter` and
`ConfirmationWindow` are built on: of each table, every step of every collector is a
write of `GapFreeWriter` above the stored position, whole and with its position, or
changes nothing that the contract sees. Rows that go upwards leave one row at most for a
key (`AtIs`), so that the rows by key are a function; a commit, or an older binary's
write, adds one row and moves the progress row to it (`OneRowIsWrite`); the migration
rewrites the progress row and keeps the position it stores; every other step leaves the
archive alone (`UntouchedContracted`), the statements of an open transaction among them.

On it rests `ServingInv`: what the client has got are the blocks of the first rows of
its table, none above its cap, which is at most the block of the progress row, and once
it is done every other row is above the cap (`ClientOK`); a request for rows in flight
starts where the last page ended and has the limit that is reported (`RequestOK`); an
error has its cause (`ReplyOK`). The writers keep it because of `StoreGrows`, a page
because it is a slice of that initial segment (`PageIs`). A limit that is reported
differently from the one applied breaks the step in which the client takes a short page
for the last.

`EngineProofs` proves of the drivers alone, for any set of collectors and any limit,
that failure counts stay within the limit, that root is never cancelled by a driver
before fatal, and that the fatal token has a culprit. `EngineRunsDrivers` says that the
engine implements their specification: every step of the engine is a step of one driver
or leaves all of them alone, so whatever is proved of the drivers holds inside the
engine. `StopsForReason` joins the two: in a running engine a task has ended only if the
caller cancelled, or fatal is set and some collector used up its failures.

It proves of the whole engine, for any numbers of tasks and any capacities, that a reader
that was never overrun has delivered every message up to its position, that
nothing is sent before every strategy is synced, that no task ends before
shutdown (with at least one collector and one strategy: with none, the channel is
closed from the start), and that no executor starts work after it. The first
needs that a receiver behind the ring is marked as overrun by the send that
overruns it (`EventsOK`, `ActionsOK`), the last ones that a task has ended only in
a failed or cancelled engine (`LifeOK`).

`FeedbackProofs` proves, for any set of items, trades, kinds of sources, attempts,
lookups, cooldown and capacity:

| Theorem | Shows |
|---|---|
| `EveryItemAccounted` | `ItemsAccounted` |
| `CompositesKeepContract` | `CompositeContract` |
| `CooldownSpacesEvents` | `CooldownSpacing` |
| `ConfirmationsAreHonest` | the safety half of `LoopCloses`: what the strategy holds for confirmed was accepted or not routed, and nothing a filter keeps back is accepted |

The accounting counts, and a count is no inductive statement. `SourcesInv` has instead,
for each source (`Placed`): what the transport holds, the retry queue, what a tick
fetched and the lookups in flight are without repetition and pairwise disjoint, an item
is owed exactly if it is in one of them, and the failures an entry of the retry queue
remembers are the failed fetches since the item was sent. The last is what shows that
nothing is given up early; that a tick yields what it fetched and did not fail, each
item once, rests on the lemmas about `Ascending`, `Kept` and `retry_queue`. A second
part (`Opened`) relates the source being subscribed to the streams that are open, for
each composition: it gives the contract its first two clauses. That Chain's second source
still owes what it owed needs no invariant beyond the types: each step that settles an
item of it is guarded by `Polled`, or ends its stream. `Spaced` says that Cooldown's stamp is the time since an action really passed, which
every passing action must refresh for `CooldownSpacing` to be inductive. `LoopInv`
follows a verdict from the executor through the channel and the inbox into the
strategy: every event under way confirms only what was accepted or never routed.

`MempoolExecutorProofs` proves, for every policy, fee and behaviour of the node:
types (fees stay within u128 through every escalation), the budget of watches, one
effect, no false success, no false failure of a known submission; and of the fee
arithmetic that `escalate` never needs its clamp and clears the node's bump from
ten units on, and with it that no submission is ever refused for its fees
(`ReplacementsClear`) if the prices have a tip of ten units and room to grow; the
instance TLC runs has that room (`RoomAssumption`). The invariants: `SInv` relates watches, failures in a row and
replacements issued, so that the product bound is inductive; `NonceOK` says that
every submission on the wire or accepted carries the pinned nonce (without a
policy, that there is only one, at whatever pending count the node gave it), and that mined nonces lie below the account's;
`SweepOK` says that a known hash mined when the sweep began is still ahead of it;
`FeesOK` that nothing the node accepted is above the current fees, and that the
request on its way clears all of it.

`ReliabilityStackProofs` proves, for every threshold, cap and retry policy, that
nothing is below an open circuit, that only a reset closes it, and that the
threshold of failures in a row opens it unless an action expired among them, and
that the rate limit's cap holds in every window. `LimitOK` says that the calls inside
the window are the end of what the limit remembers, oldest first, and that all before
them have left it; the one age the limit looks at then decides.
`BreakerOK` (an action in hand means a closed circuit) is what makes the count
bounded by the threshold; `CountOK` adds the comparison of the two counts.

Assumptions: `WriterAssumption`, `DepthAssumption` (a depth of at least 1, as
the `NonZeroU64` of `with_confirmation_depth` enforces), `DriverAssumption`,
`EngineAssumption`, `FeeAssumption`, `ExecutorAssumption` (an escalation of at
least 110 percent, as `EscalationPercent` enforces), `StackAssumption`,
`SqlStoreAssumption` (an event has at least one field), `ServingAssumption`,
`FrontierAssumption`, `SourcesAssumption` (the three compositions and three kinds of
collector), `FeedbackAssumption` (finitely many trades), `SourceAssumption` and
`PersistedAssumption` (a depth of at least 1, and no height within the depth of
`u64::MAX`); the rest of each theorem's
assumptions are in its statement.

Proved and not repeated as a property of a run: the types, `WindowAboveWatermark`,
`HaltFreezesStore`, `FatalHasCulprit`, `QuietAfterCancel`, `OpenMeansIdle`,
`OnlyResetCloses`, `BelowWatermarkIsFinal`, `ConfirmedIsAccepted`.

Only model-checked: every liveness property. Liveness under fairness and ENABLED are out
of the prover's reach. All safety properties of the passing runs are theorems.

## 6. Not modelled

- Undecodable logs: a live one is dropped with a warning, a queried one fails the
  query. Neither changes state.
- `MapAction`, `FilterMapEvent` and `MapEvent`-like wrappers beyond the one mapping in
  `Feedback`: they relabel what passes.
- A log without a block number, which `live_item` skips: the models' logs all have one.
- An older binary that goes on writing to a table whose progress row has a position:
  it advances `last_block` and leaves the position behind, and the next resume of this
  code starts from the stale position. Only its first write to a table, which leaves a
  NULL, is an action (`old_binary_write`).
- A change of the declared schema between two processes: `Overrides` is a constant.
- The split of a long insert into chunks: they share one transaction.
- Conversion of field names, JSON and HTTP formatting, the metadata of `/tables`, the
  `from_block` filter of `/rows`, which the client of the model does not send.
- The gas limit of a submission; delays of the driver's backoff, which are a step.
- Nestings of the executor wrappers other than the README's, and the `*_all` forms of
  the collector combinators, which nest the binary ones.
- The examples other than the feedback pipeline and the ledger feed: scripted sources
  without logic of their own.

## 7. Plan

Done: every component of `PROJECT.json` but the other examples has a module, and every
component with a module has proofs of the safety properties its runs check. What is left
is what section 6 lists.
