# ROI-GEN: a verification project

ROI-GEN is a single-user trading platform: an asyncio **engine** process runs
strategies against one Alpaca account per portfolio, a FastAPI **API** process
serves the cockpit, and both share one Postgres database and one Redis.  This
directory holds TLA+ models of the parts where money can be lost to an
interleaving, the TLC runs that check them on small instances, and TLAPS proofs
of what matters most for every value of the constants.

Paths below are relative to `src/backend/app/` unless they start with `src/`.

## 1. Inventory

### Components, their state and their operations

| Component | State it keeps | Operations that change it |
|---|---|---|
| Order state machine and fill ledger (`engine/execution/state.py`, `apply.py`, `synthesis.py`) | `Order` rows (status, filled_qty, broker id), `Fill` rows with unique `broker_fill_id` | `plan_transition`, `apply_snapshot`, `synthesize_span` |
| Trade-updates writer (`engine/execution/trade_updates.py`) | an unbounded buffer of events, a gate | one transaction per event: lock the row, resurrect, record the execution, apply the snapshot, move lots and position |
| Execution stage (`engine/execution/handler.py`) | a flatten lock, the ids it has replayed | `_on_order`: halt check, persist, submit, resolve ambiguity, adopt; `_on_flatten`: list, cancel, confirm, liquidate |
| Reconciliation (`services/reconciliation.py`) | nothing of its own; orders, fills, lots, positions, event log | list positions and open orders, adopt, look up, age out, sweep ledger deficits, retry parked remainders, overwrite positions |
| Position mirror and FIFO lots (`engine/execution/positions.py`, `lots.py`) | `Position` per symbol, `Lot` and `LotClose` rows, parked remainders | apply a delta; open or match a lot |
| Kill-switch command log (`services/engine_commands.py`, `models/engine_command.py`) | `engine_commands` | issue (halt, flatten, resume) under an advisory lock |
| Command sweeper and kill switch (`engine/commands.py`, `engine/kill_switch.py`) | `halted`, `flattening`, the seq they were derived from | load at boot, sweep every five seconds or when poked, mark a flatten verified |
| Flatten controller (`engine/flatten_controller.py`) | per-date snapshots and sets, a wake event | drive an operator's flatten; 15:55 window; next-open remediation; post-close alarm |
| Risk stage, engine and controls (`engine/stage.py`, `engine/risk/`) | approval store with TTL | evaluate a signal, approve, publish an order; authorize a flatten |
| Event bus (`engine/bus.py`) | one queue | one consumer dispatches in order |
| Engine lifecycle (`engine_main.py`) | advisory-lock connection, `boot_reconciled`, tasks | acquire, load, start tasks, boot reconcile with retries, shut down |
| Feed health and streams (`engine/feed_health.py`, `brokers/alpaca/streams.py`) | last message time, a Redis key with a TTL, the polled level | watchdog, publish, poll; supervise and reconnect |
| Broker adapter and rate limiter (`brokers/alpaca/rest.py`, `brokers/ratelimit.py`) | token bucket | requests, classification of their failures |
| Strategies (`engine/strategy.py`, `strategies/probe.py`, `loader.py`, `market_bridge.py`) | registrations, counters per session | on_bar, on_fill |
| API and CLI (`api/v1/`, `cli.py`) | none | issue commands, sync a portfolio, manage portfolios |
| Authentication, encryption, configuration, frontend | none the engine reads | - |

### How they interact

- **Events inside the engine.** market data -> strategy -> `SignalEvent` -> risk
  stage -> `OrderEvent` -> execution stage; the flatten controller publishes
  `FlattenEvent` -> risk stage (authorizes it, even when halted) -> execution
  stage.  All of it goes through one FIFO bus with a single consumer.
- **Broker evidence.** Alpaca websocket -> stream process code -> Redis pub/sub
  -> `TradeUpdateSubscriber` -> `TradeUpdateStage`.  There is no replay: an event
  is delivered at most once and may be late.  REST answers (submit, lookups,
  listings) are a second, unordered source of the same facts.
- **Shared rows.** Three writers update an order: the execution stage, the
  trade-updates writer and reconciliation (in the engine, and once more in the
  API process through `POST /portfolios/{id}/sync`).  They serialize on
  `SELECT ... FOR UPDATE` of the row; the `Position` row is not locked.
- **Commands.** API and CLI append to `engine_commands`; the engine learns of a
  row by a Redis poke or by polling.  The log is the authority: the in-memory
  kill switch is a cache of its last row.

### What is hard here, and what correctness means

| Component | Hard behaviour | Correct when |
|---|---|---|
| Orders and ledger | lost, late, repeated and reordered events; snapshots older than the row; ambiguous submits; a crash between the commit of the row and the broker's answer | the ledger never books a share the broker did not execute and eventually books every one it did; no row is ahead of the broker; a terminal status is the broker's; rejection is never guessed |
| Positions | an overwrite from a list read earlier, deltas in between | no share is applied twice; the row converges to the broker |
| Commands | two operators at once; a sweep and a drive that overlap; a restart | a resume never leaves an unresolved flatten behind; an outcome is final; a restart never disarms a halt |
| Flatten | three reads at three instants, entries in flight, asynchronous cancels, reserved shares, lost events | "verified" means flat; a flatten gets there |
| Lots | two transactions that match the same lots, late entries, cross-strategy closes, overshoot, ties in time, a deadlock | every booked share is in one place, no lot is closed twice, remainders are applied |
| Schedule | suspended process, early close, date rollover, a verdict that outlives its position | nothing is held overnight by accident; what was carried into a session is driven until it is gone, and no other day's verdict closes what was opened in it (that of its own morning may: finding 2) |
| Risk | the account, the book and memory read at different instants; a restart in the middle of a session | no limit is exceeded by more than the window between its read and the row lets through |
| Lifecycle | a shutdown that meets work in flight, killed processes, dead tasks, a dead sweeper, a lock whose session ends under its engine | one engine per portfolio, but for one more per session lost (section 5); at most one entry slips past a halt; a shutdown ends |
| Feed health | an edge flag behind a level key, a TTL that outlives its feed, writes Redis refuses, a cadence slower than the window | the gate closes in bounded time, opens on data only, does not flap, reopens |

`PROJECT.json` lists each hazard at the line where it bites, with the properties
that would catch it.

## 2. The modules

```
OrderLedger  <- MCOrderLedger            one order, its row, ledger and position
   ^---------- OrderLedgerProofs
CommandLog   <- MCCommandLog             the command log and its readers (abstract)
   ^---------- CommandLogProofs
   ^== INSTANCE in FlattenDrive <- MCFlattenDrive
                      ^--------- FlattenDriveProofs
                                         the drive of a flatten, the book, the broker
FlattenSchedule <- MCFlattenSchedule     the controller's loop against the calendar
   ^---------- FlattenScheduleProofs
LotBook         <- MCLotBook             lots, remainders, the Position row; two
   ^---------- LotBookProofs             transactions and the API sync
RiskGate        <- MCRiskGate            bar -> signal -> approval -> order row
   ^---------- RiskGateProofs
MarketFeed      <- MCMarketFeed          stream, watchdog, health key, gate
   ^---------- MarketFeedProofs
EngineLifecycle <- MCEngineLifecycle     lock, boot, tasks, halt composite, shutdown
   ^---------- EngineLifecycleProofs
```

The modules meet where one's input is another's subject.  OrderLedger is one
order's evidence down to the fill ledger; LotBook takes a fill from the ledger on
to lots and positions, at the grain of row locks.  FlattenDrive is the book of a
flatten; EngineLifecycle is what may run when.  RiskGate leaves the halt composite
open (it may answer anything), and EngineLifecycle leaves the controls open; the
feed gate that is one bit there is the whole of MarketFeed.

Definitions introduced by a comment `Mutant:` are not part of a specification:
each is a plausible bug of the definition next to it, kept to show that the
property it is paired with in `PROJECT.json` can fail.

### OrderLedger

An order is *persisted* as `pending_submit`, *submitted*, answered (accepted,
rejected, throttled) or not answered, and looked up a bounded number of times
before reconciliation is left to find out.  Meanwhile the broker fills or ends
it and emits events, the writer applies any event ever emitted (late, again, or
never: `emitted` is a set), and up to two reconcilers run: `"engine"`, which
synthesizes missing fills, and `"sync"`, the API's, which does not.

| State | In the code |
|---|---|
| `row` | `Order.status`, `filled_qty`, `broker_order_id IS NOT NULL` |
| `ledger`, `keys` | `SUM(Fill.qty)` of the order, and the `broker_fill_id`s; a key carries the cumulative it reached |
| `pos` | `Position.qty` of the order's symbol, no row = 0 |
| `pc`, `resp`, `request` | where `_submit_and_apply` is, the answer it holds, and what became of the request |
| `rec` | what `reconcile_portfolio` has read so far and not yet applied |
| `released` | the boot reconcile has committed: subscriber gate and halt composite |

*Granularity.*  Each database transaction is one action, because each holds the
order's row `FOR UPDATE` from its first read of it to its commit.  Everything
read *before* the lock is a step of its own: the submit response, the position
list, the open orders, each lookup.  One thing is coarser than the code: the
`Position` row is read without a lock and written as an absolute value
(`positions.py:51`); LotBook has that interleaving.

Positions are listed before the orders, so a fill between the two reads is
synthesized by a transaction whose overwrite does not include it: the position
lags the ledger until the next reconcile.  The order matters in the other
direction: the engine's overwrite never includes a share that its own transaction
has not booked, or a later event would add it a second time
(`LotBook!OverwriteIsBooked`).

*Data.*  All orders are buys on a symbol of their own; prices are left out;
`"open"` stands for every non-absorbing broker status and `"canceled"` for
expired, replaced and asynchronously rejected; brackets are left out.

### CommandLog

What `issue_command`, `EngineCommandSweeper`, `KillSwitch` and the controller do
to the log and to the kill switch, with a step wherever the code awaits: the
operator's lock, guard and insert; the sweep's read, transaction and refresh; the
drive's capture, write and clearing of the flag.  What makes the controller
believe that the book is flat is left open, so CommandLog is the abstract
specification of every drive.

### FlattenDrive

CommandLog's variables and a broker book: one entry of one share with one
protective leg, and liquidations.  The controller's `_exposure` is three steps
(positions, orders, pending rows), the pass is list, cancel, confirm, read,
liquidate, each of which may fail; the entry's path (risk approval, halt check,
commit of the row, submission) crosses it.  The refinement maps each controller
answer to CommandLog's `MarkVerified` or `EndDrive`, and everything else to a
stutter.  The bus is visible as one guard: no flatten pass starts while an order
event is being handled.

### FlattenSchedule

The same controller, seen from its clock: `run`, `_tick`, `_session_for`,
`_sleep_toward` and every standing rule.  A tick is `StartTick` (clear the wake
event, read the broker's clock, resolve the session), rule 1, and one standing
rule, with time, the book and the operator free to move in between; it ends in a
sleep, in `TickError` or with the process (`Restart`).

| State | In the code |
|---|---|
| `now`, `close` | the broker's time and today's close as it would report it |
| `clk` | `clock` of the running tick: stale as soon as it is read |
| `cache` | `_calendar_cache`, the close as of the date's first lookup |
| `snapshot` | `_next_open_snapshot`: a date and its verdict |
| `fired`, `checked` | `_next_open_fired`, `_post_close_checked` |
| `left`, `wake` | the timeout of `_sleep`, the wake event |
| `opened`, `lot` | the day the position was opened, at the broker and by the open `Lot` rows |
| `history` | not in the code: for how long a duty has been neglected today, what this morning's book was, and whether the rules have driven it yet |

*Time.*  One unit is the floor of `_sleep_toward` (one second there), and the
constants keep the order of the code's: the in-window cadence is shorter than
the buffer, the near cadence longer than the in-window one, the far one longer
still.  `Pass` lets the sleep timer run; `Suspend` lets time pass without it, as a
closed lid does, between ticks or, for at most `MaxTorn` units, inside one.

`history.leftover` says that the day began with a position and no tick of it has
yet found that one gone; `history.tended`, that a rule has driven what the day
began with.  The two draw the line of `FreshIsSpared` and the two cadences of
`StaleIsTended`: a full sleep until the first drive, the in-window one from then
on.  The position may leave the book by a liquidation (`LiquidationEnds`) or by an
exit of the strategy or the operator (`ExitFills`), and another be opened the same
day, before the next tick: `EntriesAreSpared` is what the code promises then and
does not keep.

*Abstractions.*  A drive leaves a working liquidation or does not; how it reads
the book and what a pass does is FlattenDrive's subject.  Of the per-date sets and
the per-date cache the latest date is kept: the broker's clock does not go back,
so an older date is never looked up again.

`NoticeAssumption` says that an early close is known at least `TickFar + Buffer`
before it takes effect.  Without it nothing could hold: a controller that sleeps
fifteen minutes cannot obey a close announced ten minutes ahead.
`NightAssumption` says that a full sleep begun at midnight ends before the open
does by more than the in-window cadence, and that the ticks of a day that may
raise are retried before its night is over: a session opens nine hours and a half
after midnight and closes eight before the next, and the cadences are 30, 120 and
900 seconds (`engine/flatten_controller.py:79-82`).

### LotBook

The orders of one symbol, both sides, with the writer and the reconcile as two
READ COMMITTED transactions.  `book` is what is committed, `view` what the
reconcile sees (the committed state and its own writes), and a step of one writes
to both what the other may see.  The writer is `Locate` (lock the order row,
decide, plan), `LockLots` (`FOR UPDATE` of the lots it matches) and
`WriterCommit`; the reconcile is its three reads, then adoption in the broker's
listing order, the looked-up rows, the deficit sweep, the retry of parked
remainders, and the overwrite.  Lots inserted by an open transaction are
invisible to the other, so a strategy may for a while hold a long and a short lot
of the same symbol.

| State | In the code |
|---|---|
| `book.booked`, `book.row` | `SUM(Fill.qty)`; `filled_qty` and whether the status is absorbing |
| `book.lots`, `book.closes` | `Lot` rows (`qty`, `qty_open`, `opened_at`), `LotClose` rows |
| `book.parked` | the event-log rows of unapplied remainders and their companion rows |
| `position`, `w.pos` | `Position`, and the value the writer read without a lock |
| `r.held`, `w` | the lots and rows each transaction holds |

*What the model shows about the locks.*  The reconcile's comment on lock order
(`services/reconciliation.py:425-429`) says that both transactions lock in one
order.  Adoption runs in the broker's listing order and the sweep in row order,
so a writer that holds an order row and waits for a lot can meet a reconcile that
holds that lot and waits for that row: `Deadlocked` is reachable.  Postgres rolls
one of the two back (`BreakDeadlock`) and the next cycle heals what the other
lost, which is what `BookConverges` shows with it.

### RiskGate

A bar reaches the probe, which emits a signal while its session slot is free; the
bus hands it to the risk stage, which reads the account and the book, evaluates
every control and publishes an order; the execution stage writes the row.  The
broker trades and the fill stream books, at any later moment.

| State | In the code |
|---|---|
| `bus`, `stage` | the queue, and the state the risk stage has loaded but not used |
| `days` | the probe's `_day_state`, lost in a crash and seeded from the rows |
| `orders`, `trades`, `booked` | entry rows, executions, and how many are lots by now |
| `peak` | the highest `EquitySnapshot` |
| `began` | not in the code: what was executed and booked as the minute began |

A position is counted by open lots, so a row that is pending, or filled and not
booked, counts for nothing: two signals of one minute on two symbols pass
`max_positions` and the margin headroom together.  That is why `PositionCap` and
`LossesStop` speak of what stood in the book since the minute began.  The halts
are not latched either: a drawdown or a streak that recovers lets entries through
again, while the messages say "manual re-arm required" (`engine/risk/controls.py:290`)
and "paused pending review" (`:277`).

*Time.*  The minute ends with the bus drained (`NextMinute`): nothing in the code
ensures it, for a handler may wait for the database or the broker longer than
that, so a signal that waits into the next minute or the next session is outside
what these properties say.

### MarketFeed

The supervisor with its backoff, `_mark_alive`, the watchdog, the throttled and
the forced write of the key, its TTL and the poller; time is counted in watchdog
polls.  A write by `_mark_alive` and one by the watchdog are separated from the
flag they follow by an `await`, so a late `"stale"` may overwrite an `"ok"`; the
next poll heals it.

Three things a reader of the code may not expect.  A gate that cannot be told
(Redis refuses writes) stays open for up to two windows of silence: the last "ok"
may be stamped by the watchdog just before its window ends, and is believed for
one more window, not for "one poll interval" (`engine/feed_health.py:80`).
`FailsClosed` is that bound, and
`ClosesInAWindow` the promised one when Redis takes writes.  A process that
restarts quickly reads its predecessor's key as healthy for up to a window;
`HealthIsEarned` says that it does not itself write one.  A stream that cannot be
built (`_make_stream` is called outside the `try`) ends the consumer's task; the
gate then closes and stays closed until a restart.

### EngineLifecycle

Several processes of one portfolio: `main()` from `_acquire_engine_lock` to the
release of the lock, the critical tasks as a set of those that are done, the halt
composite, the bus with its one consumer, and the shutdown in the order streams,
drain, cancel, join, adapter, lock.  `Join` waits for the critical tasks only: a
flatten that the drain gave up on is cancelled and not awaited, and may run on
until the adapter is closed (`CloseAdapter`).

| State | In the code |
|---|---|
| `pc`, `lock` | where `main()` is, the session that holds `pg_advisory_lock` |
| `lost` | not in the code, which does not notice: the processes whose session has ended under them |
| `done`, `ready`, `trading` | dead tasks, `boot_reconciled`, strategies started |
| `kill`, `stale` | the kill switch and the feed gate as `halted()` reads them |
| `queue`, `sending`, `flatten` | the bus, an entry past its last check, a running pass |
| `behind`, `slipped` | not in the code: is a command unread, and how many entries went out since they were forbidden |

The lock lives as long as the connection that took it.  `SessionLost` ends that
session under a live process, as the server or the network may; nobody uses or
watches the connection, so the process goes on as before and the next launch
finds the lock free: two engines then trade, and `WorksUnderLock` says no more than
that one of them is in `lost`.  The other way round, `engine_lock.close()` hands
the connection back to the pool, which may keep the session until the process
ends: `ReleaseLock` may come as late as `Exit` waits for it.  Cancelling a task does not take back a request that is on the wire;
the row stays `pending_submit` and the next boot reconcile finds it (OrderLedger).

## 3. The runs

| Run | Instance | Shows |
|---|---|---|
| `order_ledger_safety` | 1 order of 2 shares, both reconcilers, ageing, 1 crash, fair | ledger, keys, row and rejection stay true of the broker; nothing goes backwards and absorbing rows stay; ledger and position reach the broker's numbers with no help from the stream |
| `command_log` | 2 operators, 3 commands, 1 crash, fair | resume guard, finality, monotonicity; the engine's view converges to the log |
| `flatten_drive` | 1 command, 2 liquidations, 1 crash, fair | verified means flat when no entry was past its halt check as the drive began; the flatten reaches an outcome; FlattenDrive implements CommandLog |
| `flatten_schedule_rules` | 2 sessions and the morning of a holiday, 1 failing tick a day, suspensions, restarts | the close window and the operator's flatten are tended at the fast cadence, an old position within a full sleep of the open and then at the fast cadence; the next-open rule drives nothing on a day that began flat, nor once it has found the leftover gone; what survives the bell is alarmed |
| `flatten_schedule_prompt` | the same | **violation**, finding 1 |
| `flatten_schedule_fresh` | the same | **violation**, finding 2 |
| `lot_book_money` | entry of 2, exit of 1, liquidation of 2 | every booked share is in one place, no lot is consumed twice, the ledger stays within the broker; a liquidation in one piece closes nothing younger |
| `lot_book_heals` | entry and liquidation of 1, API sync, 1 abort, 1 empty listing, fair | the overwrite is booked, ledger and position converge, remainders are applied, a held symbol is not wiped |
| `lot_book_missed_entry` | entry of 2 that may be canceled, liquidation of 1 | **violation**, finding 3 |
| `risk_gate` | 2 symbols (symmetric), 3 minutes of 2 sessions, 4 trades, 1 crash | session bound, position cap, losses, streak and drawdown ladder for every entry row |
| `market_feed` | window of 4 polls, a message every 2 | the gate closes in bounded time, opens on data, does not flap, reopens |
| `engine_lifecycle` | 2 processes, 3 tasks each, 1 task death, 1 session lost at a time, any number of launches, kills and commands, fair | who may drive the broker holds the lock or has lost its session, and never has the lock again once lost; one entry slips past a halt; a halt holds without a sweeper; a shutdown ends; the heartbeat tells |

The type invariant of each module (`TypeOK`) is checked as a conjunct: of `IInv`
in OrderLedger, of `VerifiedIsFlatOnceQuiet`, `WindowIsWatched`, `BooksBalance`,
`EntriesBounded`, `FailsClosed` and `WorksUnderLock` in the others; CommandLog's
is proved.

*Why the bounds are enough.*  Orders share nothing in OrderLedger but the
reconciler's pass and the gate, and the proofs cover any number of them; two
shares give a partial fill and a gap next to it; a
reconciler that starts over and an event that may be applied at any time make
the number of cycles and of deliveries unbounded; one crash at any point leaves
the same durable state as several.  Three commands are what *flatten, halt,
resume* takes, two operators what a leapfrog takes, and the proofs cover any
number of both.  Two liquidations are what an ambiguous one and its successor
take; with one command the run never overtakes a flatten that is being driven,
which is left to CommandLog's run and to the proof of the refinement.  In
FlattenSchedule the second session is what yesterday's snapshot, cached close and
lots need to be stale in, the holiday's first hours what the midnight
after a session needs; the run ends there (`Horizon`).  A day has sixteen units,
enough for each cadence to be taken, capped by half of what remains, and floored;
one failing tick a day (`MaxErrors`) is charged to the bound of each property
(`Slack`), and a tick may be suspended for one unit (`MaxTorn`), the grace and the
in-window cadence, so that it acts on a clock and a book of different instants.  A constraint
(`FirstDayHasAll`) leaves the meeting of an amended close with either to the first
session.  None of its
properties is claimed of a day the process slept through: a suspended process
keeps no cadence.

In LotBook two instants of the clock (`MaxTime`) put an opening before, at and
after a print; two shares let an entry be matched in part, an exit of one and
a liquidation of the rest compete for one lot, and `AlertCycles = 1` makes the second retry the
first one after the alert; `Late` lets an order be persisted while a reconcile
runs, so that a writer the reconcile has not seen writes over its overwrite (and
the API sync, which waits only for rows it does not take for final, writes over
both).  In RiskGate a day of two minutes and a horizon of
three give a second session and a cooldown that ends; every limit is one lot or a
step or two of the price away, and the unproven clamp, the ceiling and the
strategy's own number differ.  MarketFeed's window is twice the message gap
by `staleness_floor` (a configured window of one poll would be shorter than the
cadence; `MinWindow` is the floor of continuous channels, which the run does not
subscribe and the proofs cover), and the backoff doubles twice before its cap.
EngineLifecycle needs a queue of two for a second entry to be behind the first,
and two processes, one of which may have lost its session (`MaxLost`), for a lock
to be contended and for an engine to be left running without it.  What the second
does reaches the first through the lock and the heartbeat key only, so it is
launched, takes a free lock, loses it and dies like the first, but the run's
constraint (`SecondLoads`) ends its life at its load.  No action of the fairness
conditions leaves the constraint, so the liveness properties are checked on every
fair behaviour within it; the proofs need neither bound.  The tasks besides the bus, the strategies and the sweeper only
count in `done`, so none is added.

Every property has a mutant of the code's own logic (a dropped guard, a
swapped read, a missing clamp) that violates it on the run's own instance, so no
bound hides its case.

*Fairness.*
- `ReconcileFairness` (OrderLedger): strong fairness on the engine's own reads
  and commit.  `_reconcile_task` retries at boot until it succeeds and then
  repeats for ever, so a read that fails is tried again; the assumption is that
  none fails every time.  Nothing is assumed of the stream, the submit path, the
  API or the broker.
- `EngineFairness` (CommandLog): the process is restarted (`restart:
  unless-stopped` in `src/docker-compose.yml`), the sweep and controller loops
  never end, and a sweep does not fail every time it is tried.
- FlattenDrive adds a broker that settles what it accepted, and `OutagesEnd`:
  from some point on no step fails and the market is open.  Any number of
  failures may come before.  The code retries for as long as failures last and
  cannot do better.  Commands and entries are never assumed to happen.

FlattenSchedule assumes no fairness: its cadences are bounds on time, stated as
invariants.  A tick takes no time in it unless the machine is suspended, which is
the one assumption about speed: a tick of the code takes seconds, and the
cadences it is compared with are half a minute or more.

LotBook assumes that the reconcile loop goes on for ever, that a writer
transaction that has begun goes on when it can, and that Postgres breaks a
deadlock; no event need be delivered.  MarketFeed assumes that the process's own
loops run, the clock ticks and a live vendor sends; EngineLifecycle that `main()`
goes on once it shuts down, the sweep and the heartbeat fire, an expired key is
gone and the server ends the session of a dead client.  RiskGate has safety
properties only.

*Deadlock* is checked in every run but `risk_gate`, which stops at its horizon.

## 4. The proofs

| Theorem | Says |
|---|---|
| `OrderLedgerProofs!Invariance`, `TypeCorrect` | the inductive invariant; the ledger stays in `0..Qty` |
| `NoPhantomShare` | the ledger never books a share the broker did not execute |
| `NoSwallowedSpan` | no idempotency key is ahead of the ledger |
| `RowTruth` | no row is ahead of the broker; filled and canceled rows are exact |
| `RejectionIsFinal` | a rejected row's order was refused for good |
| `RowsNeverRegress` | no step takes a row, its ledger or its keys back, and absorbing rows stay |
| `CommandLogProofs!Invariance`, `TypeCorrect` | the inductive invariant of the log and its readers |
| `ResumeGuard`, `ArmedIsSafe` | no resume, and no armed engine, after a flatten without an outcome |
| `OutcomesAreFinal`, `HaltSurvives` | outcomes are written once; only a newer command disarms a halt |
| `LatestIsNeverVoid` | only what a newer command has overtaken is voided |
| `FlattenDriveProofs!Refinement` | FlattenDrive implements CommandLog |
| `Invariance`, `VerifiedMeansFlat` | "verified" is a flat book with no entry on its way, when none was past its check as the drive began |
| `FlattenScheduleProofs!Invariance` | what a tick knows, what the book remembers, how every sleep is measured |
| `WindowWatched`, `FlattenTended` | the close window and the operator's flatten are never left alone for longer than their cadence |
| `StaleTended` | an old position is driven within a full sleep of the open's grace, and from the first drive on at the fast cadence until it is gone |
| `FreshSpared` | the next-open rule drives nothing on a day that began flat, nor once it has found the leftover gone, unless the lots cannot tell |
| `OvernightAlarmed` | what survives the bell is alarmed by midnight |
| `LotBookProofs!LedgerInvariance` | the fill ledger across two overlapping transactions |
| `OverwriteBooked`, `NothingOverbooked`, `NoWipe` | an overwrite brings nothing unbooked; nothing is booked that was not executed; a held symbol is not wiped |
| `LotsInvariance`, `TheBooksBalance` | every booked share is in exactly one place; no lot is consumed twice |
| `LiquidationsCloseOlder` | a liquidation in one piece closes nothing opened after it printed |
| `MarketFeedProofs!Invariance`, `GateFailsClosed`, `GateCloses` | the gate closes within two windows of the last message whatever fails, within one if nothing does |
| `OkIsEarned`, `OneMissIsNoOutage` | "ok" is written only on data of the last window; one missed message closes nothing |
| `RiskGateProofs!Invariance`, `SessionsBounded` | rows of a day against memory, bus and crashes; at most `MaxEntries` a symbol |
| `PositionsCapped` | no row at `max_positions`, or on its own symbol, by what has stood in the book through the minute |
| `LossesBite`, `LadderKept` | in a quiet minute no row beyond the loss limits, the streak or the halt rung, nor for more than the clamped risk |
| `EngineLifecycleProofs!Invariance`, `OneEngineWorks` | who works holds the lock or has lost its session |
| `OneMorePerLoss` | of two processes at work one has lost its session |
| `OneSlips` | at most one entry slips past a halt |

*Assumptions.*  Those that bound nothing: `QtyAssumption` (an order asks for at
least one share), `ModesAssumption` (no reconciler but the two that exist),
`BoundsAssumption`, `CommandBounds` and `DriveBounds` (the bounds are naturals),
`OrdersAssumption` of LotBook (finitely many orders of at least one share; an
order without a strategy sells), `LifecycleAssumption` (finitely many processes
and tasks), `FeedAssumption` (gaps, the absolute floor and the backoff are positive; any
configured window, a negative one too),
`RiskAssumption` (finitely many symbols; limits, prices and the first equity are
naturals, those that count something positive; lemma `Parameters` states each
constant's range apart, and the proofs cite that).  `CalendarAssumption`, `CadenceAssumption`, `NightAssumption`
and `NoticeAssumption` order the instants of a day and the cadences as the code's
constants do (section 2).  No theorem bounds the number of orders, shares,
operators, commands, lots, processes, symbols, trades, days or faults.  One theorem has a
hypothesis of its own: `OneMissIsNoOutage` asks that the configured window span
two gaps unless the feed is one of bars only, for which the code's floor does.

*The argument for OrderLedger.*  The four safety invariants are not inductive:
a commit believes what the reconciler read several steps ago.  `EvidenceIsTrue`
says that everything in flight (the response, every reconciler's snapshots,
every event) never overstates the broker and is exact once it claims a final
status; the broker only moves forward and a final status has no successor, so
evidence stays true as it ages (`TrueStays`), and applying true evidence leaves a
true row (`ApplySnapshot`, `AdoptSound`, `SweepSound`, `RecordExecution`).
`RequestInv` ties the execution stage to its one request, which is what keeps a
late refusal from landing on an accepted order.  `RowsNeverRegress` needs one more
invariant, `FirstThingsFirst`: a failed row may leave its status only on evidence
of an order that exists.

*The argument for CommandLog.*  `IssueInv`: one operator holds the lock, and a
resume past its guard still finds every flatten resolved when it inserts, because
nothing can be appended in between and outcomes only appear.  `EngineInv`: what
the sweeper, the drive and the switch remember of a row is true of the log.  Both
follow from one fact proved once per step kind, that the log only grows
(`LogGrows`).  `LatestIsNeverVoid` adds that a void row has a later one
(`VoidIsOvertaken`).

*The argument for FlattenDrive.*  Every action of the log is an action of
CommandLog, and every step of the book, the broker and the pass leaves its
variables alone; what is to be shown is that the drive's answers are
`MarkVerified` or `EndDrive`.  CommandLog's invariant then holds by the
refinement, and `VerifiedMeansFlat` follows from `QuietHolds`: while a flatten has
no outcome the switch is on, so no entry passes its check, and what the three
reads did not find cannot have come since.

*The argument for FlattenSchedule.*  A tick knows the instant it began, and unless
the process was suspended today that is now, or midnight has just passed
(`TickInv`).  So a sleep is measured from now (`SleepInv`): what has been counted
and what is left of the sleep stay together within the bound, or the sleep ends
about when the counting begins (`Before`), or no counting comes any more
(`Closed`).  The count of an old position has two bounds: `history.tended` is
cleared with the day and set by the first drive, after which no rule sleeps longer
than the in-window cadence while the position is there.  A sleep towards a deadline never ends after it (`SleepTowardIs`), an
early close is announced a full sleep ahead, and a sleep that is carried to
midnight is short against the night (`AtMidnight`).  `BookInv` says that what was
carried into a session is known to be stale, by the snapshot of its day or by the
lots, and that on a day that began flat, or whose leftover has been found gone,
what is held is known to be of today.  The alarm: a sleep that crosses the
close ends before midnight or the alarm has been raised, however many ticks of the
day raised.

*The argument for LotBook.*  Two transactions write the same tables, and each sees
the committed state and its own writes.  For the ledger, row locks keep them on
different orders (`RowsAreLocked`), and `ListIsBooked` follows the reconcile step
by step from what the broker listed to what its transaction has booked.  For the
lots, `SharedLots` says that the two books agree on every lot but those the
reconcile has locked, on which it has only consumed; what one of the two
transactions books on its own book can then be merged into the other, and the
shares of an order - its lots, what it closed and what it has parked - add up in
both (`SharesAccounted`, `Balanced`).  The sums run over sets of lots, remainders
and orders of any size: a statement about a sum is proved by taking a smallest set
of indices for which it fails (`MinimalSet`), since the prover cannot instantiate
the induction theorems.  The age of what a liquidation closes is an invariant of
stamps (`AgeInv`): every close and every parked remainder of an order in one piece
carries a stamp not later than one of its prints, which matching by time bound
(`OpenLotsAreOlder`), parking, splitting and retrying keep.

The proof corrected the model once: `sweep_ledger_deficits` falls back to the
row's own columns when the broker does not know the order, which the first version
left out.

*The argument for MarketFeed.*  `OkIsBacked`: an "ok" was stamped within a window
of data, and the gate is open on one that was read before it expired.
`SilenceIsTold`: while nothing fails, the poll after a window of silence has
replaced it.  `OkIsRenewed`: while messages come in time, the "ok" that a poll
reads is at most a unit old.

*The argument for RiskGate.*  `Slots` counts a symbol's session in four places: its
rows of the day, its signals and orders on the bus and the one being weighed stay
within what the probe remembers, and once it does not know the day nothing is under
way, so the rows may seed the count again.  The limits rest on `Cleared`, which
carries what the controls found along with the order while it waits.  The book
moves on under it: what stood open through the minute only shrinks, because from
its entry on what is left of a row only ebbs (`Ledger`, `OpenBetween`,
`ThroughShrinks`), and a minute that is still quiet after a step has seen no trade,
no booking and no other peak than the equity the sizing used (`QuietStep`).  The
ebb has to start at the entry: "once there is something left it only ebbs", the
first version, is inductive too, but lets a row grow back after it was closed.

*The argument for EngineLifecycle.*  `WorksUnderLock` is inductive with its types:
the shutdown of the lock's holder, its death or the end of its session frees it,
the last once a life, and a process without its session has no way back to it.
It says nothing of one engine where sessions are lost: `OneMorePerLoss` is what
follows from it there.  `KillIsCurrent`
and `NoneInReserve` make `AtMostOneSlips` inductive: an entry slips only from past
its last check, and one consumer has one entry there.

*Only model-checked.*  Every liveness property (`BooksConverge`, `ViewsConverge`,
`FlattenReachesFlat`, `BookConverges`, `RemaindersAreApplied`, `Reopens`,
`ShutdownEnds`, `HaltHolds`, `HeartbeatTells`), because TLAPS does not reason
about fairness and ENABLED.  Every safety property of a passing run is a theorem.
No module declares a recursive operator, and no theorem instantiates a theorem of the
library that takes an operator: what the provers can do with sums is said above.

## 5. Findings

Places where the code does something else than its own documentation says.  Three
have a run with a counterexample:

1. **The next-open remediation is a quarter of an hour late**
   (`engine/flatten_controller.py:291`, promised "right after the open" at `:277`).
   Sleeping towards the open ends within a second of it, inside the fifteen
   seconds of `_OPEN_GRACE`; that tick declines and then sleeps 900 seconds
   towards the close window, with an overnight position that has no stop.  The
   test of the grace calls the next tick by hand and does not look at the sleep.
   `StaleIsTended` is what does hold.
2. **This morning's verdict closes an entry of today**
   (`engine/flatten_controller.py:298-300`, `:305-306`, against `:213-214`, "so the
   open-tick knows leftovers from legitimate same-session entries").  The pre-open
   snapshot is one bit for the day, asked before any lot evidence.  When the
   position it was about is gone and an entry has filled before the next tick looks
   (within half a minute of the rule's own liquidation, or within the quarter of an
   hour of finding 1), the bit still says stale and the rule drives the new
   position, whose lot says that it was opened today.  `FreshIsSpared` is what does
   hold.
3. **A parked remainder may wait for ever** (`services/reconciliation.py:780`,
   against `engine/execution/lots.py:205-206`).  The events of an entry that was
   filled in part are lost; the broker reports no `filled_at` for it, so its
   synthesis is stamped with the time of the reconcile, later than the liquidation
   that closed it.  The remainder is retried and alerted in every cycle, and the
   lot stays open.  The other side of the same stamp: a liquidation filled in part
   and synthesized late may close a lot opened after it printed, which is why
   `LiquidationClosesOlder` asks for an execution in one piece.

The models rest on further divergences, each visible as a condition of a
property that does hold:

- The API sync overwrites positions without booking the fills they include; the
  stream's event then adds the delta again, until the next reconcile
  (`api/v1/endpoints/account.py:160-168` against `engine/execution/positions.py:6-9`).
  `BooksConverge` and `BookConverges` say that it heals.
- A failed order that materializes and ends between two reconciles, with its
  events lost, is in no open listing and is not rescued
  (`services/reconciliation.py:71-72`); `BooksConverge` excepts such a row's
  ledger.
- The singleton lock may end under its engine (`engine_main.py:142-154`, against
  "ONE engine per portfolio, enforced" at `:134`).  The comment at `:149-152` prevents
  one way in which a server kills the session "and with it the singleton guarantee";
  for every other, nothing notices, the engine runs on and a second launch gets the
  lock.  Two running engines are a reachable state of the model; `WorksUnderLock` and
  `OneMorePerLoss` are what holds.
- A halted engine may still submit one entry (`engine/execution/handler.py:231-232`):
  `AtMostOneSlips` is the bound.
- "Verified" is three reads (`models/engine_command.py:59-61`): an entry past its
  halt check can slip through them, and `VerifiedIsFlatOnceQuiet` excludes it.
- *flatten, halt, resume* (`services/engine_commands.py:41-45`): the running
  sweeper supersedes the flatten when it sees the halt, which satisfies the resume
  guard.  `ArmedOnlyAfterOutcomes` counts that as an outcome, as the code does.

## 6. Not modelled, and the plan

Still to do, in this order:

1. **BracketLegs** - legs discovered through the parent, locked under it, adopted
   or orphaned (`engine/execution/apply.py`, `services/reconciliation.py`).
2. Inside the modelled components: the FillEvent to strategies, orphan events,
   several strategies in RiskGate, several symbols in LotBook and FlattenDrive.

Left out for good: the rate limiter (a lock and a sleep: the requests here take
any time, and the queue before it has no bound in the code that a run could use);
authentication and encryption (stateless checks over library cryptography);
request building and response parsing of the REST adapter; configuration, logging
and the frontend.  None of them keeps state that another component reads
concurrently.
