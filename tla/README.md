# Algoterminal in TLA+

TLA+ models of Algoterminal: the matching engine and its storage, the
write-ahead log, the engine client, the simulated markets, the live-order path
to the broker, the paper desk with its accounting and its tick loop, the
strategies and their backtests. TLC checks them on small instances; TLAPS proves
their main safety properties for all values of the constants.

Run a configuration with `tlc -config <file>.cfg <MC module>.tla` and the
proofs with `tlapm <module>.tla`. `PROJECT.json` lists every run, the lines
each definition models, the hazards of the code with the properties about them,
and for every property a mutated definition under which it fails.

## The system

| Component | State | Operations | Hard behaviour |
|---|---|---|---|
| Matching engine (`internal/book`: `book.go`, `stops.go`) | resting orders, parked stops, last price, positions | `Submit`, `Cancel` | a submit is a long computation: matching cancels the taker's own makers, trades release stops, each of which is submitted by a nested call with its own cascade counter; the arena may fill after fills happened |
| Book storage (`arena.go`, `bitmap.go`, `invariants.go`) | slab of slots with a free list, one queue per tick, aggregates, three-level bitmaps, id index | the primitives `Submit` and `Cancel` are made of | every structure is a cache of the others |
| Simserver and log (`cmd/simserver`, `internal/wal`) | one book, one buffered writer, one file | `new_book` (replays), `submit`, `cancel`, queries | a crash between applying, logging and answering; failed writes and syncs; torn tails |
| Engine client (`sim/bourse_sim/engine.py`) | a child process, a pipe each way, a request counter | `_call` | the tick loop and thread-pool routes share one pipe without a lock |
| Agents, simulations, demo (`agents.py`, `simulate.py`, `compare_makers.py`, `demo_server.py`) | quotes and inventories beside the engine's book | refresh quotes, act, register, trade, leave | two ledgers of one position, kept from the fills somebody routes |
| Markets (`webapp/app/markets.py`, `routers/market.py`, `leaderboard.py`) | owner map, recent fills, prices and volumes, all bounded | step, submit, history, leaderboard | routes read while the loop is inside a step; windows forget |
| Live orders (`routers/orders.py`) | order rows in the database | submit, confirm, cancel | two routes interleave at every commit and broker call |
| Broker session (`broker/angelone.py`, `adapter_cache.py`) | client and tokens, one semaphore, one lock | `_call`, `login`, `_refresh`, `ensure_session` | expiry, rate limits, lost answers; a retry repeats the request |
| Live feed registry (`broker/feed_registry.py`, `routers/live_market.py`) | one feed per user and symbol, its subscribers | `acquire_feed`, `release_feed` | the feed is started, subscribed and stopped outside the lock |
| Instrument master (`broker/instrument_master.py`) | a file of the day, contracts and names in memory | load, refresh, read | a fresh file is read without the lock that writes it |
| Paper orders and accounting (`accounting.py`) | order rows, resumed walks in caches | fold a fill, snapshot, curves | the cache must equal the full walk while rows change |
| Tick loop (`main.py`): strategies, slicer, brackets, circuit breaker | parent orders, brackets, halt latch | one pass per tick | routes change the same rows between two steps of the loop |
| Strategies and options (`strategies/`, `options/`, `pairs_service.py`, `routers/pairs.py`) | none: positions are read back from filled rows | decide, submit leg after leg | what is read back must be what was entered |
| Backtests (`backtest/adapters.py`, `backtest/engine.py`) | what each adapter remembers | evaluate a bar, force the close | memory and orders must agree |
| Optimizer, sizing, users, vault, dashboards, journals, telemetry, frontend | rows and views | - | none of their own |

The engine runs in a process of its own and answers one request at a time.
The web process reaches it through a pipe per market, writes what happened
into the database, and reaches the broker for live orders through one adapter
per user. The tick loop steps all markets, then runs strategies, slices,
brackets and the breaker; the routes of the thread pool do the rest meanwhile.

What makes each part correct:

- *Matching*: price-time priority, no crossed book, fill-or-kill is all or
  nothing, a refused submit changes nothing, stops behind the market are
  released, position limits hold, every submit ends.
- *Storage*: the queues, index, aggregates and bitmaps hold exactly the orders
  of the book and choose the same maker.
- *Log*: what was acknowledged is never silently missing after a replay, and
  replay never diverges from what the book did.
- *Client*: a call that returns gives its own answer, and every call ends.
- *Demo, simulation, markets*: what a participant believes it holds and rests
  is what it traded and what is in the book; recorded fills name their owners.
- *Live orders*: an order reaches the broker at most once and its row tells the
  truth about it; a halt keeps new ones from being placed.
- *Feeds and instruments*: one feed as long as somebody watches; memory is the
  file on disk.
- *Accounting*: the resumed caches count every fill exactly once, in order.
- *Desk*: a bracket closes once and watches a position that is there; a halt
  only reduces and ends flat; slices sum to the total; cash is not overdrawn.
- *Strategies, backtests*: a strategy that sees itself flat holds nothing;
  what an adapter remembers is what its orders add up to.

## Modules

| Module | Models |
|---|---|
| `Book` | `Submit` and `Cancel` in the small steps of the computation |
| `Bitmap`, `BookList` | the storage, as one record `store`, in step with `Book` |
| `Wal` | `simserver` with `internal/wal`, over an arbitrary deterministic book |
| `EngineClient` | `_call` on a pipe shared by threads |
| `Venue` | a book as participants see it: one call is one step; the calls of a quoting maker |
| `Demo`, `Simulation` | `demo_server.py`; the loops of `simulate.py` and `compare_makers.py`; both extend `Venue` |
| `Market` | `SymbolMarket` and the routes that read it; extends `Venue` |
| `LiveOrder` | the live routes on several threads and the broker session |
| `LiveFeed`, `Instruments` | the feed registry with its websockets; the instrument file and its readers |
| `Fills` | `_apply_fill`: one fill against quantity, cost, cash and realized profit |
| `Ledger` | the abstract account: every fill counts once in every view |
| `Accounting` | the order table and the resumed caches; implements `Ledger` |
| `Desk` | the tick loop and the paper routes of one user and symbol |
| `Strategies` | pairs, baskets and options as the loop dispatches them |
| `Backtest` | the adapters on a path of bars |
| `BookProofs`, `WalProofs`, `DeskProofs` | the theorems of the module they are named after |
| `BookListProofs` | the theorems of `BookList` and `Bitmap` |
| `LiveProofs` | those of `LiveOrder`, `LiveFeed` and `Instruments` |
| `ExchangeProofs` | those of `Venue`, `Demo`, `Simulation`, `Market`, `EngineClient`, `Backtest` and `Strategies` |
| `AccountingProofs` | those of `Fills`, `Ledger` and `Accounting` |
| `Sums` | lemmas on sums over finite sets, for every module that adds up |
| `MC*` | instances for TLC |

`MCLive` composes `LiveOrder`, `LiveFeed` and `Instruments`, and `MCExchange`
composes `Demo`, `Simulation`, `Market`, `EngineClient`, `Strategies` and
`Backtest`. The parts of such an instance share no variable, so every state of
the composition is a tuple of states of the parts, and an invariant of a part
holds in the composition exactly when it holds of the part. The variable
`focus` therefore lets one part run in each behaviour: the state counts add
instead of multiplying, and nothing is lost.

### Book

The engine is sequential, so a caller never sees the inside of a submit. The
inside is modelled all the same, because that is where it can go wrong:
`phase` says where the innermost `submit()` is, `cur` is the order it matches,
and `stack` holds the loop counter of each `runTriggers` in progress. `Take`,
`Park`, `RejectSubmit` and `ParkFull` are the branches of `submit` up to
matching, `Fill` and `CancelOwn` one round of `matchAgainst`, `Rest`, `Drop`
and `RestFull` the fate of the remainder, `ReleaseNext`, `Release`,
`ReleaseRefused` and `Return` the loop of `runTriggers`. A stop released by
a cascade goes through `Take` like any order, one level deeper.

Time priority is an arrival number on each order; `BookList` replaces it by the
queues. The counters that nothing reads back (trades, volume, event sequence,
self-trade cancellations) are left out, and quantities are unbounded integers.

### BookList and Bitmap

`store` is what the code keeps: an arena of slots with a free list threaded
through them, a queue of handles per side and tick for resting orders and
another for parked stops, their totals and counts, a bitmap with two summary
levels for each, and the index. `ListNext` takes a step of `Book` and the
corresponding primitives of the storage together, so `Book`'s properties hold of
`ListNext` by construction. What has to be shown is that the primitives keep up: the
invariants say that the storage holds exactly what the abstract book holds, and that
the order it hands to a taker or releases is the one `Book` asks for. What the code does by
following links is a relation between a sequence and the slab: `Iterates` says
that a sequence of handles is what a loop from a given handle visits
(`Following`), `OnLevel` applies it to one queue. A word of
the bitmap is a set of bits and its width is the constant `WordBits` (64 in the
code), so that a small instance has several words and several summary levels.

### Wal

A book is the sequence of operations it has accepted: `Legal` is the set of
sequences that a deterministic book accepts one by one, and the module is
checked and proved for any set of sequences closed under prefixes. Steps are
those of one request (`Apply`, `Write`, `Sync`, `Reply`), the errors each can
meet, a kill of the process (what was written stays), a power loss (anything
unsynced may be cut, also inside a line) and a restart. A failed `fsync` is
taken optimistically: a later one that succeeds covers the earlier bytes. One
configuration is used for every `new_book`. Whether the directory entry of a
new file survives a power loss is not modelled.

### EngineClient

`requests` and `answers` are the two pipes, `caller` what each thread is doing.
A call takes an id (`TakeId`), writes its line and reads the next line, whoever
it is for: `ReadAnswer` ends as "returned", "raised" (an error answer) or
"desync" (the ids differ). `Exit` is the death of the engine at any time, after
which what it wrote can still be read. Taking the id and putting it into the
request are one step: between `self._next_id += 1` and its use the interpreter
makes no call and no jump, where it could switch threads.

`engine.py` says that the protocol "must never desync"; two overlapping calls
make it desync, and `AnswersAreOwn` says what still holds then: nobody returns
an answer that is not its own, only overlapping calls raise a mismatch, and the
pipe is even again once nobody is in a call.

### Venue, Demo, Simulation, Market

In `Venue` a call of the engine is one step (`Submitted`, `Without`), and the calls
a maker makes in `refresh_quotes` follow each other (`QuoteCalls`, `Played`). The
book is the set of the resting orders, each with its place in the queue of its
price. The loops of `matchAgainst` and `consume` are described by where they come
to, order by order: the taker reaches a resting order while those of others that
come before it (`Ahead`) offer less than the taker wants, trades with it if it is
somebody else's (`Hit`) and cancels it if it is its own (`Swept`). The fills carry
their number in the walk, and an answer lists them by it. The loops themselves are in
`Book`, and so are stops, fill-or-kill and the limits on positions and prices.

`Demo` runs on one event loop without an `await` inside a step, so a timer step
and each message of a visitor are one action. The ledgers of visitors are kept
from the fills that somebody routes. `step` routes the fills of the traders'
orders but drops those of the maker's own quotes (`demo_server.py:251`), and an
order taken away by self-trade prevention stays among the open orders: the
history variables `dropped` and `swept` name exactly these two, and the property
says that nothing else makes ledger and book differ.

`Simulation` takes turns as `simulate.py` does. `unseen` are the makers with a
side in a fill of somebody's new quotes, which `refresh_quotes` does not look at.
A comment of `agents.py` says that the engine has no self-trade prevention; it has,
and the property shows that the maker's own care is not what it rests on.

`Market` splits a step of the loop at each call of the engine and each record,
with routes in between. The owner map tracks the last `MaxTracked` orders entered,
so the fill of an old resting order has an unknown owner; a full window of fills makes `CoverageComplete` false. The leaderboard reads the fills for the standings
now, for the coverage and for the standings at its cutoff one after the other, with
steps of the loop in between; the model evaluates all three on one state. The history
route copies prices before volumes; a
step that ends in between pairs volumes one bar late, which `raced` names. The web
application never tells the maker of its fills. That the leaderboard walks
a deque while the loop appends to it (`leaderboard.py:80`) is not modelled.

### LiveOrder

`rows` is the order table, `placed` the orders the broker took (the index is
the broker's id), `handler` what each thread is doing and which step of `_call`
it is in, `session` the adapter's client. A route reads its row once and acts
on what it read, as the code does; each commit is a step and may fail. `Attempt`
is one execution of `fn()` with the renewal before it: the broker may answer,
refuse, limit the rate, not take the request, or act and lose its answer. A crash
ends the threads and the session and keeps the table and the broker. The history
variable `doubt` collects the orders about which two routes overlapped, an
answer was lost, or a commit after a broker call was cut off: the properties
say that nothing else ever makes the table and the broker disagree. Fills are
not reported back to the table, in the model as in the code.

### LiveFeed and Instruments

`registry` is the entry of one user and symbol, `feeds` every feed created for
it, `socket` where each websocket is. `Join`, `Register` and the first half of
`Disconnect` run under the lock; `StartFeed`, `Subscribe` and `StopFeed` after it.
`SubscribeRaises` leaves an entry that nobody will release: `leaked` names it.

`Instruments` has the file (missing, partial or whole, its day, whether its time
stamp is fresh), the two lists in memory and the lock. The file is written in
place, so a process that dies half way leaves a partial file with a fresh time
stamp, and loading fails until a day has passed; memory is never taken from it.

### Fills, Ledger, Accounting

`ApplyFill` is the fold of `accounting.py` over one fill; a cost is the code's
average price times the quantity. `Ledger` says what an account promises: fills
are recorded once and for ever, and a view shows each of them exactly once. Three
liberties are the code's: a row that is cancelled after a partial fill may or may
not count, because a full walk skips it and a resumed one has counted it
(`accounting.py:384-386`); a fill recorded after one of a higher id may or may not
count (below); and a view nobody asked for says nothing.

`Accounting` adds what the promise has to survive: sessions that insert, commit
and roll back, threads that wait for the lock of a cache and are between query and
fold under it, a watermark whose row may have gone, cancellations and restarts.
`Promise == INSTANCE Ledger WITH ...` maps each cached walk to what its view shows,
and for a view in the middle of a fold to what the route will answer;
`ImplementsLedger` is checked as a property.

*The database.* `OneWriter` is SQLite, where a session that has inserted holds the
write lock until it ends. With PostgreSQL, which `db.py` names for production,
sessions insert at once, take their ids from a sequence and commit in any order.
`late` collects the fills committed after one of a higher id: a view that has folded
the higher one resumes after it (`accounting.py:438`) and misses the late one until
the process restarts. So the comment that an id "is a safe, permanent watermark"
(`accounting.py:409`) holds with SQLite alone. `Ledger` with `InOrder` set has no such
fills. The theorems are about both values; the run takes `FALSE`, whose behaviours
include those of `TRUE`.

*The prices of a curve.* The clock counts beats, `Second` of them to a second. The
loop makes its first step at once and each further one when it has slept a second;
it may oversleep. A route reads the clock when it starts (`Ask`), before it waits for
the lock, and `StepAt` counts back from the latest step a whole step for each whole
second since the fill, as `market_price_lookup.py:52-53` does with `int(seconds_ago)`.
So the same row may get another price at a later walk, and the docstring of
`get_cached_equity_curve`, that the lookup "always answers the same historical
price", holds up to the second cut off and the lateness of loop and route. `skew` is
the largest lateness so far, and `Near` says how far the step may then be from the
one of the time. `ListsAreFresh` says that a resumed list is a full walk over the
same fills with one such step for each, and the same one for all positions of a
point. A symbol without a history (an option) counts at its cost, as in the code.

### Desk

One user, one symbol, one trading day. `loop` is the phase of `_tick_loop` and
what its session has read: each phase reads, calls the engine and commits, and
the routes act in between. What a strategy signals is a free choice, and a bar of a
VWAP order sends any quantity. `Restart` rolls sessions back, counts the bars of a
parent order anew, and chooses the bar at which it had started (`MaxStart`).

`route` is what each thread of the pool is doing, every route being cut where
another session can act:

| Route | Steps |
|---|---|
| `POST /orders` | `CheckOrder` (halt and cash), `FillOrder` (the engine's answer, and the brackets it closes, "ordering" to "committing"), `CommitFills` |
| `DELETE /orders/{id}` | `CancelOrder`: the row of a limit order that filled in part leaves the accounts |
| `POST /pairs/close` | `ReadLegs` (what the rows of the pair add up to, "unwinding"), `CloseLegs`, `CommitFills` |
| `DELETE /orders/brackets/{id}` | `ReadBracket` ("deleting"), `DeleteBracket` |
| `POST /orders/algo` | `ReadBar` (halt and current bar, "starting"; a `Tick` counts on), `CommitAlgo` |
| `POST /risk/reset-halt`, `POST /account/sub` | `ResetHalt`, `CreateSub` |

`account` is what the committed rows say, in each scope. `rests` are the rows that
are partially filled with an order resting in the engine, and what their fill did.
A cancelled row is no fill any more (`accounting.py:142-144`), so its fill leaves
position and cash although it was traded; `dropped` keeps what it was: the position,
the proceeds of sales, and what of it a cached snapshot, which has folded the row,
still counts as cash when the next order is checked (`CashSeen`). `legs` is the sum of
the rows under the pair's strategy key in all scopes, which is what `force_close`
sells or buys back: with sub-accounts each of which gets its clone, or after the
breaker has flattened the position under another key, that is more than what is held,
and the close opens a position. It is not gated by the halt.

The history record says which of the known races happened: `overlapped` (a route
committed a fill while another session was open, or a DELETE dropped one while the
loop was flattening), `mixed` (a bracketed order traded against the position),
`unchecked` (a purchase not held against the cash: two routes had checked the same
cash, the price slipped above the estimate, or the loop or a close of the pair
bought), `contested` (a DELETE wrote a bracket that had changed since it was read).
What the properties then say, and what they leave out:

- `ActiveCovered` is about the position that was traded, the dropped part included:
  a DELETE of a partial fill makes the rows show less than the brackets watch.
- `OverdraftNeedsARace`: without an unchecked purchase, the cash is overdrawn by no
  more than the sales that were dropped.
- `TotalSent` excepts an order whose last bar was halted, or had been sliced before
  its row was committed (`Missed`): with a horizon of one bar, a tick between
  `orders.py:550` and `:553` completes it with nothing sent.
- `HaltOnlyReduces` excepts orders that were checked before the halt and are not yet
  committed, closes of the pair that are no part of what each scope holds, and rows
  that no longer tell what was traded. It covers the loop, the check of new orders
  and algorithms, and the closes that do reduce.

Outside this module: the virtual account, whose orders and brackets run the same code
on rows of their own, without strategies, slices or breaker; live orders (`LiveOrder`); `POST /options/orders` and the orders
for other symbols, which draw on the same cash, the options and the strategies
without a check of it, so that the claim on cash is about the orders of one symbol;
`PUT /risk` (the drawdown limit is a constant) and `PUT /strategies/allocations`
(whether a strategy signals is free at each tick).

Noted while modelling, without a run of their own: rounded VWAP weights are each
relative to another window and may pass the total before the last bar
(`slicer.py:66`, `:78`); after a restart a TWAP order that counts its bars anew
overshoots its total; the breaker's equity outside a halt uses prices without
option marks (`circuit_breaker.py:98`).

### Strategies and Backtest

`Strategies` runs two sessions, the loop's and `POST /pairs/close`. A strategy reads
its position back from its filled rows (`SpreadHeld`, `OpenStrikes`), decides, and
submits leg after leg; equity legs are cloned to a sub-account, option legs are
committed one by one, an exception rolls the rest back. A condor is modelled by one
of its two sides; in the week of a monthly expiry the two legs of a calendar
spread are one contract, which is left out. `strain` collects what the code does not
defend against: a partial fill, a hedge ratio that moved between entry and exit
(exits are sized with the current one, though `pairs_cointegration.py:296-298`
speaks of the quantity that was opened), overlapping sessions, clones counted as
the strategy's own, and an exit rolled back after its option was committed.

`Backtest` is the other half: adapters remember, for one path; a Monte Carlo run
resets them between its paths (`monte_carlo.py:135`), which is not modelled. Fills
are complete and at the close of the bar, so what matters is that memory and orders
agree, for pairs, Kelly-sized pairs, baskets, options and hedged options, up to the
forced close at the end of the path, which pairs and baskets do not have.

## Runs

| Run | Bounds | Shows |
|---|---|---|
| `book_rules` | 3 prices, 2 owners, 4 submits, 3 slots, a limit of 2, a collar of half the price, 1 cascade per loop | no crossed book, positions sum to zero, fill-or-kill, priority, stops are quiet between calls, limits hold for takers and released stops, a refused submit is a no-op, every submit returns |
| `book_cascade` | 3 prices, 5 orders with stops on both sides that release one another | violated: see findings |
| `book_swept` | 3 prices, 4 orders of one or two lots, limits and stops of both sides | violated: see findings |
| `book_storage` | 4 orders, 3 slots, 5 ticks, words of 2 bits | storage and book agree |
| `wal_faults` | 2 ids, up to 3 accepted operations, 3 faults | replay is complete and agrees; kills are harmless |
| `wal_lost` | as `wal_faults` | violated: see findings |
| `live_orders` | 2 threads, 1 order, 3 placements, any number of faults; 3 websockets, 2 feeds; 3 readers, 3 days | row and broker agree outside `doubt`; the halt is held; the semaphore returns; one feed for all watchers; memory is the file |
| `live_cancel` | 2 threads, 1 order | violated: see findings |
| `accounting` | 2 threads, 2 views, 3 rows of four: a buy, a sale that flips it, a partial fill of a sub-account, an order of a symbol without a history; 4 beats, 2 to a second; PostgreSQL | the caches implement the ledger; value is conserved; curves are full walks at the fills' own times |
| `desk` | 2 threads, 1 sub-account, 2 prices, 2 events (orders, signals, closes, algorithms, sub-accounts, restarts) | brackets cover and close once; cash, slices and halts |
| `exchange` | 2 visitors with 4 orders; 2 makers, 6 turns; a market of 2 steps; 2 threads, 3 calls; 3 sessions of each kind of strategy; paths of 7 bars | the eight properties of the six parts |
| `strategies_calendar` | 3 sessions | violated: see findings |

Why these bounds are enough. Every rule of the book concerns two orders (a
taker and a maker, a stop and the trade that triggers it) or an order and one
limit: a few ids give a maker before and after another at the same price, a taker
that empties a level, an own order between them, and the reuse of an id; three
slots fill while a taker is matching; stops release stops inside a release. The
storage instance needs a level with a head, a middle and a tail, and ticks in
different words. Three log entries with three faults give a fault before, in and
after an acknowledged operation, and one after recovery. Two threads give every pair
of routes on an order, and with crashes a thread may begin again any number of
times; three placements give a duplicate of a duplicate. Three websockets make one
join, one leave and one start a feed anew while another is being stopped.
Accounting needs a fill that opens, one that flips, and one whose row changes
afterwards, with a second view over other rows; two seconds and a restart within
them put a fill before, at and after each step, and half a second makes the cut. A
desk of two events has every pair of an order with an order, a signal, a close, an
algorithm, a sub-account or a restart around the same bracket, and any number of ticks. In the market the windows are shorter
than the run, so each of them forgets; a path of seven bars has an entry, two
rebalances, an exit and a position left open at the end.

`MaxSubmits`, `MaxOps`, `MaxFaults`, `MaxPlaced`, `MaxFeeds`, `MaxDays`,
`MaxRows`, `MaxClock`, `MaxEvents`, `MaxStart`, `MaxOrders`, `MaxTurns`,
`MaxEntered`, `MaxSteps`, `MaxCalls` and `MaxSessions` are bounds for TLC only;
`MaxCascades`, `MaxOpenOrders`, `MaxInventory`, `MaxTracked`, `MaxRecent` and
`MaxVolumes` are limits of the code, made small. Symmetry is used for the threads of
`Accounting` and of `MCLiveOrder_cancel` only, whose properties have no fairness. The
action constraints choose the least free id and the least idle thread. In `desk`, two orders
may be under way together, while a DELETE of a bracket, a new algorithm and a close
of the pair begin with the other thread idle (the loop goes on); a market order of a
route fills whole or not at all, a limit order also in part; and under a halt the
price stays or returns to the first. In `accounting`, each order is inserted once;
time passes or the server restarts while one thread at most is at work, on the curve
and not inserting, with at most two rows; the restart comes once, after the first
step; the market is two beats late at most, one once there are two orders. Deadlock is not checked where a bound ends the work (`live_orders`,
`accounting`, `exchange`, `strategies_calendar`).

### Fairness

- `Book`: weak fairness of the internal steps. A submit runs on one goroutine
  without waiting for anything, so it goes on (`EveryCallReturns`).
- `LiveOrder`: weak fairness of each thread inside `_call` and of the live
  feed's login. A request to the broker ends in an answer or an exception, and
  nothing inside `_call` waits for another thread but the semaphore and the
  lock (`SemaphoreReturns`). None is assumed of callers, broker or commits.
- `EngineClient`: weak fairness of simserver and of each thread in a call
  (`EveryCallEnds`). An engine that exits ends every read.
- `Desk`: weak fairness of the loop, a task that never waits for a route, and strong
  fairness of a liquidation that fills something of each order: it is repeated at
  every tick against a market maker that quotes at every step (`HaltFlattens`).
  An exception of a strategy ends the task for good (`main.py:94`); the
  property is about a loop that has not met one.
- The other modules need none; their properties are safety.

### Findings

- `book_cascade`: `maxTriggerCascades` does not bound a submit. Each released
  stop runs a `runTriggers` of its own, so the caps multiply.
- `book_swept`: `park` says a stop waits until its trigger price trades, but
  `popTriggered` compares with the last price only; a sweep that ends beyond
  the trigger on the other side leaves the stop parked: with a sell stop at 1 and
  offers at 1 and 2, a buy of two fills at 1 and at 2, and the stop stays.
- `wal_lost`: the log's README promises that nothing acknowledged is lost to a
  crash; a torn tail makes `Replay` refuse the whole log.
- `live_cancel`: `cancel_order` assumes that a pending order never reached the
  broker; a confirm on another thread may have placed it meanwhile.
- `strategies_calendar`: positions of options are netted by strike and type
  without the expiry, so a calendar spread nets to nothing and is entered again.

## Proofs

The theorems hold for every value of the constants that satisfies the named
assumptions, which TLC evaluates on every run: `BookAssumption` (a price range in
whole ticks, well-formed orders, finitely many owners), the one of `Wal`,
`LiveAssumption`, `FeedAssumption` and `MasterAssumption` (the value for "none" is
not a number), `EngineAssumption` (finitely many threads), `AccountingAssumption`
(finitely many symbols, each with a price history or without; a second has beats;
rows as the routes make them: a row that is only submitted has filled nothing), `DemoAssumption`, `SimulationAssumption` and `MarketAssumption` (every order is for
something; a participant has a name of its own; a maker never quotes a crossed or
locked market, as `refresh_quotes` widens such a pair; windows that hold
something), `DeskAssumption` (prices are not negative, quantities are
positive, the ranges the route checks of an algorithm's total and horizon),
`StrategyAssumption` (some strikes, finitely many; nothing is entered with no
quantity; hedge ratios are rounded) and `BacktestAssumption` (lots are positive, a
leg has a side). Each proof has one
lemma per action or kind of action, an initial and a step lemma for the invariant,
and a theorem that joins them.

The matching engine and its storage:

- `TypeCorrect`, `NeverCrossed` (`BookProofs`): `TypeOK` is inductive by itself;
  `NotCrossed` needs that the order being matched is not in the book and that it
  rests only when nothing on the other side is reachable (`MatchDone`).
- `StopsNeverStranded`, `RejectsAreNoOps`: strengthened by `EntryInv`, which
  relates the book during a call to the one recorded at its start. The price
  moves only inside a call, and `runTriggers` returns only when nothing is
  triggered or the cap was met.
- `TakersStayWithinLimit`: while an order is matched, its owner's position plus
  what remains stays where the check before matching put it; self-trade
  prevention keeps the owner off the other side of its own fills.
- `TakersWalkTheBook`: by `WalkInv`, which speaks of the book that is left: what
  the taker can still reach lies at or beyond every price it has traded at, and a
  parked stop is the taker of no fill, so that a stop released in a cascade starts
  a walk of its own. The fills made say nothing of the next one.
- `NothingMadeOrLost`: two positions change in a fill, by opposite amounts.
  `Sums` has what a sum does when one or two of its terms change.
- `FillOrKillIsWhole`: by `Covered`: while a fill-or-kill order that passed its
  check is matched, what it still wants is at most what others than its owner rest
  within its limit. `available` leaves out the taker's own orders, so what
  self-trade prevention takes away had not been counted.
- `QueuesAlwaysHoldTheBook`, `HeadsAlwaysHavePriority`, `ArenaIsAlwaysExact`,
  `AggregatesAreAlwaysExact`, `WalksAreAlwaysExact` (`BookListProofs`): from one
  inductive invariant, `ListInv`. It holds `Book`'s type and, between the steps of a
  call, what each structure says of the live orders: the index knows each of them
  and nothing else (`Indexed`), neighbours in a queue are the orders that come
  before and after in time, with a head that has no predecessor (`Linked`), a level
  has its queue's total and count (`Levelled`), the bitmap has the bits of the levels
  in use and each summary those of the words below it (`Mapped`, `Marks`), and the
  free list runs through the other slots once each (`Freed`). The invariants that
  TLC checks speak of sequences of handles; links are what the steps preserve, and
  `IteratesThread` gets the one from the other: a set of slots whose links agree
  with a strict order is visited by the loop in that order, once each. There is one
  lemma for each primitive: `EnqueuedWorks` for an insertion behind the tail,
  `RemovedWorks` for a removal from the head, the middle or the tail, `ReducedWorks`
  for a partial fill. The lookups are proved by the words of the bitmap: the nearest
  bit in the same word, else the nearest word by the summary, else by the one above.

The write-ahead log and the live path:

- `NothingSilentlyLost`, `ReplayAgrees`, `KilledProcessRecovers` (`WalProofs`): one
  inductive invariant: what is synced comes before what is not, what is
  acknowledged is synced, the entries of the log are the operations the book
  accepted (but for the one in progress), and without a power loss or a failed
  write every entry is ended. It is needed because the properties speak of the
  log only, and the next entry is decided by the book in memory.
- `TypeCorrect`, `HaltIsHeld` (`LiveProofs`): strengthened by `Barred`: a thread
  that began during a halt that still holds never reaches the step that places.
- `SubmissionIsProven`: with `Carried`, a thread about to write "submitted"
  carries an id the broker gave its order; what the broker took only grows.
- `PlacedAtMostOnce`, `RowTellsTheBroker`: by `SoundInv`. For an order outside
  `doubt`, at most one route is about it, and where that route is fixes what the
  row says and what the broker has (`Doing`); with no route the row says it all
  (`Settled`). Neither the row nor the broker alone tells whether the next step of
  the route places the order again.
- `OneFeedForAll`: a client is entered with the registered feed
  exactly in the four places between entering and leaving (`EntriesAreClients`),
  the number a starter holds is still the registered one (`NumbersHeld`), and a
  feed off the registry is stopped or has somebody about to stop it
  (`OthersAreStopped`). The property alone forgets who holds which feed outside
  the lock.
- `MemoryIsTheFile`: exactly one thread is between taking and
  leaving the lock, and where it is fixes how memory may differ from the file.

The desk and its accounting:

- `BracketsCloseOnce` (`DeskProofs`): `LoopSound` says that the brackets a session is
  about to cancel or close have not been closed, although they may have been
  cancelled since; `OrdersSound` keeps the ids of orders on their way apart from
  each other and from the table, so that a bracket is opened once.
- `SlicesSumToTotal`: by `ParentInv`: before the slice of bar *k* at most *k - 1*
  shares of the total were sent, after it at most *k*, and a slice on its way is one
  share or, in the last bar, all that is left; an order that is committed late
  starts with nothing sent, and is excepted only if its last bar is over (`Missed`). The
  rest is arithmetic: as many shares as the horizon has bars are within the total.
- `OverdraftsAreRaces`: by `Backed`: unless something was bought that was not held
  against it, the funds (`Funds`: the cash and the sales that were dropped) are there
  and cover each purchase on its way that no other purchase has overtaken. It needs
  the types of what is on its way (`DeskTyped`), and that what a snapshot still
  counts of dropped rows is within the sales.
- `BracketsWatchAPosition`: by `CoverInv`: what the open brackets of one side watch,
  apart from those the loop is closing, adds up to no more than was traded, and
  the fills that the loop or a route is about to commit come with the cancellation of
  the brackets they close. The table alone is right only between two sessions.
- `HaltsOnlyReduce`: by `HaltInv`: a halt finds no strategy and no slice on its way,
  every order on its way was checked before it (`InTime`), and what the loop flattens
  is what the accounts hold, unless a fill or a DELETE has come in between.
- `MoneyIsConserved` (`AccountingProofs`): each case of the fold (it opens, adds,
  reduces, closes or flips) changes cash, cost and realized profit together, and by
  `CacheInv` each cache is such a fold of some set of fills.
- `ResumedListsAreFresh`: `CacheInv` says what that set is: every fill of the view's
  scope up to the watermark, but for those cancelled since or late, and the trail is
  the full walk over it with a step for each that is near its time. `StepAtIsNear`
  has the arithmetic: the loop never makes a step early (`MarketOK`), so counting
  back whole seconds from a clock that is `skew` behind at most ends less than a
  second and the skew away; `NearStays` keeps it so while time passes.
- `ViewsImplementTheLedger`: `Spec => ImplementsLedger`, step by step, whoever may
  write. `JobInv` says that a thread in the middle of a fold queried all that comes
  after the watermark of the entry it found, which the lock keeps from changing. A
  commit, a rollback, an insert and a cancellation map to `Record`, a query to `Ask`, a
  restart to `Forget`; the end of a fold is a stutter, because it writes what the query
  had settled. That a commit is overtaken exactly when it is late is `CommitLate`,
  and with one writer none is: `InsertInv` has at most one session with a row that is
  not committed, whose id is the last.

The exchange:

- `CallsGetTheirAnswers` (`ExchangeProofs`): ids are each thread's own, a line
  with a thread's id is about what it asked, there are no more lines than threads that
  wait, and without an overlap there is one call at most. The count is what shows
  that nothing is left for a later call.
- `AdaptersKnowTheirPositions` (`ExchangeProofs`): the bar of an open position lies
  behind, its legs are all that is in the options, and a direction goes with the
  quantity its adapter keeps.
- `QuotesAreOwn` (`ExchangeProofs`): by `SimInv`, which adds to the property that the
  book's orders have the owners their ids name and the prices their maker
  remembers. Between two refreshes it is nearly the property; inside one it is
  not, so `Renewing` says what the book may hold after each of the six calls of
  `refresh_quotes`. A new quote cannot meet the maker's own, since the one it would
  cross is cancelled before it (`QuotesNotCrossed`).
- `LedgersFollowTheBook`: by `DemoInv`: no order of a visitor has the id of another,
  and those ids are behind the counter. A submit takes from a visitor's order in the
  book what the fills that name it say (`BookOfSubmit`), and `_route` takes the
  same from the ledger (`SubmitMatches`); the maker's quotes take from it in the book
  alone, and then `dropped` has its id (`QuotesFollowed`).
- `FillsNameTheirOwners`: by `MarketInv`. What a market keeps are windows on two
  histories, and a window keeps in step with its history (`WindowMoves`): the owners
  with the ids entered, the fills with all that were made, each alike but perhaps for
  an owner. An order that rests was entered, by the owner its id names, so an owner
  that is not found has left the window. Fills are recorded in the order of their
  steps, hence a fill that left a window which reaches back to the cutoff is older
  than the cutoff (`WindowIsComplete`).
- What the three rest on: `SubmittedBook`, `SubmittedFills`, `BookOfSubmit` (the book
  and the fills of a submit, order by order), `QuotesPlayed` (the calls of a quote
  played out) and `ListedAreFills` (an answer lists each fill at its place: the ranks
  of a finite ordered set are the numbers up to its size).
- `HistoriesPairUp`: by `BarInv`: a step records its price, then its volume, so
  before either and between the two the last volume is of the step before.
- `FlatMeansNothingHeld`: by `FlatInv`. Leg by leg a session passes through positions
  that are neither whole nor flat, and its fills are not committed, so what is held
  says little. While nothing strains the strategy, at most one session is at work,
  and what is committed, filled and still to submit adds up to a whole position or
  to none, in the sub-account as in the primary one (`SpreadInv` for pairs, Kelly
  and baskets). A hedged option goes through more stages, since its option is
  committed before its shares (`Hedging`). For strangles and condors nothing is ever
  held but weekly options of the primary account (`WeeklyInv`), so the net by strike
  that the strategy reads is the position. A calendar spread is strained by its first
  entry: of it the theorem says no more than that nothing comes before. The legs of an
  exit follow the strikes in any order, and any number of strikes.

The provers take no induction theorem with an operator as its parameter, and a sum
or a fold is defined by recursion over a set. `Sums` and `IteratesThread` do without:
of the subsets of a finite set without the property one would be smallest, strict
inclusion being well founded there, and taking one element from it gives a smaller
one. What is
proved this way is about the definition, which is unfolded once.

Model-checked only:

- liveness (`EveryCallReturns`, `SemaphoreReturns`, `EveryCallEnds`,
  `HaltFlattens`), which is out of the prover's reach.

Every safety property of a passing run is proved.

## What is left

1. That `Submitted` of `Venue` is what `Book`'s small steps come to: both are read
   from the same loops, but no theorem relates them.
2. Option positions in the breaker's liquidation, and a day's baseline that moves.
3. VWAP weights as numbers, so that `TotalSent` says what they overshoot by.
4. One adapter per user: the two threads that miss the adapter cache, and what a
   second login does to the first session.

## Not modelled

Query operations and views (they only read), the workload generator and the
benchmarks, the random decisions of agents and the signals of strategies (they are
free choices), pricing and Greeks, costs and metrics of backtests, the optimizer
and position sizing (numerical and sequential), sign-in, the vault, the adapter
cache, migrations, dashboards, journals, telemetry and the frontend. Three hazards
have no property: the directory entry of a new log, an exception that ends the
tick loop, and two adapters for one user; `PROJECT.json` gives the reason for each.
