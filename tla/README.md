# Verification of the distributed trading engine

TLA+ models of this repository: the limit order book, the matching engine
process around it, the risk gateway in front of it, the strategies and the feed,
and these joined by their channels; and the programs around them, the launcher,
the testbed runner, the dashboard, and the scripts that download candles and
train the model. TLC checks them on small instances; TLAPS proves the theorems
listed below for every value of the constants.

Line references are to files under `src/`; `lob.py`, `matching_engine.py` and
so on are in `src/engine/`, the launcher, downloads and training in
`src/scripts/`, `run_fabric.py` is `src/run_fabric.py` and `dashboard.ipynb` is in
`src/notebooks/`.

## 1. The system

```
 feed handler --ticks, heartbeats--> strategies --orders, cancels--> risk gateway
      (PUB)                              ^  ^        (PUSH)            |   |   ^
                                         |  +--- rejects (PUB) --------+   |   | reports
                       reports (PUB) ----+             order_egress (PUSH) |   | (PUB)
                                         |             order_cancel (PUSH) v   |
                                         +------------------------- matching engine
 dashboard --kill switch (PUSH)--> risk gateway
```

Every box is a process; an arrow is a ZeroMQ socket pair, FIFO by itself, with
no order between two of them.

| Component | State | Operations | Hard behaviour | What makes it correct |
|---|---|---|---|---|
| Limit order book, `lob.py` | `_order_map`, `_bids`, `_asks` (price -> deque) | `submit`, `cancel`, `best_bid`, `best_ask`, `spread` | lazy cancels left in the deques; deleting levels while sweeping; two copies of the sweep, one per side | price-time priority, never crossed, no ghost level, no order lost or doubled, money balances, a final status is final |
| Matching engine, `matching_engine.py` | one book and ring buffer per symbol, `order_registry`, `strategy_last_seen` | `recv_loop`, `_match_loop`, `_process_order`, `_run_orphan_gc`, `cancel_recv_loop` | three threads on the book with no lock; overflow; several reports per submission | the book's properties under every interleaving, one answer at least per order, reports that add up, orphans closed, threads that live |
| Risk filters, `risk_gateway.py:20-57` | a token bucket per strategy | `check_fat_finger`, `check_position_limit`, `check_rate_limit` | boundaries, spacing of calls | rate bound over any window, no refusal of one that waited |
| Risk gateway, `risk_gateway.py:89-224` | `positions`, `order_side_registry`, `pending_orders`, `buckets`, `kill_active` | handlers of one poll loop: kill switch, report, order, strategy's cancel | reports lag behind the book, cancels overtake orders | ledger equals net position, kill switch misses nothing, limits hold behind it |
| Strategies, `strategy.py` | `open_orders`, `last_hb_s`, `safe_mode`; a window of mid prices a symbol | tick, report, reject, heartbeat, safe mode, start | stale `open_orders`, spurious safe mode, restart | safe mode ends with no open order; no self-trade; a one-sided strategy stays so |
| Feed handler, `feed_handler.py` | tick counter, `next_ns`, prices | three loops | rate gate on an absolute schedule, heartbeat every 1000 ticks, none in replay | ticks on schedule however late the process wakes up |
| Datasets, `datasets.py` | the file | loaders, `replay_candles` | pacing, files cut short | ticks in order, at the speed asked |
| Configuration, socket factory, `config.py`, `zmq_factory.py` | - | make an address, set socket options | two deployment modes | every address connected to is one that is bound |
| Launcher, `start_pipeline.py` | the processes, their stop events | start, watch, stop | a process that dies, or that waits in a send | Ctrl+C ends everything |
| Testbed runner, `run_fabric.py` | the slice, what is on each node, `failed_nodes`, `ok_node`, the metrics file | set-up in threads, trials, clean-up | any remote command may raise, threads that outlive the main thread, left-overs of an earlier run, engines that outlive a kill | no node without its code in silence, a trial records its own metrics, no slice left behind |
| Download and training, `fetch_datasets.py`, `train_ml_model.py` | pages, CSV files, model and metadata | fetch page by page, fall back, train, save | scripts cut short, one reads what another writes | a model is trained on candles in order, none missing in the middle |
| Dashboard, `dashboard.ipynb` | `last_hb_time`, P&L lists, buttons | poll thread, timer, kill switch | threads and the browser | a dead node is shown dead |
| Wire format, figures, other notebooks | - | conversions, plots | - | - |

`PROJECT.json` lists each with its status, and under `hazards` what is hard to
test at the line where it bites.

## 2. Modules

| Module | Models | Uses |
|---|---|---|
| `PriceTimeBook` | what a book promises: resting orders, one trade at a time with the order that has priority | |
| `LimitOrderBook` | `lob.py`, one step per statement another thread can observe | `PriceTimeBook` (refinement) |
| `OperatorProofs` | lemmas about sums, sequences and finite sets | `Ordered` |
| `LimitOrderBookProofs` | theorems about the book: types, never crossed, where the orders are | `LimitOrderBook` |
| `BookTradesProofs` | theorems about the book: balance, statuses, assertions, priority | `LimitOrderBookProofs`, `OperatorProofs` |
| `MatchingEngine` | the engine's threads over `LimitOrderBook`'s steps | `LimitOrderBook` |
| `MCMatchingEngine` | arrivals for its runs | `MatchingEngine` |
| `MatchingEngineProofs` | theorems about it | `MatchingEngine`, `BookTradesProofs` |
| `RiskFilters` | the filters as operators on values | |
| `RateLimiter`, `RateLimiterProofs` | `check_rate_limit` on a clock, and its theorems | `RiskFilters` |
| `Ordered` | the keys of a dict, oldest first | |
| `RiskGateway` | the gateway's handlers and state | `RiskFilters`, `Ordered` |
| `TradingSystem` | gateway and engine, joined by three channels | `RiskGateway`, `PriceTimeBook`, `Topology` |
| `MCTradingSystem` | traffic for its runs | `TradingSystem` |
| `TradingSystemProofs` | theorems about it | `TradingSystem`, `RateLimiterProofs`, `OperatorProofs` |
| `StrategyNode` | the poll loop of `strategy.py`, and the feed it listens to | `Ordered` |
| `TradingFloor` | a strategy joined to gateway and engine | `TradingSystem`, `StrategyNode` |
| `MCTradingFloor` | what the strategies may submit | `TradingFloor` |
| `TradingFloorProofs` | theorems about it | `TradingFloor`, `TradingSystemProofs` |
| `Topology` | endpoints, addresses, what a send does on a full socket | |
| `Feeds` | the three loops of `feed_handler.py` and `replay_candles` | |
| `Signals` | when the two strategies send an order | |
| `Launcher` | `start_pipeline.py` and how each process ends | |
| `Testbed` | `run_fabric.py`, the engine's metrics thread | `Topology` |
| `Dashboard` | node health, P&L lists, kill switch | `Topology` |
| `Candles` | downloads and training | `Ordered` |
| `MCTools` | the seven modules of the programs that share no state, one per behaviour | `RateLimiter`, `Feeds`, `Signals`, `Launcher`, `Testbed`, `Dashboard`, `Candles` |
| `ToolsProofs` | theorems about them, and about the run that has them side by side | `MCTools`, `RateLimiterProofs`, `OperatorProofs` |

Operators named `...Mutant` are never used by a specification: each is the
definition after it with a plausible bug, and shows that a property can fail.

### LimitOrderBook

An order is its number in the sequence of submissions, so time priority is `<`.
`orders` is `_order_map`, `keys` the keys of the two `SortedDict`s, `queue` the
deque of each level. The remaining variables are the locals of a running
`submit`: `pc`, the incoming order `inc`, the level `lvl`, `fill_qty` `fq`, the
`prices_to_prune` `swept` and the collected `fills`.

| Action | Code |
|---|---|
| `Submit` | `submit`, and the entry in `_order_map` |
| `NextLevel`, `FinishSweep` | the sweep loops of `_add_limit_order` and `_add_market_order`; pruning, resting, return |
| `SkipCancelled`, `TakeHead`, `LeaveLevel` | the loop of `_fill_from_level`, and the deletion of an empty level (at once for LIMIT, noted for MARKET) |
| `FillResting`, `StatusResting`, `FillIncoming`, `StatusIncoming` | the two `apply_fill` calls, each cut where the status is written; a failed assertion leads to `pc = "raised"` |
| `CancelLob` | `cancel` of an open order between submissions, by one thread; of any other order it changes nothing, and raises in its caller if that one is closed |

The steps are this fine because `MatchingEngine` runs other threads in between.
A BUY and a SELL sweep are written once, with the far side `Far` as the
difference, and a MARKET order is a sweep without the limit check.

### MatchingEngine

`ring` is the ring buffer of one symbol and `reports` what `exec_report_pub`
carried, per order. `mpc` is where the match loop is: draining, in an order,
having left the drain loop (`"clock"`), or in the orphan collector; `cpc` is
where the cancel thread is. `GoSilent` stands for the clock: a strategy is
silent when it has not been heard of for `orphan_timeout_ns`, and `Recv` ends
that. A cancel of an order the book does not hold open changes nothing and is
a stutter. `"dead"` and `pc = "raised"` say that an assertion ended the thread;
what the process does while it shuts down is not modelled.

`SwitchInside` states where the interpreter switches threads. CPython 3.11 and
3.12, which the repository deploys (`run_fabric.py`, `README.md:82`), switch at calls and at
loop ends, and there are none after the assertions of `apply_fill` and
`apply_cancel`: `FALSE`. The language promises nothing of the kind: `TRUE`.
Properties that hold in the worst case are checked with `TRUE`, those that need
CPython's behaviour, and the findings, with `FALSE`.

### RiskFilters, RateLimiter

Tokens are counted in 1/`Unit` of a token and time in ticks with `Rate` units
per tick, so the float arithmetic of `check_rate_limit` is exact here; rounding
is not modelled. `OpenWindow`, `opened` and `passed` are history: they count
the orders that pass from an arbitrary moment on.

### RiskGateway, TradingSystem

One action per handler of the poll loop. A poll serves at most one message per
socket, and a message is on a socket once it has been delivered, so any order
of the handlers is possible. `egress`, `cancels` and `execs` are the channels.
The engine in `TradingSystem` is `PriceTimeBook`, which `LimitOrderBook`
implements (theorem `PriceTimePriority`), with the reports of `_process_order`: two per fill, labelled
by what is left when the submission is over, in one batch at the end. The
engine's races and the overflow of its ring buffer are left out: they are the
subject of `MatchingEngine`. Orders are LIMIT orders, as `_submit_order` sends.

`Publish` puts the reports on `exec_report_pub`, a PUB socket: what finds no room
below `Hwm` is dropped and nobody is told (`SendOutcome`). `missed` is a history
of the fills lost that way, which lets `BuyerLedgerExact` say that nothing but
a loss makes the ledger wrong.

### StrategyNode, TradingFloor

`open`, `safe` and `late` are `open_orders`, `safe_mode` and whether
`heartbeat_timeout_s` has gone by since `last_hb_s`; `hbs`, `ticks`, `inbox`
and `rejects` are what waits on the four sockets of the strategy, and `ingress`
is what all strategies have pushed to the gateway. One iteration of the loop is
one action, `Poll`: the process has one thread, what it may receive is fixed
when `poll()` returns, and what it pushes comes out of its socket in that order.
The check of the timeout, the heartbeat, the tick, the report and the reject
come in the order of the code, so that a strategy with a heartbeat waiting may
enter safe mode, send its cancels, recover and trade in one iteration. `ready`
is any part of the sockets that hold something, since a message may be slow.
`on_tick` is open: it submits any one of `Wishes` or nothing (`Signals` says when
it does). `Restart` ends the process and starts it again: `open_orders` is empty,
what waited on its subscriptions is gone, what it pushed still goes out. `born`
divides the orders sent before from those the process can know of.

| Action | Code |
|---|---|
| `FeedTick` | an iteration of the loops of `feed_handler.py` that send ticks; a heartbeat every `HeartbeatEvery`; a full socket loses what is sent |
| `HeartbeatLate` | the clock |
| `NodeRestarts` | the process ends, and runs `_strategy_target` anew |
| `OtherPushes` | the orders of any other strategy |
| `Node` | `Poll` |
| `Serve` | the gateway's handlers of an order, with its reject, and of a strategy's cancel |
| `FloorMatch`, `FloorCancel`, `FloorGc` | the engine's steps of `TradingSystem`; `Published` copies its reports to the strategy they are about |

`ingress` is one FIFO, while the code has one per strategy: orders of different
strategies are pushed in any order here, so nothing is lost by that. The kill
switch, the ledger (`Reconcile`) and the clock of the rate limiter do not occur,
so a third order of a strategy is always refused in the run, which is what puts
rejects in play; the positions stay 0 and the limit never refuses.

### Feeds

`feedAt` is where the loop is: looking at the clock, asleep, sending, or over.
`target` is `next_ns` or `target_wall_ns`; `TimePasses` may happen anywhere, so
a sleep may be too long and any step may stall. `SendGbm`, `SendStress` and
`SendCandle` are the bodies of the three loops, with the heartbeat where there
is one. What prices are sent is left out.

### Signals

`MeanReversionTick` and `ClassifierTick` are the `on_tick` of the two classes,
`OnStart` the loading of the model. The z-score is compared by its square, so
no root is taken, and mid prices are doubled, so all is integer; the floating
point product of the order's size may fall short by one (`Quantities`). The
classifier may answer any probability.

### Topology

Pure operators: `ResolveHost`, `BindAddr`, `ConnectAddr` of `config.py`, the
endpoints of `topology.yaml`, the sockets each target function binds and
connects, and `SendOutcome`, what the kind of a socket and its high-water mark
make of a send. `Testbed` uses the addresses (`Wired`, `PortsHeld`), `Dashboard`
and `TradingSystem` use `SendOutcome`.

### Launcher

`phase` is where `start_pipeline.py` is and `proc` the state of each process:
`"up"` in its loop, `"blocked"` in a send to a reader that does not read,
`"closing"` in its `finally`, `"hung"` when the engine waits in `ctx.term`.
`TerminateAll` is `Process.terminate` on each: SIGTERM sets the stop event and
nothing else, but for the feed handler, which has no handler and dies.
`ExitTerminates` and `ExitJoins` are the exit function of `multiprocessing`,
which terminates the daemons and joins them without a timeout (external).
`Interrupt` is Ctrl+C for the whole process group.

### Testbed

`stage` is the step of the script. A step that goes over the nodes, in threads
or in a loop, is `job` with the nodes `todo`; when the main thread leaves
(`Raises`), `job` goes on. `has` is what is on a node and `said` what a warning or
a traceback told of the code on it: most failures are swallowed, so what matters is
whether anyone is told. Nobody is told of an address that could not be set
(`ConfigDp`) or of an `.env` that could not be written (`WriteEnv`): the script does
not look at the exit status of these commands (`run_fabric.py:236-241`,
`396-404`), and its pings, which `Checks` stands for, change nothing. So
`MissingCodeIsKnown` claims of packages and repository only that a node without
them was named, and of an `.env` that is there that it leads to bound sockets. The names of
the failed nodes and of the donor are forgotten after the copy, the last step
that reads them. `Begin` finds a slice an earlier run left, asks the engine's node
alone, and skips the set-up, or creates one. `live`, `writer` and `file` are the
engine's process, its metrics thread, and the file that is never deleted between
trials; `OtherEngine` is an engine launched outside the trials, by the smoke
test and the fault test, that writes the same file. The guard of `Collect` is
the wait of the trial, which is long enough for a first write. The patch of
`zmq_factory.py` in the set-up runs before the clone brings the file
and finds no line to change in this repository, so it is left out.

### Dashboard

`ReadBeat`, `FillTime` and `FillValue` are the poll thread, `Refresh` the timer;
`Pass` assumes that the timer is on time and that no heartbeat waits longer than
`Lag`. `clicks` are button events on their way from the browser, `view` the
buttons it shows, `buttons` those the kernel has set last.

### Candles

A candle is its minute. `AskPage` is one turn of the paging loop, `OpenCsv`,
`WriteRows` and `CloseCsv` the write, of which another script may see any part,
and `Cut` ends a script anywhere. `StartTrain`, `LoadPrimary` and `Fallback` are
the chain of `train_and_save`; `SaveModel` and `SaveMeta` the two files.

### MCTools

These programs and functions share no state, so their product would say no more
than each by itself. A behaviour of `MCTools` is a behaviour of the one `tool` it
starts with, the others keep their initial state, and one run checks
them all. `ToolsInit` gives a tool that does not run one initial state.

## 3. Runs

| Run | Bounds | Shows |
|---|---|---|
| `lob_deep` | 4 orders, 2 prices, quantities 1-2, any cancels between submissions | the structure of the book, never crossed, balance, status, no failed assertion of a fill; it implements `PriceTimeBook` |
| `engine_races` | a sell, an order, an order of two units that trades or rests; ring of 2; switches anywhere | balance, limits, reports that add up, every order answered, lost only by overflow |
| `engine_orphans` | 2 orders of 2 strategies, CPython switches, fair threads | status agrees, final is final, orphans closed, ring drains, submissions end |
| `system_kill` | one strategy buys, one sells, two orders of one and a last of up to two, a token a tick, a socket for 4 reports, cancels, kill switch and collector at any time | kill switch, ledger of a buyer under loss, rate limit behind the filters |
| `floor_orders` | 3 orders: a strategy sells two or buys one, another buys one; one price; a heartbeat with every tick; sockets of the feed hold one; one restart | the strategy knows its orders, does not trade with itself, forgets closed orders, and safe mode leaves none |
| `tools` | see below | what a trial records, code the set-up leaves out in silence, slices left behind, node health, candles trained on, one-sided strategies, the feed's schedule, the rate limiter, the end after Ctrl+C |
| `match_loop_lives`, `cancel_thread_lives`, `ledger_exact`, `position_within_limit`, `kill_cancels_everything`, `feed_rate` | as small as shows it (`feed_rate`: those of `tools`) | the findings of section 5 |

`TradesBalance` and `StatusAgrees` are checked for one thread and under races;
`NotCrossed`, `NoGhostLevel` and `BookHoldsOpenOrders` for one thread only, since
they are proved for the engine as well.

Why the bounds are enough. Two prices are what price priority, a limit between
levels and a locked book need; quantities 1 and 2 give partial fills of either
order. Four orders give two in one level, a cancelled one at its head or
behind, a sweep of two levels and a level that comes back after deletion. In
the engine's runs three orders suffice since a race needs one resting order,
one incoming order and one cancel; the third is the second level of a sweep or
the second order of a level. A ring of two overflows with three orders, and two
prices let the third order cross, rest or stop between levels. In the system the interesting
case is an order that fills in two goes, which takes three orders: two units of the
buyer against two sells at rest, whose submission reports FILL twice for the
buy, and a buy that is filled by one sell after the other. With room for 4 reports
the socket holds all of that submission if it is empty, so that the gateway can
book both FILLs of an order it has forgotten at the first, and loses some of it if the
gateway has not read what came before. With a
strategy three orders are one that is filled in part by another's and a third that would trade
with what is left of it; the restart comes while one of its orders is out and two are
still to come, so that the new process may meet the order it does not know.

The tools: a testbed with one strategy node besides the feed's and the engine's,
so that one node can fail, one be the donor and one be neither; two trials, the
fewest in which one can record the other's numbers; left-overs are all of a
set-up, with its engine alive or not, or a set-up cut between the nodes. The
pipeline has its five processes. The dashboard has one node, a threshold of one
tick, a refresh every two and a clock up to 9, in which a node can be seen, die,
be shown stale and come back. The exchange has six candles with a gap over
seven minutes, pages of two, and ranges that overlap, so that a page can be
full, short, empty, or go beyond the end. A window of three prices with
thresholds 1 and 2: three prices are enough for the one extreme value. The feed
runs for 12 instants with slots of 2 and candles due at 0, 2, 2 and 5. The rate
limiter has two strategies, 6 ticks, capacity 2, 3 units a token, 2 a tick.

All runs have `CHECK_DEADLOCK FALSE`: a program that has handled all its bounded input
waits.

Fairness. `FairSpec`
of the engine: the match loop and the cancel thread are threads that the
operating system runs; nothing is assumed of the arrival of orders and of cancel
requests, nor of silence. Fairness of the cancel thread is on `ServeCancel`, what it
does with a request that has come, and not on `CancelRecv`.
`FairSpec` of the system: the engine matches what it has, and, once the kill switch is
on, the collector acts: the gateway forwards nothing from then on, so every
strategy becomes silent for the engine, and the collector runs every
`gc_interval_s`. `FloorFairSpec` assumes that the gateway serves its orders, the
engine matches, the strategy receives the reports and rejects that wait, and the
collector acts on a strategy that stays in safe mode: such a strategy sends no
order, and only orders count as a sign of life (`matching_engine.py:264`).
It assumes no fairness of heartbeats or ticks. `ForgetsClosedOrders` says "again
and again" because a cancel or a fill may always be under way; the orders of the
run are bounded, so it speaks of every pause in the traffic. In the engine's runs
liveness is claimed as long as the match loop lives, which is part of each
formula, since section 5 shows how it ends. `LauncherFairness`
(in `ToolsSpec`, for the behaviours of the launcher): the launcher's own steps
and the steps by which a process leaves its loop and closes its sockets are
taken, since the operating system runs both; nothing makes a reader read, a
process die, an engine hang or the user press Ctrl+C. The other tools have safety
properties only.

## 4. Proofs

TLAPS checks these for any number of orders, prices, quantities, strategies,
ring size, high-water marks and rates, from the named assumptions on the
constants only (`LobAssumption`, `EngineAssumption`, `FilterAssumption`,
`TimeAssumption`, `GatewayAssumption`, `HwmAssumption`, `NodeAssumption`,
`FloorAssumption`, `FeedsAssumption`, `DashboardAssumption`,
`TestbedAssumption`, `LeftoversAssumption`, `PipelineAssumption`, `SignalsAssumption`,
`CandlesAssumption`). `FloorAssumption` says that what
strategies submit has a price and a quantity that exist, and that the strategy
looked at is one of them.

| Theorem | Says |
|---|---|
| `BookInvariant`, `BookTypeCorrect`, `NeverCrossed` | the one-thread book is well typed and no bid meets an ask, at every step |
| `BookStructure`, `NoGhostLevels`, `OrdersHeld` | the one-thread book has no ghost level, and its deques hold the open orders, each once and where it belongs |
| `SequentialBook`, `TradesBalanced`, `StatusesAgree`, `NothingRaises` | in the one-thread book the two sides balance in quantity and value, the status says what is left, and no assertion of `apply_fill` fails |
| `PriorityKept`, `PriceTimePriority` | the one-thread book implements `PriceTimeBook`: it trades by price, then by time of arrival, at the resting order's price |
| `EngineInvariant`, `EngineNeverCrossed`, `EngineStructure`, `EngineNoGhostLevel`, `EngineHoldsOpenOrders` | the first two lines for the engine's book, for both values of `SwitchInside` |
| `EngineAccounts`, `EngineTradesBalance`, `EngineLimitRespected` | balance, and no trade beyond a limit, for both values of `SwitchInside` |
| `EngineUncut`, `EngineStatusAgrees`, `ClosedForGood` | with threads switched as CPython does: statuses agree, and a final status is final |
| `EngineDesk`, `EngineTypeCorrect`, `LostOnlyWhenFull` | the engine is well typed, and an order is lost only to a full ring buffer |
| `EngineAnswered`, `EveryoneAnswered` | every order matched has been answered, and a cancelled one told so |
| `EngineTally`, `EveryFillReported` | the reports of an order add up to what it traded |
| `SystemSound`, `SystemTypeCorrect`, `KillNamesThem` | gateway and engine are well typed; the kill switch names every order that can still trade |
| `ForwardRateBounded` | behind all filters the gateway forwards no faster than the token bucket allows |
| `BuyersLedger` | the ledger of a strategy that only buys is what it bought, but for reports under way and lost |
| `FloorSound`, `FloorTypeCorrect`, `NodeKnowsItsOrders`, `NeverTradesWithItself` | a strategy knows its live orders, and two of them never trade with each other |
| `FloorImplementsSystem` | joined to a strategy, the gateway and the engine take only steps of TradingSystem, its bounds on traffic lifted |
| `LimiterInvariant`, `RateIsBounded`, `LimiterTypeCorrect` | the token bucket's bound on any window, and types |
| `RefusalsInvariant`, `WaitingPays` | refusals cost a strategy nothing: none of its orders having passed for the time of a token, the next one is not refused |
| `FeedsInvariant`, `FeedKeepsSchedule` | a feed that sleeps has sent the ticks due by then, no more and no fewer, for any interval, file and delay |
| `HealthInvariant`, `DeadNodesAreShown` | a node dead for longer than threshold, refresh and lag is shown STALE, for any of them |
| `TrialsRecordTheirOwn` | a trial whose engine wrote records its own metrics or none, for any number of trials and nodes |
| `SetUpInvariant`, `NoCodeMissingInSilence` | a node without the packages or the repository when the trials start was named, for any number of nodes, whatever else fails unsaid |
| `SliceIsDeleted` | a slice outlives the script only with one of three excuses |
| `SignalsInvariant`, `StaysOneSided` | a strategy whose other threshold no price of a window can reach never takes that side, for any prices, window and threshold |
| `CandlesInvariant`, `ModelsTrainedInOrder` | a model is trained on the candles of its range in order, none missing before its last, for any candles, ranges and pages |
| `EachToolRuns`, `ToolsTypesCorrect` | the run `tools` is a run of every tool, and all their variables keep their types |

### The book

`NotCrossed` is not inductive by itself: a price becomes a key when a remainder
rests, after a sweep. `BookInv` adds `Sweeping`, what a running submission
knows: its order is in `_order_map`, with a price if it is a LIMIT order; the
level it fills from exists and is not empty in the middle of a fill; only a
MARKET order has levels left to prune. When the sweep of a LIMIT order with a
remainder ends, no level is ahead or the best one is beyond the limit, and then
every key of the far side is, so resting keeps the sides apart; the guard of
`FinishSweep` has the three ways out of the loop for that reason.
The invariant does not mention the
status of any order but through its type, which is why a cancel written by
another thread at any point keeps it (`CancelledAnywhere`), and the proof for
the engine reuses every step lemma of the book.

`NoGhostLevel` and `BookHoldsOpenOrders` speak of the moments between
submissions only; `Structure` is what every step keeps:

- a price whose deque holds an order is a key; a key whose deque is empty is on
  the far side of the sweep under way, at its level or on its list to prune;
- an order in a deque is a LIMIT order of that side and price, there once, and
  `FILLED` only while it is the resting order of a fill that is not over;
- an open LIMIT order is in its deque, or is the incoming order, which is in none;
- `Settled`: an order that is not cancelled is `FILLED` exactly when nothing is
  left of it. It is needed for the incoming order and for the resting order of a
  fill, since `_fill_from_level` pops on `leaves_qty` and rests on status and
  `leaves_qty`, while the two properties speak of the status.

A cancel from another thread can only turn a status into `CANCELLED`. That
makes `Settled` true, takes an order out of the open ones, and moves none, so
`CancelStructure` holds at any point of a submission and the engine's theorems
follow from the lemmas of the one-thread book once more. A submission that
raised is excluded (`pc = "raised"`): it leaves a level in the middle of a fill.

`TradesBalance` and `LimitRespected` come from `Accounts`. A fill calls
`apply_fill` twice, so between the two calls the far side is ahead by `fq`
shares and `fq * lvl` of money (`Balanced`); what is left of an order and what
it traded is its quantity (`Conserved`); and the level that is filled from
is inside the incoming order's limit (`InsideLimit`), so the value of an order
stays on the right side of price times quantity. The sums are over the set of
orders of a side; that one order changes its term by so much changes the sum by
so much is a lemma of `OperatorProofs`, got from the least set for which it
would fail, so that no induction theorem with an operator parameter is needed.

`StatusAgrees` needs to know when it is not true: `Statuses` says that the
status is behind the quantities for one order at a time, in the two halves of
`apply_fill`, and that this order can still trade. `NeverRaises` is what one
thread adds (`Solo`): between a check and the call that asserts it nothing is
cancelled, so an order found open is open. In the engine `Solo` is false, which is the
finding `MatchLoopLives`. `Statuses` survives there only if no
cancel is written inside `apply_fill`: `Uncut` is `Statuses` with `Checked` (what
an asserting thread has checked still holds when it writes), and its theorems
assume `~ SwitchInside` as the run `engine_orphans` does. With `SwitchInside` they are
false: a cancel whose assertion came before a fill writes `CANCELLED` over `FILLED`.

`PriceTimePriority` is the refinement. The abstract book is read off the
concrete one by `Arrived`, `Terms`, `LeftOver`, `Worth`, `InBook` and `Active`: an order
that is cancelled is out of the book though a deque still holds it, and a fill
counts when the second `apply_fill` has entered it. Then `submit` is `Arrive`, the
step that writes the incoming order's status is `Trade`, the end of the sweep is
`Settle`, a cancel is `Cancel`, and every other step is a stutter (`SilentStep`).
`PriorityInv` is what these steps rest on:

- `Arrival`: the deques are in the order of arrival, and the incoming order came
  after all others, so the head of a deque came first and `append` keeps it so;
- `AtBest`: no level ahead is better than the one under way, which is inside the
  incoming order's limit; with the levels already swept empty (`Structure`), the
  head of this level precedes every order the incoming one could trade with;
- `Takes`: `fq` is all that one of the two orders has left, and the resting one
  was not cancelled when it was read. One thread makes the latter true, so this is
  a theorem of the book, not of the engine with its cancel threads.

### The engine

`DeskInv` says what is where: the ring buffer holds the last orders received,
their numbers ascending without a gap up to the last (`LastOnes`), so an order
that left it unmatched has `RingSize` later ones; the cancelling threads hold orders of
the book (`Known`); the list of fills is read from its start, one submission at
a time (`Dispatch`). `Answered` has the two ways in which a cancelled order may be
without its report: the thread that wrote the status has not sent it yet.
`ReportsMatchTrades` holds when the match loop drains; `Tally` says at every step
that what an order has traded is what its reports tell, plus what the fills not yet
reported hold of it, plus the half of a fill that is ahead.

### The system

`SystemInv` says what is on its way: an order on `order_egress` has passed, once,
and is not in the book; a FILL that waits on `exec_report_pub` is about an order with
nothing left, and stays so; `pending` misses no order that can trade unless the kill switch
has emptied it (`PendingKept`), which is what `KillNamesEveryLiveOrder` needs,
since only a FILL takes an order out.

`ForwardRate` is the bound of `RateLimiter`, which knows no other filter, no
channels and no engine. `TradingSystemProofs` instantiates `RateLimiterProofs`
with a window that opens at the start of the system and shows that each step of
the gateway is a step of the limiter or leaves its variables alone; the bound is then a
theorem of the limiter's specification.

`BuyerLedgerExact` compares the ledger with the book when nothing is being
matched. `Ledger` is the same at every step: booked, reported and under
way, lost, and traded but not yet reported (`TapeOf`), add up to what was bought. The
reports of a submission are two per fill, so the sum over them is the sum over
the tape; what is cut off at the high-water mark is the part that `missed` takes.

`NoSelfTrade` rests on what the strategy knows: two orders in `open_orders`
could not trade with each other (`Apart`), an order in it is as it was sent
(`Marked`), and one that can trade is in it (`KnowsItsOrders`). The last one needs
that a report or a reject that takes an order out is about one that will never
trade again (`Closing`), and that ids ascend along `order_ingress`
(`Queue`), so that no message speaks of an order that will be sent later. An
order that was sent before a restart is excepted, as in the properties.

### The programs around it

`RateBound` is not inductive either, since it does not mention the tokens:
`BucketAccounts` says that tokens passed and tokens left come out of a full
bucket and the refills since the window was opened. `WaitedPasses` is about the
same window: opened at any moment, it has seen no order of the strategy pass
for the time of a token, and any number refused. Every refusal moves `last`, so what
matters is that it keeps what was gathered; `RefusalsCostNothing` says so:
the bucket is full or holds all that the rate has added since.

`OnSchedule` speaks of a feed that sleeps only. `Scheduled` says at every step
what the loop knows: the target is when the next tick is due, the last one sent
was due when it was sent, and only a due tick is being sent. Dues ascend
(`SlotsAscend`, and the assumption on `Offset`), so all ticks before were due too.

`DeadNodeShownStale` needs three facts about the way of a heartbeat: those that
wait are in the order they were sent and none older than `Lag` (`BeatsInOrder`);
none was sent after the node's death, so the last one read is at most `Lag` younger
(`SilentWhenDown`); and what the timer drew as OK was fresh then, while the timer
is never late (`DrawnInTime`).

`OwnMetrics` needs to know who can write the file. `OwnWriter`: once the engine of
the trial has written, no other lives, since it could only have bound its addresses
if the earlier one was gone; and when a trial whose engine never wrote is over,
that engine writes no more. `MissingCodeIsKnown` follows from `SetUpSoFar`, which
says of the clone and of the copy what holds of the nodes they have been over, and from
`EveryNodeWired`, which evaluates the addresses of `Topology` for each kind of
node. `NoSliceLeftBehind` is inductive with the types of the stages.

`OneSided` is an inequality about the prices of a window: with `n` prices, the
newest of which is `x`, `(n*x - sum)^2 <= (n - 1) * (n*sum of squares - sum^2)`,
so no z-score exceeds the root of `n - 1` (`LastIsNear`). It follows from the spread of the
other prices not being negative (`SpreadType`). That is proved price by price, by
the identity of `OneMoreNumber` and the shortest window for which it would fail. With
`ZOut^2 >= n - 1` the test of the other side then fails (`FarThreshold`), and the
invariant carries what was `traded` along. The threshold of the pipeline's pure buyer and
seller is far above that root.

`TrainedOnCandlesInOrder` looks at the model alone; `CandlesInv` says of every place
the rows pass through what they are. Between two pages, the rows are all
candles from the first asked for to just before the next page (`Paged`): a full page
leaves out nothing up to its last candle (`PageBegins`), and the next one starts right
after it. A download that is over, a file in any state, what was loaded and
the model each hold a beginning of the range (`Begins`): rows in order, all in it, none
left out before one they have. A file cut in a write keeps that (`PartBegins`), and so
does leaving out what is beyond the end (`UpToKeeps`). `OwnSource` and `Training` say
which range the training's rows are of, since the fallback takes the other script's.
Such rows are a prefix of the range in its order (`BeginsInOrder`), which is the
property.

`ToolsTypeOK` is the types of all these modules. `EachToolRuns` shows that a
behaviour of the run `tools` satisfies the specification of every tool (the
launcher's without its fairness), so each theorem above holds of that run.

### Only model-checked

All liveness (`RingDrains`, `SubmitEnds`, `OrphanIsClosed`, `KillEmptiesBook`,
`ForgetsClosedOrders`, `SafeModeClosesOrders`, `CtrlCEnds`), which is out of the
prover's reach, as is the fairness part of `EachToolRuns`, since it speaks of
`ENABLED`. Every invariant and action property of a passing run is stated by a
theorem. That `PriceTimeBook` may stand for the engine in `TradingSystem` is
proved for `LimitOrderBook` (`PriceTimePriority`), and only argued for
`MatchingEngine`: there a cancel may come in the middle of a fill, as its findings
show.

## 5. Findings

- `MatchLoopLives`: a cancel request served between the check of a status and
  the call that asserts it (`lob.py:154-158`, `matching_engine.py:114-121`)
  fails the assertion in the match loop; nothing catches it and matching ends.
- `CancelThreadLives`: an order that fills between the check and the cancel
  (`matching_engine.py:285-286`) ends the thread that serves cancels.
- `LedgerExact`: a sell that fills in two goes is reported with two FILL
  reports; the gateway forgets its side at the first and books the second as a
  buy (`risk_gateway.py:176-182`).
- `PositionWithinLimit`: the position limit does not count orders that are open
  or under way (`risk_gateway.py:37`), against `config/topology.yaml:119`.
- `KillCancelsEverything`: a cancel that overtakes its order is dropped
  (`matching_engine.py:283`) and the order rests, against the dashboard's text.
  `KillEmptiesBook` shows that the orphan collector finds it in the end.
- `TotalRate`: the interval of the total rate is divided by the number of symbols
  once more (`feed_handler.py:44`), and every turn of the loop sends one tick, so
  five times the ticks are due that the docstring and comments state
  (`feed_handler.py:40`), and heartbeats come five times as often.

## 6. Not modelled, and the plan

Done: the book, the engine for one symbol, the filters, the gateway, the two
joined with loss of reports, a strategy that may restart on top, the feed's
modes and the signals, the launcher, the testbed runner, the dashboard,
download and training. Next, in this order:

1. `MatchLoop`: several symbols in one loop, starvation of a symbol and of the
   collector, an unknown symbol.
2. `TradingFloor` with loss of reports to the strategy, a send that blocks and
   what waits meanwhile, the engine's ring buffer.

Left out, and why:

- `project.ipynb` runs the steps of `run_fabric.py` as cells, by hand, without
  threads or clean-up: the order is the user's.
- `generate_figures.py`, `benchmark_plots.ipynb`, the dashboard's latency
  histogram, depth chart and layout: plots, with no state of their own.
- The wire format: generated protobuf code; messages are records here.
- The arithmetic of the features and the classifier, and of the random walk
  of the prices: numerics. `Signals` takes any prices and any probability.
- `fetch_yahoo`: one request, without a loop or a fallback of its own.
- Ticks that wait in safe mode and are handed to `on_tick` afterwards are in
  `StrategyNode`, but what `on_tick` decides is open there, so no property tells an
  old tick from a new one.
- Two threads that send on one PUB socket (`matching_engine.py:288`): undefined
  in ZeroMQ; reports are sent whole here.
