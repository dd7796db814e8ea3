# LLQTSimPlatform in TLA+

TLA+ models of the LLQTSimPlatform (`exchange/`, `event_driven_core/`, `networking/`,
`market_data/`, `portfolio/`, `risk/`, `strategy/`, `research/`, `analytics/`, `reporting/`),
the TLC configurations that check them on small instances, and theorems about them that the
TLA+ proof system checks for every value of the constants. `PROJECT.json` has the machine
readable side: which definition models which lines, the runs, the mutants that each property
catches, the hazards, the findings.

## The system and its parts

The platform is a library for back-testing trading strategies. Market data is stored in binary
files, replayed or received from feeds; strategies turn ticks into signals; an exchange
simulator matches orders; a portfolio and a risk engine follow the fills; research tools run
back-tests over windows of data. There is no program that wires all parts together: each part
is called by the user's code, and calls back into it through `std::function` callbacks. What is
concurrent is the event core (lock-free queues, worker threads, a dispatcher thread), the feeds
(one thread each) and the replay engine (one thread). Nothing else is locked or atomic beyond
counters.

| Part | State | Operations | Talks to | What is hard | What makes it correct |
|---|---|---|---|---|---|
| `exchange/order_book` | two price maps of FIFO queues of ids, `orders_`, `order_side_` | add, cancel, reduce_qty, queries | called by engine and router | four structures that agree only together; filled orders stay in `orders_` | structures agree; time priority; ledger of fills |
| `exchange/matching_engine` | watch list of stops, references into the book | process (5 order types), on_tick | fill and report callbacks in the middle of a sweep | re-entrant calls from callbacks, references that dangle, stops stored in the book | no crossed book, limits kept, no overfill, FOK all or nothing, every order accounted for, sweeps end |
| `exchange/order_router` | symbols, next id, id to symbol map | register, submit, cancel, on_tick | engine per symbol, report callback | map changed under an iterator by a callback | ids unique, invalid orders have no effect |
| `exchange/execution_sim` | config | slippage and commission | called per fill | floating point | formula |
| `event_driven_core` SPSC queue | ring, two positions, ready flags | enqueue, dequeue | one producer and one consumer thread | memory order, wrap-around | FIFO of capacity - 1 |
| `event_driven_core` MPSC queue, thread pool | linked nodes, running flag, workers | enqueue, dequeue, submit, shutdown | many producers; the pool has many consumers | link published after the exchange; consumers that race; tasks left at shutdown | each task once, in order |
| `event_driven_core` bus and dispatcher | subscribers under a mutex, async flag, thread | subscribe, publish, process, start, stop | handlers run under the mutex | handler that subscribes; drain at stop; two processors | each event to each handler once; stop drains |
| `networking/binary_protocol` | parser buffer | encode, process_byte | feeds | resynchronisation after a bad CRC | a good frame is delivered |
| `networking/udp_feed` | next sequence number, per symbol expected and pending | publish, handle_datagram | network: lost, duplicated, reordered datagrams | one global counter read as one per symbol; a gap never times out | in order, at most once, no stall |
| `networking/tcp_feed` | clients, send rings, reconnect delay | accept, publish, drain, run_client | sockets | partial writes and sends, map shared by threads, reconnect | frames whole and in order, back-off |
| `market_data/binary_store` | mapped file, header | open, append, flush, queries | file | remap, crash between two writes | sorted lookup, count matches data |
| `market_data/replay_engine` | cursor, window, paused, thread | step, step_to, seek, start, stop, pause | tick callbacks, on the thread or the caller | cursor shared without lock | no lookahead, each tick once |
| `market_data/data_portal` | stores, current time | advance_to, current, history, bars | stores | bars that close after now | no lookahead |
| `portfolio` | positions, cash | on_fill, nav | fills from the exchange | partial close and reversal | quantity is the sum of fills |
| `risk/risk_engine` | high water mark, daily P&L, limits | check_order, on_fill, reset | portfolio, breach callback | checks and fills apart in time | limits hold |
| `risk/var_engine`, `portfolio/performance`, `analytics` | samples | statistics | | floating point | formulas |
| `strategy` | rolling windows | on_tick, on_bar | signals | warm-up, one signal per cross | signal sequence |
| `research` | windows, scans | make_windows, run | strategy runner | boundaries of windows | windows cover and do not overlap |
| `reporting` | config, files | parse, write | files | formatting | text |

## What is modelled

The exchange, the event core with its threads, the feeds over an unreliable network, and the parts
of a backtest: recorded data and its replay, portfolio and risk, strategies, VaR, walk-forward.

* `OrderBook` - the book of one symbol as a value: a record with `level` (both price maps),
  `tag` (`order_side_`), `keys` and `orders` (`orders_`), and one operator per method: `Add`,
  `Cancelled`, `Reduced`, `Occupied` for the best prices, `SharesAhead`, `Available` for the
  check-only sweep. An erased node of `orders_` keeps its contents, because the engine goes on
  using it through an `Order*`.
* `MatchingEngine` - the engines. Every callback is a point where client code runs, so a sweep
  is cut there into steps: `AggressorFill` (up to the aggressor's fill callback), `RestingFill`
  (up to the resting order's), `ReduceResting`, and what ends a call: `FinishMarket`,
  `RestResidual`, `FinishSilently`, `FinishFok`. A tick is `Tick`, `TriggerStop`, `ActivateStop`,
  a market sweep, and so on to `FinishTick`. The variable `stack` is the C++ call stack: one
  frame for each engine call that is in progress. `traded` and `reported` are what callbacks
  told the client. After `book_.cancel` erased a stop, and after a client cancels a resting
  order from a callback, the engine reads a freed node: `DanglingRead` lets it see what was left
  there or anything in the constant `Garbage`.
* `OrderRouter` - the clients' side: registration, validation, order ids, submission of the five
  order types, cancel and tick. `ClientStep` is possible when no call is in progress or, inside a
  callback, while fewer than `MaxDepth` calls are.
* `Exchange` - the properties. `MCExchange` gives the runs their constants.
* `Induction` - the induction the proofs need: sums over sequences, totals over sets, folds.
* `ExchangeProofs` - what the book's methods preserve; types, books, no crossing, time priority,
  progress. `LedgerProofs` - limits, fills and reports of every order.
* `BoundedFifo` - what a queue between threads promises, for both queues.
* `SpscQueue` - the ring. One action per access to shared memory: `EnqueueStart` (both position
  loads and the full test), `WriteValue`, `SetReady`, `Publish`; `DequeueStart`, `CheckReady`,
  `TakeValue`, `ClearReady`, `Advance`. A thread may read the other's position as any value it
  had since it last read it (`Loads`), because the loads are acquire loads and not more.
* `MpscQueue` - the linked list, as a part of the modules that own one: `Exchange` and `Link`
  are `enqueue`; `ReadTail`, `ReadNext` or `ReadNextEmpty`, `ReadValue`, `MoveTail`, `FreeTail`
  are `dequeue`. Nodes are numbered in the order in which `head_` received them.
* `ThreadPool` - `submit` (the check, then the enqueue), `worker_thread` around `dequeue`, and
  `shutdown` with its joins.
* `Queues` - `SpscQueue`, `ThreadPool` and `SendRing` (below) as one run; they share no state, so a
  behaviour exercises one of them.
* `EventDispatcher` - the bus and the dispatcher over one `MpscQueue`: subscriptions,
  publishing from programs and from handlers, `process_events` with its mutex and handler calls
  on the caller's or on the dispatcher's thread, start, stop with its last drain, clear.
* `SpscQueueProofs`, `ThreadPoolProofs`, `DispatcherProofs` - the proofs.

The feeds:

* `FrameParser` - the wire format. A stream is a sequence of cells, four to a frame (magic,
  header, payload, CRC), and may be cut at any cell; `process_byte` is the parser's automaton,
  `dispatch_frame` its end. Two frames of one kind have the same magic and header, so torn frames
  can look whole but for the CRC, which is taken to be ideal.
* `InOrderDelivery` - what a feed promises a symbol's callback: sent messages, one per number, in
  order, without a hole.
* `UdpFeed` - publisher, network, subscriber. `net` keeps all datagrams that were sent, and the
  receive loop may get any of them at any time, again, or never: loss, duplication and reordering
  in one. `HandleLate`, `HandleGap` and `HandleNext` are the branches of `handle_datagram`, the last
  with its drain. Publishers are replaced by new processes that count from 0, the subscriber
  stops and starts.
* `TcpFeed` - the server's and the client's loops over connections that are sequences of cells.
  `accept_client` (which a failed `accept4` cuts short), `remove_client`, `drain_send_rings` (a chunk
  leaves the ring, `send` takes a part of it, the rest is lost), `TcpPublish` into each ring as far as it
  has room, `ServerFails` (`epoll_wait` ends the thread and `running_` stays set); on the client's
  side connecting, waiting until the connection stands or fails, by a time-out or a signal as well
  (`WaitFails`), reading in bursts, closing on EAGAIN or when interrupted, the delay, giving up. Both are
  stopped and started again. A publish is one step here, of the one thread that publishes at a time.
* `SendRing` - `try_write` and `try_read` of the ring between publisher and server, one action per access
  to shared memory: `Measure`, `LoadHead`, `CopyIn` cell by cell, `StoreHead`; `Look`, `CopyOut`,
  `StoreTail`. Positions count modulo `Width`, as `size_t` does, and each side sees the other's late
  (`Seen`). With one publisher this is the ring of `TcpFeed`, with two it is not.
* `Feeds` - both as one run; they share no state, so a behaviour exercises one of them.

The parts of a backtest:

* `BinaryStore` - one file: creation in two steps, `append` in three (room, record, count), growth,
  close; a process that dies between any two of them and a power failure that takes any part of
  what was not synced. `lower_bound` and the lookups as in the code.
* `ReplayEngine` - the window, `step`, `step_to`, `seek`, `rewind`, looping, and the replay thread with
  `start`, pause and resume, `stop` and `join`. Each round of a looping thread is a call from within the
  one before it (`LoopAgain`), and the stack has an end (`StackDepth`, `LoopOverflows`). `DataPortal` - its clock and its queries, as the
  functions of the records that they are, bars included. `MarketData` puts the three together as
  the repository's tests do: record, open, replay, query.
* `Portfolio` - quantities by the branches of `Position::on_fill`, cash, valuations. `RiskEngine` - the
  checks of `check_order`, `on_fill`, resets and limits, with a client whose orders fill later, in
  parts or never.
* `Strategies` - the rolling windows and running sums of the three strategies, exact fractions in
  place of doubles.
* `VaREngine` - the window of returns, historical VaR and expected shortfall; where the tail comes to a whole number
  of returns, the doubles of the code may cut one less, and the model takes either (`TailSizes`); the sorted copy is the returns
  in some order that does not decrease, whichever order among equals `std::sort` takes. `WalkForward` - the
  windows of the folds, the run over them, the stitched curve.
* `Backtest` - all of them as one run. No code of the repository joins them, so a behaviour
  exercises one part. `MCBacktest` gives the constants.
* `BacktestProofs` - the proofs about the store's crashes, the replay, the portal's queries and bars, the
  signals of the strategies, the VaR measures, the stitched curve and the risk engine's limits.

In the exchange, the last report of a call is the last thing it does (`FinishMarket` for a market order,
`RestResidual`, `FinishFok`, `RejectFok`, `RegisterStop`, `SubmitInvalid`): a client that calls
in from that callback does what it could do right after the return, so these callbacks are not
steps of their own. The two callbacks of one `emit_fill` half (fill, then report) follow each
other with nothing in between and are one point. `TimeInForce` is carried and, as in the code,
never looked at.

`MpscQueue` is sequentially consistent: an old `next` that a consumer may still read is one that
it would have read a moment earlier. A thread that loses the race for a node reads a freed node
as it was left, which is the mildest of the outcomes; with one consumer no thread comes to a
freed node (`NoUseAfterFree`, proved). In the dispatcher, one thread controls, and it does not
call `process` while the dispatcher's own thread runs: that would make two consumers, with the
consequences of finding 3. Handlers do not subscribe: they would wait for the mutex that their
own thread holds.

## What the runs show

| Run | Instance | Expected | Shows |
|---|---|---|---|
| `exchange` | 1 symbol, 2 prices, quantities up to 2, 3 orders, all types, no calls from callbacks | passes | all the invariants below |
| `reentrant` | the same without stops, calls from callbacks one deep | passes | `CallsReturn` |
| `stop_rests` | limit and stop orders | violation of `StopsWaitForTrigger` | finding 1 |
| `callback_overfill` | market and limit orders, one deep | violation of `LedgerAgrees` | finding 2 |
| `queues` | ring of 4 slots, 2 values; send ring of 4, positions modulo 8, 1 publisher, 4 frames of 2 or 3 cells, chunks of 3; pool of 2 submitters, 1 worker, 3 tasks | passes | both rings are FIFO queues with stale positions, and what is enqueued comes out; tasks run once and in order; shutdown |
| `pool_workers` | 1 submitter, 2 workers, 1 task | violation of `EachTaskOnce` | finding 3 |
| `dispatcher` | 3 publishing threads, 3 events of one type, 2 subscriptions | passes | what reaches handlers; what a drain leaves |
| `feeds` | UDP: 1 symbol and heartbeats, 4 datagrams, window of 2, 2 publishers. TCP: 2 connections, 3 frames, rings of 6 cells, 2 server starts | passes | what subscribers receive; a client comes back |
| `udp_gaps` | UDP with 2 symbols | violation of `GapsAreLosses` | finding 4 |
| `backtest` | 3 records in files that start with 1 place, 2 calls of `run_loop` on the stack; 3 fills of 2 orders; 6 bars; 5 returns; 4 folds | passes | the parts of a backtest |
| `position_ledger` | the same | violation of `PositionIsSumOfFills` | finding 5 |
| `market_promises` | 2 records, windows of 2 to 3 and 2 to 8, 2 calls of `run_loop` on the stack | violation of `SomePromiseKept` | findings 6 to 9 |

Properties of `exchange`, whose types are a theorem: `BooksSound` (queues, tags and nodes agree at every
callback, which is why the sweep's "order not found" branch never runs and no match is for 0
shares); `Uncrossed`; `NoQueueJumping` (never more shares ahead than `queue_pos` said);
`LedgerAgrees` (`filled_qty` is the sum of the reported fills); `FokAllOrNothing`;
`NoOrderVanishes` (an accepted order rests, or its last report is its end and true);
`WithinLimits` (each match within both limits); `TerminalIsFinal`; `StepsProgress` (a measure
that every step of an engine decreases, so no sweep loops). `reentrant`: `CallsReturn`, each call
into the exchange returns, whatever callbacks call in turn.

Properties of `queues`: of the ring `NoDataRace`, `RingIsFifo` (it implements `BoundedFifo`), `Drains`; of the
send ring `SendRingIsFifo` (what the server reads is what was put in, cell by cell); of
the pool `NoUseAfterFree`, `EachTaskOnce`, `IsFifo`, `QuietAfterShutdown`, `WorkersGoOn` (a submitted
task runs unless the pool is shut down, and `shutdown` returns). Of `dispatcher`: `EachHandlerOnce`; `Drained`
(process, clear and stop leave nothing that could be reached when they were called); `EventsHandled`.

Properties of `feeds`: the types; `DeliversInOrder` (the subscriber implements `InOrderDelivery`
over the worst network, across restarts); `NothingWithheld` (a datagram that was handled is
dispatched, or it waits for one that has not come, or a full window refused it, and the last two were
reported as a gap); `NeverTornNorRepeated` (a TCP client passes on published frames only, each at
most once, in order, though the server tears frames and connections break anywhere);
`IntactConnectionsDeliver` (a connection of which the server dropped nothing carries all frames
since it was accepted: what the client passed on after the older ones, and what is on its way, are
they); `UdpStopReturns`; `ClientComesBack`. The two about frames are of frames that one thread at a time
publishes.

`ClientComesBack`: while one server runs, its thread lives and no forgotten
listening socket takes its connections, a running client gets a connection that the server has accepted, unless
it gave up before. The code has three ways to keep it from one, and the property names each: a failed
`accept4` leaves connections in the backlog until another one arrives (`Stranded`: the client's own is among
them, or they fill the backlog); `epoll_wait` ends the server's thread with `running_` set; and
time-outs and signals that interrupt connections without end (`GivesUp`).

Properties of `backtest`: the types; `StoreKeepsRecords` (a crash anywhere in `append` loses no
finished record and adds no unfinished one; a power failure takes nothing that `close` synced);
`PointInTime` (`current_tick` never returns a tick from after the clock, and on ordered files it and
`history` return exactly what was known); `BarsExact` (`history_bars` returns the bars of the most recent
windows, each made of all its ticks in the lookback and no other); `ReplayInOrder` (the ticks of the window, each once, in order, however stepping, seeking,
looping and the thread are mixed, over a window that holds a tick); `ReplayStopReturns` (whatever the thread does,
as long as its stack lasts until `stop` is called); `DailyPnlIsNavChange` and `NoOrderAfterLoss`
(what the risk engine sums up fill by fill is the change of the NAV, and it lets no order through
beyond the limits in force); `SignalsFromScratch` (after any bars and resets, the signals are those
of the bars since the last reset, computed from them alone); `TailsExact` (VaR and shortfall are
those of the last returns, by counting and by subsets); `StitchedContinues` (the stitched curve
is continuous in NAV, increasing in time and keeps each fold's changes).

Bounds of the exchange. Two prices give better and worse levels on both sides and every way two limits can
cross; three orders give a queue with an order in front and one behind that is cancelled,
partially and fully filled by a third, and a FOK over two levels; quantity 2 gives partial fills.
`MaxOrders` bounds `nextId` in the guard of `Submit`. Books of different symbols share nothing
but the id counter, so one symbol is enough. Without the stops, calls from callbacks fit into a
run (with them the state space is too large); for stops, and for any depth, books, priority and
limits are theorems. `exchange` lets a freed node read only as it was left (`Garbage` is empty),
`reentrant` also as all zeroes, the theorems as anything.

Bounds of the event core. A ring of 4 has 3 places, is full and empty at every position and wraps
with values in it; 2 values tell an old value of a slot from a new one. Two submitters are enough
for a gap in the list with a linked node behind it, a third task for one that waits while another
is run. Four frames of up to three cells take the positions of a send ring of four, modulo 8, once around
and its places three times; a frame of three is cut where two are free, and a chunk of three ends within a
frame. In the dispatcher, events of different types share the queue and the mutex and nothing
else, so one type is enough; with 3 events there is one before a gap, one in it and one behind
it, and a handler can publish during the last drain. `MaxNodes` bounds the enqueues in the guards
of `NodeLeft` and `Exchange`, `MaxHandlers` the subscriptions.

Bounds of the feeds. Four datagrams with a window of 2 give a gap, two that wait, one that is
refused, and the drain; the second publisher repeats numbers; one tick symbol is enough for order,
as symbols have expected numbers of their own, and the second one only adds the gaps of finding 4
(`udp_gaps` has it). A ring of 6 cells holds a frame and a half, so a publish is cut; chunks and
the kernel's buffer of 4 cells cut sends anywhere; three frames give a torn one between two good
ones; two connections are the old and the new one of a reconnect, two server starts the
forgotten listening socket. `MaxPublished`, `MaxPublishers`, `MaxFrames`, `MaxServers`, `MaxClients` are
bounds in guards. What is read as a header and is none gives a payload of two cells (`Garbage`), one more than
a frame has, so that the parser takes in the next frame.

Bounds of the backtest. Three records in a file that starts with one place make it grow twice
(1, 2, 4); three times (2, 3, 7) and two prices give equal times, both bounds of the window, windows without a
tick, bars with several ticks, and, with a duration of 2, a lookback that begins within a bar; two calls of
`run_loop` on the stack are one that waits and one that runs; one power failure meets every state of the writer. Fills of 2 orders, in parts,
at two prices and two marks, with limits and marks tight enough that each check refuses somewhere;
one symbol, as sums over several decide nothing more. Six bars are two windows of the slow average,
with evictions. Five returns through a window of 3; four folds. `MaxRecords`, `MaxPowerFailures`,
`MaxOrders`, `MaxFills`, `MaxBars`, `MaxUpdates` are bounds in guards. `market_promises` has one record of time
0, lost to a power failure, and one behind a window without a tick; its durations of 1 and 3 leave a bar open. Deadlock is not checked in
`feeds`, `backtest` and `market_promises`, where all bounds can be used up.

Fairness of the feeds and the replay. The receive loop, the server's and the client's loop and the
replay thread are scheduled, and a `join` returns once its thread has ended. Nobody has to publish,
connect, stop or resume; the network need not deliver, and nothing makes `epoll_wait`, `accept4` or a
connection fail or succeed.

Fairness in the exchange. `Spec` asks only for `WF_vars(Continue(EngineStep))`: an engine call is ordinary
synchronous code on its caller's thread and runs until it returns. Clients need not call, and a
callback that never returns is a client that stops calling in; `CallsReturn` is about callbacks
that return.

Fairness in the event core. A thread in the middle of a call goes on, workers and the dispatcher's
thread are scheduled, tasks and handlers return: ordinary threads without locks, or with one that
is held for a bounded time. The consumer of the ring polls, and sees a store in the end. Nobody
has to enqueue, publish, subscribe or shut down. `EventsHandled` and the drains rest on a bounded
number of events: `process_events` goes on as long as events arrive.

## Findings

1. `register_stop` puts the stop into the limit book under its stop price
   (`matching_engine.cpp:331`), where the next contra order trades with it. The comment at `:36`
   says it does "not hit the book yet". Consequences, not runs of their own: untriggered stops
   show in best bid and ask and can cross the book (hence `Uncrossed` is about limit orders), and
   a stop filled that way is later reported `Triggered` and swept again with no shares left.
2. A client that submits from a fill callback can trade with the resting order whose fill is in
   progress: `fill_qty` was computed before the callback. Both matches are reported, `min()` in
   `reduce_qty` hides the excess, and `filled_qty` is no longer the quantity filled.
3. The workers of a `ThreadPool` all dequeue from one `MPSCQueue`, which is made for a single
   consumer: two that read `tail_` at once run one task twice and delete a node twice. With one
   worker the pool is correct, which is proved.
4. `AsyncUdpFeed::publish` numbers the datagrams of all symbols, and heartbeats, from one counter
   (`udp_feed.cpp:184`), and the subscriber expects consecutive numbers for each symbol, as the
   header promises. With two symbols each looks full of gaps: ticks are withheld in the reorder
   window and then refused though nothing was lost.
5. `Position::on_fill` takes the remainder of a closing fill after `reduce` has changed the quantity
   (`position.cpp:42`), so a sale of 30 out of 100 leaves 110, one of all 100 leaves -100.
   The tests expect a closed position to be flat. NAV, exposures and position checks use this quantity; the
   properties of the risk engine are about what it makes of the NAV it is given.
6. `append` calls no `msync` (`binary_store.cpp:147-160`), against "Writer path appends records with msync()
   for durability" (`binary_store.hpp:8`): a power failure takes finished appends. `StoreKeepsRecords` is what does
   hold: it takes none that `close_store` synced.
7. The last bar of `history_bars` is still open at the clock (`data_portal.cpp:184`), against "all with close_ts
   <= current_ts_" (`data_portal.hpp:87`) and `test_data_portal.cpp:131`.
8. A looping `step()` on a window without a tick takes the tick behind the window (`replay_engine.cpp:75`), against
   "NEVER returns a tick whose recv_ts is >= end_ts" (`replay_engine.hpp:7-8`).
9. `run_loop` replays again by calling itself (`replay_engine.cpp:172`). Its stop token is a copy that is destroyed
   after the call, so the compiler has no tail call to make, and a replay that loops ends with its stack, an empty
   window within moments.

Findings 6 to 9 have one run, whose property `SomePromiseKept` is the disjunction of the four promises: its
counterexample is one replay in which each is broken, and a state in which only some are does not violate it.

Three more lines of the repository say otherwise than the code does, without a run of their own:

* `tcp_feed.hpp:102` says of `publish` "Thread-safe: can be called from any thread", but it writes to rings that
  are made for one producer (`tcp_feed.hpp:37`): two threads load one `head_` (`tcp_feed.cpp:40`), the later
  copy overwrites the earlier frame, and nothing marks the connection. A late store can also bring `head_`
  back behind `tail_`, after which old frames are read again. With a second member of `Publisher`, `SendRing`
  violates `SendRingIsFifo` within its first two frames.
* `data_portal.hpp:83` says of `history` "Guarantees no tick returned has recv_ts > current_ts_", but it relies on
  the order of the file (`data_portal.cpp:91-94`), which a power failure can break, and then returns ticks from after the
  clock. On a file in order it keeps this (`PointInTime`).
* `risk_engine.hpp:9` says that breach callbacks "are fired whenever a limit is first crossed", but `on_fill` reports
  a breach at every fill while it lasts (`risk_engine.cpp:57` and `:74`).

Other behaviour worth knowing, for which no line of the repository promises otherwise: a
cancelled IOC residual is not reported; a tick with neither last price nor bid has price 0 and
triggers all sell stops; filled orders stay in `orders_` and in the router's map; a task whose
submit saw `running_` just before a shutdown never runs, and neither do those that wait; a drain
stops at a gap, so that `stop_async_processing` can leave an event whose `publish` had returned
when another thread is between the exchange and the link of an earlier one.

In the feeds: a lost datagram stalls its symbol for ever, and a subscriber that joins late or
outlives its publisher gets nothing (no timeout and no retransmission; the TCP back-channel of
`udp_feed.hpp:10` does not exist); a fatal `recv` error ends the thread and leaves `running_` set; a
TCP client drops its connection whenever the kernel has nothing for it (`tcp_feed.cpp:431`); attempts
and delay are reset when a connect is started, so they bound little (`:380`); a stopped server
leaves its listening socket open, and with SO_REUSEPORT it goes on taking connections that nobody
accepts; a failed `accept4` leaves the backlog, under a comment that says "log and continue"
(`tcp_feed.cpp:201`), and a failed `epoll_wait` ends the server's thread with `running_` set; the burst loop does not
look at `running_`; a parser that finds a bad CRC drops the frames it swallowed.

In a backtest: a replay's rewind does not turn back the portal's clock; the first bar of a history may lack
the ticks that lie before the lookback; a file whose creation was cut short has no header, and one that is cut
before its length reads beyond its end. `resume` sets the origin of the pacing from the cursor without a
lock. Orders that are not filled yet do not count in `check_order`; `set_limits` clears the kill switch;
daily P&L leaves out the change up to the first fill and any from a NAV of 0 or less;
drawdown is brought up to date by fills only, so a halt does not lift by itself. A cross of the averages that the threshold suppressed is not signalled
later. `make_windows` never ends with a step of 0; with the default step (21) below the
test length (63) test windows overlap, and the stitched curve has their bars several times.

## What is proved

`ExchangeProofs`, for any set of symbols and prices, any number of orders and any depth of calls
from callbacks, with all order types, and whatever a freed node reads as (any `Garbage` of the
type of an order):

* `TypeCorrect` - `Spec => []TypeOK`,
* `BooksAgree` - `Spec => []BooksSound`,
* `NeverCrossed` - `Spec => []Uncrossed`,
* `TimePriority` - `Spec => []NoQueueJumping`,
* `CallsProgress` - `Spec => StepsProgress`.

The invariants are not inductive. `IInv` adds that books know only ids handed out, and about
the calls in progress: a limit order that is being matched has an id of its own and rests
nowhere (so that resting its residual adds a fresh id), and a frame in a match names a real
resting id. The first half of the module shows what each method preserves of a consistent book, and that
`cancel`, `reduce_qty` and writes through an `Order*` make nothing rest that did not; only the
two places that add to a book can cross it, and a limit order adds its residual only when no
reachable contra price is left. Time priority is `InLine`: the shares in front of a resting order
are at most what `add` told it. They are a sum over a prefix of a queue, and every update of a book
is `Settled`, that is, it takes members out of queues or appends one, and no member has more
leaves than before; so each sum only falls. The proof of `Invariant` has one lemma per action.

`LedgerProofs`, on top of it, has the properties of single orders:

* `LimitsKept` - `Spec => []WithinLimits`, at any depth, assuming `CleanGarbage`;
* `LedgersAgree` - `Spec => []LedgerAgrees`,
* `FokFills` - `Spec => []FokAllOrNothing`,
* `OrdersAccounted` - `Spec => []NoOrderVanishes`,
* `OverIsOver` - `Spec => TerminalIsFinal`, these four assuming `CleanGarbage` and `MaxDepth = 1`.

`TermsInv` relates the orders in books and calls to the orders as they were sent. `LedgerInv`
gives every order one of a few accounts: it waits and its node says what its client was told, it is
the aggressor of the call in progress, it is being reduced (the client knows of a fill that the
node does not have yet), or it is over. For FOK there is an argument about amounts: the check adds up
the depth of the levels in reach (`Available`), and each match takes the same quantity from the
book as from the aggressor, so in the middle of the sweep `Supply`, the depth that is left, still
covers what the order needs. Depth is a total of sums, and folds over sequences and sets are what
the library's induction theorems cannot reach here (they take an operator as a parameter).
`Induction` does it in first-order terms: a fold is stated by the equations that its partial
results satisfy, and a property that failed at some length would fail at a least one, by the
well-foundedness of `<` on the naturals.

`SpscQueueProofs`, for any capacity and values: `Refines` (`RingSpec => RingIsFifo`), `RaceFree`,
`AlwaysReady`, `TypeCorrect`. Its `IInv` says that what a thread saw of the other's position lies
behind it in the ring (so the room or the values it saw are still there), that a thread in the
middle of a call owns a slot, and that all slots between the positions are flagged. `Publish` is
the step that puts and `Advance` the one that takes.

`ThreadPoolProofs`, for one worker (`OneWorker`) and any producers, values and number of nodes:
`Refines`, `RunsOnce`, `NodesLive`, `EmptyTrue`, `TypeCorrect`. Its `IInv` says that the list is
linked but for gaps each of which one producer is about to fill, behind the tail; that only nodes
before the tail are freed; and that the worker's locals agree with the list. An exchange puts,
moving the tail takes. Without `OneWorker` it fails (finding 3). `QuietWhenDown`
(`Spec => QuietAfterShutdown`) needs no such hypothesis: `shutdown` joins however many workers there are.

`DispatcherProofs`, for any threads, event types and number of subscriptions: `HandlersOnce`
(`Spec => []EachHandlerOnce`), `Drains` (`Spec => Drained`). Two threads call `dequeue` on a queue made
for one, so its `IInv` begins with who may: Main while there is no dispatcher thread, and that thread
between start and stop, its last drain only while Main waits in the join. Then the locals of the one
that does agree with the list. An event has been to no handler until its drain holds the mutex, and nobody
subscribes while it does. What could be reached when a drain began can be reached still, because a
link only ever joins neighbours; so a drain that finds no link behind the tail has taken all of it.

`BacktestProofs`, for any tick times and prices, size of a new file, number of appends and number of
power failures: `KeepsRecords` (`Spec => []StoreKeepsRecords`), `TypeCorrect`. The property compares
two sequences as wholes, which no step preserves by itself; its `StoreInv` says slot by slot that the
counted slots hold the finished appends and the first of them what was synced, that the header is
written before any append, and that a writer about to count a record has it in its slot already.
Growth keeps the slots (`ExtendedKeeps`, `GrownKeeps`), and a power failure gives up only what lies
behind the synced records.

The same module, for any files, windows, clocks and stacks: `ReplayDelivers` (`Spec => []ReplayInOrder`),
`QueriesPointInTime` (`Spec => []PointInTime`), `Typed` (`Spec => []TypeOK`). All lookups are the binary
search of `lower_bound`, so the proofs begin with it. `SearchRuns` brings its recursive function into the
form of its defining equation (that such a function exists is shown first, by `SearchExists`), and
`LowerBoundFinds` says what it returns of any file, in order or not: a place whose left neighbour is earlier
than the time and whose right neighbour is not. This is all that `current_tick` needs to look never
ahead, even in a file that a power failure left out of order. If the file is in order the place splits it
(`LowerBoundSplits`), later times have later places (`LowerBoundMonotone`), and the ticks of a time span,
which the properties select one by one, lie between two places (`AmongSorted`). The invariant of the
replay, `FiredSoFar`, is then that what the callbacks got since the time was last set is what lies between
the place of this time and the cursor; with the types, and that a pacing thread has a tick to fire, it is
kept by each action (one lemma per kind: `FiresReplayInv` for `step`, `step_to` and the thread,
`SetsReplayInv` for `seek`, `rewind` and looping, `FlagsReplayInv` for the rest). For `seek` it matters
that a search within the window finds what a search of the file would (`SeekFinds`). The types take the
folds of walk-forward as well: `make_windows` makes as many as fit (`FoldsFit`).

The same module, for any bars, periods, thresholds and resets: `SignalsAreBars` (`Spec =>
[]SignalsFromScratch`). The code updates running sums by what enters and leaves a window, keeps the averages
of the bar before and smooths a rate recursively; the property computes each signal from the bars. `StrategyInv`
says that the whole state is the function of the bars since the last reset that the property uses
(`SmaOf`, `MomentumOf`, `ReversionOf`), and one lemma per strategy (`SmaFollows`, `MomentumFollows`,
`ReversionFollows`) that a bar takes the value of this function at the bars so far to its value at the bars
and this one. They rest on what a window is after a push (`WindowSlides`: its sums are folds, stated by their
running sums) and on the signals of earlier bars not being touched by a later one (`SmaExpectedMore` and the
two like it; the smoothed rates and the flattened signals are recursive functions, shown to exist and to be
unique first). The fractions are exact, so this is about the bookkeeping and not about rounding.

The same module, for any number of folds and any curves in order of time with positive NAVs, empty ones too:
`CurveContinues` (`Spec => []StitchedContinues`). The code folds the results into one curve; `JoinsOn` is what
one fold more does to it (it stays in time, what was there stays, the fold joins without a jump and at its own
changes, which the exact fractions of `SameChange` show), `StitchedChains` that the fold over the results is a
chain of such steps, `PointsBefore` that the place of a fold is the number of points before it. The induction
over the folds is `WholeContinues`.

The same module, for any ordered files, bar durations and numbers of bars: `QueriesBarsExact` (`Spec =>
[]BarsExact`). The code walks through the ticks once and keeps one open bar; the property tells of each window
which of its ticks its bar should show. `Barred` relates bars and ticks: each bar is of a window that has ticks
and sums up these, bars ascend, and no window with ticks lacks one. A tick that comes last begins a bar
or goes into the last one (`BarBegins`, `BarGoesOn`), and which of the two is right is a matter of windows being
multiples of the duration (`OneWindow`, `WindowsApart`). The last n bars are then the n most recent windows, by
counting those behind each (`LaterWindows`). Nothing is left out of the history for being later than
the clock (`AllVisible`), as the search that made it left nothing of the kind in.

The same module, for any returns, windows and levels: `MeasuresOfTails` (`Spec => []TailsExact`). `VarInv` says
that the window holds the last returns. A sorted copy exists (`OrderExists`), its first places are a set of
places of the window (`FirstPlaces`), and no set of as many places has a smaller total (`LeastTotals`, by induction
over the size: some member of such a set is not before the last of these places). VaR and shortfall follow from where the tail is cut (`TailWithin`), which may be one
place less where the tail is a whole number of returns, as the tests' are.

The same module, for any symbols, prices, commissions, limits, high-water marks and number of fills:
`DailyPnlCorrect` (`Spec => []DailyPnlIsNavChange`), `LossesStopTrading` (`Spec => NoOrderAfterLoss`),
`TradingTypeCorrect` (`Spec => []TradingTypeOK`). `on_fill` keeps four numbers and the properties
speak of the whole history of NAVs; `RiskInv` says that the high-water mark is the greatest of them
and of where it started, that the previous NAV is the last of them, that the drawdown is measured
between these two, and that the daily P&L is the change since the session began for as long as
NAVs stay positive (the code skips the sum at others). What it takes of `nav()` is that a sum over the
positions is an integer (`ValueOfInt`, by `Induction`).

`FeedProofs`, for any symbols, reorder window, ring and kernel capacities, chunk size, garbage lengths
and number of restarts: `FeedInOrder` (`Spec => DeliversInOrder`), `Withheld` (`Spec =>
[]NothingWithheld`), `NeverTorn` (`Spec => []NeverTornNorRepeated`), `Intact` (`Spec =>
[]IntactConnectionsDeliver`), `Typed` (`Spec => []TypeOK`). The model's one thread that publishes at a time is an
assumption of `NeverTorn` and `Intact` (see below).

* UDP. `UdpIInv` says of each symbol that what was passed on is one datagram for every number below
  the expected one (`HadTheirTurn`), that what waits is above it and was received under the number it
  waits at (`WaitsInPlace`), and of each datagram that came why it is where it is (`Accounted`). The step
  that needs work is the drain: `Run` is the part of the window without a hole (`DrainIs`), and every
  frame of it decodes to itself (`WholeFrame`, the automaton of `FrameParser` run over the four cells of
  a frame), so the callbacks get one datagram for each number that the step passes (`DispatchAll`).
* TCP. That frames are not torn is a matter of the order of cells. A connection carries cells of
  published frames in order of publication, and no cell of a frame comes after its CRC (`InSequence`,
  across kernel and ring); a publish that is cut and a chunk that is lost leave a stream of which this is
  still so, as it says nothing of cells that are there. All cells on their way belong to frames after
  the last one that was passed on (`Past`). A matching CRC in the buffer then ends a frame that is whole
  and new (`ByteKeeps`), and after it everything left is of later frames. `ReadOn` carries this
  through the fold that `push` is, wherever `recv` cuts the stream, and a connection that is used again
  was empty at both ends (`ConnectStays`).
* That nothing is missing from an intact connection needs the cells themselves. `Brought` says that
  parser, kernel and ring hold, one after the other, the cells of the published frames from the place the
  client has come to up to the last one (`StreamCell`, four to a frame), and that the parser is in
  the state a frame has after so many cells (`InFrame`). A publish that fits adds four (`FrameAdded`), a
  chunk that the kernel takes whole moves some (`ChunkCarried`), and a read, cut anywhere, takes some
  to the parser, which then is where the stream is and has passed on the frames in between
  (`ReadInStep`, by induction over the cells read; no length of garbage is ever looked at). Reading on
  to the end gives the frames that are left, so both parts make the whole (`DeliversAll`).

## What is assumed

Constants have named assumptions in the modules that declare them, and TLC evaluates each of them in the
runs: `BookAssumption` (there is a symbol, prices and bounds are positive), `GarbageAssumption` (a freed
node reads as something of the type of an order), `RouterAssumption`; `RingAssumption` and `QueueAssumption` (there is
a slot, or a bound, and a value), `SendAssumption` (sizes are positive, positions wrap at a multiple of the ring); `DispatcherAssumption` (the two threads that process are two); `StoreAssumption` (a new file has room for a record, times and prices
are positive); `UdpAssumption` and `TcpAssumption` (the window, the rings, the kernel's buffer and the bounds
are positive numbers, garbage has lengths); `ReplayAssumption` and `PortalAssumption` (times are naturals,
bars have a duration and are asked for in positive numbers, the stack holds a call); `StrategyAssumption`,
`ReversionAssumption`, `VarAssumption` and `WalkForwardAssumption` (periods that the constructors accept, exit
and entry thresholds that are not negative, the exit's below the entry's as `mean_reversion.cpp:16` demands, a window of at least one return, folds that
advance, curves in chronological order with positive NAVs, performance.hpp:47); `PortfolioAssumption` and `RiskAssumption` (cash, prices, commissions and marks
are integers, quantities positive).

Of the callers of the TCP feed `TcpFeed` assumes, though the header does not: one thread at a time
publishes, and not while the server accepts or removes a client. Without the first, a ring loses and repeats
frames (see the findings); the second keeps two threads out of one `std::unordered_map`.
`NeverTornNorRepeated`, `IntactConnectionsDeliver` and their theorems hold under both.

Some theorems have hypotheses of their own, which are what the code needs and cannot see to:

* `OneWorker`: the pool has one worker. `pool_workers` shows the failure with two.
* `CleanGarbage`: memory that was freed may read as it was left, or as a node without an id, but not as
  another order. The engine reads such a node after `book_.cancel` of a stop that triggers;
  if the allocator had put another order there, the engine would trade on that order's terms.
* `MaxDepth = 1`: callbacks do not call back into the exchange. `callback_overfill` shows what happens
  to the ledger if they do (finding 2). `exchange` runs under both hypotheses.

## What is only model-checked

Liveness: `CallsReturn`, `Drains`, `WorkersGoOn`, `EventsHandled`, `UdpStopReturns`,
`ClientComesBack` and `ReplayStopReturns`. The prover does not reason about fairness with ENABLED.

`SendRing`: its `SendRingIsFifo` is checked on the instance above.

Every other safety property of a passing run is also a theorem, under the hypotheses named above.

## Not modelled

Not at all: the execution simulator, performance, analytics (floating-point formulas) and reporting
(text). Of the data portal: opening several symbols, and subscriptions, which are kept and never
delivered to. Of positions: average cost and P&L. Of the VaR engine: the parametric VaR (a normal
quantile). Of research: the parameter scan (the user's runner on a grid, sorted by a ratio).
Rounding: fractions are exact, so two averages, z-scores or tails that differ by less than a
double shows are told apart; only where the rounding of `1 - confidence` decides the tail does the model
have both.

Within the feeds: two threads in `clients_` (`tcp_feed.cpp:272`), an undefined behaviour without
outcomes to enumerate; socket options, addresses, counters; wire bytes below a cell. Within the
replay: pacing by the clock, callers that move the cursor while the thread runs (a data
race that `data_portal.hpp:11-13` asks callers to avoid; so is what `resume` reads then), subscribers that come and go. Within the store:
several processes, `flush`, and the length of the file after a power failure.

Within the event core: what tasks and events contain,
exceptions of tasks (they end the program), `size` for a third thread, a second controlling
thread of the dispatcher, the destructor of the list, and reuse of freed nodes by the allocator.
Within the exchange: depth snapshots (computed and unused in a sweep), timestamps, fill ids and counters;
the erase through `sym_it` after the report callback of a cancel (`order_router.cpp:167`), which
is undefined behaviour of the map if the callback changed it; writes through a dangling `Order*`
that reach a node the allocator has reused.

## Plan

1. Exchange (done): `OrderBook`, `MatchingEngine`, `OrderRouter`, `Exchange` and the proofs.
2. Event core (done): `SpscQueue` and `MpscQueue` refining `BoundedFifo`, `ThreadPool`,
   `EventDispatcher`; proofs for the queues and the pool.
3. Feeds (done): `FrameParser`, `UdpFeed` refining `InOrderDelivery`, `TcpFeed`, `SendRing`.
4. Backtest (done): store, replay, portal; portfolio and risk; strategies; VaR; walk-forward.
5. Proofs for the exchange: books, time priority, ledger and limits (done).
6. Proofs for the dispatcher and the shutdown of the pool (done).
7. Proofs for the feeds: the receive loop's refinement of `InOrderDelivery`, the order of cells, and that
   an intact connection delivers everything (done).
8. Proofs for the backtest: store, risk engine, replay, portal, bars, strategies, VaR measures and stitched
   curve (done). What is left is liveness and the send ring, listed under "What is only model-checked".
