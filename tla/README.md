# Verification of the option-trading bot

TLA+ models, TLC runs and TLAPS proofs for the trading bot of this repository
(`backend/`, `worker.py`). Line numbers refer to the commit the models were
written against; `PROJECT.json` maps every definition to the lines it stands for.

## 1. The system

Two kinds of process share a Redis server and a SQL database.

* **Web processes** (`backend/main.py`, FastAPI) hold no trading state. They
  write settings, consents and pending-trade rejections to the database, push
  commands on a Redis list and read status snapshots.
* **One worker process** (`worker.py`; `DEPLOYMENT.md:136`, "Only ONE worker
  process must run") holds every live object. Its *main loop* (asyncio) runs
  coroutines and the heartbeat; a *command thread* pops commands; each running
  bot has a `BotThread` with a `TradingEngine`, which runs one `SymbolEngine`
  thread per traded symbol. A `SymbolEngine` in turn has a candle loop, a
  streamer whose callbacks manage the position, short-lived direction threads,
  and is called from the command thread, the Telegram pollers and (approvals)
  the main loop.
* **Shared mode** (`USE_SHARED_WORKER`) replaces the bot threads by a pipeline of
  shared services (`backend/shared/`) and adds a second consumer of the command list.

### 1.1 Components

| component | state | operations | what must hold |
|---|---|---|---|
| `RiskTracker` (`engine_v6.py:312`) | date, trades and net P&L of the day, alert flags; one lock | `check`, `record_entry`, `record_pnl`, `snapshot`, lazy reset at midnight | limits overrun by a known amount only; one alert per limit and day |
| `SymbolEngine`, position (`engine_v6.py:400`, `2540-2854`) | `position`, `sl_order_id`, `trailing_sl`, `instrument_key`; **no lock** | enter, trail, modify, book profit, square off, flip, stop fill, reselect | a position is bought and has a stop; it is sold once, in its own instrument |
| pending trades (`execution_layer.py:226-301`, `459-639`) | `pending_trades` rows, audit rows | propose, approve, reject, expire, place | decided once; ordered at most once and only if approved; eventually decided |
| command queue (`command_queue.py`) | Redis list, result keys | push, poll, pop, post, trim | bounded; at most once; true answers; order; no starvation |
| execution router (`execution_layer.py:185-452`, `engine_v6.py:2403`) | mode in the database, in a cache (30 s), in the running engine; consents | look up, execute, interpret the answer | a signal is handled in a mode that was saved lately; live orders of strategies only in AUTO mode |
| paper book (`paper_trading.py`) | orders per user | place, modify, cancel, check stop | one fill per order |
| order store (`order_store.py`, `webhook.py`) | last update per order, two channels | store, publish, subscribe, wait for a fill | no fill is missed, none is made up |
| bot manager, worker lifecycle (`bot_manager.py`, `worker.py`, `state_store.py`) | threads, registry of engines, status in Redis (TTL) and in the database | start, stop, report, heartbeat, crash, shutdown | commands reach the bot that serves; the status comes to say what runs |
| shared mode's users (`shared_worker.py`, `symbol_manager.py`) | subscribed symbols, counts, active set, services, managers | start, stop, clear, clean up, recover | one live manager per user |
| user execution (`user_execution_manager.py`) | positions, day's count, pause, snapshot | take a signal, check, route, record, square off | the day's limit |
| billing (`subscription_*.py`, `manual_payment_*.py`, `invoice_*`, `campaign_service.py`) | subscription, payment, invoice and sequence rows | verify, webhook, approve, renew, expire, reward | a payment is invoiced once, numbers leave no gap; a trial never trades live |
| administrators' tables (`admin_config_cache.py`, `billing_cache.py`, `shared_cache.py`) | tables, a copy per process, a token in Redis | write, refresh, read, expire | bounded staleness |
| event relay (`event_bus.py`, `broadcaster.py`, `worker.py:173`) | coroutines, rows, subscription, sockets | emit, save, publish, connect, relay | open tabs are fed, and only with what is saved |
| structure engines (`market_structure.py`, `underlying_market_structure.py`) | candles, swings, zones, breaks, trend | per candle | what is kept candle by candle is what the history says |
| shared candles (`candle_builder.py` and its readers) | bars in memory and in Redis, events | tick, close, save, load, analyse | saved bars ascend |
| the engine's option series (`engine_v6.py:670-1030`) | rows, forming bar, direction, instrument | tick, poll, load, flip, reselect | rows of the right instrument in the end |
| stream and chain services (`market_data_service.py`, `option_chain_service.py`, `dist_locks.py`) | service, stream; lock, analysis | connect, drop, stop; lock, fetch, release | a dropped stream comes back; a lock is freed by its holder |
| the rest (auth, alerts, e-mail, indicators, frontend, scripts) | | | output, plain CRUD or stateless arithmetic |

`PROJECT.json` lists all of them with their files and what is modelled of each.

### 1.2 Interactions

```
browser, Telegram --> web / pollers --LPUSH--> bot:commands --BRPOP--> command thread --> SymbolEngine
                          |                                                |   ^
                          |  (settings, consent, rejection)                |   | result key
                          v                                                v   |
                       database <---- main loop: approve / reject / expire coroutines --> SymbolEngine
                          ^
SymbolEngine --signal--> ExecutionRouter (mode cache) --> paper answer | pending trade | refusal
SymbolEngine --orders--> broker or paper book;  webhook --> order store --> SymbolEngine
SymbolEngine --check, record--> RiskTracker (shared by the symbols of one user)
SymbolEngine --on_trade--> main loop --row--> database, --PUBLISH--> relay task --> the user's tabs

shared mode:  broker stream -> ticks -> candle builder -> indicators, structure, strategies -> signals -> user's manager
browser, provider, administrator, daily job --> payment and subscription rows --> check_trading_permission at start
administrator --> tables --> cache of each process --> holiday, token and plan look-ups
```

### 1.3 What is hard here

* six threads act on one unlocked position, each with broker calls of seconds
  between reading and writing;
* check and act are separate almost everywhere: risk check and entry, queue
  length and push, status and commit, look for a position and select an instrument;
* a command thread gives up waiting for a coroutine that goes on;
* a worker crash loses popped commands, flushed audit rows and positions;
* three copies of the execution mode;
* deadlines that race answers (5 s replies, 25 s proposals, 30 s cache, 20 s fills);
* one payment is finalised by the browser, the provider's webhook and two administrators at once;
* lists that are kept by two windows and trimmed, and bars that live in memory and, every 60 ticks, in Redis.

`PROJECT.json`, "hazards", lists each at its line with the properties that watch it.

## 2. The modules

| module | models | actions and code |
|---|---|---|
| `RiskTracker` | the tracker and its callers | `Check` = `_risk_ok` at the start of `_on_bar_close`; `Fire`, `Abandon`, `RecordEntry`, `EndBar` = the strategies of one bar close and `_place_trade`; `ApprovedEntry` = `worker.py:443`; `BeginExit`, `RecordExit`, `LoseExit` = the exit paths and `_record_exit`; `NewDay`, `Snapshot` |
| `PendingTrade` | approval workflow of one user | users: `AskApprove`, `AskReject`, `WebReject`; engine: `Propose`; clock: `Elapse`; command thread: `Pop`, `Sweep`, `GiveUp`; coroutines, one step per `await`: `ApproveSelect`, `ExpireOnApprove`, `ApproveCommit`, `Place`, `RejectSelect`, `RejectCommit`, `ExpireSelect`, `ExpireCommit`; `CloseSession`, `Crash` |
| `TradeDecision` | what the workflow promises | `Propose`, `Decide`, `Order`; `PendingTrade` implements it |
| `CommandQueue` | list, result keys, clients, consumers | `Request`, `Push`, `Poll`, `Deadline`; `Pop`, `Handle`, `HandleTimesOut` (`fut.result(timeout)` of approvals and rejections), `Post`; `Linger` = the coroutine that goes on after its handler has answered; `ExpireResult`, `Trim`, `Crash` |
| `SymbolEngine` | one symbol's position and orders | entry: `Enter`, `PlaceBuy`, `GiveUp`, `PlaceStop`, `AfterStop`, `StopVerified`, `StopUnverified`, `TakePosition`, `EmergencySell`; exit: `BookProfit`, `Squareoff`, `FlipExit`, `SellAccepted`, `SellRejected`, `SellUnheard`, `StopFilled`, `RecordExit`, `ClearPosition`; stop: `Trail`, `TrailWrite`, `ModifySl`, `ModifyWrite`, `ModifyUnheard`; instrument: `LookBeforeSelect`, `Select`; broker: `BrokerBuy`, `BrokerStop` |
| `ExecutionRouter` | modes, cache, consent, executors, the engine's reading of the answer | `SaveMode`, `Tick`, `GiveConsent`, `ConsentEnds`, `Start`, `StartRefused`, `StartRaises`, `Stop`, `WorkerRestart`; `Ask`, `ReadMode`, `StoreMode`, `LookupFails`, `Execute`, `Buy`, `Leave` |
| `Billing` | subscriptions, payments, invoices of the users | payment: `CreateOrder`, `SubmitManual`, `Proceed` (= `Receive`, `FlushPayment`, `WriteSubscription`, `ReadNumber`, `Finish`, `Refuse`, the awaits of one transaction); trial and rewards: `Login`, `StartTrial`, `LoginLost`, `SubmitReward`, `VerifyReward`, `RejectReward`; `Downgrade`, `AdminEdit`, `AdminActivate`; daily job: `JobList`, `JobStep`; `Crash`, `Tick` |
| `PaymentLedger` | what payments and invoices promise | `Order`, `Credit`, `Refuse`; `Billing` implements it |
| `BotLifecycle` | bot threads of the legacy mode | `HandleStart`, `HandleStop`, `HandlerWritesStatus`, `WebCommits`; thread: `Boot`, `BootFails`, `SymbolDies`, `EngineFails`, `SeesStop`, `Unregister`, `PostError`, `Dies`; loop: `ReportCommits`, `ReportWritesStatus`, `HeartbeatReads`, `HeartbeatWrites`, `Period`; worker: `WorkerCrashes`, `ShutdownBegins`, `ShutdownClears`, `ShutdownEnds`, `WorkerStarts`; `Vanish` (the Redis key's TTL) |
| `SharedWorker` | users and symbols of the shared mode | two command loops (`LoopStep`): `StartUser`, `EnsureSymbolServices`, counting by single Redis calls, `Register`, `StopUser`; `ClearReads`, `ClearRemoves`, `ClearEnds` (the thread of `_handle_stop`); `CleanServices`, `CleanRemoves`, `CleanEnds` (`_do_cleanup`); `ShutdownStep` (`bot_manager.stop_all`, manager by manager and symbol by symbol); `Reboot` (after a crash or at any point of a shutdown), `RecoverActiveSymbols` |
| `UserExecution` | one user's execution manager | `StartExec`, `StopExec`, `PublishSignal`, `TakeSignal`, `CheckSignal`, `RoutePaper`, `RouteOther`, `RecordEntry`, `ReadForPush`, `WritePush`, `Modify`, `Squareoff`, `Pause`, `PauseMock`, `Resume`, `SnapshotExpires`, `Clock`, `EndThread` |
| `OrderStore` | an order's updates and the wait for its fill | `BrokerMoves`, `WebhookStores`, `WebhookPublishes`; `PlaceOrder`, `RegisterOrder`, `Subscribe`, `FastPath`, `Look`, `DeadlinePasses`, `WaitTimesOut`, `PollFinds`, `PollGivesUp` |
| `ConfigCache` | administrators' tables and their copies | `AdminCommits`, `AdminRefreshes`, `Read`, `ReadToken`, `Load`, `LoadFails`, `Answer`, `Restart`, `ConfigTick` |
| `EventRelay` | from the engine to the tabs | `Emit`, `OnOther`, `OnExit`, `WorkerLosesJobs`; `Connect`, `PeerGoes`, `Disconnect`, `SubscribeRelay`, `RelayTakes`, `RelaySends`, `RelayEnds`, `RelayBreaks` |
| `Swings` | what both structure engines share | `DetectSwings` = `AddMinor`, `MarkMajor`; `NewZone`, `Mitigated`, `LastMajor`, `Protected` |
| `PremiumStructure`, `UnderlyingStructure` | the two engines on top of it | one action each, `PremiumUpdate(c)` and `UnderlyingUpdate(c)` = `update(candle)` with every analysis it calls |
| `CandlePipeline` | builder and readers of one symbol | `StartBuilder`, `ProcessTick` (closing 1-minute and longer bars), `SaveToRedis`, `StopBuilder`, `CrashBuilder`, `NextMinute`; `OnCandleClose`, `AnalyzeStructure`, `EvaluateStrategies`, `LoseEvents` |
| `OptionSeries` | the option's rows in one engine | `Turn`, `UnderlyingTick`, `OptionTick`, `OptionBar`; poll: `StartPoll`, `StayAtStrike`, `TooDeep`, `Reselect`; of each thread: `Ask`, `Store`, `StoreNothing`, `SameDirection`, `Flip`, `SelectFlipped`, `SelectFails` |
| `MarketFeed` | stream service of one symbol | `GetOrCreate`, `StopFeed`, `MakeStreamer`, `KeepStreamer`, `StreamOpens`, `ConnectFails`, `Drop`, `StreamEnds` |
| `ChainRefresh` | option chain refresh and its lock | `Acquire`, `FetchChain`, `Analyze`, `Release`, `CrashService`, `Expire` |
| `MCPlatform` | `BotLifecycle`, `SharedWorker`, `UserExecution`, `OrderStore`, `ConfigCache`, `EventRelay` side by side | `which` names the part that moves |
| `MCMarket` | the structure engines, `CandlePipeline`, `OptionSeries`, `MarketFeed`, `ChainRefresh` side by side | as above |

`PendingTrade` states its refinement with `INSTANCE TradeDecision WITH`, `Billing` its with
`INSTANCE PaymentLedger WITH`: the ledger is the sequence of the invoices' payments by number (`Entries`), a payment's
standing its status without the provider's shades (`Standings`). The parts of
`MCPlatform` and of `MCMarket` share no state in the code either, but for what
their neighbours leave open as a choice: a bot's death, a signal, a fill, a commit. A
behaviour moves one part, so the states of a run are the sum of the parts', not
their product; the constant `Parts` chooses the parts.

`MC*` modules and `.cfg` files instantiate them; `*Proofs` modules hold the theorems.
Definitions marked "For mutation" are wrong on purpose: no specification uses
them; each one shows, when it replaces its neighbour, that a property notices.

### 2.1 Modelling decisions

* **Steps.** A step ends where the code blocks or gives up a lock: a broker or
  Redis call, an alert over the network, a sleep, an `await`. Two statements
  with nothing blocking between them are one step.
* **RiskTracker** is one tracker object, that is one session of a bot: a restart
  creates a new one (`engine_v6.py:2889`) and forgets the day. Recording the
  P&L and clearing the position are one step there; `SymbolEngine` separates them.
  `_maybe_reset` runs at the start of every method, so each counter is read
  through `Current`.
* **PendingTrade.** The engine's INSERT and the event that follows belong to one
  session: the row is committed, the event only flushed and lost when the
  session closes. `expire_on_commit` is off, so a coroutine goes on with the row it
  read. A coroutine's outcome after its last database access does not matter to
  the table and is not kept.
* **CommandQueue.** An unknown action is an answer too. Two representative
  actions stand for all: one both consumers know, one only `worker.py` knows.
  Results expire after 30 s, longer than any client polls. "done" stands for every answer of
  a handler that ended, its errors included. An approval or a rejection runs as a coroutine on the main loop
  and its handler waits 30 or 15 s for it (`worker.py:528`, 558): then it answers "Approval failed"
  (`failed`) and the coroutine, now in `lingering`, takes effect later, or never, after a crash.
  `executed` counts effects, `Begun` also those that are still to come.
* **SymbolEngine.** Prices, targets, lots and the direction are abstracted:
  whether a strategy fires, a target is reached, a trail is proposed or a
  direction flips is a nondeterministic choice, so every order of these events
  is explored. A modified target changes nothing the model keeps. The paper
  book's `modify_sl_order` ignores an order that is not open, and its caller
  ignores the result; its `cancel_order` marks any order cancelled.
  `_record_exit` reads `self.position` again, so it may record and clear another
  one. An approved entry runs on the main loop, asks for no position, and
  does not verify its stop. `_place_order` and `_modify_sl_order` answer nothing also when the broker has taken
  the order and the answer was lost or could not be parsed (`engine_v6.py:2292-2300`, 2358): in `PlaceBuy`,
  `PlaceStop` and the `Sell` steps what the broker took (`taken`) and what the engine was told (`told`) are
  chosen separately, and `unheard` remembers the entries with a SELL or a new trigger that took effect without an
  answer. The stop is placed, verified for up to 5 s, and the position taken up, in steps of
  their own; a stop that could not be verified stays at the broker when the emergency exit sells.
  `sold` counts to 2. No configuration that starts today gives a live engine entries of its own (AUTO cannot
  start, section 5): its entries are approvals, and its own are kept because the code is the paper engine's too.
* **ExecutionRouter.** `place_order_fn(signal)` (`execution_layer.py:337`) calls
  `_place_order(side, qty, ...)` with one argument and raises, so the AUTO
  executor always answers FAILED. The paper executor answers EXECUTED or FAILED. The entry's `at` is the time its lookup began.
  A start in AUTO mode is refused without a consent and raises with one (`StartRefused`, `StartRaises`): the
  builder uses `datetime`, which it never imports. `starts` keeps the last start's mode, consent and
  answer. No engine therefore runs in AUTO mode; the mode in the database and the cache may be AUTO, and a
  running PAPER or SEMI_AUTO engine meets it there.

* **Billing.** A transaction is cut at its awaits. Row locks are held until commit
  (`RowsFree`, `PayLocked`); what a session has loaded it does not read again, so
  `tx` keeps the row it saw. `Finish` commits or is refused by a unique constraint,
  which rolls the whole finalisation back. Dates are 0 or later than now by whole periods;
  amounts, signatures and the PDF are left out. Invoice numbers are those of one year, whose counter
  is a row of its own. `start_trial` looks at `trial_used` of the row its login has loaded and writes later:
  `Login` reads, `StartTrial` writes without looking again, and two logins may be between the two. A user may
  ask for a reward again once the last request is decided.
* **BotLifecycle.** A thread dies symbol by symbol (`lost`). The status in Redis ages
  in heartbeats and vanishes after `StatusTTL`; the database's status does not age.
* **SharedWorker.** `add_subscriber` and `remove_subscriber` are two steps each: the set with the count, whose
  calls nothing reads between, then what follows from the number that came back. The system
  subscriber keeps its own symbols. `start_user` holds the registry's lock, the check
  that the user is not running does not. A service cleanup holds `_services_lock` over its three steps;
  a start's `add_subscriber(-1)` comes after that lock and may fall between them. A graceful shutdown is `bot_manager.stop_all`: nobody
  calls the orchestrator's own `stop()`, which makes the same two calls. `worker.py`'s consumer has stopped by
  then, the orchestrator's goes on. It leaves `_services_initialized` as it is.
* **UserExecution.** One signal at a time per manager, as in the code; a
  replaced manager goes on with the signal in hand. Only the paper route opens a
  position; SEMI_AUTO creates a pending row. There is no manager in AUTO mode, because no start in AUTO
  mode succeeds.
* **OrderStore.** The broker moves an order and the webhook delivers its updates
  late and in any order; `late` counts what the wait's inbox still holds at the deadline.
* **ConfigCache.** A table's content is the number of the write that made it.
  Nothing takes a unit of time between a load's first statement and the answer.
* **EventRelay.** The web process is one event loop: a step is what runs between two awaits.
* **Swings and structures.** Prices are small integers, so the relative tolerances of
  equality (0.1 %) are equality. Only what the next candle's decisions read is kept: ratings,
  scores, liquidity and patterns are not. Sequences are the candles since the start.
* **CandlePipeline.** A longer bar spans `Span` minutes (5 in the code). Bars that were loaded
  from Redis are marked: their times are strings, and the code skips them.
* **OptionSeries.** A row is known by its instrument only. The candle loop, the thread
  after a bar and two loaders may each be in a fetch.
* **MarketFeed, ChainRefresh.** The SDK's `connect()` blocks until the stream ends, as the
  loop around it expects. That is an assumption about the SDK, on which `DataArrives` rests: the engine's own streamer
  (`engine_v6.py:644-650`) sleeps after `connect()`, as if it returned at once, and if it does the service's loop opens stream after stream. A lock may expire at any time, at most `MaxExpiries` times.

## 3. The runs

| run | module, cfg | checks | states |
|---|---|---|---|
| `risk` | `MCRiskTracker` | `TypeOK`, `EntryBound`, `OneAlertPerBreach`, `LossHaltsEntries` | 3.2 M |
| `pending` | `MCPendingTrade` | `TypeOK`, `OrderNeedsApproval`, `DoubleOrderNeedsOverlap` | 0.48 M |
| `pending_decided` | `MCPendingTradeDecided.cfg` | `AtMostOneOrder`, `Decided`, `EventuallyDecided` | 0.11 M |
| `queue` | `MCCommandQueue` | `QueueSound`, `AtMostOnce`, `TruthfulReply` | 1.4 M |
| `queue_live` | `MCCommandQueueLive.cfg` | `SessionOrder`, `AcceptedIsExecuted` | 0.73 M |
| `engine` | `MCSymbolEngine` | `TypeOK`, `EntryConfirmed`, `SoldOncePerPath`, `Covered` | 1.4 M |
| `engine_paper` | `MCSymbolEnginePaper.cfg` | `OneExitPerEntry`, `StopOnlyRises` | 0.36 M |
| `router` | `MCExecutionRouter` | `TypeOK`, `ModeRecent`, `SteadyModeObeyed` | 4.3 M |
| `billing` | `MCBilling` | `InvoicesSound`, `TrialNeverLive`, `CreditedOnce` | 3.9 M |
| `platform` | `MCPlatform` | `PlatformTypeOK`, `EnginesOwned`, `EntriesCapped`, `OrderFills`, `ConfigRecent`, `TabsAreFed`, `StatusConverges` | 1.4 M |
| `market` | `MCMarket` | `MarketSound`, `StructureExact`, `FailedBreaksKnown`, `DataArrives`, `LockKept` | 0.30 M |
| `five_minutes` | `MCMarketFiveMinutes.cfg` | `FiveMinutesWhole`, a sentence of the code which TLC refutes (section 5) | |

### 3.1 What they show

* **`EntryBound`**: with *n* symbols the daily cap is overrun by at most *n* - 1
  entries, besides approved trades and second entries of one bar close, which
  are counted apart because nothing checks them. **`LossHaltsEntries`**: after the
  net loss limit is hit, at most one checked entry per symbol is still recorded.
  **`OneAlertPerBreach`**: one alert per limit and date, whatever threads cross midnight.
* **`OrderNeedsApproval`**: no order without a user's request, `approved_at` and a
  committed audit row, even when coroutines overlap, the web rejects and the
  worker crashes. **`DoubleOrderNeedsOverlap`**: a second order for a trade takes two approvals
  that were under way at once, and so a coroutine that outlived the 30 s of its handler; no crash, web
  rejection or repeated command brings it about alone. **`AtMostOneOrder`**, **`Decided`**: where no coroutine
  outlives its handler and the web rejects nothing, the workflow implements `TradeDecision` (status and
  orders are the abstract variables): a decision is final and at most one order
  follows. What they add is the crash and the expiry; the race of read and commit is the other run's. **`EventuallyDecided`**:
  nobody's trade waits for ever.
* **`QueueSound`** (types and the bound), **`AtMostOnce`**, **`TruthfulReply`**: the race of length check and
  push overruns the limit by one command per other client; no command runs
  twice; "done" means it ran, "full" or "unknown" that it never will. "queued" and "failed" promise nothing:
  a command that was queued may be trimmed, and an approval that "failed" may still place its order.
  **`SessionOrder`**: the commands of a client that gave up on one and sends another still begin
  in order. **`AcceptedIsExecuted`**: no command the worker still has starves, whether or not
  its client is still there.
* **`EntryConfirmed`**: the engine never manages a position whose BUY was not
  filled or whose stop was never accepted, whichever answers were lost on the way. **`SoldOncePerPath`**: a position may be
  sold by several paths at once, but by each only once, unless a stop
  modification wrote it back or the broker took a SELL without an answer, which the path then repeats. **`Covered`**: a position whose stop is cancelled is
  being exited, except after a square-off whose SELL was rejected or a written-back position.
  **`OneExitPerEntry`**: the tick thread of a paper engine ends a position once.
  **`StopOnlyRises`**: the trail never lowers a stop at the broker, unless an earlier modification of it took effect unheard.
* **`ModeRecent`**, **`SteadyModeObeyed`**: a signal is routed by a mode
  that was saved less than TTL seconds ago; once the three copies agree it is
  handled as that mode says.

* **`InvoicesSound`**: whatever runs at once, a payment that took effect has exactly one
  invoice, an invoice its payment, and the numbers have no gap and no
  duplicate: two readers of one number collide at the constraint, and the loser's
  whole transaction goes. **`TrialNeverLive`**: no sequence of trials (two logins may start one each), rewards, suspension and
  resumption makes a row that `check_trading_permission` lets trade live. **`CreditedOnce`**: billing implements
  `PaymentLedger`, so that also over time nothing credited is credited again, renumbered or taken back, and
  no step shows a payment as paid whose invoice is still to come; a late refusal may only change its standing.
* **`EnginesOwned`**: in legacy mode a bot that serves is the one in the registry of
  commands, although the one before it removes its entry by user, not by itself; in shared mode at
  most one manager is not stopped, although both loops may start the user, and
  a shutdown may begin in the middle of it.
  **`StatusConverges`**: if a bot stays alive the Redis status comes to say running, and if none is
  alive it stops saying so, whatever late writes, crashes and restarts came in between. **`EntriesCapped`**: the day's limit holds with the check
  before and the count after the order. **`OrderFills`**: an entry is given up only if no
  fill was there to be read, and no fill is reported that the broker has not made.
  **`ConfigRecent`**: what a reader gets was right less than a TTL ago (two for a token of Redis), and a
  writer's process has its write once its request is through - unless the load failed.
  **`TabsAreFed`**: an open tab has a relay unless Redis failed, and is told of no exit before its row is saved.
* **`StructureExact`**: the lists kept candle by candle, by two windows, an upgrade by index
  and a trim, are the swings of the whole history; a zone is mitigated if and only if a later candle
  closed beyond it; a recovery is of the pullback there is, and no trend survives a close beyond
  its protected level. **`FailedBreaksKnown`**: a break is marked failed only if a candle
  closed back in time (`FailuresReal`), and if one did while the engine looked at that break
  (`FailuresNoticed`): with a major swing among the latest `MaxSwings` of each side and fewer than five breaks after it.
  Which candles these are is said of the whole history and of the breaks' positions, not of the lists the engine keeps.
  **`MarketSound`**: types, and `BarsAscending`: bars, in memory and saved, are of ascending minutes through crash, reload and
  replacement, and end before the one that is forming. **`DataArrives`**: rows of another
  instrument get into the option's series, but not for good; a dropped stream is opened again.
  **`LockKept`**: a refresh that outlives its lock does not take the next one's.

### 3.2 Bounds

| bound | value | why it is enough |
|---|---|---|
| engines, strategies | 2, 2 | an overshoot needs one engine past its check while another enters; a second entry needs a second strategy |
| `MaxTrades`, `MaxLoss`, `PnLs` | 2, 2, {-2, 1} | the cap can be reached by one engine or by both; one loss hits the limit, wins lift it again |
| `MaxDay`, `MaxApprovals`, `MaxExits` | 2, 1, 2 | one midnight; one unchecked entry; two threads in one exit |
| trades, slots | 2, 2 (1 without timeouts) | two coroutines overlap; a sweep takes a batch |
| `MaxCommands`, `MaxWebRejects`, `MaxCrashes` | 2-3, 0-1, 0-1 | approve twice, or approve and reject, with a crash between two steps |
| clients, requests, `MaxQueue` | 2, 2, 1-2 | the race of the length check, a full queue, a trim, and an order between two commands |
| threads of the engine | 3 of 6 per run | the threads that share each hazard |
| entries, edits, keys, levels | 1-2, 0-1, 1-2, 1-3 | a position that replaces another; a position written back; a trail of two raises |
| signals, TTL, `MaxClock`, `MaxSaves` | 2, 1, 2, 2 | two lookups overlap, an entry expires, the mode changes and changes again |
| billing: users, payments, handlers, plans | 1, 2, 2, 2 | two finalisations of one payment, and of two payments, meet the daily job and an administrator; users share the invoice counter only, which two payments contend for as well |
| `MaxTime`, `MaxWork` | 1, 4 | a period ends once; four requests; a payment, a reward and a second login at once count two |
| bots, symbols, `StatusTTL`, crashes | 2, 2, 3, 1 | a bot that starts while its predecessor ends; one symbol dies, the other lives; the TTL of three heartbeats is the code's (24 s, 8 s) |
| managers, reboots, loops | 2, 1, 2 | two consumers start one user, with a restart between two Redis calls |
| `MaxExec`, `MaxTrades`, `MaxDays`, `MaxSignals` | 2, 1, 1, 2 | a manager is replaced mid-signal; one signal fills the day, another tests it |
| `Orders`, `MaxInbox` | 1, 2 | orders do not interact; an update overtakes another |
| `TTL`, `RedisTTL`, `MaxWrites`, worker threads | 2, 1, 2, 1 | a commit between the two loads, a refresh that waits for another, a token put into Redis at the last moment |
| sockets, events | 2, 3 | one tab goes while another stays; an exit between two entries |
| windows, `MaxSwings`, candles | 2 and 3, 3, 7 shapes | a minor swing that is a major one later, a list that is trimmed; four free candles after rising, falling and ranging openings |
| `Span`, `KeepBars`, `TicksPerSave`, `MaxMinute`, builders | 2, 3, 2, 3, 2 | a longer bar, a full list, a save between two ticks, a crash and a successor |
| strikes, loaders, turns | 2, 2, 1 | a flip and a reselection while three fetches are under way |
| feeds, drops; services, refreshes | 2, 2; 3, 4 | a service replaced while it connects; a lock that expires under one, with two waiting |

The theorems of section 4 have none of these bounds.

`CHECK_DEADLOCK FALSE` stands where the bounded inputs run out (queue, engine, billing, platform, market).
`StopOnlyRises` is checked without commands and approvals: a user may lower a
stop, and an approved entry sets a new `trailing_sl` while a trail is under way.
`OneExitPerEntry` is checked with the flip and the candle loop. `AtMostOneOrder`
and `Decided` are checked with `Timeouts = FALSE` and without web rejections;
section 5 says what happens otherwise.

### 3.3 Fairness

* `PendingTrade.FairSpec`: the clock (`Elapse`), the command loop (`Pop`, `Sweep`:
  it never ends, and each pop has a timeout) and the event loop (each coroutine's
  next step). No user and no crash is forced, no commit is assumed to win a race.
* `CommandQueue.FairSpec`: a consumer's next step, and that the main loop goes on with some coroutine that
  lingers. Nothing is asked of the clients; `Trim`, `Crash` and `Request` have no fairness.

* `MCPlatform.BotFairness`: a handler that answered writes its status, a bot's thread and a
  coroutine on the loop go on, the heartbeat beats while the process lives, time passes, and
  a shutdown that has begun ends. No start, stop, failure or crash is forced, nor that
  anybody starts the worker again: the status then expires.
* `MCMarket.SeriesFairness`, `FeedFairness`: polls and threads go on (weak). Strong fairness
  only for what the outside answers again and again: the broker's rows to the poll, and a connection
  that is retried every three seconds.

The others are weak: the threads are scheduled by the operating system and never
wait for a condition that flickers. `AcceptedIsExecuted` only speaks of the time after the last crash.

## 4. The proofs

All theorems hold for arbitrary constants under the module's named `ASSUME`
(finite nonempty sets of engines and clients, positive limits, a model value
outside the slots, and so on); two state a further assumption, explained below the table.

| module | theorems | the inductive invariant and why it is needed |
|---|---|---|
| `RiskTrackerProofs` | `RiskTypeCorrect`, `EntryBoundHolds`, `OneAlertHolds`, `LossHaltsHolds` | the bounds are on entries already recorded; inductive is the sum of these and of the engines that may still enter on a check they passed (`Fresh`). For the alerts: an alert of a date means that the tracker has left that date or its flag is set. |
| `PendingTradeProofs` | `PendingTypeCorrect`, `OrderNeedsApprovalHolds`, `DoubleOrderNeedsOverlapHolds` | the request must be remembered along queue and coroutine (`AskedInv`), the committed approval at the order (`RecordInv`). For the double order: a trade that is ordered or about to be waits no more, and never again (`DecidedInv`), so no later approval of it passes the status check; and while none was begun beside another, the one under way is alone and nothing is ordered yet (`AloneInv`). Timeouts, web rejections and crashes are all allowed. |
| `CommandQueueProofs` | `QueueSoundHolds`, `AtMostOnceHolds`, `TruthfulReplyHolds`, `SessionOrderHolds` | a client past its check already has a place (`RoomInv`); a command is in at most one place, and a settled one in none (`PlaceInv`, `FreshInv`, `SettledInv`). For the order: of one client's commands, the held one is older than the listed ones, these are in order, and none that has begun, lingering or not, is younger than one that has not (`OrderInv`). |
| `SymbolEngineProofs` | `EngineTypeCorrect`, `EntryConfirmedHolds`, `SoldOncePerPathHolds`, `CoveredHolds`, `OneExitPerEntryHolds`, `StopOnlyRisesHolds` | an entry under way, from its BUY to the verified stop (`EntryPlaces`), belongs to one thread and is unsold (`FreshInv`); a modification under way holds a confirmed entry, because it will write it back (`ConfirmedInv`); a path that sold a position still holds it or the position is gone (`SoldInv`). `Covered` is inductive relative to these: who cancels a stop holds the position until it is cleared, and no entry under way has had its stop cancelled (`UncancelledInv`). `OneExitPerEntry` needs that the tick thread never sells beside a filled stop (`PaperExits`), and that the book always answers (`PaperAnswers`); `StopOnlyRises` that a referenced stop is no higher than `trailing_sl`, or than the aim of the trail under way, as long as every answer was heard (`Trusted`, `RiseInv`). |
| `ExecutionRouterProofs` | `RouterTypeCorrect`, `ModeRecentHolds`, `SteadyModeObeyedHolds` | the cached mode was the saved one when its lookup began or later (`CacheInv`), with `held`, the last second at which each mode was the saved one. |
| `BillingProofs` | `BillingInvariant`, `InvoicesSoundHolds`, `TrialNeverLiveHolds`, `CreditedOnceHolds` | `InvoicesSound` holds by what the handlers under way may still write: each one's payment was ordered, its row is its user's and its number at most one ahead of the counter (`HandlerInv`), so that a commit either takes the next number or collides. `TrialNeverLive` is not inductive, because a plan may still be queued or in the daily job's list: wherever one is, its user has paid or was let in (`EntitledInv`). `CreditedOnce`: a commit maps to `Credit`, because its number is the next one and no entry is its payment's (`CommitEnters`); every other step orders, refuses or stutters. |
| `MarketProofs` | `MarketInvariant`, `MarketSoundHolds`, `StructureExactHolds`, `FailedBreaksHold`, `LockIsKept` | see below |
| `PlatformProofs` | `BotReachable`, `ManagerOwned`, `EntriesAreCapped`, `TabsFed`, `FillsAreTrue`, `ConfigRecentHolds` of the parts' own specifications, and `PlatformSafe` and `PlatformTypesHold` of `MCPlatform`'s, their composition | `BotInv`: a thread that lives is its user's newest, so nobody else unregisters it. `OwnInv`: a consumer between removing one manager and registering the next holds the lock, and no manager of that user is running; a shutdown holds it until it has stopped all. `CapInv`: a manager has entered today no more than it counted, or one more while the entry is being recorded, before which the count was below the limit. `RelayInv`: an exit in the channel, being sent or told has its row (`Told`); a tab is registered before it opens. `OrderInv`: a fill that was there to be read and was not (`unread`) is in the waiter's inbox until it ends, and what is stored or in the inbox the broker has sent. `ConfigInv`: a sound copy is no more outdated than its age, and the half a load has done is not outdated at all (`ConfigAges`); a token in Redis is outdated by less than both TTLs minus what it has left; with no request pending, the half the web process has loaded is current (`ConfigThrough`). |

`PlatformSafe`, `PlatformTypesHold` and the theorems of `MarketProofs` name `MCSpec`, so what they say of
the `.cfg`'s instance is what TLC checks there. Their proofs need only that a step of the
composition is a step or a stutter of each part.

`MarketInv` is the conjunction of one invariant per part.

* **Swings** (`StructureInv`). `StructureExact` compares a list that is kept candle by candle with a
  definition over the whole history. No induction over candles is needed, because the
  correspondence itself is inductive: the list holds the last `MaxSwings` swings that the
  candles confirm, each marked major if and only if the long window says so (`Listed`). One
  more candle confirms at most one swing of each window (`SwingGrows`). The long window confirms
  `MajorW - MinorW` candles later than the short one, and must still find the swing in a list
  that is trimmed: elements that are *k* apart are at least *k* candles apart
  (`Spaced`), so the list keeps it if `MajorW - MinorW < MaxSwings`, which is
  `SwingsAssumption` (5 - 2 and 30 in the code).
* **Zones** (`HonestIn`): mitigated if and only if a later candle closed beyond the edge.
* **Trend** (`TrendInv`, of the premium engine alone: the other never writes what it is about).
* **Breaks** (`BreaksInv`, of the underlying's engine alone): each is of a candle there is, a later candle
  takes no failure back, and every failure of an earlier candle that the engine looked at is marked. For the last
  candle the two descriptions of "looked" are connected: a major swing that fewer than `MaxSwings` follow cannot have
  been trimmed (`ReachedIsListed`, by counting: the listed swings are distinct and would all come after it), so the engine does not
  return early; and a break after which no fifth one exists at that candle is among the last five it visits.
* **Candles** (`CandleInv`): every bar in memory or in Redis is before the developing one, and that
  not after the clock; hence a builder that loads what another has saved can continue it.
* **Lock** (`LockInv`): the values that services write into the lock are unique.
* `SeriesInv`, `FeedInv`: types only; what these two parts promise is liveness.

Assumptions in a theorem's statement: `SessionOrderHolds` has `OneConsumer` (with a second consumer, as in shared mode,
two commands of one client run side by side); `StopOnlyRisesHolds` has `OnlyTrails`, an engine without the threads
that modify stops and approve entries (section 3.2). The runs of these properties have such instances.

**Only model-checked:**

* liveness, out of the prover's reach: `EventuallyDecided`, `AcceptedIsExecuted`,
  `StatusConverges`, `DataArrives`;
* `AtMostOneOrder` and `Decided`, which hold only where no coroutine outlives its handler and (`Decided`) the web
  rejects nothing. The code assures neither, so `DoubleOrderNeedsOverlapHolds` is proved instead, without these conditions.

## 5. Where code and documentation disagree

With a run: **a five-minute candle is the wrong five minutes** (`five_minutes`).
A one-minute bar carries its first minute as its time and the five-minute bar
takes the bars with `start < time <= now` (`candle_builder.py:326-327`): the first
is missing and the one after is in. `candle_builder.py:322`: "Find 1m bars in the last 5 minutes".

The following statements are in the modules as well and TLC refutes them. They are
not among the runs, which are the ones expected to hold; the last column says how
to see the counterexample. Where it is "`Parts`", take `MCPlatform.cfg` or
`MCMarket.cfg`, set `Parts` to that part, and put the definition in place of the
invariants and properties.

| statement | what the code does | to see it |
|---|---|---|
| `RejectedNotOrdered` | `all_routers.py:628` writes REJECTED whatever the status; between the approval's commit (`execution_layer.py:533`) and its order (537) the user is told "rejected" and the order is placed. `execution_layer.py:473`: "Validates that the trade is still WAITING and not expired." | `MCPendingTradeReject.cfg` |
| `SquareoffTrue` | `engine_v6.py:610-614` returns after a rejected SELL; `worker.py:423` and `telegram_bot.py:200` count it as closed, `telegram_bot.py:206`: "Square Off Done" | `MCSymbolEngineSquareoff.cfg` |
| `ExitsItsInstrument` | `_book_profit` and the square-off sell `self.instrument_key` (`engine_v6.py:2719`, 609), which a reselection that looked before the entry may have changed; `_emergency_exit` (2848) passes the position's own key | `MCSymbolEngineKey.cfg` |
| `ConsentLetsStart` | with a consent row a start in AUTO mode raises NameError, because `bot_config_builder.py:225` uses `datetime` and lines 12-17 do not import it; the answer is "start failed" (`worker.py:305-306`). `bot_config_builder.py:232`, to those without one: "Please accept the daily consent in Settings before starting." | `MCExecutionRouterConsent.cfg` |
| `TrialStartedOnce` | `start_trial` looks at `trial_used` of an object that was loaded before, and writes the flag later: two logins at one time start two trials. `subscription_service.py:35`: "trials can never be restarted, extended, or reclaimed" | `MCBillingTrial.cfg` |
| `ExpiredIsPast` | the daily job selects rows and then expires each without looking at its end date again (`subscription_daily_job.py:52`): a row renewed in between expires | `MCBillingExpire.cfg` |
| `ServedWhileRunning` | with two starts, or a stop whose clearing thread is late (`shared_worker.py:192`), a user is registered and the symbol's services are gone | `Parts` = {"shared"}, `ShUsers` = {u1, u2}, `Loops` = {"worker"}, `MaxManagers` = 4, `MaxReboots` = 0, an invariant |
| `PauseHolds` | shared mode pauses `_MockEngine` objects made for the call (`shared_worker.py:283-300`); the manager goes on | `Parts` = {"execution"}, a property |
| `SwingsCountedOnce` | `underlying_market_structure.py:308` promises "consecutive HH + HL", but the count rises at every candle while the last two swings stand | `Parts` = {"underlying"}, `MaxFree` = 5, an invariant |
| `FedOnce` | the structure engine reads the last row in Redis (`market_structure_engine.py:47`), which is written every 60 ticks: a bar is fed twice, others never | `Parts` = {"candles"}, `MaxMinute` = 4, an invariant |
| `InstrumentFollows` | the direction is written before price and instrument are known (`engine_v6.py:859`); if either fails, the old instrument stays under the new direction | `Parts` = {"series"}, an invariant |
| `OneStream` | a streamer that is being made while `stop()` runs is connected afterwards, beside its successor (`market_data_service.py:3`: "ONE broker WebSocket per symbol") | `Parts` = {"feed"}, an invariant |
| `OneRefresher` | nothing renews the lock of a slow fetch (`option_chain_service.py:110`); two fetch, and the older analysis may be stored last | `Parts` = {"chain"}, an invariant |

Met while modelling, without a statement of their own. Engine, approvals and queue:

* `engine_v6.py:321` calls the limits "genuinely account-wide"; they can be
  overrun by the amounts `EntryBound` states, and a restart of the bot resets them (2889).
* With a handler that outlasts the command thread's 30 s (`worker.py:528`), two
  approvals of one trade can both pass the status check and both place an
  order: `AtMostOneOrder` fails with `Timeouts = TRUE`. The user is told "Approval failed" of an
  approval that may still place its order.
* A stop that the broker took and that was not verified within 5 s stays at the broker when the emergency exit has sold
  (`engine_v6.py:2645-2650`); a BUY or SELL whose answer is lost is taken for refused (2292-2300, 2358), so that a
  bought entry is given up and a sold position is sold again.
* `SIGNAL_GENERATED`, `SIGNAL_EXPIRED` on approval and `SIGNAL_APPROVED_FAILED` are
  flushed after the last commit of their session and never persisted, although
  `execution_layer.py:27` has every event logged.
* Commands that are trimmed or popped before a crash never complete, although
  `command_queue.py:13` says a queued command "will still complete".
* The shared consumer answers "unknown action" to approvals and rejections it
  happens to pop; `shared_worker.py:382` calls the two loops identical.
* No bot starts in AUTO mode (`ConsentLetsStart`), the AUTO executor never places an order (`execution_layer.py:337`), and a PAPER
  engine buys whatever the router answers, although the router is "the only component that decides".
* The SL_CANCEL alert (`engine_v6.py:2503`) is sent although the cancellation failed.
* A pending trade created while the engine's mode is not SEMI_AUTO is announced to
  nobody (`execution_layer.py:241` promises a notification).

Bot, shared mode, caches and relay:

* A symbol's thread of a bot dies unnoticed; the status says running until the last one
  ends. After a crash of the worker the database may say running for ever, and a late error report
  writes "error" over a bot that was started again.
* The shared worker's own subscriber keeps every symbol's count at one or more, so services are
  never cleaned up; `_restore_running_users` repairs Redis sets and starts no service, although
  `shared_worker.py:598-600` has market data, candles and indicators "resume immediately".
* A shutdown in shared mode removes the services' subscribers and leaves `_services_initialized` as it is
  (`shared_worker.py:355-375`); the orchestrator's consumer still runs, and a start it takes then
  begins no services.
* In shared mode SEMI_AUTO signals are not counted against the day's trades, `max_loss` is never
  reached, and a square-off places no order; a manager replaced in the middle of a signal may leave a position
  that nobody manages.
* An order's identifier is registered after the order is placed: a webhook in between finds no owner.
* `AdminConfigCache.refresh` stamps its time also after a failed load (`admin_config_cache.py:65`).
  The worker does not read `BillingCache`, although `billing_cache.py:6` says it does.
* An exit's event and the next entry's may be published in either order; a commit that fails loses row and event.

Market data and structure:

* Premium structure: a recovery that is CONFIRMED or ACTIVE outlives a change of character, its FAILED
  state is unreachable, and a failed pullback may be relabelled NESTED. Underlying
  structure: liquidity events are added anew at every candle, zones are never trimmed, patterns never expire.
* A bar is skipped when no tick falls into the boundary minute; bars since the last save are lost in a crash;
  the developing five-minute bar is fed as a new one each minute; the one-minute and five-minute indicators share one
  hash.
* In the premium structure a trend may outlive the level that protects it for the candle that
  breaks to its own side: `_update_trend` takes the new level from swings that the close may
  have passed (`market_structure.py:605-616`, 618-631). With windows 2 and 5 and closes
  12, 11, 10, 9, 8, 7, 8, 9, 10, 11, 12, then 3 six times, 2 five times and 4, the trend is BULLISH with
  `protected_low` 7 above the close. `TrendProtected` therefore excepts that candle.
* A failed break may go unmarked: the marking is skipped while either list holds no major swing
  (`underlying_market_structure.py:966`), and looks at the last five breaks where two may be added per candle. With the
  span of the code, `FailsWithin` = 5, TLC finds no such break (`NoFailureMissed`) if lists keep 30 swings (`Parts` = {"underlying"},
  `MaxFree` = 6, windows 2 and 3, `ChochLasts` = 8: 803,577 states), and finds one if they keep 3: the last major
  low is pushed out by minor lows before the candle that closes back.
* `publish_signal` looks for an "id" that no signal has, so nothing is recognised as a duplicate.
* Strategies of the shared mode read candles of the underlying where `engine_v6.py` reads the option's.

Billing:

* `next_sequence_number` "atomically increments" by reading and writing
  (`invoice_repository.py:47`); the constraint on the invoice's number makes the loser's whole transaction fail.
* Two finalisations may leave two current rows, and one renewal may be lost under another; a failed
  or rejected verification may overwrite a success; `pending_plan_id` holds one
  upgrade at a time, and the daily job activates it whether or not it was paid; a verified reward turns a paid
  period into a trial.

## 6. Plan

Done: the engine's order flow with approvals, queue, router and limits; the bot's life cycle,
shared mode, execution manager and orders; caches and relay; billing; market
structure, candles, option series, feed and option chain; and the proof of every safety and
action property of the runs but `AtMostOneOrder` and `Decided`, one refinement included (section 4). Left, in this order:

1. An abstract `Entitlement` (paid periods) that `Billing` implements where one finalisation
   runs at a time.
2. The paper book shared by a user's engines, whose order counter (`paper_trading.py:21`)
   is incremented without a lock.
3. The gates of the strategies and the selection of strikes, as operators with a reference definition.

## 7. Not modelled

* Indicators, the scores of option-chain analysis, ratings of levels and
  patterns: arithmetic on floating-point numbers in sequential code, which unit tests reach.
* Strategies: `SymbolEngine` and `UserExecution` take a signal as an input.
* Code that is present and not in use: the WebSocket gateway of the shared mode (never started),
  `fault_tolerance`, and the reference counter and `ComputationCache`, which only a health route
  and the monitoring read.
* Alerts, push and e-mail, formatting and browser rendering (output only); authentication and
  OAuth; campaigns and the administration's lists (CRUD); database migrations, scripts and the frontend.

The broker is external: it accepts or refuses an order, later fills or rejects it,
sends updates late, twice and out of order, may fail a cancellation, and answers a request for data or not.
So is Redis, of which the models use that a single command is atomic and that keys expire, and that published
messages reach only who is subscribed.

## 8. Running

```
tlc -workers 2 -config MCRiskTracker.cfg MCRiskTracker     # likewise the other runs of section 3
tlapm RiskTrackerProofs.tla                                # likewise the other *Proofs modules
```

`MCPlatform` and `MCMarket` check one part alone when `Parts` in their cfg names only that part. The
configurations of section 5 are run in the same way, and end with the counterexample they are there for.
