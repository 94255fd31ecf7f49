# A verification project for the trading agent engine

TLA+ models of the engine under `src/app`, checked with TLC on small instances
and, where the statement is one for every instance, proved with TLAPS. Read a
module next to the file its header names: actions are named for the method or
for the stretch of it between two awaits, and `PROJECT.json` ("map") gives the
lines of every definition.

Contents: 1 the system, 2 the plan, 3 the modules, 4 the runs, 5 fairness,
6 the proofs, 7 what is abstracted or left out, 8 where code and documents differ.

## 1. The system

A FastAPI process (`main.py`, `routers.py`) and a worker (`workers/runner.py`)
share Postgres, Redis and ClickHouse. Everything is `asyncio`: a handler runs
alone from one `await` to the next, and at each `await` any other handler, of
this process or another, may run, the call may fail, or the process may stop.
That is why every model takes one step per `await`.

| Component | State | Operations | Talks to |
|---|---|---|---|
| Order placement (`trading/.../place_order.py`, `order.py`, `postgres_order.py`) | table `trade_orders`, unique on `client_order_id`; per request the order in hand | `PlaceOrderService.execute`: look up, ask the gate, create, submit, save, apply the fill, save the position, publish | risk gate, gateway, position repository, bus |
| Positions (`portfolio.py`, `apply_fill.py`, `postgres.py`) | table `positions`: quantity, average entry, realized profit per symbol | `Position.apply_fill`, `get`, `save` (load, then insert or update of the columns that changed) | order placement |
| Order gateways (`paper.py`, `ccxt_gateway.py`) | none; the exchange has the order | `submit_market_order` | exchange |
| Risk gate (`risk/...`, `trading/infrastructure/risk.py`) | Redis keys `risk:kill_switch`, `risk:profile` | `check_order` (two reads, perhaps an event), `set_profile`, `kill_switch` (store, then publish) | bus; called by orders and by `POST /risk/check` |
| Reliability policy (`tooling/policy.py`, `http.py`) | per adapter: retry counter, breaker, limiter's last call, shared by its concurrent calls | `Policy.run` | vendors |
| Event bus (`bus.py`, `redis_bus.py`) | stream `domain_events`, consumer groups, handlers in memory | `publish`, `subscribe`, `consume_stream` | everything that publishes |
| Outbox (`outbox.py`, `redis_outbox.py`) | list of pending ids, events, set of dispatched ids | `append`, `next_undispatched`, `mark_dispatched`, `dispatch_pending` | bus |
| Improve loop (`workers/runner.py`) | best metric, stale rounds, round number, stop event | `run_forever`, `request_stop`, one round | market data, strategies, backtest |
| Backtest (`backtest/.../engine.py`) | of one run: capital, lots held, trades, peak, drawdown | `run`, `_simulate`, `walk_forward` | candle store, strategies, bus |
| Market data (`marketdata/.../services.py`, `candle_store.py`, `registry.py`) | table `market_candles`, replacing rows by key | `sync`, `ingest_raw`, `_dedupe`, queries | adapters, bus |
| Market data adapters | one policy each | fetch, translate payloads and errors | policy, vendors |
| Authentication (`auth/...`) | users, API keys; tokens hold their own claims | register, log in, refresh, resolve; create, look up, revoke a key | Postgres |
| Strategies (`strategies/.../manager.py`) | catalogue in memory | register, list, evaluate | bus |
| Signals (`signals/...`) | none | indicators by pandas | market data |
| Composition and lifecycle (`di.py`, `main.py`) | connections | start-up pings, registration of strategies | all |
| Connections; configuration and logging | drivers; settings | connect, ping | stores |

What is hard, and what makes each component correct:

* **Order placement.** Nothing spans its awaits: no transaction, no lock. Requests
  with one client id overlap, retries meet half-done work, a call may fail before
  or after its effect, a process may stop between the exchange's answer and the
  save. Correct: one order per client id, an acknowledged order is stored and
  every answer for its id is that order, a retry of a stored order changes
  nothing, nothing goes out that the gate did not approve, an event follows what
  it tells of, every request ends.
* **Positions.** Read, changed in memory and written back; and a long sequence of
  fills that add, reduce, close and flip. Correct: profit and cost account for all
  the cash, no entry price survives its lots, a row adds up recorded fills, each
  at most once; all of them, if requests for the symbol do not overlap.
* **Risk gate.** Switch and profile are read at two moments while operators change
  both; keys get lost. Correct: an approved order had, in the course of its check,
  the switch off and limits with room for it; a refusal had a reason.
* **Reliability policy.** Counter, breaker and limiter are shared by calls that
  run at once. Correct: retries are bounded, the limiter keeps its distance, an
  open circuit sheds, every call ends.
* **Market data.** Candles pass from a vendor through an adapter, a policy, the
  table and the stream, while the bars they are of still move and syncs overlap.
  Correct: what an adapter returns is what the vendor sent, whole, in order and the
  newest of it; what the vendor refuses is not sent again; a candle that was
  announced is in the table, as announced or later.
* **Event bus.** A consumer, once somebody starts one, reads, acknowledges, fails and
  restarts between any two entries. Correct: every entry is settled, and when one is not the consumer
  had it in hand as it failed.
* **Authentication.** Registrations, keys and tokens meet in two tables whose only
  guards are unique columns; a token carries what was true when it was issued.
  Correct: who registered can log in, whom an operator disabled is refused, a key
  is found until it is revoked and never after.
* **Improve loop.** Rounds fail anywhere and the stop request comes at any moment.
  Correct: it ends by itself, within a round when asked to, and its best is the
  greatest metric reached. **Backtest.** Correct: trades and capital explain each
  other, through any candles and signals.

`PROJECT.json` lists the hazards line by line, with the property that watches
each or the reason why none does.

## 2. The plan

Done, in this order: `Portfolio`, `PositionLedger`, `RiskGate`, `RiskChecks`,
`Trading` (which composes gate, positions, orders and gateways) with
`OrderRegistry` as its abstract specification, `Policy`, `Sessions`, `Backtest` and
`ImproveLoop` (which composes worker and engine), and `Vendors`, `EventStream` and
`CandleIngest` (which composes adapters, table and stream); with proofs about each
of the components.

Left, most useful first:

| What | Where | Properties or theorem |
|---|---|---|
| `walk_forward` and the drawdown | `Backtest` | folds against the whole; the drawdown is the greatest fall from a peak |
| partial fills and open orders against what was recorded | `Trading` | recorded fills against the exchange's, once a document says what they should be |
| an abstract key | a module over `Sessions` | as `OrderRegistry` is of orders: issued once, revoked once, and what a look-up may answer in between |
| the outbox | a module over `EventStream` | at-least-once delivery, when some code of the repository appends to it and dispatches it |

## 3. The modules

**`Portfolio`** is `Position.apply_fill` as an operator, `ApplyFill`, on integers:
quantities, prices and money in the last decimal of their columns. A quantity may be
a fraction, so quantity times price has more decimals than a column keeps: `Scale` is
how many of the last decimal make one (10^18 in the program), and a product is in
parts of 1 / `Scale` of the last decimal of money. `AveragedEntry` is the branch that
opens or adds, with the rounding of the column `average_entry_price` (`Rounded`, halves
away from zero); `ClosedProfit` and `RemainingEntry` the branch that closes, up to and
past a flip, with the rounding of `realized_pnl` (`RoundedSigned`) in `ApplyFill`.

**`PositionLedger`** applies any sequence of fills to one position and keeps, as
history, the cash that changed hands, the rounding allowed for and the prices
entered at. The allowance (`rounding`) is half a last decimal of the entry price for
each lot held after a fill that averages, and half a last decimal of the profit for
a fill that closes.

**`RiskGate`** is the gate without its callers. `BeginCheck`, `ReadSwitch`,
`ReadProfile`, `NotifyBreach` are the stretches of `check_order`; `SetProfile`,
`StoreKillSwitch` and `AnnounceKillSwitch` the operators' calls; `DamageKey` a key
that Redis lost or that no longer decodes, which `LoadedSwitch` and
`LoadedProfile` answer with the code's defaults. `window` records, per check,
what was in force at some moment of it. **`RiskChecks`** adds the two callers,
orders and the check route, whose amounts may be zero or negative; its
specification is `GateSpec`.

**`Trading`** is `PlaceOrderService.execute`. A request moves through
`lookup, gate, submit, save, position, load, commit, publish` to `ok, err` (an
`Err` result), `raised` (a 500) or `lost` (the process stopped). A command says
whether it goes to the paper gateway, which fills at once, or to ccxt, which sends
and waits. `CallFails` is a call that failed without effect, `AnswerLost` one that
took effect, `Crash` the end of the process, `VenueAccepts`, `VenueRejects` and
`VenueFills` the exchange. `LoadRow` and `CommitPosition` are the two halves of
`positions.save`; `Flushed` is SQLAlchemy's update of just the columns whose value
differs from the loaded one, so two writers can leave a row of two halves.
`settled`, `lineage` and `posted` are history.

**`OrderRegistry`** is what clients may rely on: per client id a register that is
written once; a client asks and is answered with the register or with a failure
that says nothing about it. `RegistrySpec` in `Trading` is that specification
under the mapping `Registry` (the table by client id), `AskedFor` and `Answers`.

**`Policy`** is `Policy.run` around a vendor. `Begin` and `Retry` take an attempt
up to its first await, through breaker and limiter; `Acquire` is the end of the
limiter's sleep; `VendorAnswers`, `VendorFails` (retryable), `VendorRefuses` (not),
`FailsUnexpectedly` and `TimesOut` are the ways the vendor call ends. Waits are
counted in ticks of what is left; the length of a jittered backoff is open.
`tries`, `joined`, `met`, `barred` (calls begun while the circuit was open), `late` and
`spacing` are history.

**`Sessions`** is `AuthService`, `CurrentUserService` and `ApiKeyService` over the
tables `users` and `api_keys`, with the routes that chain them. `Register`,
`Credential`, `Present` and `UseKey` bring a request to its first await;
`FindsName`, `SaveUser`, `LogIn`, `ReadUser`, `ReadOwner`, `StoreKey`, `FindKey`,
`LoadKey` and `CommitKey` are the stretches after it. `UserInsertable` and
`KeyInsertable` are the unique columns, `Verifies` what the JWT verifier asks of a
token (a role among it, which refresh tokens lack), `Disable` an operator at the
database, `Expire` time. `before` records what the tables held when a request
arrived.

**`Backtest`** is the account of one run of the engine as operators: `Bought`,
`Sold`, `Candle` (a candle and the strategy's signal), `ClosedOut` and
`FinalCapital`. Its histories say what the trades earned, what their lots gained in
price and what rounding may have taken.

**`ImproveLoop`** is `workers/runner.py` around it: `Connect`, a round from
`QueryCandles` to `PublishCompleted` with the backtest candle by candle (`Bar`),
`Record` at its end, `RoundFails` at any of its awaits, `WaitEnds`, `RequestStop`.

**`Vendors`** is what the adapters make of a reply: the error taxonomy, each
vendor's mapping from exceptions, statuses and error lists to it, and the rows and
quotes, whole or damaged, that become candles and tickers or an error. A candle is
the bar it opens, the bar its prices are of and how far that bar had come
(`at`, `of`, `version`), which is all the properties tell apart. `Picked` is a
comprehension that skips rows, `Ascending` a sort, `Latest` the last `limit` candles
as a slice cuts them, which for a negative limit drops the oldest.

**`EventStream`** is `redis_bus.py`: `XAdd` is `publish`; `CreateGroup`,
`ReadBatch`, `ReadFails`, `Ack`, `AckFails`, `Wakes` and `RestartConsumer` are its
consumer. Neither the worker nor anything else in the repository starts one
(`create_consumer_group` and `consume_stream` have no caller): `StartConsumer` is a
caller from outside, which may never come.

**`CandleIngest`** composes the two with the table. `Sync`, `Fetch`, `CreateTable`,
`Insert`, `Publish` are a sync; `IngestRaw` (of nothing, of a feed without a symbol, or
of a normalized feed), `Query` with `ReadRange`, and `FetchTickers` with `Quote` the
other operations. `Tick` moves the market, so that
two syncs see a bar at different moments. `offered` and `passed` are history.

Every module also holds, before the definition it bends, a *slip* for each
property: the same definition with a plausible mistake, which the property must
catch (`PROJECT.json`, "mutants").

`MCRiskChecks`, `MCTrading`, `MCSessions` and `MCCandleIngest` give values to the constants that a `.cfg` cannot
write down; `*_proofs` hold the theorems.

## 4. The runs

| Run | Bounds | Shows |
|---|---|---|
| `position_ledger` | quantities 1-3 in quarters (`Scale` 4), prices 1, 2, 7, five fills | books balance up to rounding, entries stay within the prices paid, flat means no entry price, profit comes from closing |
| `risk_gate` | two checks, two commands, one damaged key, three profiles (default, leveraged, negative limit), shares on both sides of and on each limit | halted checks refused, approvals within limits, refusals justified |
| `risk_gate_open` | the same | **violated**: a damaged switch fails open |
| `trading` | three requests, two client ids, one symbol, live and paper, one failure or crash, one operator command | the safety properties, under every overlap |
| `trading_registry` | the same, two failures or crashes, no command | the refinement: clients see a register that is written once |
| `trading_serial` | three requests, seven commands over two symbols and a blank client id, one request at a time per symbol, no failures | every recorded fill is in the positions, rows are whole, requests end |
| `trading_duplicate` | two requests, one failed call of the exchange or of a store | **violated**: two exchange orders for one client id |
| `policy` | three calls, three attempts, threshold 2, interval 2, timeout 1 | what the shared policy still promises: an open circuit sheds every call begun while it is open |
| `policy_attempts` | two calls, two attempts | **violated**: more attempts than `retries` |
| `sessions` | four requests, one name in two spellings, two long passwords and a short one, one key prefix, one mishap (failed call, lost answer, crash, expired token or disabled user) | registrants log in, disabled users are refused, keys work until revoked |
| `improve_loop` | closes 2, 3, 7, windows of up to four candles (two are enough for a backtest), capital 601, a fee of a tenth, plateau after two stale rounds, three rounds or no limit | best is the greatest metric, trades explain the capital, stops are prompt, the loop ends |
| `candle_ingest` | two requests of any kind, each vendor at 1h and Yahoo at 4h, every reply of its vendor with every damage a row of it can have, limits -1 (which cuts the oldest off), 0 (which cuts nothing off) and 1, two attempts, one tick of the market, batches of two, one mishap, a consumer that somebody starts at any time or never | adapters return what was sent, refusals are final, announced candles are stored, a started consumer settles the entries |

Why these bounds. Five fills reach open, add, reduce, flip and close in every
order; prices 1, 2, 7 make averages that round both ways, and quantities in
quarters make profits that do. Two checks suffice for
the gate, whose checks share nothing but the stores; two commands let a switch go
on and off, or a profile change twice, between two reads. Three requests give two
that collide and a retry of either; with one symbol for all of them every fill
competes for one row, and one failure or crash can hit every await. Three calls
are the fewest in which one call backs off while another ends and a third resets
the counter; with threshold 2 the circuit opens while a call waits for the
limiter, and with interval 2 and timeout 1 sleeps outlast vendor calls.
Four requests of `sessions` are the longest
chain, register, create a key, revoke it, look it up, and also two colliding
registrations with a log-in and a token's use; a second name or prefix would only
add requests that cannot meet. In `improve_loop` two candles make a trade, three a
trade and a close-out, four two trades; 601 does not divide by 2, 3 or 7, so that
every purchase rounds, and a plateau of two lets a failed round stand between two
others. In `candle_ingest` one tick makes one bar move from open to closed and a second
one open, which is what an overtaken sync has to fall behind of; two requests are
one that overtakes and one that is overtaken, two attempts one retry.
`MaxPerSymbol`, `MaxFailures`, `MaxCommands`, `MaxDamage`, `MaxFills`, `MaxMishaps`,
`MaxTicks`, `MaxCandles` and `Horizon` (the number up to which rounds are counted;
the loop runs on beyond it) are the only bounds in guards, and the theorems hold
for every value of them.

All runs say `CHECK_DEADLOCK FALSE`: requests, checks, calls and fills are finite
in number, the worker goes down, the consumer has read all there is, and then the
system rightly stops. That nothing stops earlier is what `RequestsEnd`, `CallsEnd`,
`LoopEnds` and `EntriesAreSettled` say.

`trading`, `trading_registry`, `trading_duplicate`, `sessions` and the two gate runs
use symmetry in the requests or checks (in `sessions` also in the spellings and
the long passwords), which no constant tells apart; no run with a liveness property
does.

## 5. Fairness

`Trading!Fairness`: an `await` whose answer is there resumes (weak fairness of
`Serve`), the exchange accepts or rejects what it was sent, and a stored kill
switch is announced. Nothing is assumed of clients, operators, or failures: those
actions may never happen, and the run without failures asks that requests end of
themselves. `Policy!Fairness`: the event loop's clock advances, sleeps end and
`wait_for` fires when its time is up; the vendor need never answer, and calls end
all the same because every adapter configures a timeout.

`ImproveLoop!Fairness`: whatever the worker awaits is answered or fails, and the
wait between rounds is over some time. No signal need arrive, no round need
succeed and no metric need improve. `CandleIngest!FairSpec`: the awaits
of a consumer that runs end. That one runs is not assumed, since no code of the
repository starts one: `EntriesAreSettled` speaks of the entries once a caller has.
Nothing is assumed of requests, the vendors, Redis succeeding, or a restart.

## 6. The proofs

For every value of the constants, under the named assumptions next to them (which
TLC evaluates too):

* `Portfolio_proofs`: the operators. `RoundedIsNear` bounds an averaged entry's
  error by half a unit per lot, `RoundedSignedIsNear` that of a profit by half a unit, `AveragingFill` and `ClosingFill` say what a fill
  does to the books, `ApplyFillIsAPosition` that it yields a position.
* `PositionLedger_proofs`: `TypeCorrect`, `FlatNeverHasEntry`, `BooksAlwaysBalance`,
  `EntryStaysWithin`, `ProfitComesFromClosing`.
  The balance is not inductive by itself, since profit is reckoned from an entry
  price: `IInv` adds that an open position has one. The bounds of the entry follow
  because rounding does not carry a quotient past a whole bound of it
  (`RoundedWithin`).
* `RiskGate_proofs`, about `RiskChecks`: `GateTypeCorrect`, `HaltsAreObeyed`,
  `ApprovalsRespectLimits`, `RefusalsHaveReasons`. `GateInv` says that the window
  of a running check contains what it could read now (`Watched`) and what it has
  read (`Justified`). The lemmas are about single steps, so `Trading`, which takes
  the same steps, uses them as they are.
* `Trading_proofs`: `TradingTypeCorrect`, `ClientIdsAreUnique`,
  `AcknowledgementsHold`, `RetriesAreIdempotent`, `NothingPassesTheGate`,
  `EventsComeLast`, and `OrdersAreRegistered`, the refinement. `TradingInv` ties
  the stage of a request to what it wrote (`Tracked`), keeps retries at the lookup
  (`Retried`), carries the approval along (`Approved`), and says that a loaded row
  is still there (`Loaded`). `OthersKeepTrack` shows once that a step of one request
  keeps what is known of the others; then there is a lemma per action. For the
  refinement each action maps to `Ask`, `Write`, `Answer`, `Fail` or a stutter;
  uniqueness is what makes `Registry` well defined and a written register stay.
  `SerialRowsAreWhole` and `SerialBooksMatch` assume that `MaxPerSymbol` is 1 (and the
  second that `MaxFailures` is 0): `SerialInv` says that what a request holds for its
  symbol is the fill of the row as it stands, so that the update of single columns
  writes the row of its own fill, and `BooksInv` that every recorded fill is in the
  row or with the request that is about to write it. Of
  requests that overlap neither is claimed: two writers of a row can lose a fill and
  leave a row of two halves. What holds of these too is `PositionsAddUp`: fills may be
  missing from a position, but none is invented or applied twice. `SumsInv` says that
  the row of a symbol (`RowAddsUp`) and what each request is about to write of it
  (`WorkAddsUp`) are sums of recorded fills. Its lemmas are about sums over finite sets
  (`SumIsInt`, `SumWithout`: the order of summation does not matter), by the least
  cardinality of a set of which they fail.
* `Policy_proofs`: `PolicyTypeCorrect`, `RetriesAreBounded`, `OpenSheds`,
  `AloneRetries`, `AloneKeepsItsRate`. `PolicyInv` relates the
  attempts of a call to the shared counter: it has made at most what the counter
  says, plus `Retries - 1` for each time it was reset under it. `LateInv` says that
  a call begun while the circuit was open never gets to the limiter, and one that was
  late is past it for good, `AloneInv` that while a call
  has met no other the counter counts its attempts and nobody moves the limiter
  under its sleep.
* `Sessions_proofs`: `SessionTypes`, `RegistrantsLogIn`, `DisabledRefused`,
  `KeysWork`, and `RefreshAlwaysFails`, which no test of the code says: whatever
  the order of calls, no refresh is ever answered with tokens. `IInv` adds what the
  rows have in common (ids are requests that got so far, names and prefixes are
  unique), that nothing of a row but its flag changes and rows stay, and that
  what stood when a request arrived still stands; there is one lemma per action.
* `ImproveLoop_proofs`: `LoopTypes`, `BestGreatest`, `TradesExplain`, `StopPrompt`,
  for all prices, fees, limits and lengths. What a trade and its close-out do to
  the books are lemmas about `Bought`, `Sold` and `Result`, with the rounding of each
  division bounded; `IInv` adds that the account fits the stage of the round and
  that stale rounds stay below the plateau while the loop runs.

* `CandleIngest_proofs`: `IngestTypes`, `FetchesAreWhole`, `AnnouncementsAreStored`,
  `RefusalsEnd`. First come the operators: `AscendingIs` says that a sort is one,
  the lemmas about `Good` that filters, reversals and slices keep candles in order
  with the newest among them, and the theorem `AdaptersAnswer` that so an attempt ends with
  such candles or with a code of the taxonomy. It is about replies of any number of
  rows, where `Offers` stops at three. The properties are not
  inductive by themselves. `IngestInv` adds what the stage of a request says of
  it (`Staged`, `Refused`, `Quoting`, `Counted`), that the candles in its hand are in
  order and as the vendor had them (`Carried`, `Newest`), and, since a row is replaced
  by whoever appends last, what the requests have of each other's candles
  (`Announcements`): a request that has fetched holds none older than what was
  announced, unless the one that announced it appended after that fetch
  (`NotOlder`), and an announcement is stored from the moment it is appended, before
  it is sent (`Stored`). A step of one request leaves the parts about the others
  alone (`Same`), so there is one lemma per action and part.
  Three more theorems, of properties that no run lists, follow from the same invariant
  (each was checked by TLC with the bounds of `candle_ingest` before):
  `EntriesAccounted`, that the consumer passes over no entry: each one Redis gave it
  was acknowledged, is in its hand, or was when it failed; `SuccessAnnounced`, that a
  sync or feed answered with success has all its candles on the stream, for
  which `Telling` counts how far a feed has come; and `RowsStayCurrent`, an action
  property: a row goes back to an older state of its bar only by a request that fetched
  before the replaced row was appended. `Rows` is its invariant.

Only model-checked: liveness (`RequestsEnd`, `CallsEnd`, `LoopEnds`,
`EntriesAreSettled`), which is out of the prover's reach, as are `ENABLED` and what a
recursive definition computes for every input. The violations of section 8 are
counterexamples, found by TLC and stated by no theorem.

## 7. Abstractions, and what is left out

* Decimals are integers in a last decimal: a fill has at most the 18 decimals its
  columns keep, in quantity and price. The rounding of the columns for the entry
  price and the profit is modelled, and so is that of the paper price; the 28
  digits to which `Decimal` rounds a product or quotient before a column does are not.
  A position is compared with the loaded row (`Flushed`) by its rounded values, where
  SQLAlchemy compares the values before rounding: a column whose new value rounds to
  the loaded one counts as unchanged, which writes the same number or leaves it.
* The share of equity the gate compares is kept as numerator and denominator.
* A request's id stands for the uuid of the order it creates.
* A failed call of the exchange (`VenueTimesOut`) leaves open whether the exchange
  has, or will have, the order.
* `NotifyBreach` is no step of `Trading`: an order within a limit exceeds one and
  a half times that limit only if the limit and the order's share are negative,
  and orders have positive shares and no daily loss. `RiskChecks`, whose check
  route takes negative amounts, covers it.
* `get_live_place_order_service` reaches an unknown name
  (`trading/presentation/dependencies.py:56`), so live orders are modelled at the service, not at the endpoint.
  `ApplyFillService` is modelled by the `apply_fill` it calls.
* `CircuitBreaker.reset` has no caller and is no action: an open circuit stays open.
* In `Backtest` a division rounds down to the last digit, where Python keeps 28
  digits and rounds half to even. Rounded down, what the trades do not explain is
  never negative; rounded half to even it may fall below zero as well, by at most
  what the bound allows above. The win rate is in whole percent. Drawdown and `walk_forward` are not modelled.
* In `ImproveLoop` the strategies answer anything: `StrategyManager` is bound to a
  store that has neither `put` nor `all`, so what it would hold is not determined.
* In `Sessions` a hash is the text it verifies and the text of a key is the key. The
  `TokenPair` that log-in returns has slots, so the route that reads its `__dict__`
  raises; what the service issued is modelled. `list` of keys only reads. The
  argument of `lookup` is taken to be the text whose hash was stored, although the
  `secret` the route shows is only a part of it.
* In `CandleIngest` the attempts of a fetch are its own; that calls of one adapter
  share the counter, and meet breaker and limiter, is `Policy`. A candle's numbers
  are abstracted to the bar they are of, and a row's damage to its kind (a null, a
  missing field, an unreadable number, too few fields). `fetch_tickers` has no
  caller in the repository and is modelled at the port, with the status
  `http_status_for` would answer. Authorisation of the routes is left out.
* The service of `CandleIngest` is modelled at an adapter, as its port and its tests
  have it. As composed it gets none: `di.py:65` binds `MarketDataSource` to
  `MarketDataSourceFactory` (`providers/registry.py:47`), which has no `fetch_candles`,
  so that a sync raises `AttributeError`.
* `ingest_raw` assumes normalized input, says its docstring (`services.py:86`): a feed
  is taken to be of whole candles in ascending order.
* The consumer of the stream is modelled although nothing in the repository starts
  one; whoever does is `StartConsumer`.
* No handler is ever subscribed, so that `publish` delivers to none in the process.

Not modelled, and why:

* **Outbox**: bound in `di.py` and used by nobody; no code appends to it or
  dispatches it, and `next_undispatched` reads keys `append` does not write.
  A model of it would be of callers that do not exist.
* **Signals**: numeric indicators by pandas, no state and no control.
* **Composition and lifecycle**: wiring; the start-up registers the built-in
  strategies with a store that has no `put`, so the lifespan as composed raises.
* **Connections; configuration and logging**: thin wrappers over drivers, values
  and formatting.

## 8. Where code and documents differ

Each is a run that TLC must find violated.

* `risk_gate_open`: `docs/SECURITY.md:44` and `risk/application/services.py:1` call
  the gate fail-closed; a kill switch that is lost or does not decode reads as
  inactive (`redis_store.py:54`).
* `trading_duplicate`: `docs/SECURITY.md:47` promises order dedup; two overlapping
  requests with one client id both reach the exchange (`place_order.py:31`), and
  only the later save fails.
* `policy_attempts`: `docs/INTEGRATION-ARCHITECTURE.md:150` promises a maximum of
  attempts; the counter is a field that concurrent calls share and reset
  (`policy.py:30`). How far it can go is `AttemptsBounded`, proved.

Seen while modelling, and part of the models where a part they cover is concerned,
but without a run of their own: no line of the repository disputes them, or they lie
outside the modelled parts, or a theorem says more than a run would:

* Policy: no half-open circuit (`INTEGRATION-ARCHITECTURE.md:151`); timeouts become
  retryable errors that are neither retried nor counted by the breaker; two calls
  that wait for the limiter together leave together.
* Orders: a partial fill is recorded as a whole one (`ccxt_gateway.py:30`).
* Authentication: a refresh always fails, for its token lacks the role the verifier
  asks for, where `scripts/api_smoke.py:66-71` expects a 200 (the theorem
  `RefreshAlwaysFails`); the `secret` a new key is shown with is not the text a lookup needs; a
  disabled user's key still passes `lookup`; the check of the signing secret's
  length never runs (`jwt/manager.py:32`).
* Backtest: `final_capital` counts lots that were closed out once more
  (`engine.py:126`); `TradesExplainCapital` holds of it less that amount.
* Adapters: Kraken's `fetch_candles` takes the reply apart where the candles are not
  (`kraken/adapter.py:54`) and always reports malformed data; Binance's tickers ask
  for `closeTime`, which ccxt does not send, and are never read
  (`binance/mapping.py:41`); Binance's refusals are classed as outages and sent
  again, where `INTEGRATION-ARCHITECTURE.md:175` says they are not, which is why
  `RefusalsAreFinal` excepts Binance; a row of Binance that is short, or whose time is
  no number, counts as an outage;
  Twelve Data's volume is converted outside the `try`.
* Market data: a sync as composed has no adapter to ask (section 7); a sync that fetched earlier and appends later puts an older state of
  a bar back (`AnnouncedIsStored` excepts just that); `SyncSummary` never counts a
  duplicate; `get_candles` does not use its `limit`.
* Stream: nobody starts the consumer; entries carry no `type`, so that the consumer hands out none and
  acknowledges all; the failure to create the group is suppressed, and without a
  group every read fails until a restart; an entry read and not acknowledged is
  never read again.
* Worker: a connection that fails half-way is not disconnected.
