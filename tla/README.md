# Verification of the design-system services

This directory holds TLA+ models of the Go services in this repository, the TLC
configurations that check them, and theorems about them with proofs for TLAPS.
Every definition is translated from the code; `PROJECT.json` maps each one to
its lines, lists the hazards of the code, the runs, and a mutant for every
property: the code with one plausible bug, which the property must notice.

Check a run with `tlc -workers 2 -config MCSales.cfg MCSales` and a
proof with `tlapm FlashSaleProofs.tla`.

## The system

The repository is a set of independent HTTP services in Go (gin), each built as
handler, service, and storage in Redis or in memory. They do not call one
another: the checkout saga names the inventory service in a comment, not in a
call. What makes them hard is inside each: requests are goroutines that issue
Redis commands one by one, Redis runs a command or a Lua script atomically, and
in-memory services share maps and channels between goroutines.

| Component | State | Operations | Hard behaviour |
| --- | --- | --- | --- |
| flash-sale checkout | Redis: total and bucket counters, idempotency locks and results, slot count and session keys, reservation hashes, waiting room | checkout, release, queue and slot status, product init | a dozen commands per call; failures whose errors are ignored; locks and sessions that expire; releases that repeat |
| flash-sale lottery | Redis: entries, winners, drawn flag, tokens | enter, draw, result, checkout by token | check-then-act on the flag and on the token; draws that repeat |
| inventory-service | Redis: stock counters, reservation hashes | reserve several items, release, confirm, reaper, set stock | rollback over a shared hash; confirm and reaper are not atomic; time to live |
| checkout-service | memory: orders; Redis: locks, results, webhook marks; a channel | checkout saga, webhook, get order | compensation order; lock shorter than the work; mark before effect; full channel |
| dispatch-service | memory: drivers, orders, assignments; two channels | create order, batch, match, accept, reject, retry, stop | driver state written with and without the lock; stale snapshots of idle drivers; retry goroutines |
| tracking-service | memory: connections, throttle, filters, pipes and subscribers | websocket ingestion, SSE fan-out | reconnects, slow streams, full buffers |
| chat-system | memory: rooms, clients, history; channels | join, replay, send, leave | a channel closed twice; a full channel; a gap between replay and join |
| web-crawler | memory: jobs; two bounded channels | start, work, close, collect | closing a channel that workers still use; everyone waiting |
| promo-engine | Redis: three counters per rule; rules in memory | create, validate, apply | check, then reserve; counters that expire; scripts that fail |
| rate-limiter, unique-id-generator | windows, buckets, a clock | allow, next id | boundaries of windows; clocks that go back, restarts, shared worker numbers |
| pkg/consistenthash, key-value-store | a ring, maps | add, remove, get; put, get, delete | hashes in common |
| pricing-service | Redis: locked fees; memory: surge per area, elasticity window | quote a fee | lookup and lock are apart; the decay of the surge |
| eta-service, geo-service, forecasting-service, search-service, search-autocomplete | caches, two maps, a ring of errors, a catalogue, tries | estimate, check a point, daily run, search, complete | stale caches; maps read one after the other; pages of a changing result |
| notification, news-feed, url-shortener, google-drive, youtube | maps and slices, some under a lock | send, post, follow, shorten, store, watch | objects used outside the lock, appends without one, exists-then-save |
| pkg/kit | breaker, metrics, HTTP wiring | execute, increment | concurrent probes; a lost first increment |
| distributed-cache, pkg/bloomfilter, pkg/ratelimit | none | none | empty stubs |

What makes the main ones correct:

- flash-sale: never sell more than the stock, never return a unit twice, keep
  the total the sum of the buckets; one purchase per idempotency key while its
  lock lives; one slot for each session inside the pool, given back exactly once by
  every path that gives up; an answer that matches what is stored.
- lottery: draws that overlap choose no more winners than they were asked for
  together, a draw that has answered served everyone it chose, and every unit taken
  is reserved, in hand, or lost to a known failure.
- inventory: as flash-sale, per SKU; a failed reserve leaves nothing taken.
- checkout-service: steps before the failed one are compensated in reverse;
  nobody pays for stock that is not held; events keep their order; a webhook is
  effective.
- dispatch: no order is in two places or lost before it is matched, one order per
  driver, every order leaves the pipeline.
- tracking and chat: what a client sees is in order and, while it keeps up,
  without gaps; sessions are cleaned up; a closed channel is closed once.
- crawler: every crawl ends, and the queue is not closed under a worker.
  Promotions: limits hold. Limiter: limits hold over
  any stretch of time. Identifiers: unique and growing.
- the others: what a caller was told stands, or is there when it asks again,
  except where requests overlap in code that does not lock.

## Modules

| Module | Role |
| --- | --- |
| `StockLedger` | abstract specification: claims take whole amounts of a stock and give them back at most once |
| `StockLedgerProofs` | the ledger conserves stock, for all instances |
| `FlashSaleCheckout` | `services/flash-sale`: checkout and release of one product |
| `FlashSaleLottery` | `services/flash-sale`: enter, draw, checkout by token |
| `Inventory` | `services/inventory-service`: reserve, release, confirm, reaper, one hub |
| `CheckoutSaga` | `services/checkout-service`: idempotency, saga and compensation, webhook, outbox |
| `Dispatch` | `services/dispatch-service`: collector, matcher, accept, reject, retries, state machine |
| `Crawler` | `services/web-crawler`: one job |
| `Tracking` | `services/tracking-service`: one driver's connections, order pipes, streams |
| `ChatRoom` | `services/chat-system`: one room |
| `PromoRules`, `Promo` | `services/promo-engine`: what a rule says; validation, application and counters |
| `RateLimiter` | `services/rate-limiter`: three algorithms |
| `Snowflake` | `services/unique-id-generator`: generators of several processes |
| `Pricing` | `services/pricing-service`: price lock, surge, elasticity window |
| `Eta`, `Geo`, `Forecast`, `Search` | the estimates, the hubs, the nightly forecast, the catalogue with its two tries |
| `HashRing`, `KeyValue` | `pkg/consistenthash`, and the key-value store that builds on it |
| `ShortLinks`, `NewsFeed`, `Drive`, `Videos`, `Notifications` | the services that keep records in memory |
| `Breaker`, `Metrics` | `pkg/kit`: circuit breaker, lazily made counters |
| `MCFlashSale`, `MCFlashSaleLottery`, `MCInventory`, `MCCheckoutSaga` | constants for TLC |
| `MCSales` | the flash-sale checkout, the lottery and the inventory in one specification |
| `MCWorkers` | dispatch, the crawler and the checkout saga in one specification |
| `MCServices` | the other services in one specification |
| `FlashSaleProofs`, `LotteryProofs`, `InventoryProofs`, `CheckoutProofs` | the theorems about these four |
| `WorkersProofs` | `Dispatch`, `Crawler`, and what `MCWorkers` adds to them |
| `TradeProofs` | `Promo`, `RateLimiter`, `Snowflake`, `Breaker`, `Pricing`, `Eta`, `Geo`, `Search`, `Forecast` |
| `ServicesProofs` | `Tracking`, `ChatRoom`, the services that keep records, and `MCServices`, which has them all |

### FlashSaleCheckout

`pc[c]` is the next Redis command of checkout call `c`; every command or Lua
script is one action (`CheckIdempotency` is the SETNX, `ReadCached` the GET,
`TakeStock` is `luaBucketDecr`, `TakeSlot` is `luaSlotAcquire`, `GiveBackStock`
is `luaRelease`, `DropSlot` the pipeline of `ReleaseSlot`). All calls interleave.
`CommandFails` is a command that fails without effect and `AnswerLost` one whose
effect took place; `Fails` says what the code does with the error, which is
often nothing. `Dies` ends the process of a call; what is in Redis stays.
Expiry is possible at any moment. The attestation and the sliding-window limiter
are choices: whatever they answer, the rest must hold. A release is only made
for a reservation that a client was told of, as often as there are `Returns`.

### FlashSaleLottery

A draw is a record of its program counter and locals. The flag is read, the
entries counted, winners sampled, and then one pipeline stores winners, tokens
and flag. The service then takes a unit for each winner it got back, which for a
draw that found the flag set are the stored winners; two draws that overlap may both
find it unset and both choose. The bucket search is
abstracted to the total: with quantity one some bucket has stock exactly when
the total is positive, which `CountersAgree` shows in `FlashSaleCheckout`.
A command may fail with or without its effect, the pipeline may break off after
any of its commands, and the process may die between two. The code skips a
winner whose unit could not be taken and does not look at the error of
`CreateReservation` (the action is `CreatePrizeReservation`, the reservations are
`prize`); the history variable `mishap` remembers which winners a
failure hit, so that `UnitsAccounted` and `WinnersServed` excuse those only.

### Inventory

`hash[r]` is the one reservation hash of request `r`: every item of the request
writes it, so it describes the last item reserved. `Rollback` runs the release
script for the items reserved so far, as the loop in `service.go` does. `stray`
is the counter the reaper credits, under a key no hub reads; the reaper is an
exported operation that the service does not schedule. `taken` and `gave` are
history variables, which nothing reads but the properties.

### CheckoutSaga

`pc[r]` is where request `r` is: in the middleware (`GetResult`, `TryLock`), at a
saga step, at a compensation (`undo...`), or at its answer; `hpc[w]` is the same
for a webhook delivery. `SagaOrchestrator.Execute` is the chain of steps, and a
step that fails goes to the compensation of the step before it.
`did[r]` records what the inventory and payment services were told: in the code
these calls are log lines that stand for them, so the services are external and
`MayFail` says whether they may refuse; `ConfirmOrder` fails by itself when the
order is gone from the map. The map has no lock: an insertion is two
steps, insertions that overlap may lose entries, a lookup beside an insertion
may miss, and a process killed by the runtime is a `Crash`. `Send` blocks on a
full channel and `ConsumeOutbox` is the goroutine that drains it. A failed Redis
command, with or without its effect, lets the request go on, as `repository/redis.go`
does. `sent` and `consumed` count events and are read only by the properties.
Malformed bodies and signatures are refused before any state is touched and are
left out.

### Dispatch and Crawler

`Dispatch` follows an order through its places: the `orders` channel, the pending
batch, the batch being sent (`out`), the `batches` channel, and the matcher.
`WindowEnds` is the collector's timer, `Stop` the shutdown, after which
`LastFlush` sends what is pending and requests may still block on the channel.
The matcher takes a snapshot of the idle drivers (`BeginMatch`), writes a
driver's status directly (`MatchPair`) and records the assignments under the
lock (`Record`). Accept, reject and each retry goroutine are steps that
interleave with it; `Move` is `DriverStateMachine.Transition`, which checks the
table; the log of events that it appends to is read by no code and is left out. Scores are abstracted: any pair may be the best.
`booked` and `disturbed` are history: which orders count on a driver, and the
drivers a stale snapshot or a stale request touched. `Crawler` has one program
counter per worker, the two bounded channels, and the goroutine that closes the
queue after two seconds; a send on the closed queue ends the process.

### Tracking and ChatRoom

A read loop of `Tracking` moves through validation, recording, smoothing and
publication with the locks taken and given up where the code does. A reconnect
closes the old socket, whose loop goes on to `Unregister` whatever connection is
registered by then. `Consume` is the pipe's consumer, which pushes to all
streams under one lock and skips those whose buffer is full. In `ChatRoom` the
room's goroutine owns `members` and `history`; `serving[c]` is the handler of a
client with the messages it still has to replay, `pump[c]` the goroutine that
writes to the socket. A client whose channel is full is dropped and its channel
closed; when it leaves, the channel is closed again, and a panic in the room's
goroutine ends the process.

### PromoRules, Promo, RateLimiter, Snowflake

`PromoRules` evaluates condition trees and effects and translates the condition
JSON both ways; a tree is a sequence of nodes, because a module with proofs must
not reach a recursive operator. `Promo` reads the counters of each rule (`CheckAllLimits`),
resolves groups and stackable rules, and reserves with the script of
`redis.go` (`TryReserve`), one Redis command at a time. Amounts are integers,
limits and values below zero are left out. `RateLimiter` runs each algorithm on
one key; tokens are counted in parts of 1/Window. `Snowflake` has the clock of
each process, which may step back, restarts that forget the last stamp, and a
worker number that several processes may share.

### The other services

`Pricing` computes a fee in the steps of `Calculate` with nothing held in
between; the regression slope and the distance are choices. `Eta` takes for
each of three parts the estimate or, after the timeout, the fallback, and caches
the result; the travel part is multiplied by the mean of what deliveries of the last
15 minutes showed (`Observe`, `ObservationLeaves`), itself cached, and each of its
commands may fail. `Geo` keeps hubs in a map and a list and remembers a hub per cell,
which registering a hub again does not change.
`Forecast` has the semaphore, the two maps with their nested locks, and the ring
of errors; the forecast is a choice. `Search` is the pipeline of one query over
a catalogue that grows between pages, and the suggestions of both tries. Its sorts are
not stable, and prices, popularities and names may be equal, so `Results` is the set
of the lists that a search may answer, and each page is taken from any of them; only
texts are all different, as keys of a trie are.
`ShortLinks`, `Drive`, `Videos`, `Notifications` and `Metrics` split their
requests where the code gives the lock up or has none; `NewsFeed` and `KeyValue`
are sequences of locked operations. History variables (`clashed`, `contested`,
`disputed`, `changed`, `overlapped`, `twins`) mark the requests that overlapped
there, and the properties say that nothing else goes wrong.

## Runs

| Run | Expect | Shows |
| --- | --- | --- |
| `sales` | pass | checkout, lottery and inventory keep their stock: seven properties of checkout and release; units and winners of concurrent and repeated draws; exact rollback and one give-back of reserves; checkout and inventory implement the ledger |
| `flash_sale_duplicate` | violation | a retry after the lock expired buys twice (`flash-sale.md:183` says it does not) |
| `flash_sale_slots` | violation | a repeated release gives a slot back twice (`store.go:267-269` says that is harmless) |
| `flash_sale_session` | violation | a session that is inside already is given a second slot (`store.go:252-253` says the attempt is undone) |
| `lottery_redraw` | violation | a second draw reserves again (`store.go:321-322` says it is a no-op) |
| `inventory_rollback` | violation | a cart of three items rolls back to the wrong stock (`service.go:42`) |
| `workers` | pass | dispatch: orders are in one place, one live order per driver, every order leaves the pipeline; crawler: every crawl ends, or its process dies; checkout saga: failed sagas are undone in full and in order, cached answers and confirmations are genuine, events keep their order, everyone is answered |
| `checkout_webhook` | violation | a webhook that overtakes its saga is marked, refused, and lost for good (`repository/redis.go:84`) |
| `crawler_close` | violation | the queue is closed while a worker sends on it, and the process dies (`crawler.go:132` says that closing signals workers to stop) |
| `services` | pass | eleven properties of the eighteen other services |
| `services_cells` | violation | a cell goes on answering a hub after that was registered elsewhere (`geo-service.md:138` says its keys are invalidated) |
| `surge_decay` | violation | past the decay window a falling load keeps the old multiplier (`surge.go:27` says it has the new one) |

Composition. `MCSales`, `MCWorkers` and `MCServices` check components that share
nothing in one specification: `active` is chosen in the initial state and only that
component moves, so the state spaces are added and not multiplied. That is exact: no
property relates two of them, and no code does, but for one thing left out:
the lottery and the checkout of the flash sale take from the same counters, and a product
sold both ways at once is not modelled. In the first two `InTurn` lets actors that
differ only in their names begin in a fixed order, which removes permutations of
behaviours and nothing else. A property that begins
with `active = ...` is the property of that service's module. `ServicesTypeOK`,
`QuotesStand` and `RecordsAgree` collect properties by service:

| Collected in | Service: property |
| --- | --- |
| `QuotesStand` | pricing: `LockedFeeStands`; eta: `EtaSticks`; geo: `CacheReaches`; forecast: `ForecastsAgree`; search: `PagesMissNothing` |
| `RecordsAgree` | links: `LinksStand`; key-value: `KeysInPlace`; metrics: `CountsShown`; feed: `TimelinesComplete`; drive: `DriveConsistent`; videos: `ViewsCounted`; notifications: `NotificationsKept` |
| `ServicesTypeOK` | the types and capacities of each, and `ClosedIsHealthy` of the breaker |

Pure operators are checked by the ASSUMEs at the end of `MCServices`, which TLC
evaluates: a condition that was stored and read back accepts the same carts, the
imputation of stockouts, and what a node that joins or leaves does to a ring.

Bounds. In `sales` the checkout has three calls, two of which are the same request
sent twice and one which wants two units; two releases, which may name the same
reservation; three units in two buckets, so that buckets run out one after the
other and a quantity of two may fit no bucket; two slots, so that three calls
contend for them; one fault and one expiry of each lock. Two calls are enough
for every race between a call and its retry, and the third is there for another
user's stock and slot. The lottery has two draws that want different numbers,
two users, one checkout by token, stock for both users but not for both draws, and
one fault; `lottery_redraw` has none, so that it refutes its comment without any. The
inventory has two requests that cannot both have the SKU they
compete for and a third with two items, one fault, one client that confirms and
an admin who takes the last SKU off sale, so that the third request may fail on
its first item, on its second, or not at all. `inventory_rollback` needs a cart of three:
with two, the shared hash still describes the only item to return
(`ShortRollbackExact`).

In `workers` the saga has the same request sent twice, so that two sagas run only when
the lock is lost; two deliveries of the webhook of the first order; a channel of one
event (100 in `main.go`), so that senders block; and two mishaps in any mix: a failed
command, an expired key, a crash. Two mishaps let the second saga start and
something go wrong with it. `checkout_webhook` needs no mishap.

Dispatch has two orders and two drivers, one of them off duty at first, channels
of one (1000 and 100 in the code) so that sends block, batches of two so that the
window must flush a batch of one, and either an accept, a stop and one reject, or two
rejects, so that a retry races a match, an answer and another reject. The crawler has four pages that link in a
cycle, three workers and at most two pages, so that the results fill while
workers still offer links.

`services` gives every component two or three actors, which a race needs, and
capacities of one or two where the code has 32 to 256, so that they overflow:
two connections and one stream with a buffer of one, two chat clients and a
history of two, two promotion requests of one buyer over two days, rules with
and without limits, three short links on two codes, three breaker callers
against a threshold of two, two forecasting runs that share a pair. Counters
that grow for ever are bounded by the constants named `Max...` and `Last...`,
each in the guard of the action that counts. `surge_decay` needs two quotes and
one minute.

`CHECK_DEADLOCK FALSE` stands where a system whose requests have all been served
may stop. `MCSales` checks deadlock: the flash-sale checkout may stop only by its
`Finished` step, so TLC reports a call that is stuck, while the other two may `Rest`.

Fairness. `CheckoutSaga`, alone and in `MCWorkers` (`SagaRuns`), assumes weak fairness of `Run`: the Go
runtime does not idle while a request that has begun, a delivery that has begun
or the consumer can take a step. Nobody has to send a request, no key has to
expire. `EveryoneAnswered` uses it. `MCWorkers` also assumes weak fairness of the
dispatch pipeline (collector, sender, matcher, and the timer of the window) for
`EveryOrderLeaves`, and of the steps of a crawl, its two-second timer among
them, for `CrawlEndsUnlessPanic`: these are goroutines that are running, and timers
that fire. No request is assumed to come, no driver to answer. The other
properties are safety properties.

## What is proved

Every theorem holds for all values of the constants that meet the module's
ASSUMEs: any number of calls, nodes, users and messages, any capacity, limit and
bound. Every invariant that a passing run checks is proved, and so are its action
properties and the two refinements; `PROJECT.json` lists the theorem for each.
They have one form. The property is seldom inductive, so a stronger invariant says
at which step of a handler what has been taken, written or sent; it holds
initially, and one lemma per action, or per group of actions that touch the same
state, says that a step keeps it. Counting is done with finite sets: a unit, a
session, a place in a channel is an element of a set whose cardinality the step
changes by one.

`StockLedgerProofs`: an instance of the ledger whose constants are `Legal` conserves
stock. Units are counted as a set of pairs, so that taking a claim adds its size
(`UnitsAdd`).

`FlashSaleProofs`:

- `Invariance`, `TypeCorrect`: `TypeOK` alone does not show that a call that runs
  the stock script has not taken stock before, nor that a reservation hash
  belongs to a call that took some. `Linked` says it per program counter.
- `Refinement` (`ImplementsLedger`) and `StockIsConserved`: under `Inv` the stock
  script is the ledger's `Take`, the release script its `GiveBack` or nothing, and
  no other step touches what the ledger sees; conservation is the ledger's.
- `EchoesAreGenuine`, `AnswersAreTrue`, `OneTakePerLife`: `Told` says who can have
  written a cached result, `Answers` what a call that was told something holds,
  `Locks` how many calls of a key are past its lock for each time that was set.
- `CountersMatch` (`CountersAgree`): a bucket and the units taken from it, the slot
  count and the calls inside, by adding and removing one element at a time
  (`SlotsMatchCalls`). Where no two calls inside are of one session the calls stand
  for the sessions, which is what the property counts (`SessionsOfCalls`); that a
  session may be inside twice is what `flash_sale_session` shows.

`LotteryProofs`: `EveryUnitAccounted`, `EveryWinnerServed`, `WinnersAreBounded`. `Fresh` says
which prizes of a draw nobody has touched yet, `Serving` where each winner of a
running draw stands; a step moves one unit from the stock to a hand, from there to
a reservation or a loss.

`InventoryProofs`: `OneGiveBack`, `ShortRollbacks`, `Refinement` and, from it,
`SingleConserved`. `Hashed` says what the shared hash remembers, `Unspent` that what
may still be given back was not given back, `Alone` what the hash of a cart of one
item stands for, `Short` what is owed to a cart of two.

`CheckoutProofs`: the four properties of the saga follow from what was told to the
other services at each step (`Progress`), which status the order has (`Recorded`),
which events were enqueued (`Counted`), and where cached answers and confirmations
come from (`Sourced`): that a failed checkout was refunded needs the whole path of
the compensation. `EventsAreInOrder` adds that an event is in the channel or
consumed as often as it was sent and that a creation is ahead of its charge
(`Once`, `Ahead`); `PaymentsConfirmedOnce` that each delivery that may still
confirm has the mark to itself, or a fault or an expiry to answer for (`Marks`).

`WorkersProofs`: `OneOrder`, whose invariant says of a driver
that nothing disturbed that it has one booking and is not idle while it has it
(`OneEach`); `NoneLost` (`OrdersConserved`), which follows the place of an order
through the channels as a sequence is cut and joined (`Line`); `CrawlFits`, for
which a url is known before it enters the queue and is never in two places
(`Known`, `Apart`). `EachRuns` says that a behaviour of `MCWorkers` is one of each, and
`BothTypeCorrect` carries the types to it.

`ServicesProofs`: tracking and chat as before (`PipeNumbered` and `StreamKept` for
`InOrder`, `Owned` for `CleanedUp`, `ShutForCause` for `CrashExplained`), and one
theorem for each service that keeps records: short links, the key-value store,
which is shown to implement one plain map (`ShardsAreOneMap`), metrics, videos,
the feed, the drive, notifications. `RecordsStand`, `QuotesHold` and
`ServicesTypeCorrect` carry them, and the theorems of `TradeProofs`, to
`MCServices`: a behaviour of it is one of the active service while the others
stand still. For the hash ring, `JoinTakesForItself` and `LeaveMovesItsOwn` say which
keys move when a node is added or removed, also when nodes share a hash: the node
removed then takes the shared replica of the other with it, so keys of that one may
move too.

`TradeProofs`:

- Promotions: `LimitsHold` ties each counter to the set of applications it has
  counted; the counter of a user expires and starts again, and `Allowance` is
  what all its earlier lives may have counted. `AnswersStand` (`AnswersAddUp`) keeps
  the discounts shown so far within a cent for each rule of what has left the
  remaining amount (`Balanced`), which never exceeds the cart, and nothing left to
  do in the groups that gave something (`OnceEach`). `ConditionSurvives`: marshalling
  and unmarshalling a condition once more changes nothing.
- Ids: those given out lie below what the generator will give next
  (`IssuedBefore`), and those of one life are in order (`Ordered`); an equal id is
  divided into its stamp, worker and sequence.
- Breaker, fees, estimates, hubs: `BreakerHealthy`, `FeesStand`, `EstimatesStand`,
  `HubsReach`.
- Rate limiter: `RatesHold`, for any limit, window and clock. The log of grants is
  related to what each algorithm remembers of it; the tokens in the bucket bound
  the grants over every later stretch at once.
- Search: `PagesStand`, for any prices. A product whose price no other match has stands
  at one place in every list by price, that of the cheaper ones before it
  (`UntiedPlace`), and additions only move it back, so what a customer has not seen
  is on this page or a later one. Products of one price may change places between two
  searches and are excepted.
- Forecast: `ForecastsStand`. The ring of errors is the last part of what was
  recorded, position by position; whoever holds the lock of the results is between
  the two writes.

Induction. No prover here applies an induction theorem of the library, because each
takes an operator as parameter. Where a recursive function or a sequence calls for
one, the proof takes the least number at which the claim fails (`LeastNumber`, from
`WFMin` of `WellFoundedInduction`) and contradicts it: the sum of what an answer
shows (`EverySum`), the first grant of a window, the first cell of a ring. Recursive
functions are proved to exist the same way. Folds and `SelectSeq` are opaque to the
provers, so models that are proved about use neither where a theorem needs to look
inside.

Model-checked only:

- liveness (`EveryoneAnswered`, `EveryOrderLeaves`, `CrawlEndsUnlessPanic`), since TLAPS
  does not reason about fairness and ENABLED;
- what recursive functions compute, in the ASSUMEs of `MCServices`: whether a condition
  tree accepts a cart or its JSON is valid, the imputation of stockouts;
- what the nine runs with an expected violation refute, which needs a counterexample
  and no proof.

## Observations

Besides the nine runs that expect a violation, the models record behaviour that
no run is made of:

- Breaker: every caller that arrives half-open is let in, where the comment
  (`circuitbreaker.go:20`) speaks of one probe; a probe that fails below the
  threshold leaves it half-open. No service uses it.
- Matcher: `matcher.go:69-72` lowers the rank of what its comment calls a
  priority bonus. It writes the driver's status itself (`matcher.go:126`), so a match is
  not in the log in which `statemachine.go:25-26` says every transition is recorded. An assignment made by a retry is unknown to the handler, so it
  cannot be accepted; a batch that finds no driver is dropped.
- Lottery: two draws that overlap may both choose (`WinnersBounded` says how many), and
  then a winner is left without a unit, where `service.go:205` says that should not
  happen.
- Search: the seeded products are not active and are never found; ranking undoes
  the order in which in-stock products come first; pages by relevance may skip a
  product when the catalogue grows, and so may pages by price one of two products
  of one price, such as two seeds.
- Promotions: with a limit set, an unset other limit is zero and refuses; the
  counter of a user lives until an hour after the midnight that follows its
  first use, and is not counted by day.
- Rate limiter: the reset route answers and resets nothing; a limit of zero lets
  the first request through.
- Tracking: an old read loop unregisters the new connection.
- Videos: `youtube.md` describes a processing state between uploading and ready, which
  no code sets and the model does not have.
- Nothing calls dispatch's `HandleTimeout`, `OrderUpdatePipe.Close` outside tests,
  the promotion budgets and fraud helpers, or the rate limiter's counter store.

## What is not modelled

Wording of responses, logging, configuration and HTTP wiring. The
attestation's HMAC and the clock behind it. The hub in the inventory's keys.
Holt-Winters and the cold start, the Kalman filter, the regression of the
elasticity, the statistics of price experiments, haversine distances: floating
point, out of reach of TLC and of the provers; where a service branches on such a
number the model lets it be any. `distributed-cache`, `pkg/bloomfilter` and
`pkg/ratelimit` are stubs. The order in which users wait in the waiting room of
the flash-sale, which no code ever takes anyone out of; products re-created
during a sale; a product sold by checkout and by lottery at once. Negative limits and values of
promotions. Races in the sense of the Go memory model are modelled as lost or
reordered steps, and as the end of the process for a map, never as torn values.
`PROJECT.json` gives every component's status and reason.

## Next

1. The waiting room of the flash-sale as a sorted set.
2. Theorems about the evaluation of a condition tree, by least node as for sums, and
   about the actions of the saga as one of an abstract booking.
