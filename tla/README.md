# bharat-ticker: TLA+ models and proofs

bharat-ticker is a single-process asyncio server for Indian market data.  It
fetches quotes from a cascade of unreliable feeds, samples live prices into
1-second candles, caches and streams them, and keeps a durable store of past
days.  Almost all of its state lives in plain Python objects that many
coroutines share, most of it without a lock; what can go wrong goes
wrong between two awaits.  This directory models that: every action is the code
between two suspension points, every `await` is a point where anything else may
run, fail, or be cancelled.

Paths below are relative to the repository root (`src/engine/...`), which
`PROJECT.json` writes as `src/src/engine/...`.

## The system

| Part | State | Operations | Interacts with | What is hard |
|---|---|---|---|---|
| Circuit breaker (`engine/circuit_breaker.py`) | state, failure and success counts, half-open slots, time of last failure | `execute`, `record_*`, `can_execute`, `state` (a read that writes), `reset` | one per provider, called by the failover controller | calls outlive the state that admitted them; cancellation |
| Failover controller (`engine/failover.py`) | providers by priority, breakers, toggles | `fetch_quote`, `set_enabled`, `test_provider`, status reads | breakers, providers, all quote paths | answers of one await used after the next |
| On-demand recorder (`engine/live_candles.py`, endpoints in `api/endpoints/superbrain.py`) | `_tasks`, `_last_read` | `ensure_recorder`, `_record_loop`, `latest_tick`, `build` | failover controller, store | start/stop races, idle stop |
| Sample stream (`engine/live_candles.py`) | ring of samples, owner source | `record`, `build` | recorder, watchlist recorder, live quotes | several feeds, answers out of order |
| Durable store (`engine/intraday_store.py`, `db/queries.py`) | high-water mark; the table | `flush_live_to_store`, `read_past_intraday`, `prune_old` | recorder, watchlist recorder | two flushers, failed commits, restarts |
| Watchlist recorder (`engine/watchlist_recorder.py`) | watchlist, task, last flush | `start`, `stop`, `_loop`, `set_watchlist` | sample stream, store | no flush after the close or on stop |
| Market data service (`engine/market_data.py`) | the controller and the lock it is built under, background writes, curves | `get_quote_through`, `get_history`, `get_intraday_series`, `get_details` ... | failover, ticker cache, archives | fire-and-forget writes, fallbacks |
| SuperBrain caches (`api/endpoints/superbrain.py`) | live-quote cache and in-flight table, warm cache, dated opens, TTL caches | `_live_quote`, `_batch_quotes`, `_fill_open`, `_warm_loop`, `_TTLCache`, `sb_history` ... | market data service, Tickertape | single flight, cancelled leader, byte budget, midnight |
| Ticker cache, in-memory Redis (`cache/`) | hashes with expiry, subscribers | `set_tick`, `hset`, `hgetall`, `publish` ... | market data service, quote endpoints, WebSockets | expiry, order of background writes |
| WebSocket fan-out (`api/endpoints/websocket.py`) | connections, listener tasks | connect, forward, disconnect | in-memory Redis | teardown order |
| Proxy pool, scraper sessions (`providers/`) | current proxy, cooldowns, sessions, cookies | `current`, `rotate`, `connect`, `_rotate_session`, `_refresh_cookies` | failover | rotation while others fetch |
| Archive loaders (`providers/nse_archive.py`, `bse_master.py`) | the day's table | `_ensure_loaded` | failover, details, `/universe` | walks of failing downloads, midnight |
| Tickertape client (`engine/tickertape.py`) | sids, the map of tickers, pace and cooldown of `/search` | `resolve`, `_ensure_sid_map`, `_search` | live quotes, metadata | refusals while others queue |
| Watchdog, lifecycle, database connection (`utils/watchdog.py`, `main.py`, `db/connection.py`) | last beat; connected or not | start, stop, kill | recorders, store | stalls, restarts with work under way |
| Rate limiter (`engine/rate_limiter.py`) | tokens, last refill | `acquire` | nobody calls it | |
| Pure algorithms (`engine/intraday_builder.py`, `corp_actions.py`, `utils/ist_clock.py`) | none | OHLC building, split adjustment, market sessions | endpoints | boundaries |
| Clients for macro data and fundamentals, endpoints, models | little or none | | | |

Correct means: a breaker shuts a failing provider out for its full timeout,
accounts for every probe and recovers; the cascade tries providers in order,
skips none that was fit and serves none that was barred; a symbol has one
sampler, which lives while it is read and stops when it is not; bars claim no
volume that their feeds did not report; a bar the flush will not send again is stored in its
final form, and what was sampled is stored in the end; readers of one symbol
share one fetch and none is left waiting; what is served from a cache is neither
expired nor of the wrong day; clients are sent what they subscribed to, once and
in order; sessions, proxies and cookies fit together; and no lock is kept.

## Modules

**`Breaker`** holds one breaker as a record, with an operator per method of
`circuit_breaker.py`.  The breaker's lock is never held across an await, so a
method is one atomic step; the operators are used by every module that has
breakers.  Time is the age of the last failure, saturating past the timeout:
the code compares nothing else.

**`CircuitBreaker`** adds the calls: `Admit` is `execute()` up to its await,
`Succeed`, `Fail`, `FailUnexpected` (the exception that `fetch_quote` records a
second time) and `Cancel` are the ways an await ends, `ConnectFailure` is the
failure `fetch_quote` books without having entered `execute()`.  It is the
abstract specification of a breaker and its users.

**`BreakerRounds`** extends it with history variables for one half-open round
(probes in flight, confirmed, cancelled) in which the properties are stated.

**`Failover`** is the controller with any catalogue of providers and concurrent
requests.  `Resume` is the loop of `fetch_quote` from one await to the next,
through all the providers it skips, including the breaker transitions that
`can_execute()` makes on the way.  The history variable `usable` records, for
every request, the providers that have been fit ever since it began.  Each
provider's breaker, seen through `INSTANCE CircuitBreaker`, implements
`CircuitBreaker` (`CascadeUsesBreakers`).

**`Recorder`** is the life of the on-demand sampler of one symbol: the task
registry, the loop (top, fetch, flush, sleep, final flush), and its two kinds of
reader.  `/intraday` calls `ensure_recorder`, awaits a sample and reads;
`/stream` calls `ensure_recorder` once and then polls `latest_tick`.  Whether a
database is connected is settled at start-up and chosen in `Init`.

**`SampleStream`** is the ring of one symbol with the owner rule of `record()`
and the volume rule of `build()`, whose loop over the samples is the recursive function
`Volume`.  Every feed has a total of its own, as the comments of the code say; an
answer carries it as of the moment the feed gave it and is recorded up to `MaxFetch`
later, the HTTP timeout, which is longer than the owner's TTL (10 s against 5 s).  The
growth of the totals (`Trade`) is external.

**`IntradayStore`** is the way of 1-second bars into the table.  A bar is
abstracted to the number of samples behind it, because `build()` is a function
of the samples: fewer samples means an older version of the bar.  It is about one
session, which the ring holds; what the ring drops over several is in `Capture`.
`flush_live_to_store` is three steps: snapshot, commit, mark.

**`TickerCache`** is the shared tick: requests (`QuoteHit`, `QuoteMiss`,
`BulkQuotes`, `QuoteForced`) read the hash or wait for the feed; `Return` answers
and queues the background write, `WriteCache` is the pipeline of `set_tick` and
`set_market_depth` (hash, expiry, publication) in one step, because the in-process
store never suspends.  A tick is the number of the feed's answer it came from.
WebSocket clients subscribe, are sent what their queue holds, break and leave.

**`LiveQuotes`** is `_live_quote()` with its table of running fetches, the bulk
path, the fill of the opening price and the warm loop.  A process holds the set of
fetches it awaits; cancelling one request cancels the fetch it shares.  A quote is
its feed and the session in which its opening price was *fetched*; which day's price
the feed gave is not part of it (see below).  A request remembers when it began and
lasts at most `MaxRequest`, as in `History`: every HTTP client has a timeout.  Without
that bound a bulk request could hold one symbol's quote for days while it waits for
another's.  A bulk request asks for all its symbols at once: the semaphore that lets 24
of them through at a time (`_BULK_CONCURRENCY`) is left out.

**`SingleFlight`** is the abstract specification of sharing a fetch: callers join the
flights of the keys they ask for, a flight lands for everybody on it, and a caller that
gives up takes its flights and all who are on them with it.  It knows no tasks, no cache
and no exchanges.  `LiveQuotes` implements it (`SharesFlights`): a key flies while
`_live_q_inflight` has a task for it, and a caller is on the flights whose task it awaits.

**`History`** is the candle endpoints over `_TTLCache`, modelled with its order,
sizes and hand-kept byte count.  A candle is its day and its source.  A range is told by
its last date, at most today: its first date and an end in the future are left out, as
they filter or add no day that the properties are about.  Requests keep
what they read before an await (`day`, `days`) and use it after.

**`Scraper`** is `NSEScraper`, `NSEPublic` and the `ProxyPool` between them: connect,
rotation with its await between closing the old session and making the next, and
the refresh of the cookies under the lock.  A call may be cancelled at any of its
awaits, and the list of proxies may be empty.

**`Tickertape`** and **`Archives`** are the resolver and the two loaders, each with its
locks and timers; **`Metadata`** composes them into the requests that go through
both: `resolve()`, then the ISIN in the BSE master, then the details of one
exchange and the other.  Whatever needs the providers first waits for them:
`MarketDataService._controller()` builds them once, under a lock held across
`connect_all()`, in which the NSE archive loads its file under its own
(`NeedService`, `BuildService`, `ServiceBuilt`).  Every request may be cancelled at its
await.  `NoHolderWaits` and `ServiceFirst` are the deadlock freedom as invariants: a lock
is held by the call at the work it is held across, a call is in one place at a time, and
only the holder of the service's lock waits for another, a loader's, whose holder waits
for none.

**`Capture`** is a symbol's capture over days: boot, shutdown, a stuck event loop and
the watchdog's thread; the watchlist and its loop; flushes; the past-day read in its
two queries; pruning.  A candle is the age of its day, and the ring, which holds about one
session, drops the samples of earlier days.  The watchdog's poll and patience are
independent, as in the code, which allows a patience below the poll.  `IntradayStore`
refines the flush of one day, which is a single step here.

**`BreakerLemmas`**, **`BreakerProofs`**, **`FailoverProofs`** (of `Failover` and
`SampleStream`), **`RecorderProofs`** (of `Recorder` and `LiveQuotes`),
**`IntradayStoreProofs`** (of `IntradayStore` and `Capture`), **`ScraperProofs`** (of
`Scraper` and `TickerCache`), **`MetadataProofs`** (of `Metadata` with `Tickertape` and
`Archives`) and **`HistoryProofs`** hold the theorems.  **`MC*`** modules and the `.cfg` files
instantiate the models for TLC.

Operators with a suffix, such as `StateRead_Eager`, are variants of the operator
that follows them with a plausible mistake.  No specification uses them; they are
listed in `PROJECT.json` under "mutants", each with the property that notices it.

## Runs

| Run | Instance | Shows |
|---|---|---|
| `breaker` | 3 calls, threshold 2, timeout 2, 2 slots | the breaker's safety, and recovery if no probe is cancelled |
| `breaker_cancel` | 2 calls, 2 slots | *violated*: recovery when tasks are cancelled |
| `failover` | 2 requests, a live and a delayed provider, queries by venue, delay and name | order, filters, use of breakers (a refinement of `CircuitBreaker`) |
| `store` | 1 flusher, 4 seconds, 2 samples each | the mark is sound; rows never go back |
| `recorder` | 2 readers, with and without database | the registry; idle stop and feeding without database |
| `stream` | 2 tasks, 2 feeds with unrelated totals, answers later than the TTL | a feed's share of a bar is its own growth, a late hand-over recounts little, no interleaving |
| `ticker_cache` | 2 symbols, 2 requests, 1 client, 2 answers | expiry, forced sources, order and completeness of the stream, teardown |
| `live_quotes` | 1 symbol on 2 exchanges, 1 request, the warm loop, 2 days | one fetch for all (a refinement of `SingleFlight`), nobody left waiting, no open kept over a session, termination |
| `history` | 2 requests of 6 kinds, 2 days | the byte budget, today's source, the range, no day twice but at midnight |
| `scraper` | 2 proxies, 2 calls and 1 public call, cancelled anywhere | session and proxy agree, one refresh of the cookies at a time, no session left closed but by a cancelled rotation; termination |
| `metadata` | 2 requests, cancelled anywhere, 2 loaders, 2 days | `/search` spared, locks taken in one order, prices never go back, termination |
| `capture` | 1 day of retention, a watchdog of 2 intervals | what the ring holds is stored, wedges heal, only wedges kill, a captured day keeps its rows, old rows go |

The invariants named `...Inv` are conjunctions: the types of the module's variables
and the parts that say how its state hangs together, each with its own definition
and comment (`CacheInv` is `NothingExpiredServed`, `ForcedStaysPrivate` and
`SubscribedWhileServed`; `LiveInv` is `SharesOneFetch` and `AwaitedTasksRun`;
`ScraperInv` is `RoutesThroughItsProxy` and `RefreshOnce`; `MetadataInv` is
`OneWalkAtATime`, `SearchesSpared`, `NoHolderWaits` and `ServiceFirst`; `CaptureInv` is `OnlyTheWedgedDie` and
`CapturedHasRows`; `HistoryInv` is `CacheBounded`; `FailoverInv` is `ServedAsAsked`;
`BreakerInv` is the inductive invariant as a whole).

What the violated run shows (quotations under "findings"): a cancelled probe keeps
its half-open slot.  `CancelledError` is not an `Exception`; when all slots are lost
the breaker stays HALF_OPEN and refuses every call until the process restarts or
`reset()` is called, and nothing calls it.  What may cancel a probe is a request that
ends early: the task of a live quote is awaited unshielded (`superbrain.py:430-433`), so
the cancellation of its caller goes through to the cascade.

### Observed while modelling

These are behaviours the models have, because the code has them, and that no
property rules out.  Where one limits a property, the property says so.

* `failover.py:130`: an exception that is not a `ProviderError` was recorded by
  `execute()` and is recorded again, so a breaker trips on half as many failures.
  The toggle of a provider is not read again after `connect()`.
* `circuit_breaker.py`: `_success_count` survives from one half-open round to the
  next if a success and then a failure is booked.
* `intraday_store.py:94`: when the on-demand and the watchlist recorder flush one
  symbol together, the older snapshot may be committed last and the mark then passes
  the partial bar.  `store` and its theorems are about one flusher.
* `live_candles.py:182`: the recorder's own flush calls `build()`, which counts as a
  read; with a database a recorder that was started once never stops, and
  (with a flush interval above the idle window) a stream opened during the final
  flush is not fed.  Hence `IdleStopsWithoutDb` and `StreamIsFedWithoutDb`.
* `live_candles.py:94,204`: an answer without a volume, or answers of one source
  recorded out of order, lower the baseline of `build()` and the next bar counts
  volume again.  `NoVolumeInvented` is about rings without such samples (`Clean`); the
  run has them and shows that nothing else adds to a feed's share of a bar.
* `live_candles.py:101`: a fetch may take longer than the owner's TTL (10 s against 5 s)
  and hand the symbol over with a total from before the last sample of the old owner.
  What was traded between is then in two bars, against "each bar carries the volume
  actually traded" (`live_candles.py:11-12`).  `RecountBounded` says how much: what a feed
  grew in less than the timeout minus the TTL.
* `superbrain.py:595-600,640`: the archive providers are not marked delayed
  (`base.py:26`), so when no live feed answers, the open that `_fill_open` files under
  today and serves for the rest of the day is that of the last bhavcopy, up to eight days
  old.  A tick carries no date; `OpenFetchedRecently` is about when an open was fetched.
* `superbrain.py:483`: `_warm_get` does not look at the exchange, so a BSE bulk request
  can be answered from the parked NSE batch.  A cancelled request cancels the fetch
  it shares, and with it the warm loop if that awaits it (`superbrain.py:430,521`).
* `superbrain.py:187`: `[]` from a failed fetch is cached for the whole TTL.  The key of
  `_TODAY_CACHE` has no date, so for 30 seconds after midnight yesterday's live
  candles come next to Yahoo's (`DoubledOnlyAtMidnight` bounds it).  A BSE curve of any
  age serves when two attempts fail, and `/intraday` calls it REAL_TIME.
  `historical.py:88` keeps the oldest rows when it cuts to the limit.
* `memory_store.py:141`: `hset` on an expired hash revives its other fields, so a book
  with fewer levels is completed from an older one.
* `nse_scraper.py:84`: of two rotations that overlap the second parks the proxy the
  first has just chosen, and a session built twice is not closed; the refresh after a
  403 does nothing while the cookies count as fresh.  A call that is cancelled in
  `session.close()` (`nse_scraper.py:90`; line 91 catches only `Exception`) leaves a
  closed session marked connected: every GET then raises, and nothing connects again
  until a rotation.  `QuietIsUsable` says that this is the only way to such a session.
* `nse_archive.py:98`: the walk that finds the file it has does not renew
  `_loaded_at`, so after an hour every call walks again; a walk of eight failing
  downloads can outlast the cooldown of 120 s.  The BSE master can go back to an older
  day, since its walk does not stop at the date it has.
* `bse_archive.py:37` says that `snapshot` loads the master; it does not, so the BSE
  snapshot is empty until something else has.
* `market_data.py:77`: the providers are built by the request that comes first; if it is
  cancelled meanwhile the half-built stack is dropped, loaded file included, and the
  next request builds another.
* `tickertape.py`: the first stock of `/search` is kept for good if none has the
  symbol's ticker.  A query cancelled on its way (`:94-95`) leaves `_last_search_ts` as it
  was, so the next one need not keep the gap to it; `SearchesSpared` is about queries that
  ended.
* `watchlist_recorder.py`: `stop()` does not flush and a symbol taken off the list keeps
  an unflushed tail; the database is connected at start-up or never.
* `live_candles.py:54`: the ring holds 46000 samples, about one session.  If flushes fail
  for longer, the oldest samples are dropped and never stored; `TailReachesStore` is about
  what the ring holds.
* `intraday_store.py:120-133`: a prune that takes the day between the count and the rows
  leaves `captured` true with no candles.  `CapturedHasRows` lets only that prune do so:
  one of other ages must leave the rows of a captured day alone.
* `watchdog.py:43-46`: the poll and the patience are clamped independently; with a patience
  of one poll or less a healthy process is killed, since a beat is scheduled once per
  poll.  `OnlyTheWedgedDie` counts in polls and says nothing then.

### Bounds

Counters and clocks saturate one past the last value the code distinguishes
(`Expired`, `Idle`, `MaxFailures`, `TickTTL`, `Wedge`), so no behaviour is cut off;
`MaxFailures` only has to be at least the threshold.  Two slots and three calls are
the least with a straggler, a probe and a newcomer at once; two requests suffice for
one to act inside every await of the other.  In `live_quotes` the second process is the
warm loop, a day has five ticks, three of them before the bell, and a request lasts
one; the run ends after the second bell, the first moment at which an open can be two
sessions old.  With two symbols on one exchange the same safety properties hold (about
5 million states), which is left out of the run for the cost of its temporal property,
and of which `OpensFetchedRecently` is the general case.
`MaxSecond`, `MaxSamples`, `MaxTime`, `MaxTraded`, `MaxTicks` and `MaxDay` end a run of
the system; the effects need one hand-over, one stale commit, one midnight or one
expiry and what follows, which fit well inside.  In `history` a day has three ticks, a
TTL one, and a request lasts at most one, so each may straddle a midnight.  `store`,
`stream`, `live_quotes` and `history` switch off deadlock checking because their time
ends; all others check it.

### Fairness

`BreakerRounds!FairSpec`: time passes; pollers (recorders twice a second, the
warm loop) call again while let through; a call ends, since every HTTP client
has a timeout.  `LiveQuotes` and `Scraper`: every awaited connect, fetch
or GET ends, for the same reason, and the event loop runs what is ready.
`Recorder`: the same, and open streams poll.  `TickerCache`: the loop runs queued
writes and listeners, and a broken socket is noticed.  Strong fairness is used where
a task waits for an `asyncio.Lock`, which wakes its waiters in the order they came
(`Scraper`, `Metadata`).  `Capture`: the host restarts the process, the watchdog's
thread polls, the market opens again, and, strongly, the loop's steps, a fetch, a
flush and a prune are not shut out for ever by stalls, failures and restarts; without
the last, nothing could promise that samples reach a database that may fail.  A loop
may be stuck for ever.  Otherwise no outcome is fair: calls may fail for ever,
clients may stay away, and nothing has to be cancelled.

## Proofs

All leaves are checked by TLAPS, for every value of the constants that the named
assumptions allow.  The assumptions say what kind of thing a constant is (a positive
interval, a value that is no task); those that say more are given below.  TLC evaluates
each of them on its run.

A proof module extends the component it is about; four of them extend two, which is
why `SampleStream`, `LiveQuotes`, `TickerCache` and `Capture` carry their component's
name in their specification (`StreamSpec`, `LiveSpec`, `CacheSpec`, `CaptureSpec`).
Two components in one proof module share no state and no lemma uses both.

*Breaker.*  `BreakerInv` is inductive: it adds to the type invariant that CLOSED
and the failure count agree, that HALF_OPEN implies quiet for the whole timeout,
and the accounting of slots by the history variables.  The accounting needs the
history to be empty outside a round (`NoRound`), or the first probe of a new
round would start from leftovers.  `NoWedge` follows from it: with no probe lost,
slots are either free, in flight or confirmed, and confirmed ones are bounded by
`_success_count`, which is below the number of slots.  `OpenShuts` is an action
property from the same invariant.  `BreakerLemmas` shows what each operator does
to a well-formed breaker, field by field.

*Failover* (`FailoverSafe`, `BestProviderFirst`, `CascadeImplementsBreakers`).  A
request is served as asked because it is only ever at a provider that passed its
filters (`AtWantedProvider`).  `BestUsableFirst` needs what one step of the loop does to
all the providers it walks past: it stops at the first that is fit, so those before it
were not, and leave `usable`.  The refinement is the same walk seen from one breaker:
each of its reads, failures and calls is a step of `CircuitBreaker`, or none.

*Store.*  For at most one flusher (`OneFlusher`), `StoreInv` says that the rows in
flight are a snapshot: final before their last bar, never behind the table, and,
once committed, equal to it.  Then moving the mark to the last bar is sound
whatever failed before.  Only `CommitKeeps` and the end of a flush need the
assumption; it cannot be dropped (see above).

*Capture* (`CaptureSafe`).  `OnlyTheWedgedDie` rests on a bound of the age of the last
beat by the polls since the loop got stuck; `CapturedHasRows` on the ages that a prune
takes: midnight moves the read day and the stored days alike.

*Recorder.*  `RegistryExact` with the types is inductive: a task leaves only
through its own pop, and a task is started only when none is registered.

*Sample stream* (`FeedsNeverInterleave`, `HandoversRecountLittle`,
`BarsClaimOwnGrowth`).  The inductive form is about pairs:
any two samples in the ring that come from different sources are more than the TTL
apart (`SourcesApart`), and the last sample is the owner's, at the owner's time
(`LastIsOwners`), which is what `record()` compares a new sample with.  An
answer under way is no older than a fetch may take (`AnswersAged`), and so was every sample
when it was recorded (`SamplesAged`); with a hand-over more than a TTL after the last
sample of the old owner, the second theorem follows.  The third needs no invariant: it is
about what `build()` makes of any ring.  From clean samples, the increases that a source
adds over any run of samples are at most the difference of its own totals at the ends
(`ShareBounded`), and exactly that if no other source comes between (`RunExact`).  Both, and
that the recursive `Volume` is defined and satisfies its recursion, are inductions over
the samples; they are made by taking the least number of samples that fails
(`LeastExists`), since the induction theorems cannot be instantiated here.

*Live quotes* (`LiveQuotesSafe`, `QuotesShareFlights`, `OpensFetchedRecently`).  `QuotesInv` links the table of
running fetches and the tasks both ways and says that whoever waits does so for the
registered fetch of its key; a fetch that ends, or is cancelled, then reaches everyone
who waits for it.  The refinement of `SingleFlight` is that link read through the mapping:
the keys a caller waits for are the keys of the tasks it would cancel, and two callers
share a key exactly if they share a task.  It adds `AtRest`, that nobody who is not waiting
has a task in hand, for a bulk request cancelled before its first fetch.  `AgesInv` dates every open in the system: a cached tick by its fetch,
an open of `_SESSION_OPEN` by the date it is kept under (read before the await, so
never later than the fetch's), a parked quote by the round that parked it, and what a
request has in hand by when it began or by the parked quotes it began with.  It needs
`ShortLived`: a cached tick (1 s by default) does not outlast the hours from the bell to
midnight, and a parked quote with two requests not those from midnight to the bell.

*Ticker cache* (`TickerCacheSafe`, `NoTickLostOrDoubled`, `CaughtUpClientsKnow`).  That a forced answer is never shared rests on the
numbers of the answers: what is on its way into the cache, in it, or published was
answered before and not by a forced source, so the next answer is none of them.  The
stream is told by places, not by filtering: the queue of a client is the end of what was
published to it (`Conveyed`), and the places before that which its filter wants are in
one-to-one, order-keeping correspondence with what it was sent (`Picks`).  This is
inductive one client at a time.  The second theorem adds `DueShows`: the last message
published about a symbol is the tick in its hash, until the hash expires.

*History* (`HistorySafe`, `TodayIsNeverYahoos`, `RangeIsRespected`,
`DoublesOnlyAtMidnight`).  The size of the cache is the cardinality of what it holds, so
`_evict` and `put` are shown to keep the hand-kept count exact without an induction over
the entries; that eviction ends within the budget is part of it.  The rest of the
invariant dates what a request carries over its awaits: the day it read at the start is
not after today, what it took from the cache is of earlier days, and today's list is no
older than its TTL and a request.  `HistoryAssumption` has the run's clock cover a day.

*Scraper* (`ScraperSafe`, `QuietScraperIsUsable`).  A closed session always has a call
between closing and rebuilding, or had one that was cancelled there (`ClosedIsReplaced`,
with the history variable `abandoned`), and a session exists once any call
has begun (`SessionKept`); the holder of `_lock` is the call at the homepage.

*Metadata* (`MetadataSafe`, `NsePricesNeverGoBack`).  A call that sleeps off the gap of
`/search` already holds the lock, so nobody else can bring the gap or the cooldown back.
A walk through the NSE archive is never at a day before the file it has, because it
would have stopped there.  This holds for a walk over a midnight with a file in hand, too,
for which the run's two days are one too few.  `NoHolderWaits` needs that every step of a
request is one of the resolver or one of the archives and leaves it in the other at rest,
or a cancellation (`StepOfEither`).  `ServiceInv` adds that who builds the providers, or
waits for them, is in no other call but the load of the NSE file.

### Only model-checked

* Liveness (`RecoversUnlessCancelled`, `IdleStopsWithoutDb`,
  `StreamIsFedWithoutDb`, `QueuesDrain`, `EveryRequestEnds`, `EveryFetchEnds`,
  `TailReachesStore`, `WedgeHeals`, `OldRowsGo`): fairness and ENABLED are out of the
  prover's reach.

Every safety property of a passing run is a theorem.

## Not modelled, and the plan

Not modelled for good: HTTP and parsing in the providers, response models, web
pages, logging, and the clients for macro data, fundamentals and the screener, which
keep no state another request could meet.  `fetch_bulk` and `disconnect_all` of the
controller, `TokenBucketRateLimiter`, `ProxyPool.reload` and the reader of the streams
(`xreadgroup`) have no caller.  Prices inside a bar, the split adjustment, returns
and volatility are arithmetic.  Holidays are a table: in the models any day may be one.

What is left of the plan: a second flusher in `IntradayStore` once the code orders commit
and mark; `_BULK_CONCURRENCY` as a bound on the flights of one caller.  The registry of
`Recorder` is no instance of `SingleFlight`: nobody waits for a recorder to end.
