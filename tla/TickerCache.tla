----------------------------- MODULE TickerCache -----------------------------
(***************************************************************************)
(* The ticker cache (src/cache/ticker_cache.py) on the in-process store    *)
(* (src/cache/memory_store.py), the requests that read it and fetch        *)
(* through it (src/api/endpoints/quotes.py, get_quote_through and          *)
(* _write_cache in src/engine/market_data.py), and the WebSocket clients   *)
(* fed by its publications (src/api/endpoints/websocket.py).               *)
(*                                                                         *)
(* No operation of the in-process store suspends, so a pipeline is one     *)
(* step.  A tick is the number of the feed's answer that it came from: a   *)
(* larger number is younger data.  Ages count from the last write and      *)
(* saturate at the time to live.                                           *)
(***************************************************************************)
EXTENDS Naturals, Sequences, SequencesExt, FiniteSets

CONSTANTS
    Symbols,
    Readers,     \* concurrent HTTP requests
    Clients,     \* WebSocket clients
    All,         \* the filter of a client of /ws/ticks: every symbol
    TickTTL,     \* redis_tick_ttl_seconds
    DepthTTL,    \* redis_depth_ttl_seconds
    Levels,      \* levels of the order book
    MaxTicks     \* bound: answers of the feed

CacheConstants ==
    /\ All \notin Symbols
    /\ TickTTL \in Nat \ {0} /\ DepthTTL \in Nat \ {0}
    /\ Levels \in Nat \ {0} /\ MaxTicks \in Nat

ASSUME CacheAssumption == CacheConstants

VARIABLES
    open,      \* is_market_open()
    ticks,     \* how many answers the feed has given
    latest,    \* the hash <exchange>:<symbol>:latest
    book,      \* the hash <exchange>:<symbol>:depth
    req,       \* what each request is waiting for
    served,    \* the age of the cached tick a request was last answered with
    writes,    \* _bg_tasks: ticks on their way into the cache, in order
    forced,    \* history: answers fetched from a forced source
    filter,    \* the connected clients and what they listen to
    subs,      \* _subscribers: the clients whose queue is subscribed
    queue,     \* the queue of each client
    listener,  \* the listener task of each client
    got,       \* what each client has been sent
    due        \* history: what was published since each client subscribed

cacheVars  == <<latest, book, writes>>
readVars   == <<ticks, req, served, forced>>
wsVars     == <<filter, subs, queue, listener, got, due>>
tickerVars == <<open, cacheVars, readVars, wsVars>>

Ticks     == 0 .. MaxTicks         \* 0: no tick
Message   == [sym : Symbols, n : 1 .. MaxTicks]
Write     == [sym : Symbols, n : 1 .. MaxTicks, depth : 0 .. Levels]
NoRequest == [pc |-> "idle"]
Absent    == [n |-> 0, age |-> 0]
NoLevels  == [i \in 1 .. Levels |-> 0]
NoBook    == [lv |-> NoLevels, age |-> 0]

CacheInit ==
    /\ open \in BOOLEAN
    /\ ticks = 0
    /\ latest = [s \in Symbols |-> Absent]
    /\ book = [s \in Symbols |-> NoBook]
    /\ req = [r \in Readers |-> NoRequest]
    /\ served = 0
    /\ writes = <<>>
    /\ forced = {}
    /\ filter = [c \in {} |-> All]
    /\ subs = {}
    /\ queue = [c \in Clients |-> <<>>]
    /\ listener = [c \in Clients |-> "none"]
    /\ got = [c \in Clients |-> <<>>]
    /\ due = [c \in Clients |-> <<>>]

-----------------------------------------------------------------------------
\* _expired(): hgetall() pops a hash whose time is up.
Expired(hash, ttl) == hash.age = ttl

\* get_tick() and get_market_depth(): what hgetall() leaves of the hash.
TickRead(s) == IF Expired(latest[s], TickTTL) THEN Absent ELSE latest[s]

BookRead(s) == IF Expired(book[s], DepthTTL) THEN NoBook ELSE book[s]

\* get_bulk_ticks(): one pipeline reads every hash; these symbols are not in its answer.
Missing == {s \in Symbols : TickRead(s).n = 0}

\* A request for s that goes to the feeds, and for the symbols of rest after it.
Asking(s, own, rest) == [pc |-> "fetch", sym |-> s, own |-> own, rest |-> rest]

Following(r) ==
    IF req[r].rest = {} THEN NoRequest
    ELSE LET s == CHOOSE x \in req[r].rest : TRUE IN Asking(s, req[r].own, req[r].rest \ {s})

\* get_tick_age_ms(): the time since the hash's cached_at.
CacheAge(hash) == hash.age

\* get_quote() with source = auto, up to its first await: a hit is the answer, at
\* whatever age the hash still has.
QuoteHit(r, s) ==
    /\ req[r] = NoRequest
    /\ TickRead(s).n # 0
    /\ served' = CacheAge(TickRead(s))
    /\ latest' = [latest EXCEPT ![s] = TickRead(s)]
    /\ UNCHANGED <<open, book, writes, ticks, req, forced, wsVars>>

\* A miss: _get_realtime_quote() goes to the feeds, _get_eod_quote() first asks
\* the database, where an awaited row may be the answer.
QuoteMiss(r, s) ==
    /\ req[r] = NoRequest
    /\ TickRead(s).n = 0
    /\ latest' = [latest EXCEPT ![s] = Absent]
    /\ req' = [req EXCEPT ![r] = IF open THEN Asking(s, FALSE, {})
                                 ELSE [Asking(s, FALSE, {}) EXCEPT !.pc = "eod"]]
    /\ UNCHANGED <<open, book, writes, ticks, served, forced, wsVars>>

\* get_latest_eod() has a row, or fails and the feeds are asked.
EodRow(r) ==
    /\ req[r].pc = "eod"
    /\ req' = [req EXCEPT ![r] = NoRequest]
    /\ UNCHANGED <<open, cacheVars, ticks, served, forced, wsVars>>

EodMissing(r) ==
    /\ req[r].pc = "eod"
    /\ req' = [req EXCEPT ![r].pc = "fetch"]
    /\ UNCHANGED <<open, cacheVars, ticks, served, forced, wsVars>>

\* get_bulk_quotes(): every symbol is read in one pipeline, then the misses are
\* fetched one after the other.
BulkQuotes(r) ==
    /\ req[r] = NoRequest
    /\ Missing # {}
    /\ LET first == CHOOSE s \in Missing : TRUE IN
         req' = [req EXCEPT ![r] = Asking(first, FALSE, Missing \ {first})]
    /\ latest' = [s \in Symbols |-> TickRead(s)]
    /\ UNCHANGED <<open, book, writes, ticks, served, forced, wsVars>>

\* get_quote() with a source: straight to the provider, write_cache = False.
QuoteForced(r, s) ==
    /\ req[r] = NoRequest
    /\ req' = [req EXCEPT ![r] = Asking(s, TRUE, {})]
    /\ UNCHANGED <<open, cacheVars, ticks, served, forced, wsVars>>

\* The feed answers; the answer reaches the waiting task later.
FeedAnswers(r) ==
    /\ req[r].pc = "fetch"
    /\ ticks < MaxTicks
    /\ ticks' = ticks + 1
    /\ req' = [req EXCEPT ![r] = [pc |-> "answer", sym |-> @.sym, own |-> @.own, rest |-> @.rest, n |-> ticks']]
    /\ forced' = IF req[r].own THEN forced \cup {ticks'} ELSE forced
    /\ UNCHANGED <<open, cacheVars, served, wsVars>>

\* Every provider failed: 404, or the symbol is among failed_symbols.
FeedFails(r) ==
    /\ req[r].pc = "fetch"
    /\ req' = [req EXCEPT ![r] = Following(r)]
    /\ UNCHANGED <<open, cacheVars, ticks, served, forced, wsVars>>

\* get_quote_through() returns: the write into the cache is a task of its own.
Return_WriteAlways(r) ==
    /\ req[r].pc = "answer"
    /\ req' = [req EXCEPT ![r] = Following(r)]
    /\ \E k \in 0 .. Levels :
          writes' = Append(writes, [sym |-> req[r].sym, n |-> req[r].n, depth |-> k])
    /\ UNCHANGED <<open, latest, book, ticks, served, forced, wsVars>>

Return(r) ==
    /\ req[r].pc = "answer"
    /\ req' = [req EXCEPT ![r] = Following(r)]
    /\ IF req[r].own
       THEN UNCHANGED writes
       ELSE \E k \in 0 .. Levels :   \* the tick's market_depth; 0: it has none
              writes' = Append(writes, [sym |-> req[r].sym, n |-> req[r].n, depth |-> k])
    /\ UNCHANGED <<open, latest, book, ticks, served, forced, wsVars>>

\* hset() merges the new levels into the hash, which it does not look at for
\* expiry; the expire() after it starts its time anew.
Merged(lv, w) == [i \in 1 .. Levels |-> IF i <= w.depth THEN w.n ELSE lv[i]]

\* publish() puts the message on every subscribed queue.
Published(m) ==
    /\ queue' = [c \in Clients |-> IF c \in subs THEN Append(queue[c], m) ELSE queue[c]]
    /\ due' = [c \in Clients |-> IF c \in subs THEN Append(due[c], m) ELSE due[c]]

\* _tick_to_hash(): the fields of a tick, that is, which one it is, and cached_at.
Hash(w) == [n |-> w.n, age |-> 0]

\* set_tick(): the hash, its time to live and the publications are one pipeline.
SetTick_HashOnlyNewer(w) ==
    /\ latest' = [latest EXCEPT ![w.sym] = IF @.n < w.n THEN Hash(w) ELSE @]
    /\ Published([sym |-> w.sym, n |-> w.n])

SetTick(w) ==
    /\ latest' = [latest EXCEPT ![w.sym] = Hash(w)]
    /\ Published([sym |-> w.sym, n |-> w.n])

\* set_market_depth()
SetDepth(w) == book' = [book EXCEPT ![w.sym] = [lv |-> Merged(@.lv, w), age |-> 0]]

\* _write_cache(): set_tick() and, if the tick has a book, set_market_depth().
WriteCache ==
    /\ writes # <<>>
    /\ LET w == Head(writes) IN
         /\ SetTick(w)
         /\ IF w.depth = 0 THEN UNCHANGED book ELSE SetDepth(w)
    /\ writes' = Tail(writes)
    /\ UNCHANGED <<open, readVars, filter, subs, listener, got>>

\* get_depth(): the hash, or a live book that is not cached.
ReadDepth(s) ==
    /\ book' = [book EXCEPT ![s] = BookRead(s)]
    /\ UNCHANGED <<open, latest, writes, readVars, wsVars>>

-----------------------------------------------------------------------------
Wanted(c, m) == filter[c] \in {All, m.sym}

\* subscribe(): a new queue among _subscribers; unsubscribe() drops it.
Subscribe(c) ==
    /\ subs' = subs \cup {c}
    /\ due' = [due EXCEPT ![c] = <<>>]

Unsubscribe(c) ==
    /\ subs' = subs \ {c}
    /\ queue' = [queue EXCEPT ![c] = <<>>]
    /\ due' = [due EXCEPT ![c] = <<>>]

\* connect() after accept(), subscribe and the start of the listener.
Connect(c, f) ==
    /\ c \notin DOMAIN filter
    /\ filter' = [d \in DOMAIN filter \cup {c} |-> IF d = c THEN f ELSE filter[d]]
    /\ Subscribe(c)
    /\ listener' = [listener EXCEPT ![c] = "alive"]
    /\ got' = [got EXCEPT ![c] = <<>>]
    /\ UNCHANGED <<open, cacheVars, readVars, queue>>

\* _pubsub_listener(): one message is taken, filtered and sent.
Forward_Coalesced(c) ==
    /\ listener[c] = "alive"
    /\ queue[c] # <<>>
    /\ queue' = [queue EXCEPT ![c] = <<>>]
    /\ got' = [got EXCEPT ![c] = Append(@, Last(queue[c]))]
    /\ UNCHANGED <<open, cacheVars, readVars, filter, subs, listener, due>>

Forward(c) ==
    /\ listener[c] = "alive"
    /\ queue[c] # <<>>
    /\ queue' = [queue EXCEPT ![c] = Tail(@)]
    /\ got' = IF Wanted(c, Head(queue[c])) THEN [got EXCEPT ![c] = Append(@, Head(queue[c]))] ELSE got
    /\ UNCHANGED <<open, cacheVars, readVars, filter, subs, listener, due>>

\* send_text() raises: the listener ends, the subscription does not.
SendFails(c) ==
    /\ listener[c] = "alive"
    /\ queue[c] # <<>>
    /\ Wanted(c, Head(queue[c]))
    /\ queue' = [queue EXCEPT ![c] = Tail(@)]
    /\ listener' = [listener EXCEPT ![c] = "broken"]
    /\ UNCHANGED <<open, cacheVars, readVars, filter, subs, got, due>>

\* receive_text() raises: cancel the listener, unsubscribe, close, disconnect.
Leave_AfterDrain(c) ==
    /\ c \in DOMAIN filter
    /\ queue[c] = <<>>
    /\ filter' = [d \in DOMAIN filter \ {c} |-> filter[d]]
    /\ subs' = subs \ {c}
    /\ listener' = [listener EXCEPT ![c] = "none"]
    /\ got' = [got EXCEPT ![c] = <<>>]
    /\ due' = [due EXCEPT ![c] = <<>>]
    /\ UNCHANGED <<open, cacheVars, readVars, queue>>

Leave(c) ==
    /\ c \in DOMAIN filter
    /\ filter' = [d \in DOMAIN filter \ {c} |-> filter[d]]
    /\ Unsubscribe(c)
    /\ listener' = [listener EXCEPT ![c] = "none"]
    /\ got' = [got EXCEPT ![c] = <<>>]
    /\ UNCHANGED <<open, cacheVars, readVars>>

-----------------------------------------------------------------------------
Older(h, ttl) == IF h.age < ttl THEN [h EXCEPT !.age = @ + 1] ELSE h

Clock ==
    /\ latest' = [s \in Symbols |-> IF latest[s].n = 0 THEN Absent ELSE Older(latest[s], TickTTL)]
    /\ book' = [s \in Symbols |-> IF book[s].lv = NoLevels THEN NoBook ELSE Older(book[s], DepthTTL)]
    /\ UNCHANGED <<open, writes, readVars, wsVars>>

Bell ==
    /\ open' = ~open
    /\ UNCHANGED <<cacheVars, readVars, wsVars>>

CacheNext ==
    \/ \E r \in Readers :
          \/ \E s \in Symbols : QuoteHit(r, s) \/ QuoteMiss(r, s) \/ QuoteForced(r, s)
          \/ BulkQuotes(r)
          \/ EodRow(r)
          \/ EodMissing(r)
          \/ FeedAnswers(r)
          \/ FeedFails(r)
          \/ Return(r)
    \/ WriteCache
    \/ \E s \in Symbols : ReadDepth(s)
    \/ \E c \in Clients :
          \/ \E f \in Symbols \cup {All} : Connect(c, f)
          \/ Forward(c)
          \/ SendFails(c)
          \/ Leave(c)
    \/ Clock
    \/ Bell

CacheSpec == CacheInit /\ [][CacheNext]_tickerVars

\* The event loop runs what is ready, and a client whose socket broke is noticed.
CacheFairSpec ==
    /\ CacheSpec
    /\ WF_tickerVars(WriteCache)
    /\ \A c \in Clients : WF_tickerVars(Forward(c)) /\ WF_tickerVars(listener[c] = "broken" /\ Leave(c))

-----------------------------------------------------------------------------
\* What each variable holds.
CacheTypeOK ==
    /\ open \in BOOLEAN
    /\ ticks \in Ticks
    /\ latest \in [Symbols -> [n : Ticks, age : 0 .. TickTTL]]
    /\ book \in [Symbols -> [lv : [1 .. Levels -> Ticks], age : 0 .. DepthTTL]]
    /\ served \in 0 .. TickTTL
    /\ writes \in Seq(Write)
    /\ forced \subseteq 1 .. MaxTicks
    /\ DOMAIN filter \subseteq Clients
    /\ subs \subseteq Clients
    /\ \A c \in Clients : queue[c] \in Seq(Message) /\ got[c] \in Seq(Message)
    /\ listener \in [Clients -> {"none", "alive", "broken"}]

\* hgetall() never gives out a tick that was written TickTTL or longer ago, however
\* late the pop of an expired hash comes (memory_store._expired).
NothingExpiredServed == served < TickTTL

\* "so an explicit override doesn't pollute the shared default (auto) cache entry"
\* (get_quote_through): what a forced source answered is neither cached nor published.
ForcedStaysPrivate ==
    /\ \A s \in Symbols : latest[s].n \notin forced
    /\ \A c \in Clients : \A i \in DOMAIN due[c] : due[c][i].n \notin forced

\* seq is what all has at the places P, each once and in their order.
Picks(seq, all, P) ==
    \E at \in [DOMAIN seq -> P] :
        /\ \A p \in P : \E i \in DOMAIN seq : at[i] = p
        /\ \A i, j \in DOMAIN seq : i < j => at[i] < at[j]
        /\ \A i \in DOMAIN seq : seq[i] = all[at[i]]

\* Of what was published since it subscribed, a client with a live listener has the
\* end still queued and has been sent, of the beginning, every tick of its filter,
\* once and in order (_pubsub_listener).
NothingLostOrDoubled ==
    \A c \in DOMAIN filter : listener[c] = "alive" =>
        LET taken == Len(due[c]) - Len(queue[c]) IN
        /\ taken >= 0
        /\ \A i \in DOMAIN queue[c] : queue[c][i] = due[c][taken + i]
        /\ Picks(got[c], due[c], {i \in 1 .. taken : Wanted(c, due[c][i])})

\* The place in seq of the last message about s, if it has one.
LastOf(seq, s) ==
    {i \in DOMAIN seq : seq[i].sym = s /\ \A j \in DOMAIN seq : j > i => seq[j].sym # s}

\* A client that has caught up knows the tick that the cache holds, while it is
\* there: hash, stream and publications are one pipeline (set_tick).
StreamShowsCache ==
    \A c \in DOMAIN filter, s \in Symbols :
        listener[c] = "alive" /\ queue[c] = <<>> /\ latest[s].n # 0 =>
            \A i \in LastOf(got[c], s) : got[c][i].n = latest[s].n

\* Exactly the clients whose handler runs are subscribed; the queues of the others
\* hold nothing, so publications never pile up for a client that left.
SubscribedWhileServed ==
    /\ subs = DOMAIN filter
    /\ \A c \in Clients \ subs : queue[c] = <<>> /\ listener[c] = "none"

\* No queue stays filled for ever: what is published is sent on, or the client goes.
QueuesDrain == \A c \in Clients : queue[c] # <<>> ~> queue[c] = <<>>

\* What every state satisfies: the types, the expiry of ticks, forced answers kept out
\* of the shared entry, and subscriptions held exactly by the handlers that run.
CacheInv == CacheTypeOK /\ NothingExpiredServed /\ ForcedStaysPrivate /\ SubscribedWhileServed
=============================================================================
