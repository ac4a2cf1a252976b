------------------------------ MODULE LiveQuotes ------------------------------
(***************************************************************************)
(* The live quotes of src/api/endpoints/superbrain.py: _live_quote(), whose*)
(* callers share one fetch per symbol and a short cache; the bulk path     *)
(* (_batch_quotes, _fill_open) of /quotes and /screen; and the warm loop   *)
(* that parks the quotes of a hot universe.                                *)
(*                                                                         *)
(* A quote is where its price came from, the batch feed (which lists NSE)  *)
(* or the single-symbol feeds, and its opening price.  A price is known by *)
(* the session in which a feed gave it, not by the one it is the price of: *)
(* the archives, which are not marked delayed (base.py), answer with the   *)
(* prices of an older day when no live feed does, and nothing here looks   *)
(* at a tick's date.  Time stands still while a task is ready to run.      *)
(***************************************************************************)
EXTENDS Integers, FiniteSets

CONSTANTS
    Symbols,     \* the symbols asked for; also the hot universe
    Exchanges,   \* the exchanges; NSE is the one with a batch feed
    NSE,
    Requests,    \* concurrent HTTP requests
    Warm,        \* the warm loop
    FetchTasks,  \* fetch tasks
    None,        \* no task, no entry, no quote
    LiveTTL,     \* _LIVE_Q_TTL_S
    WarmTTL,     \* _WARM_TTL_S
    WarmFast,    \* _WARM_FAST: the warm loop does not fill in the open
    MaxRequest,  \* ticks a request lasts at most: the HTTP clients have timeouts
    DayLen, OpenFrom, OpenTo,   \* a day, and the market's hours in it
    MaxTime      \* bound: the clock

LiveConstants ==
    /\ Warm \notin Requests
    /\ NSE \in Exchanges
    /\ None \notin FetchTasks \cup Symbols \cup [key : Exchanges \X Symbols, all : BOOLEAN]
    /\ LiveTTL \in Nat \ {0} /\ WarmTTL \in Nat \ {0} /\ WarmFast \in BOOLEAN
    /\ DayLen \in Nat \ {0} /\ OpenFrom \in Nat /\ OpenTo \in OpenFrom .. DayLen
    /\ MaxRequest \in Nat
    /\ MaxTime \in Nat

\* Seconds against hours: a cached tick does not outlast the evening, and a parked
\* quote, with the two requests that make and use it, not the night before the bell.
ShortLived ==
    /\ LiveTTL - 1 <= DayLen - OpenFrom
    /\ WarmTTL - 1 + 2 * MaxRequest <= OpenFrom

ASSUME LiveAssumption == LiveConstants /\ ShortLived

VARIABLES
    now,          \* the clock
    cache,        \* _live_q_cache
    inflight,     \* _live_q_inflight
    fetches,      \* the fetch tasks
    parked,       \* _warm_cache
    sessionOpen,  \* _SESSION_OPEN
    proc,         \* what each request and the warm loop are doing
    answer        \* the quote the last step gave out in answer to a request

liveVars == <<now, cache, inflight, fetches, parked, sessionOpen, proc, answer>>

Procs == Requests \cup {Warm}

MarketOpen == now % DayLen >= OpenFrom /\ now % DayLen < OpenTo
Day(t) == t \div DayLen
\* The number of sessions opened by time t; the last of them is the session of time t.
Session(t) == Day(t) + (IF t % DayLen >= OpenFrom THEN 1 ELSE 0)

Keys == Exchanges \X Symbols    \* f"{exchange}:{symbol}"

NoOpen == -1
Nothing == [s \in Symbols |-> None]
Silent == answer' = None     \* a step that answers no request
NoRequest == [pc |-> "idle", ex |-> NSE, fast |-> FALSE, by |-> Nothing, got |-> Nothing,
         need |-> Nothing, day |-> 0, since |-> 0]

LiveInit ==
    /\ now = 0
    /\ cache = [k \in Keys |-> None]
    /\ inflight = [k \in Keys |-> None]
    /\ fetches = [t \in FetchTasks |-> None]
    /\ parked = Nothing
    /\ sessionOpen = Nothing
    /\ proc = [p \in Procs |-> NoRequest]
    /\ answer = None

-----------------------------------------------------------------------------
Fresh(k) == cache[k] # None /\ now - cache[k].at < LiveTTL

\* The injections of the keys K into tasks that are not running.
FreeTasks(K) ==
    {new \in [K -> {t \in FetchTasks : fetches[t] = None}] :
        \A k1, k2 \in K : new[k1] = new[k2] => k1 = k2}

\* _live_quote() on exchange rec.ex for every symbol of S, called by p: a fresh
\* entry is the result; the others wait for the task of their key, which the
\* callers of the keys in start begin.
Wait(p, S, rec, start) ==
    LET new == CHOOSE f \in FreeTasks(start) : TRUE
        key(s) == <<rec.ex, s>>
    IN /\ FreeTasks(start) # {}    \* bound: FetchTasks
       /\ inflight' = [k \in Keys |-> IF k \in start THEN new[k] ELSE inflight[k]]
       /\ fetches' = [t \in FetchTasks |-> IF \E k \in start : new[k] = t
                                         THEN [key |-> CHOOSE k \in start : new[k] = t, all |-> FALSE]
                                         ELSE fetches[t]]
       /\ proc' = [proc EXCEPT ![p] =
             [rec EXCEPT
                !.need = [s \in Symbols |-> IF s \in S /\ ~Fresh(key(s)) THEN inflight'[key(s)] ELSE None],
                !.got = [s \in Symbols |-> IF s \in S /\ Fresh(key(s)) THEN cache[key(s)].tick ELSE None]]]

Await_Anew(p, S, rec) ==
    Wait(p, S, rec, {k \in {rec.ex} \X S : ~Fresh(k)})

Await(p, S, rec) ==
    Wait(p, S, rec, {k \in {rec.ex} \X S : ~Fresh(k) /\ inflight[k] = None})

Waiting(p) == proc[p].pc \in {"quote", "live", "open"}
Ready(p) == Waiting(p) /\ proc[p].need = Nothing

\* What every task that waits for t gets when it ends with tick x.
Delivered(t, x) ==
    [p \in Procs |->
       IF Waiting(p) /\ \E s \in Symbols : proc[p].need[s] = t
       THEN [proc[p] EXCEPT !.need[fetches[t].key[2]] = None, !.got[fetches[t].key[2]] = x]
       ELSE proc[p]]

\* The done callback.
Popped_Kept(t) == inflight

Popped(t) == [inflight EXCEPT ![fetches[t].key] = None]

\* What the two price feeds give, with or without an open (whatever day it is of).
FeedTick(open) == [src |-> "feed", open |-> open]     \* _sb_quote()

BatchTick == [src |-> "batch", open |-> NoOpen]       \* _sb_quote_from_tt()

\* _do_live_fetch() ends: with a tick, which is cached, or without one.
FetchTick(t, open) ==
    /\ fetches[t] # None
    /\ LET x == FeedTick(open) IN
         /\ cache' = [cache EXCEPT ![fetches[t].key] = [at |-> now, tick |-> x]]
         /\ proc' = Delivered(t, x)
    /\ inflight' = Popped(t)
    /\ fetches' = [fetches EXCEPT ![t] = None]
    /\ UNCHANGED <<now, parked, sessionOpen>> /\ Silent

FetchNothing(t) ==
    /\ fetches[t] # None
    /\ MarketOpen \/ fetches[t].all
    /\ proc' = Delivered(t, None)
    /\ inflight' = Popped(t)
    /\ fetches' = [fetches EXCEPT ![t] = None]
    /\ UNCHANGED <<now, cache, parked, sessionOpen>> /\ Silent

\* The live feeds have nothing and the market is closed: ask all feeds.
FetchAgain(t) ==
    /\ fetches[t] # None
    /\ ~MarketOpen /\ ~fetches[t].all
    /\ fetches' = [fetches EXCEPT ![t].all = TRUE]
    /\ UNCHANGED <<now, cache, inflight, parked, sessionOpen, proc>> /\ Silent

-----------------------------------------------------------------------------
\* The end of a bulk path: the warm loop parks its quotes, a request is answered.
Finish(p, by) ==
    /\ proc' = [proc EXCEPT ![p] = NoRequest]
    /\ IF p = Warm
       THEN /\ parked' = [s \in Symbols |-> IF by[s] = None THEN parked[s] ELSE [at |-> now, q |-> by[s]]]
            /\ Silent
       ELSE /\ \E s \in Symbols : answer' = IF by[s] = None THEN None ELSE [ex |-> proc[p].ex, q |-> by[s]]
            /\ UNCHANGED parked

\* The date under which _SESSION_OPEN serves an entry.
Dated_Any(s) == sessionOpen[s] # None

Dated(s) == sessionOpen[s] # None /\ sessionOpen[s].day = Day(now)

\* _fill_open() up to its await, or the end if nothing is left to fetch.
FillOpen(p, by) ==
    LET filled == [s \in Symbols |->
                     IF by[s] # None /\ by[s].open = NoOpen /\ Dated(s)
                     THEN [by[s] EXCEPT !.open = sessionOpen[s].open] ELSE by[s]]
        fetch == {s \in Symbols : filled[s] # None /\ filled[s].open = NoOpen}
    IN IF proc[p].fast \/ fetch = {}
       THEN Finish(p, IF proc[p].fast THEN by ELSE filled) /\ UNCHANGED <<inflight, fetches>>
       ELSE /\ Await(p, fetch, [proc[p] EXCEPT !.pc = "open", !.by = filled, !.day = Day(now)])
            /\ UNCHANGED parked /\ Silent

\* fetch_quotes(): rows for any of the symbols, none if it failed; it is an NSE feed
\* and not asked for another exchange.
BatchRows(p) == IF proc[p].ex = NSE THEN SUBSET Symbols ELSE {{}}

\* _batch_quotes() after the batch feed answered with rows for R: what it lacks is
\* asked of _live_quote().
Batch(p, R) ==
    /\ proc[p].pc = "batch"
    /\ LET missing == {s \in Symbols : proc[p].by[s] = None}
           by == [s \in Symbols |-> IF s \in R \cap missing THEN BatchTick
                                    ELSE proc[p].by[s]]
       IN IF missing \subseteq R
          THEN FillOpen(p, by)
          ELSE /\ Await(p, missing \ R, [proc[p] EXCEPT !.pc = "live", !.by = by])
               /\ UNCHANGED parked /\ Silent
    /\ UNCHANGED <<now, cache, sessionOpen>>

\* gather() has all live quotes: they join the rest, then the open is filled in.
LiveDone(p) ==
    /\ Ready(p) /\ proc[p].pc = "live"
    /\ FillOpen(p, [s \in Symbols |-> IF proc[p].got[s] = None THEN proc[p].by[s] ELSE proc[p].got[s]])
    /\ UNCHANGED <<now, cache, sessionOpen>>

\* A tick, and one with an open.
Opened(x) == x # None /\ x.open # NoOpen

\* The second half of _fill_open() for the symbols whose tick has an open; the
\* date is the one read before the await.
OpenDone_Retried(p) ==
    /\ Ready(p) /\ proc[p].pc = "open"
    /\ FillOpen(p, [s \in Symbols |-> IF Opened(proc[p].got[s])
                                      THEN [proc[p].by[s] EXCEPT !.open = proc[p].got[s].open]
                                      ELSE proc[p].by[s]])
    /\ UNCHANGED <<now, cache, sessionOpen>>

OpenDone(p) ==
    /\ Ready(p) /\ proc[p].pc = "open"
    /\ LET got == proc[p].got IN
         /\ sessionOpen' = [s \in Symbols |-> IF ~Opened(got[s]) THEN sessionOpen[s]
                                              ELSE [day |-> proc[p].day, open |-> got[s].open]]
         /\ Finish(p, [s \in Symbols |-> IF ~Opened(got[s]) THEN proc[p].by[s]
                                         ELSE [proc[p].by[s] EXCEPT !.open = got[s].open]])
    /\ UNCHANGED <<now, cache, inflight, fetches>>

-----------------------------------------------------------------------------
\* /quote/{symbol}
Quote(r, ex, s) ==
    /\ proc[r] = NoRequest
    /\ Await(r, {s}, [NoRequest EXCEPT !.pc = "quote", !.ex = ex, !.since = now])
    /\ UNCHANGED <<now, cache, parked, sessionOpen>> /\ Silent

QuoteDone(r) ==
    /\ Ready(r) /\ proc[r].pc = "quote"
    /\ proc' = [proc EXCEPT ![r] = NoRequest]
    /\ answer' = LET full == {s \in Symbols : proc[r].got[s] # None} IN
                 IF full = {} THEN None    \* 404
                 ELSE [ex |-> proc[r].ex, q |-> proc[r].got[CHOOSE s \in full : TRUE]]
    /\ UNCHANGED <<now, cache, inflight, fetches, parked, sessionOpen>>

\* _warm_get()
WarmGet(s, fast) ==
    IF parked[s] # None /\ now - parked[s].at < WarmTTL /\ (fast \/ parked[s].q.open # NoOpen)
    THEN parked[s].q ELSE None

\* /quotes: parked quotes first, unless the caller wants names (enrich), the batch
\* feed for the others.
Bulk(r, ex, fast, warm) ==
    LET by == [s \in Symbols |-> IF warm THEN WarmGet(s, fast) ELSE None] IN
    /\ proc[r] = NoRequest
    /\ IF \A s \in Symbols : by[s] # None
       THEN /\ \E s \in Symbols : answer' = [ex |-> ex, q |-> by[s]]
            /\ UNCHANGED <<proc, parked>>
       ELSE /\ proc' = [proc EXCEPT ![r] = [NoRequest EXCEPT !.pc = "batch", !.ex = ex, !.fast = fast,
                                                        !.by = by, !.since = now]]
            /\ UNCHANGED parked /\ Silent
    /\ UNCHANGED <<now, cache, inflight, fetches, sessionOpen>>

\* /screen prices its rows by _batch_quotes() alone.
Screen(r) == Bulk(r, NSE, TRUE, FALSE)

\* _warm_loop(), between two sleeps: only while the market is open.
WarmTop ==
    /\ proc[Warm] = NoRequest
    /\ MarketOpen
    /\ proc' = [proc EXCEPT ![Warm] = [NoRequest EXCEPT !.pc = "batch", !.fast = WarmFast, !.since = now]]
    /\ UNCHANGED <<now, cache, inflight, fetches, parked, sessionOpen>> /\ Silent

\* A request is cancelled at its await.  The tasks it waits for are not shielded:
\* they are cancelled too, and with them everyone else who waits for one of them.
\* The warm loop takes that for its own cancellation and ends.
Cancel(r) ==
    LET hit == {proc[r].need[s] : s \in Symbols} \cap FetchTasks
        victims == {p \in Procs : Waiting(p) /\ \E s \in Symbols : proc[p].need[s] \in hit}
    IN /\ proc[r].pc \in {"batch", "quote", "live", "open"}
       /\ proc' = [p \in Procs |-> IF p = Warm /\ p \in victims THEN [NoRequest EXCEPT !.pc = "dead"]
                                   ELSE IF p = r \/ p \in victims THEN NoRequest ELSE proc[p]]
       /\ inflight' = [k \in Keys |-> IF inflight[k] \in hit THEN None ELSE inflight[k]]
       /\ fetches' = [t \in FetchTasks |-> IF t \in hit THEN None ELSE fetches[t]]
       /\ UNCHANGED <<now, cache, parked, sessionOpen>> /\ Silent

\* A request in progress, or a round of the warm loop.
Busy(p) == proc[p].pc \notin {"idle", "dead"}

\* Time passes, but nothing in progress lasts longer than MaxRequest; an entry past
\* its TTL, which nothing reads any more, is forgotten.
Clock ==
    /\ now < MaxTime
    /\ \A p \in Procs : ~Ready(p) /\ (Busy(p) => now - proc[p].since < MaxRequest)
    /\ now' = now + 1
    /\ cache' = [k \in Keys |-> IF cache[k] # None /\ now' - cache[k].at < LiveTTL THEN cache[k] ELSE None]
    /\ parked' = [s \in Symbols |-> IF parked[s] # None /\ now' - parked[s].at < WarmTTL THEN parked[s] ELSE None]
    /\ UNCHANGED <<inflight, fetches, sessionOpen, proc>> /\ Silent

Fetch(t) ==
    \/ FetchTick(t, Session(now))
    \/ FetchTick(t, NoOpen)
    \/ FetchNothing(t)
    \/ FetchAgain(t)

Progress(p) ==
    \/ \E R \in BatchRows(p) : Batch(p, R)
    \/ LiveDone(p)
    \/ OpenDone(p)
    \/ p # Warm /\ QuoteDone(p)

LiveNext ==
    \/ \E t \in FetchTasks : Fetch(t)
    \/ \E p \in Procs : Progress(p)
    \/ \E r \in Requests :
          \/ \E ex \in Exchanges, s \in Symbols : Quote(r, ex, s)
          \/ \E ex \in Exchanges, fast, warm \in BOOLEAN : Bulk(r, ex, fast, warm)
          \/ Screen(r)
          \/ Cancel(r)
    \/ WarmTop
    \/ Clock

LiveSpec == LiveInit /\ [][LiveNext]_liveVars

\* Fetches end (the HTTP clients have timeouts) and the loop runs what is ready.
LiveFairSpec ==
    /\ LiveSpec
    /\ \A t \in FetchTasks : WF_liveVars(Fetch(t))
    /\ \A p \in Procs : WF_liveVars(Progress(p))

-----------------------------------------------------------------------------
QuoteTick == [src : {"batch", "feed"}, open : Nat \cup {NoOpen}]

\* Every quote kept is a quote, and only the warm loop can be dead.
LiveTypeOK ==
    /\ now \in 0 .. MaxTime
    /\ \A k \in Keys : inflight[k] \in FetchTasks \cup {None} /\ (cache[k] # None => cache[k].tick \in QuoteTick)
    /\ \A s \in Symbols : parked[s] # None => parked[s].q \in QuoteTick
    /\ \A s \in Symbols : sessionOpen[s] # None => sessionOpen[s].open \in Nat
    /\ \A p \in Procs : proc[p].pc \in {"idle", "quote", "batch", "live", "open", "dead"}
    /\ \A r \in Requests : proc[r].pc # "dead"

\* "concurrent duplicate-symbol reads share ONE upstream fetch" (_live_quote).
SharesOneFetch ==
    \A u, v \in FetchTasks : fetches[u] # None /\ fetches[v] # None /\ fetches[u].key = fetches[v].key => u = v

\* Nobody waits for a fetch that has ended: what a request or the warm loop awaits
\* runs, for the symbol and exchange it is awaited for, and is the one that the
\* next caller of _live_quote() joins.
AwaitedTasksRun ==
    \A p \in Procs, s \in Symbols :
        Waiting(p) /\ proc[p].need[s] # None =>
            /\ fetches[proc[p].need[s]] # None
            /\ fetches[proc[p].need[s]].key = <<proc[p].ex, s>>
            /\ inflight[<<proc[p].ex, s>>] = proc[p].need[s]

\* The flights: a key is fetched while the in-flight table has a task for it, and a
\* caller is on those whose task it awaits.
Flying == {k \in Keys : inflight[k] # None}
Joined == [p \in Procs |-> {k \in Keys : Waiting(p) /\ k[1] = proc[p].ex /\ proc[p].need[k[2]] # None}]

Flights == INSTANCE SingleFlight WITH Callers <- Procs, flying <- Flying, joined <- Joined

\* _live_quote() with its shared tasks implements SingleFlight: a caller joins the flight
\* that is there, gets its result with everybody else on it, and leaves it in no other
\* way than by being cancelled, with it.
SharesFlights == Flights!Spec

\* An opening price that /quotes or /quote gives out was fetched in the current session
\* or the one before it (before today's bell), never earlier: the opens kept by
\* _fill_open() are dated, and the live cache and the parked quotes do not carry one
\* over, however bulk reads, the warm loop and midnight overlap.
OpenFetchedRecently ==
    answer # None /\ answer.q.open # NoOpen => answer.q.open >= Session(now) - 1

\* Every request ends, whoever else ends while it waits: each fetch wakes all who
\* joined it (_live_quote's shared task).
EveryRequestEnds == \A r \in Requests : proc[r] # NoRequest ~> proc[r] = NoRequest

\* What every state satisfies: the types, one upstream fetch for a symbol however many
\* read it, and nobody left waiting for a fetch that is over.
LiveInv == LiveTypeOK /\ SharesOneFetch /\ AwaitedTasksRun
=============================================================================
