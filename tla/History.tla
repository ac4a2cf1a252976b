------------------------------- MODULE History -------------------------------
(***************************************************************************)
(* The candle endpoints of one symbol: /history, /candles and /intraday of *)
(* src/api/endpoints/superbrain.py with their byte-bounded TTL caches,     *)
(* /historical and its /eod of src/api/endpoints/historical.py, and the    *)
(* curves of src/engine/market_data.py they are built from.                *)
(*                                                                         *)
(* A candle is the day it belongs to and the source it came from: Yahoo    *)
(* ("yahoo"), the exchange scrapers ("scraper"), a live quote ("live") or  *)
(* the database ("db").  A list of candles is the set of them.             *)
(***************************************************************************)
EXTENDS Integers, Sequences, FiniteSets, SequencesExt

CONSTANTS
    Requests,     \* concurrent HTTP requests
    None,
    HistTTL, TodayTTL,   \* _HIST_TTL_S, _TODAY_TTL_S
    HistBudget,   \* the bytes _HIST_CACHE may hold, in candles
    DayLen,       \* ticks of the clock in a day
    MaxRequest,   \* ticks a request lasts at most: the HTTP clients have timeouts
    MaxTime       \* bound: the clock

ASSUME HistoryAssumption ==
    /\ {HistTTL, TodayTTL, HistBudget, DayLen} \subseteq Nat \ {0}
    /\ MaxRequest \in Nat
    /\ MaxTime \in Nat /\ MaxTime >= DayLen - 1

VARIABLES
    now,      \* the clock
    hist,     \* _HIST_CACHE: its entries, oldest first (put() re-inserts at the end)
    bytes,    \* _HIST_CACHE._bytes
    today,    \* _TODAY_CACHE: its entry, which is never evicted for its size here
    req,      \* what each request is doing
    answer    \* the answer the last step gave, if it gave one

vars == <<now, hist, bytes, today, req, answer>>

Day(t) == t \div DayLen
Today == Day(now)
Kinds == {"history", "daily", "candles", "intraday", "historical", "eod"}
Bars(days, source) == {[day |-> d, src |-> source] : d \in days}
Idle == [pc |-> "idle"]
Silent == answer' = None

Init ==
    /\ now = DayLen - 1    \* before the first midnight
    /\ hist = <<>> /\ bytes = 0
    /\ today = None
    /\ req = [r \in Requests |-> Idle]
    /\ answer = None

-----------------------------------------------------------------------------
\* _TTLCache.  A key is the interval and the last date of the range.
Key(q) == <<q.kind, q.end>>
SizeOf(v) == Cardinality(v) + 1

\* What the entries of c at the places I take: the candles of each, and the entry (-1).
Held(c, I) == UNION {{i} \X (c[i].val \cup {-1}) : i \in I}
BytesAt(c, I) == Cardinality(Held(c, I))
Bytes(c) == BytesAt(c, DOMAIN c)

Has(c, k) == \E i \in DOMAIN c : c[i].key = k
Place(c, k) == CHOOSE i \in DOMAIN c : c[i].key = k
Entry(c, k) == c[Place(c, k)]
Without(c, k) == IF Has(c, k) THEN RemoveAt(c, Place(c, k)) ELSE c
Hit(k) == Has(hist, k) /\ Entry(hist, k).age < HistTTL

\* What _evict(k) leaves of the count.
Evicted(k) == IF Has(hist, k) THEN bytes - SizeOf(Entry(hist, k).val) ELSE bytes

\* get() drops the entry it finds expired.
Miss(k) == hist' = Without(hist, k) /\ bytes' = Evicted(k)

\* put(): the old entry goes, the new one enters at the end, and the oldest leave
\* until the count is within the budget or one entry is left.
Stored(k, v, count) ==
    LET c == Append(Without(hist, k), [key |-> k, age |-> 0, val |-> v])
        b == count + SizeOf(v)
        fits(i) == i = Len(c) \/ b - BytesAt(c, 1 .. i - 1) <= HistBudget
        first == CHOOSE i \in DOMAIN c : fits(i) /\ \A j \in 1 .. i - 1 : ~fits(j)
    IN /\ hist' = SubSeq(c, first, Len(c))
       /\ bytes' = b - BytesAt(c, 1 .. first - 1)

Put_Added(k, v) == Stored(k, v, bytes)

Put(k, v) == Stored(k, v, Evicted(k))

\* /cache/clear
Clear ==
    /\ hist # <<>> \/ today # None
    /\ hist' = <<>> /\ bytes' = 0 /\ today' = None
    /\ UNCHANGED <<now, req>> /\ Silent

-----------------------------------------------------------------------------
\* A request goes on to await something, or it is answered.
Goes(r, q, pc) == req' = [req EXCEPT ![r] = [q EXCEPT !.pc = pc]] /\ Silent
Answers(r, q, bars) ==
    /\ req' = [req EXCEPT ![r] = Idle]
    /\ answer' = [kind |-> q.kind, end |-> q.end, bars |-> bars]

\* points_to_ohlc(): the points of a bucket become one candle, of the same session.
Ohlc(points) == Bars(points, "scraper")

FreshToday_Any == today # None

FreshToday == today # None /\ today.age < TodayTTL

\* What is kept of the past's candles in an intraday /history.
Past_Today(days) == {d \in days : d <= Today}

Past(days) == {d \in days : d < Today}

\* Is today's session within the range asked for?
Covers_Any(q) == TRUE

Covers(q) == Today <= q.end

\* sb_history() once it has the past's candles: an intraday one gets today's from
\* the scrapers only, through _cached_today_bars().
Assemble(r, q, days) ==
    IF q.kind = "daily" THEN Answers(r, q, Bars(days, "yahoo"))
    ELSE IF Covers(q) /\ ~FreshToday
         THEN Goes(r, [q EXCEPT !.days = Past(days), !.day = Today, !.upto = 0], "points")
         ELSE Answers(r, q, Bars(Past(days), "yahoo")
                              \cup (IF Covers(q) THEN Ohlc(today.days) ELSE {}))

\* /history for an intraday ("history") or a daily interval, up to the date `end`;
\* with no end given it is up to this moment (exact = FALSE).  A cached list is used
\* even if it is the empty one that a failed fetch left.
StartHistory(r, kind, end, exact) ==
    LET q == [pc |-> "idle", kind |-> kind, end |-> end, since |-> now, days |-> {}, day |-> 0,
              tries |-> 0, upto |-> IF exact THEN end - 1 ELSE end]
    IN /\ req[r] = Idle
       /\ kind \in {"history", "daily"}
       /\ end <= Today /\ (~exact => end = Today)
       /\ IF Hit(Key(q))
          THEN Assemble(r, q, Entry(hist, Key(q)).val) /\ UNCHANGED <<hist, bytes>>
          ELSE Miss(Key(q)) /\ Goes(r, q, "yahoo")
       /\ UNCHANGED <<now, today>>

\* /candles, /intraday (one minute and up), /historical and its /eod.
Start(r, kind) ==
    LET q == [pc |-> "idle", kind |-> kind, end |-> Today, since |-> now, days |-> {}, day |-> 0,
              tries |-> 0, upto |-> Today]
    IN /\ req[r] = Idle
       /\ \/ kind = "candles" /\ Goes(r, q, "yahoo")
          \/ kind = "intraday" /\ Goes(r, q, "points")
          \/ kind \in {"historical", "eod"} /\ Goes(r, q, "db")
       /\ UNCHANGED <<now, hist, bytes, today>>

\* _latest_session_only(): of a list with several sessions, the last one.
LatestSession(days) == {d \in days : \A e \in days : e <= d}

\* get_eod(): one row, the latest there is.
Eod(days, source) == Bars(LatestSession(days), source)

\* get_latest_eod(), or the range of get_eod_range() and get_ohlcv_candles().
Selected(q, days) == IF q.kind = "eod" THEN Eod(days, "db") ELSE Bars(days, "db")

\* The database answers; nothing stored, no database or an error: Yahoo.
DbRows(r, days) ==
    /\ req[r].pc = "db"
    /\ IF days = {} THEN Goes(r, req[r], "yahoo") ELSE Answers(r, req[r], Selected(req[r], days))
    /\ UNCHANGED <<now, hist, bytes, today>>

\* get_history() returns: all days of the range or, if it failed, none.
YahooRows(r, ok) ==
    LET q == req[r]
        days == IF ok THEN 0 .. q.upto ELSE {}
    IN /\ q.pc = "yahoo"
       /\ CASE q.kind \in {"history", "daily"} -> Put(Key(q), days) /\ Assemble(r, q, days)
            [] q.kind = "candles" ->
                 /\ Goes(r, [q EXCEPT !.days = days], "overlay")
                 /\ UNCHANGED <<hist, bytes>>
            [] q.kind = "intraday" ->
                 /\ Answers(r, q, Bars(IF Today \in days THEN {Today} ELSE days, "yahoo"))
                 /\ UNCHANGED <<hist, bytes>>
            [] q.kind = "historical" ->
                 /\ Answers(r, q, Bars(days, "yahoo"))
                 /\ UNCHANGED <<hist, bytes>>
            [] q.kind = "eod" ->
                 /\ Answers(r, q, Eod(days, "yahoo"))
                 /\ UNCHANGED <<hist, bytes>>
       /\ UNCHANGED <<now, today>>

\* sb_candles(): the live quote, if the market is open and there is one, takes the
\* place of today's candle or is added.
Overlay(days, quote) ==
    Bars(days \ (IF quote THEN {Today} ELSE {}), "yahoo") \cup Bars(IF quote THEN {Today} ELSE {}, "live")

LiveBar(r, quote) ==
    /\ req[r].pc = "overlay"
    /\ Answers(r, req[r], Overlay(req[r].days, quote))
    /\ UNCHANGED <<now, hist, bytes, today>>

-----------------------------------------------------------------------------
\* A curve is its points' sessions: of Tickertape the last one or two, of BSE's
\* StockReachGraph the last; an empty one is no curve.
Curves == {d .. e : d, e \in 0 .. Today}

\* _today_session_bars() keeps the points of the date it read before it asked.
SessionBars(q, curve) == LatestSession(curve) \cap {q.day}

\* What becomes of a curve: today's candles, cached, or the answer of /intraday.
UsePoints(r, q, curve) ==
    IF q.kind = "intraday"
    THEN Answers(r, q, Ohlc(LatestSession(curve))) /\ UNCHANGED today
    ELSE /\ today' = [age |-> 0, days |-> SessionBars(q, curve)]
         /\ Answers(r, q, Bars(q.days, "yahoo") \cup Ohlc(SessionBars(q, curve)))

\* Neither feed has points.
NoPoints(r, q) ==
    IF q.kind = "intraday"
    THEN Goes(r, q, "yahoo") /\ UNCHANGED today
    ELSE /\ today' = [age |-> 0, days |-> {}]
         /\ Answers(r, q, Bars(q.days, "yahoo"))

\* The NSE curve arrives; without it get_intraday_series() is asked for that of BSE.
NsePoints(r, curve) ==
    LET q == req[r] IN
    /\ q.pc = "points"
    /\ IF curve # {} THEN UsePoints(r, q, curve) ELSE Goes(r, q, "curve") /\ UNCHANGED today
    /\ UNCHANGED <<now, hist, bytes>>

\* get_intraday_series(): BSE's curve or a cached copy, which may be of any earlier
\* session, since it also serves, however old, when two attempts failed; with no copy
\* the first failure is retried.
BsePoints(r, curve) ==
    LET q == req[r] IN
    /\ q.pc = "curve"
    /\ IF curve # {} THEN UsePoints(r, q, curve)
       ELSE IF q.tries = 0 THEN Goes(r, [q EXCEPT !.tries = 1], "curve") /\ UNCHANGED today
       ELSE NoPoints(r, q)
    /\ UNCHANGED <<now, hist, bytes>>

-----------------------------------------------------------------------------
Await(r) ==
    \/ \E ok \in BOOLEAN : YahooRows(r, ok) \/ LiveBar(r, ok)
    \/ \E curve \in Curves : NsePoints(r, curve) \/ BsePoints(r, curve)
    \/ \E days \in {{}, 0 .. Today} : DbRows(r, days)

\* An entry ages until it is too old to be served.
Aged(e, ttl) == [e EXCEPT !.age = IF @ < ttl THEN @ + 1 ELSE ttl]

\* Time passes, but no request lasts longer than MaxRequest.
Clock ==
    /\ now < MaxTime
    /\ \A r \in Requests : req[r] # Idle => now - req[r].since < MaxRequest
    /\ now' = now + 1
    /\ hist' = [i \in DOMAIN hist |-> Aged(hist[i], HistTTL)]
    /\ today' = IF today = None THEN None ELSE Aged(today, TodayTTL)
    /\ UNCHANGED <<bytes, req>> /\ Silent

Next ==
    \/ \E r \in Requests :
          \/ \E kind \in Kinds, end \in 0 .. Today, exact \in BOOLEAN : StartHistory(r, kind, end, exact)
          \/ \E kind \in Kinds : Start(r, kind)
          \/ Await(r)
    \/ Clear
    \/ Clock

Spec == Init /\ [][Next]_vars

-----------------------------------------------------------------------------
\* The count is a count, and what is cached is of days that have begun.
TypeOK ==
    /\ now \in 0 .. MaxTime
    /\ bytes \in Nat
    /\ \A i \in DOMAIN hist : hist[i].age \in 0 .. HistTTL /\ hist[i].val \subseteq 0 .. Today
    /\ \A r \in Requests : req[r].pc \in {"idle", "yahoo", "points", "curve", "overlay", "db"}

\* "The cache is therefore bounded by approximate BYTES, evicting oldest first":
\* whatever requests overlap, expire, overwrite or clear, _bytes is what the entries
\* take and within the budget, or one entry alone is larger than it.
CacheBounded ==
    /\ bytes = Bytes(hist)
    /\ bytes <= HistBudget \/ Len(hist) = 1
    /\ \A i, j \in DOMAIN hist : hist[i].key = hist[j].key => i = j

\* "ARMED RULE: for intraday timeframes the CURRENT market day is served by the live
\* exchange scrapers ONLY (never the 15-min-delayed Yahoo feed)", also if a request
\* runs over midnight or meets what another request cached.
TodayNeverYahoo ==
    answer # None /\ answer.kind = "history" => [day |-> Today, src |-> "yahoo"] \notin answer.bars

\* No answer of /history has candles after the last date asked for.
RangeRespected ==
    answer # None /\ answer.kind = "history" => \A b \in answer.bars : b.day <= answer.end

\* A day comes twice, from two sources, only in an intraday /history within the TTL
\* of today's candles (and a request's length) after midnight: their cache key has no
\* date.  Otherwise every day comes once.
DoubledOnlyAtMidnight ==
    answer # None =>
        \A b, c \in answer.bars : b.day = c.day /\ b # c =>
            /\ answer.kind = "history"
            /\ b.day < Today
            /\ Day(now - TodayTTL - MaxRequest) <= b.day

\* What every state satisfies: the types, and a cache whose count is exact and within
\* its budget.
HistoryInv == TypeOK /\ CacheBounded
=============================================================================
