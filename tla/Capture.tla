------------------------------- MODULE Capture -------------------------------
(***************************************************************************)
(* The capture of one symbol's 1-second candles over days: the watchlist   *)
(* recorder (src/engine/watchlist_recorder.py), the durable store with its *)
(* retention and its past-day reads (src/engine/intraday_store.py), the    *)
(* process that hosts them (lifespan in src/main.py, src/db/connection.py) *)
(* and the watchdog that ends a wedged one (src/utils/watchdog.py).        *)
(*                                                                         *)
(* A candle is the age in days of the day it is of; days older than the    *)
(* retention are one.  The ring of samples (live_candles.py) holds about a *)
(* session.  IntradayStore has the flush of one day in detail.             *)
(* Time is that of the watchdog's polls, and apart from it the bell and    *)
(* midnight.                                                               *)
(***************************************************************************)
EXTENDS Integers, FiniteSetsExt

CONSTANTS
    Keep,     \* INTRADAY_RETENTION_DAYS
    Wedge     \* WATCHDOG_WEDGE_S, in whole intervals of the watchdog

\* The two settings of the watchdog are clamped each for itself: Wedge may be 0.
CaptureConstants == Keep \in Nat \ {0} /\ Wedge \in Nat

ASSUME CaptureAssumption == CaptureConstants

Ages == 0 .. Keep + 1
Lists == {"empty", "with", "without"}    \* the watchlist, with the symbol or without it

VARIABLES
    up,      \* the process: "up", "down", or "killed" by the watchdog
    stall,   \* the event loop is stuck
    stuck,   \* history: the polls since it got stuck
    stale,   \* the polls since last_beat
    beat,    \* a _beat is scheduled
    db,      \* db_manager.is_connected
    open,    \* is_market_open()
    wl,      \* _watchlist
    loop,    \* where _loop() is and, in a fetch, whether its copy of the list has the symbol
    tail,    \* the candles in the ring that no flush has stored
    mark,    \* the candle at the high-water mark, while the ring holds it
    rows,    \* the candles stored
    read     \* what a past-day request is doing

dog         == <<up, stall, stuck, stale, beat>>
lists       == <<wl, loop>>
stored      == <<tail, mark, rows>>
captureVars == <<dog, db, open, lists, stored, read>>

Off == [pc |-> "off", has |-> FALSE]
NoRead == [pc |-> "idle"]
Cut == [pc |-> "cut"]    \* history: a prune was to take the day that is being read

CaptureInit ==
    /\ up = "down" /\ stall = FALSE /\ stuck = 0 /\ stale = 0 /\ beat = FALSE
    /\ db = FALSE
    /\ open \in BOOLEAN
    /\ wl = "empty" /\ loop = Off
    /\ tail = {} /\ mark = {} /\ rows = {}
    /\ read = NoRead

-----------------------------------------------------------------------------
Runs == up = "up" /\ ~stall

\* What flush_live_to_store() sends: the candles from the mark on.
Sent == tail \cup mark

\* connect() to the database: once, at the start; a failure is final.
Connect(ok) == db' = ok

\* start() with the list l: no second loop, and none for an empty list.
StartLoop(l, l0) == IF l0.pc = "off" /\ l # "empty" THEN [pc |-> "top", has |-> FALSE] ELSE l0

\* start_event_loop_watchdog(): its thread schedules the first _beat.
StartWatchdog == stale' = 0 /\ beat' = TRUE

\* _env_watchlist(): the list of the environment, which may have changed.
EnvWatchlist == wl' \in Lists

\* lifespan(), up to its yield.
Boot ==
    /\ up # "up"
    /\ up' = "up" /\ stall' = FALSE /\ stuck' = 0
    /\ \E ok \in BOOLEAN : Connect(ok)
    /\ StartWatchdog
    /\ EnvWatchlist
    /\ loop' = StartLoop(wl', Off)
    /\ UNCHANGED <<open, stored, read>>

\* What a process loses when it ends.  An upsert under way is committed or not.
Ended(how) ==
    /\ up' = how
    /\ db' = FALSE /\ wl' = "empty" /\ loop' = Off
    /\ tail' = {} /\ mark' = {}
    /\ read' = NoRead
    /\ beat' = FALSE
    /\ rows' \in {rows} \cup (IF loop.pc = "flush" THEN {rows \cup Sent} ELSE {})

\* lifespan() after its yield: stop(), which does not flush, and disconnect(); or the
\* process dies.
Shutdown ==
    /\ up = "up"
    /\ Ended("down")
    /\ stall' = FALSE /\ stuck' = 0 /\ stale' = 0
    /\ UNCHANGED open

\* The loop gets stuck; it is unstuck when it has run what was scheduled meanwhile.
Stall ==
    /\ Runs
    /\ stall' = TRUE /\ stuck' = 0
    /\ UNCHANGED <<up, stale, beat, db, open, lists, stored, read>>

StallEnds ==
    /\ up = "up" /\ stall
    /\ stall' = FALSE /\ stuck' = 0
    /\ beat' = FALSE
    /\ stale' = IF beat THEN 0 ELSE stale
    /\ UNCHANGED <<up, db, open, lists, stored, read>>

\* _beat(), run by the loop.
Beat ==
    /\ Runs /\ beat
    /\ beat' = FALSE /\ stale' = 0
    /\ UNCHANGED <<up, stall, stuck, db, open, lists, stored, read>>

\* The watchdog's test.  A sleep is never shorter than asked, so at Wedge intervals
\* it may already find more.
Wedged(n) == n > Wedge

MayBeWedged_Early(n) == n >= Wedge - 1

MayBeWedged(n) == n >= Wedge

\* A poll of the watchdog's thread; a loop that runs has run the last beat by now.
Poll_OwnBeat ==
    /\ up = "up" /\ ~(beat /\ ~stall)
    /\ stuck' = IF stall /\ stuck < Wedge + 1 THEN stuck + 1 ELSE stuck
    /\ stale' = 0 /\ beat' = TRUE
    /\ UNCHANGED <<up, stall, db, open, lists, stored, read>>

Poll ==
    /\ up = "up" /\ ~(beat /\ ~stall)
    /\ stuck' = IF stall THEN stuck + 1 ELSE stuck
    /\ stale' = stale + 1
    /\ \/ ~Wedged(stale') /\ beat' = TRUE /\ UNCHANGED <<up, db, lists, stored, read>>
       \/ MayBeWedged(stale') /\ Ended("killed")
    /\ UNCHANGED <<stall, open>>

-----------------------------------------------------------------------------
\* POST /recorder: set_watchlist() and start().
SetWatchlist(l) ==
    /\ Runs
    /\ l # "empty"
    /\ wl' = l
    /\ loop' = StartLoop(l, loop)
    /\ UNCHANGED <<dog, db, open, stored, read>>

Goto(pc) == loop' = [pc |-> pc, has |-> FALSE]

\* _loop(): off-session it sleeps, else it takes a copy of the list to fetch.
LoopTop ==
    /\ Runs /\ loop.pc = "top"
    /\ loop' = IF open THEN [pc |-> "fetch", has |-> wl = "with"] ELSE [pc |-> "closed", has |-> FALSE]
    /\ UNCHANGED <<dog, db, open, wl, stored, read>>

\* record() appends a sample of today to the ring, a deque of SAMPLE_MAXLEN, which may
\* push the samples of the days before the last k out, stored or not.
Recorded(k) ==
    /\ tail' = {a \in tail : a <= k} \cup {0}
    /\ mark' = {a \in mark : a <= k}

\* fetch_quotes() returns, with a quote of the symbol or without: it is recorded and,
\* if it is time, the flush of the list begins.
Fetched_FlushIfQuoted(got, due) ==
    /\ Runs /\ loop.pc = "fetch"
    /\ IF got THEN loop.has /\ \E k \in Ages : Recorded(k) ELSE UNCHANGED <<tail, mark>>
    /\ Goto(IF due /\ got /\ db THEN "flush" ELSE "sleep")
    /\ UNCHANGED <<dog, db, open, wl, rows, read>>

Fetched(got, due) ==
    /\ Runs /\ loop.pc = "fetch"
    /\ IF got THEN loop.has /\ \E k \in Ages : Recorded(k) ELSE UNCHANGED <<tail, mark>>
    /\ Goto(IF due /\ loop.has /\ db /\ tail' \cup mark' # {} THEN "flush" ELSE "sleep")
    /\ UNCHANGED <<dog, db, open, wl, rows, read>>

\* Anything raised is logged.
FetchRaises ==
    /\ Runs /\ loop.pc = "fetch"
    /\ Goto("sleep")
    /\ UNCHANGED <<dog, db, open, wl, stored, read>>

\* upsert_intraday_candles() commits, and the mark moves to the last candle sent.
Flushed ==
    /\ Runs /\ loop.pc = "flush"
    /\ rows' = rows \cup Sent /\ mark' = {Min(Sent)} /\ tail' = {}
    /\ Goto("sleep")
    /\ UNCHANGED <<dog, db, open, wl, read>>

\* It raises, before the commit or after it.
CaptureFlushFails ==
    /\ Runs /\ loop.pc = "flush"
    /\ rows' \in {rows, rows \cup Sent}
    /\ Goto("sleep")
    /\ UNCHANGED <<dog, db, open, wl, tail, mark, read>>

Wake ==
    /\ Runs /\ loop.pc \in {"sleep", "closed"}
    /\ Goto("top")
    /\ UNCHANGED <<dog, db, open, wl, stored, read>>

-----------------------------------------------------------------------------
\* What prune_old(d) may leave: "time < now() - d days" spares the part of the day
\* d days ago that was later than this time of the day, if it has any.
Pruned_ThatDay(d) == {{a \in rows : a # d}, rows}

Pruned(d) == {{a \in rows : a < d}, {a \in rows : a <= d}}

\* _prune_loop(), and POST /prune with any number of days.
Prune(d) ==
    /\ Runs /\ db
    /\ rows' \in Pruned(d)
    /\ read' = IF read.pc = "rows" /\ d <= read.day THEN Cut ELSE read
    /\ UNCHANGED <<dog, db, open, lists, tail, mark>>

\* count_intraday(): has the day rows?
Counted(day) == day \in rows

\* read_past_intraday() for a past day: first the count,
ReadCount(day) ==
    /\ Runs /\ db /\ read = NoRead
    /\ Counted(day)    \* else the answer is captured = False
    /\ read' = [pc |-> "rows", day |-> day]
    /\ UNCHANGED <<dog, db, open, lists, stored>>

\* then the candles, or an error.
ReadRows ==
    /\ Runs /\ read.pc \in {"rows", "cut"}
    /\ read' = NoRead
    /\ UNCHANGED <<dog, db, open, lists, stored>>

-----------------------------------------------------------------------------
\* A session is longer than a stall or a sleep of the recorder.
Bell ==
    /\ open => loop.pc # "closed" /\ ~(up = "up" /\ stall)
    /\ open' = ~open
    /\ UNCHANGED <<dog, db, lists, stored, read>>

DayLater(a) == Min({a + 1, Keep + 1})
Older(S) == {DayLater(a) : a \in S}

Midnight ==
    /\ ~open
    /\ tail' = Older(tail) /\ mark' = Older(mark) /\ rows' = Older(rows)
    /\ read' = IF read.pc = "rows" THEN [read EXCEPT !.day = DayLater(@)] ELSE read
    /\ UNCHANGED <<dog, db, open, lists>>

CaptureNext ==
    \/ Boot \/ Shutdown
    \/ Stall \/ StallEnds \/ Beat \/ Poll
    \/ \E l \in Lists : SetWatchlist(l)
    \/ LoopTop \/ Wake
    \/ \E got, due \in BOOLEAN : Fetched(got, due)
    \/ FetchRaises
    \/ Flushed \/ CaptureFlushFails
    \/ \E d \in Ages \ {0} : Prune(d)
    \/ \E day \in Ages \ {0} : ReadCount(day)
    \/ ReadRows
    \/ Bell \/ Midnight

CaptureSpec == CaptureInit /\ [][CaptureNext]_captureVars

\* The host restarts the process, time passes, a loop that is not stuck for ever runs
\* what is ready, and neither the feed nor the database fails for ever.
CaptureFairSpec ==
    /\ CaptureSpec
    /\ WF_captureVars(Boot) /\ WF_captureVars(Poll)
    /\ WF_captureVars(Bell)
    /\ SF_captureVars(LoopTop \/ Wake) /\ SF_captureVars(open /\ LoopTop)
    /\ SF_captureVars(\E got \in BOOLEAN : Fetched(got, TRUE))
    /\ SF_captureVars(Flushed)
    /\ SF_captureVars(Prune(Keep))

-----------------------------------------------------------------------------
\* The watchdog has ended the process before more than one poll too many, and a
\* loop runs if and only if there is a list to record.
CaptureTypeOK ==
    /\ up \in {"up", "down", "killed"} /\ stall \in BOOLEAN /\ beat \in BOOLEAN
    /\ stale \in 0 .. Wedge + 1 /\ stuck \in 0 .. Wedge + 1
    /\ wl \in Lists
    /\ loop.pc \in {"off", "top", "fetch", "flush", "sleep", "closed"}
    /\ up = "up" => (loop.pc = "off" <=> wl = "empty")
    /\ tail \cup mark \cup rows \subseteq Ages
    /\ \A a, b \in mark : a = b    \* the mark is one candle, or there is none

\* "so only a true wedge (not mere slowness) trips it" (watchdog.py): a process is
\* only killed if its loop has been stuck for all but one interval of WATCHDOG_WEDGE_S
\* (which says nothing if that is a single interval, or less than one).
OnlyTheWedgedDie == up = "killed" => stuck >= Wedge - 1

\* A past day that read_past_intraday() counted rows of, and calls captured, has rows
\* to serve, over midnights and prunes between the two queries: only a prune that was
\* to take days of its age may have taken them.
CapturedHasRows == read.pc = "rows" => read.day \in rows

\* "so PAST-day sub-minute history is complete": what the ring holds unstored, be it of
\* an earlier session, is stored in the end, over failed flushes, closed markets,
\* stalls and fetches without a quote, as long as the process lives and the symbol
\* stays on the list.  (What later samples have pushed out of the ring by then is not.)
TailReachesStore ==
    (up = "up" /\ db /\ wl = "with" /\ tail # {}) ~> (tail = {} \/ wl # "with" \/ up # "up")

\* "a self-healing redeploy": a process whose loop is stuck gets unstuck or is replaced.
WedgeHeals == (up = "up" /\ stall) ~> Runs

\* "so the 1s store can't fill the disk" (lifespan): rows past the retention go, if
\* the database is connected.
OldRowsGo == (Keep + 1 \in rows /\ up = "up" /\ db) ~> (Keep + 1 \notin rows \/ up # "up")

\* What every state satisfies: the types, only a loop that is stuck gets the process
\* killed, and a day called captured has rows.
CaptureInv == CaptureTypeOK /\ OnlyTheWedgedDie /\ CapturedHasRows
=============================================================================
