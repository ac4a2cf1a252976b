----------------------------- MODULE SampleStream -----------------------------
(***************************************************************************)
(* The samples of one symbol in src/engine/live_candles.py: record(), with *)
(* its rule that one source owns the symbol at a time, and build(), which  *)
(* turns the cumulative day-volume of the samples into volume per bar.     *)
(*                                                                         *)
(* Several tasks fetch the symbol: the recorder loop, callers of           *)
(* sample_once(), live quotes (superbrain.py) and the watchlist recorder.  *)
(* A source gives a cumulative day-volume of its own at some moment of the *)
(* call, unrelated to that of any other source, and 0 if it leaves it out; *)
(* the answer is recorded when the task runs again, up to MaxFetch later,  *)
(* which may be longer than the TTL of the owner.                          *)
(* Prices are left out: build() treats them per bar and independently.     *)
(***************************************************************************)
EXTENDS Integers, Sequences

CONSTANTS
    Fetchers,     \* tasks that record samples of the symbol
    Feeds,        \* Feeds[f]: the sources task f may be served by
    NoSource,     \* the symbol has no owner yet
    PrimaryTTL,   \* PRIMARY_SOURCE_TTL_S
    MaxFetch,     \* the longest a fetch takes (the HTTP timeout)
    SampleMaxLen, \* SAMPLE_MAXLEN, the length of the ring
    Width,        \* seconds per bar
    MaxTime,      \* bound: the clock
    MaxTotal      \* bound: the volume a source gives

\* What the constants are: a source is never NoSource, and the ring holds a sample.
StreamConstants ==
    /\ \A f \in Fetchers : NoSource \notin Feeds[f]
    /\ PrimaryTTL \in Nat /\ MaxFetch \in Nat /\ MaxTime \in Nat /\ MaxTotal \in Nat
    /\ SampleMaxLen \in Nat \ {0}
    /\ Width \in Nat \ {0}

ASSUME StreamAssumption == StreamConstants

VARIABLES
    now,        \* the clock
    fetch,      \* what each task is waiting for
    owner,      \* _primary_src
    ownerTs,    \* _primary_ts
    samples     \* the ring: time, source, cumulative volume; for the
                \* properties also when the source gave it

streamVars == <<now, fetch, owner, ownerTs, samples>>

StreamSources == UNION {Feeds[f] : f \in Fetchers}

Quiet == [src |-> NoSource, cum |-> 0, began |-> 0]

StreamInit ==
    /\ now = 0
    /\ fetch = [f \in Fetchers |-> Quiet]
    /\ owner = NoSource
    /\ ownerTs = 0
    /\ samples = <<>>

-----------------------------------------------------------------------------
\* A source answers.
Fetch(f) ==
    /\ fetch[f] = Quiet
    /\ \E s \in Feeds[f], v \in 0 .. MaxTotal :
          fetch' = [fetch EXCEPT ![f] = [src |-> s, cum |-> v, began |-> now]]
    /\ UNCHANGED <<now, owner, ownerTs, samples>>

\* deque(maxlen = SampleMaxLen).append(x)
Pushed(x) ==
    IF Len(samples) < SampleMaxLen
    THEN Append(samples, x)
    ELSE Append(Tail(samples), x)

\* Whether record() drops a sample of source s: another source owns the symbol.
Dropped_Never(s) == FALSE

Dropped_Early(s) ==
    /\ owner # NoSource
    /\ owner # s
    /\ now - ownerTs < PrimaryTTL

Dropped(s) ==
    /\ owner # NoSource
    /\ owner # s
    /\ now - ownerTs <= PrimaryTTL

\* record(): the answer is applied at the time the task runs again.
Record(f) ==
    /\ fetch[f] # Quiet
    /\ fetch' = [fetch EXCEPT ![f] = Quiet]
    /\ \/ /\ Dropped(fetch[f].src)
          /\ UNCHANGED <<owner, ownerTs, samples>>
       \/ /\ ~Dropped(fetch[f].src)
          /\ owner' = fetch[f].src
          /\ ownerTs' = now
          /\ samples' = Pushed([ts |-> now, src |-> fetch[f].src, cum |-> fetch[f].cum,
                                given |-> fetch[f].began])
    /\ UNCHANGED now

\* The fetch raised, gave no tick or a price that is not positive.
NothingRecorded(f) ==
    /\ fetch[f] # Quiet
    /\ fetch' = [fetch EXCEPT ![f] = Quiet]
    /\ UNCHANGED <<now, owner, ownerTs, samples>>

\* Time passes, but not past the timeout of a fetch.
Clock ==
    /\ now < MaxTime
    /\ \A f \in Fetchers : fetch[f] # Quiet => now - fetch[f].began < MaxFetch
    /\ now' = now + 1
    /\ UNCHANGED <<fetch, owner, ownerTs, samples>>

StreamNext ==
    \/ Clock
    \/ \E f \in Fetchers : Fetch(f) \/ Record(f) \/ NothingRecorded(f)

StreamSpec == StreamInit /\ [][StreamNext]_streamVars

-----------------------------------------------------------------------------
(***************************************************************************)
(* build(): to the bar of every sample it adds the increase since the      *)
(* sample before, counted only within one source and never when it would   *)
(* be negative.                                                            *)
(***************************************************************************)
Increase_AnySource(i) ==
    IF i > 1 /\ samples[i].cum >= samples[i - 1].cum
    THEN samples[i].cum - samples[i - 1].cum
    ELSE 0

Increase(i) ==
    IF /\ i > 1
       /\ samples[i].src = samples[i - 1].src
       /\ samples[i].cum >= samples[i - 1].cum
    THEN samples[i].cum - samples[i - 1].cum
    ELSE 0

Bucket(i) == samples[i].ts \div Width

\* The volume that the samples I add, after the first n samples of the ring.
Volume(I) ==
    LET v[n \in 0 .. Len(samples)] ==
          IF n = 0 THEN 0 ELSE v[n - 1] + (IF n \in I THEN Increase(n) ELSE 0)
    IN  v

InBar(b) == {i \in DOMAIN samples : Bucket(i) = b}

\* One bar per bucket that has a sample.
Build == [b \in {Bucket(i) : i \in DOMAIN samples} |-> Volume(InBar(b))[Len(samples)]]

-----------------------------------------------------------------------------
(***************************************************************************)
(* No source's volume goes back: no feed left it out after it had given    *)
(* one, and no task was overtaken by another of the same source.           *)
(***************************************************************************)
Clean ==
    \A i, j \in DOMAIN samples :
        i < j /\ samples[i].src = samples[j].src => samples[i].cum <= samples[j].cum

From(s) == {i \in DOMAIN samples : samples[i].src = s}

\* What the samples of source s add to bar b.
Share(s, b) == Volume(From(s) \cap InBar(b))[Len(samples)]

(***************************************************************************)
(* The volume of a bar is what its sources' own totals grew by: "an        *)
(* unrelated cumulative total [...] would fabricate volume" (live_candles  *)
(* lines 201-203).  From clean samples, the share of a source in a bar is  *)
(* never more than that source's total grew from any sample of it before   *)
(* the bar (its first in the ring if there is none) to its last in the     *)
(* bar; and a bar between two hand-overs carries all of that growth.  It   *)
(* holds however late feeds answer and when the ring drops its oldest.     *)
(***************************************************************************)
NoVolumeInvented ==
    Clean =>
        /\ \A s \in StreamSources, b \in DOMAIN Build : \A i, j \in From(s) :
              /\ Bucket(i) < b \/ \A k \in From(s) : i <= k
              /\ Bucket(j) = b
              /\ \A k \in From(s) \cap InBar(b) : k <= j
              => Share(s, b) <= samples[j].cum - samples[i].cum
        /\ \A b \in DOMAIN Build : \A i, j \in DOMAIN samples :
              /\ InBar(b) = (i + 1) .. j
              /\ \A k \in i .. j : samples[k].src = samples[i].src
              => Build[b] = samples[j].cum - samples[i].cum

(***************************************************************************)
(* The single-source rule keeps two recorders from counting the same       *)
(* trades twice ("volume DOUBLED", live_candles.py line 61), but a late    *)
(* answer may take the symbol over with a total older than what the owner  *)
(* was recorded with.  How much is then counted again is bounded: the      *)
(* total a new owner counts from was given less than MaxFetch - PrimaryTTL *)
(* before the last one recorded of any other source (not before it at all  *)
(* if answers are no later than the TTL).                                  *)
(***************************************************************************)
RecountBounded ==
    \A i, k \in DOMAIN samples :
        i < k /\ samples[i].src # samples[k].src =>
            samples[i].given - samples[k].given < MaxFetch - PrimaryTTL

(***************************************************************************)
(* One source owns the symbol at a time (the B2 rule of record()): two     *)
(* feeds cannot interleave.  A source that comes back after another one    *)
(* was silent for the TTL, and so was the other before it came back.       *)
(***************************************************************************)
NoInterleaving ==
    \A i, j, k \in DOMAIN samples :
        (/\ i < j /\ j < k
         /\ samples[i].src = samples[k].src
         /\ samples[j].src # samples[i].src)
        => samples[k].ts - samples[i].ts > 2 * PrimaryTTL
=============================================================================
