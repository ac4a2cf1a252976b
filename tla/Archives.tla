------------------------------ MODULE Archives ------------------------------
(***************************************************************************)
(* The daily price files (bhavcopies): NSEArchiveProvider                  *)
(* (src/providers/nse_archive.py) and the security master of BSE           *)
(* (bse_master.py), from which bse_archive.py quotes and bse_scraper.py    *)
(* takes its scrip codes.  Both are loaded under a lock by a walk back     *)
(* over the last days, one download at a time.                             *)
(***************************************************************************)
EXTENDS Integers

CONSTANTS
    Loaders,      \* the two loaders
    NSE,          \* the one that stops its walk at the file it has
    Callers,      \* concurrent calls
    NoFile,
    Back,         \* how many days the walk goes back
    Hour, Retry,  \* how long a file is not looked for again; how long after an attempt if there is none
    MaxDay        \* bound: days

ASSUME ArchivesAssumption ==
    /\ NSE \in Loaders
    /\ {Back, Hour, Retry} \subseteq Nat \ {0} /\ MaxDay \in Nat
    /\ NoFile \notin Callers \cup 0 .. MaxDay

VARIABLES
    day,       \* today's date
    loaded,    \* _rows: the date of the file each loader has
    rest,      \* how long none is looked for, from _loaded_at and _last_attempt
    lock,      \* who walks
    call       \* where each call of ensure_loaded() is

arVars == <<day, loaded, rest, lock, call>>

Out == [pc |-> "idle"]

ArInit ==
    /\ day = 0
    /\ loaded = [v \in Loaders |-> NoFile]
    /\ rest = [v \in Loaders |-> 0]
    /\ lock = [v \in Loaders |-> NoFile]
    /\ call = [c \in Callers |-> Out]

-----------------------------------------------------------------------------
\* Does the walk stop here: is this the file it has?
Have_Never(v, d) == FALSE

Have(v, d) == v = NSE /\ loaded[v] = d

\* ensure_loaded(), up to its lock.
Ensure(c, v) ==
    /\ call[c] = Out
    /\ call' = [call EXCEPT ![c] = [pc |-> "lock", at |-> v]]
    /\ UNCHANGED <<day, loaded, rest, lock>>

\* The next download of c's walk, back days before today, or the end.
Walk(c, v, back) ==
    IF back = Back \/ Have(v, day - back)
    THEN call' = [call EXCEPT ![c] = Out] /\ lock' = [lock EXCEPT ![v] = NoFile]
    ELSE call' = [call EXCEPT ![c] = [pc |-> "get", at |-> v, day |-> day - back, back |-> back]]
         /\ lock' = [lock EXCEPT ![v] = c]

\* With the lock: nothing to do for an hour after a file was loaded or, if there never
\* was one, for a short while after a walk began.
Locked(c) ==
    LET v == call[c].at IN
    /\ call[c].pc = "lock" /\ lock[v] = NoFile
    /\ IF rest[v] > 0
       THEN call' = [call EXCEPT ![c] = Out] /\ UNCHANGED <<rest, lock>>
       ELSE /\ rest' = (IF loaded[v] = NoFile THEN [rest EXCEPT ![v] = Retry] ELSE rest)
            /\ Walk(c, v, 0)
    /\ UNCHANGED <<day, loaded>>

\* A download ends: with the file, which takes the old one's place, or without it.
\* There is no file of a day before the first.
Downloaded(c) ==
    LET v == call[c].at IN
    /\ call[c].pc = "get" /\ call[c].day >= 0
    /\ loaded' = [loaded EXCEPT ![v] = call[c].day]
    /\ rest' = [rest EXCEPT ![v] = Hour]
    /\ call' = [call EXCEPT ![c] = Out]
    /\ lock' = [lock EXCEPT ![v] = NoFile]
    /\ UNCHANGED day

NotDownloaded_Again(c) ==
    /\ call[c].pc = "get"
    /\ Walk(c, call[c].at, (call[c].back + 1) % Back)
    /\ UNCHANGED <<day, loaded, rest>>

NotDownloaded(c) ==
    /\ call[c].pc = "get"
    /\ Walk(c, call[c].at, call[c].back + 1)
    /\ UNCHANGED <<day, loaded, rest>>

\* A cancelled call gives back the lock it has.
ArCancel(c) ==
    /\ call' = [call EXCEPT ![c] = Out]
    /\ lock' = [v \in Loaders |-> IF lock[v] = c THEN NoFile ELSE lock[v]]
    /\ UNCHANGED day

\* Time passes within a day, or past midnight.
ArTick ==
    /\ rest' = [v \in Loaders |-> IF rest[v] > 0 THEN rest[v] - 1 ELSE 0]
    /\ day' \in {day, day + 1} \cap (0 .. MaxDay)

ArStep(c) == Locked(c) \/ Downloaded(c) \/ NotDownloaded(c)

-----------------------------------------------------------------------------
\* A loader is walking if and only if somebody has its lock.
OneWalkAtATime ==
    \A v \in Loaders, c \in Callers : (lock[v] = c) <=> (call[c].pc = "get" /\ call[c].at = v)
=============================================================================
