\* Two readers, with and without a database; flushes are rarer than the idle window.
SPECIFICATION FairSpec
CONSTANTS
    Tasks = {t1, t2}
    NoTask = NoTask
    Readers = {r1, r2}
    IdleTTL = 2
    FlushInterval = 3
INVARIANTS
    RecorderInv
PROPERTIES
    IdleStopsWithoutDb
    StreamIsFedWithoutDb
