\* Two symbols, so that a client's filter matters; two overlapping requests.
SPECIFICATION CacheFairSpec
CONSTANTS
    a = a
    b = b
    All = All
    r1 = r1
    r2 = r2
    c1 = c1
    Symbols = {a, b}
    Readers = {r1, r2}
    Clients = {c1}
    TickTTL = 1
    DepthTTL = 1
    Levels = 1
    MaxTicks = 2
INVARIANTS
    CacheInv
    NothingLostOrDoubled
    StreamShowsCache
PROPERTIES
    QueuesDrain
