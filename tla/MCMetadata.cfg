\* Two requests and one symbol that only a map or /search knows, over two days.
SPECIFICATION FairSpec
CONSTANTS
    a = a
    b = b
    t1 = t1
    t2 = t2
    NSE = NSE
    Bse = Bse
    None = None
    NoFile = NoFile
    Ready = Ready
    Symbols = {a, b}
    Seeded = {b}
    Tasks = {t1, t2}
    Callers = {t1, t2}
    Loaders = {NSE, Bse}
    MinGap = 1
    Cooldown = 2
    MapTTL = 1
    Back = 2
    Hour = 1
    Retry = 1
    MaxDay = 1
INVARIANTS
    MetadataInv
PROPERTIES
    NseNeverGoesBack
    EveryRequestEnds
