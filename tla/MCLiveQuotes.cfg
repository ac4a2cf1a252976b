\* One symbol on both exchanges, a request and the warm loop, over two short days.
SPECIFICATION LiveFairSpec
CONSTANTS
    a = a
    b = b
    r1 = r1
    r2 = r2
    t1 = t1
    t2 = t2
    t3 = t3
    NSE = NSE
    BSE = BSE
    Warm = Warm
    None = None
    Symbols = {a}
    Exchanges = {NSE, BSE}
    Requests = {r1}
    FetchTasks = {t1, t2}
    LiveTTL = 2
    WarmTTL = 2
    WarmFast = FALSE
    MaxRequest = 1
    DayLen = 5
    OpenFrom = 3
    OpenTo = 4
    MaxTime = 8
INVARIANTS
    LiveInv
    OpenFetchedRecently
PROPERTIES
    EveryRequestEnds
    SharesFlights
CHECK_DEADLOCK FALSE
