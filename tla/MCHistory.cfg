\* Two requests over two and a half short days; the cache holds some ranges, not all.
SPECIFICATION Spec
CONSTANTS
    r1 = r1
    r2 = r2
    None = None
    Requests = {r1, r2}
    HistTTL = 1
    TodayTTL = 1
    HistBudget = 3
    DayLen = 3
    MaxRequest = 1
    MaxTime = 5
INVARIANTS
    HistoryInv
    TodayNeverYahoo
    RangeRespected
    DoubledOnlyAtMidnight
SYMMETRY Symmetry
CHECK_DEADLOCK FALSE
