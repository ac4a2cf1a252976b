\* Two proxies, two calls of the scraper and one of NSEPublic.
SPECIFICATION FairSpec
CONSTANTS
    p1 = p1
    p2 = p2
    p3 = p3
    t1 = t1
    t2 = t2
    n1 = n1
    None = None
    Proxies = {p1, p2}
    Tasks = {t1, t2}
    PublicTasks = {n1}
INVARIANTS
    ScraperInv
    QuietIsUsable
PROPERTIES
    EveryFetchEnds
