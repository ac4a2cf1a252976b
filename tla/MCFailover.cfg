\* Two requests race through a live and a delayed provider.
SPECIFICATION Spec
CONSTANTS
    FailureThreshold = 1
    RecoveryTimeout = 1
    HalfOpenMaxCalls = 1
    MaxFailures = 1
    Catalogue <- NseAndYahoo
    Requests = {r1, r2}
    Queries <- MixedQueries
    Toggles = {"groww"}
INVARIANTS
    FailoverInv
    BestUsableFirst
PROPERTIES
    CascadeUsesBreakers
