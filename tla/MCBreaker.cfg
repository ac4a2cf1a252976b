\* One breaker with three concurrent calls, all of them cancellable.
SPECIFICATION FairSpec
CONSTANTS
    FailureThreshold = 2
    RecoveryTimeout = 2
    HalfOpenMaxCalls = 2
    MaxFailures = 4
    Calls = {c1, c2, c3}
    Cancellable = {c1, c2, c3}
INVARIANTS
    BreakerInv
    ClosedBelowThreshold
    SlotsAccounted
    NoWedge
PROPERTIES
    OpenShuts
    RecoversUnlessCancelled
