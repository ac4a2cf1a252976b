\* Recovery of one breaker when a caller's task can be cancelled.
SPECIFICATION FairSpec
CONSTANTS
    FailureThreshold = 2
    RecoveryTimeout = 1
    HalfOpenMaxCalls = 2
    MaxFailures = 3
    Calls = {c1, c2}
    Cancellable = {c1, c2}
PROPERTIES
    RecoversAfterOutage
