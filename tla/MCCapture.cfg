\* A day of retention, and a watchdog that waits for two intervals.
SPECIFICATION CaptureFairSpec
CONSTANTS
    Keep = 1
    Wedge = 2
INVARIANTS
    CaptureInv
PROPERTIES
    TailReachesStore
    WedgeHeals
    OldRowsGo
