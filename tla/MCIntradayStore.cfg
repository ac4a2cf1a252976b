\* One recorder flushes the symbol.
SPECIFICATION Spec
CONSTANTS
    Flushers = {ondemand}
    MaxSecond = 4
    MaxSamples = 2
INVARIANTS
    StoreInv
    MarkedBarsAreFinal
PROPERTIES
    StoredNeverShrinks
CHECK_DEADLOCK FALSE
