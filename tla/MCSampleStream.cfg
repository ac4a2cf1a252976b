\* Two tasks that share a source; a fetch may take longer than the TTL.
SPECIFICATION StreamSpec
CONSTANTS
    loop = loop
    reader = reader
    groww = groww
    tickertape = tickertape
    NoSource = NoSource
    Fetchers = {loop, reader}
    Feeds <- SharedSources
    PrimaryTTL = 1
    MaxFetch = 2
    SampleMaxLen = 3
    Width = 2
    MaxTime = 4
    MaxTotal = 2
SYMMETRY Alike
INVARIANTS
    NoVolumeInvented
    RecountBounded
    NoInterleaving
CHECK_DEADLOCK FALSE
