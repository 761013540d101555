CONSTANTS
    Count = 2
    Pickers = {p1, p2}
    WordSize = 3
SPECIFICATION FairPickSpec
INVARIANTS
    PickTypeOK
    StableUpstreamNotSkipped
PROPERTIES
    DownUpstreamAbandoned
    RoutesAroundFailures
