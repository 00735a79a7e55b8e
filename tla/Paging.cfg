SPECIFICATION PageSpec
CONSTANTS
    Nil = Nil
    TicksPerSecond = 1
    DurationHalf = 64
    Games = {g1}
    Workers = {w1}
    Durations = {1}
    Offsets = {0}
    MaxNow = 1
    MaxRows = 3
    MaxBack = 1
    Players = {p1, p2}
    Limits = {1, 2}
INVARIANTS
    PageTypeOK
    NothingSlipsBehind
    ListingComplete
    LastAgreesWithStatus
PROPERTIES
    FirstStays
