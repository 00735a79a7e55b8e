SPECIFICATION ReadSpec
CONSTANTS
    Nil = Nil
    TicksPerSecond = 1
    DurationHalf = 64
    Games = {g1}
    Workers = {w1, w2}
    Durations = {1}
    Offsets = {0, 2}
    MaxNow = 1
    MaxRows = 2
    MaxBack = 0
INVARIANTS
    ReplayNeverFails
