SPECIFICATION Spec
CONSTANTS
    Nil = Nil
    TicksPerSecond = 2
    DurationHalf = 64
    Games = {g1}
    Workers = {w1}
    Durations = {1}
    Offsets = {0}
    MaxNow = 2
    MaxRows = 2
    MaxBack = 0
INVARIANTS
    PausedAfterSaveStaysValid
