SPECIFICATION ReadSpec
CONSTANTS
    Nil = Nil
    TicksPerSecond = 1
    DurationHalf = 64
    Games = {g1}
    Workers = {w1}
    Durations = {1}
    Offsets = {0}
    MaxNow = 2
    MaxRows = 4
    MaxBack = 1
INVARIANTS
    ReadTypeOK
    ReplayNeverFails
    PositiveAnswerSound
