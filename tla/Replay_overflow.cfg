SPECIFICATION Spec
CONSTANTS
    Nil = Nil
    TicksPerSecond = 2
    DurationHalf = 4
    Game = g1
    OtherGame = g2
    Times = {0}
    SavedBys = {1, 2}
    MaxLen = 2
CHECK_DEADLOCK FALSE
INVARIANTS
    ReplayMatchesReference
