SPECIFICATION Spec
CONSTANTS
    Nil = Nil
    TicksPerSecond = 2
    DurationHalf = 100
    Game = g1
    OtherGame = g2
    Times = {0, 2, 4}
    SavedBys = {0, 1}
    MaxLen = 5
CHECK_DEADLOCK FALSE
INVARIANTS
    ReplayMatchesReference
PROPERTIES
    PauseAndResumeKeepValidity
