SPECIFICATION Spec
CONSTANTS
    Nil = Nil
    TicksPerSecond = 1
    DurationHalf = 64
    Games = {g1, g2}
    Workers = {w1, w2}
    Durations = {0, 2}
    Offsets = {0}
    MaxNow = 2
    MaxRows = 3
    MaxBack = 1
SYMMETRY Symmetry
INVARIANTS
    TypeOK
    RowsInTimeOrder
    RefusedOnlyIfOvertaken
    FrozenWhilePaused
    ReplayFollowsInsertion
PROPERTIES
    DeadlineNeverShrinks
    RefinesSharedGame
