SPECIFICATION FairSpec
CONSTANTS
    Nil = Nil
    Requests = {r1, r2}
CHECK_DEADLOCK FALSE
INVARIANTS
    TypeOK
    ExitZeroMeansGraceful
PROPERTIES
    InterruptEndsProcess
    ListenFailureEndsProcess
