SPECIFICATION ApiFairSpec
CONSTANTS
    Nil = Nil
    Keys = {k1}
    LoginKeys = {}
    Requests = {r1, r2, r3}
    MaxExpired = 1
INVARIANTS
    ApiTypeOK
    AtMostOncePerLifetime
    OneAnswerPerKey
    AnswersMatchTable
PROPERTIES
    CompletedStays
    EveryRequestAnswered
