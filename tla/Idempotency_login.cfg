SPECIFICATION Spec
CONSTANTS
    Nil = Nil
    Keys = {k1}
    LoginKeys = {k1}
    Requests = {r1}
    MaxExpired = 0
INVARIANTS
    LoginSetsCookie
