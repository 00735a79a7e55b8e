SPECIFICATION AccountsSpec
CONSTANTS
    Nil = Nil
    Usernames = {u1, u2}
    Requests = {r1}
    MaxGame = 1
    MaxPlayer = 2
    MaxRows = 1
    Passwords = {s1, s2}
    Callers = {c1}
SYMMETRY Symmetry
INVARIANTS
    AccountsTypeOK
    StoredOnlyIfEntitled
PROPERTIES
    PasswordsGuardAccounts
