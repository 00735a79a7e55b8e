SPECIFICATION Spec
CONSTANTS
    Nil = Nil
    Usernames = {u1}
    Requests = {r1}
    MaxGame = 1
    MaxPlayer = 1
    MaxRows = 1
PROPERTIES
    NewGameStartsEmpty
