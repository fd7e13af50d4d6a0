SPECIFICATION CalmSpec
CONSTANTS
    Names = {root, ann}
    AdminName = root
    NoName = NoName
    Requests = {r1, r2}
    MaxUserId = 1
    MaxSecret = 1
    MaxToken = 2
INVARIANT OldPasswordShutOut
CHECK_DEADLOCK FALSE
