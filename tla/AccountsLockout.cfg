SPECIFICATION CalmSpec
CONSTANTS
    Names = {root, ann}
    AdminName = root
    NoName = NoName
    Requests = {r1, r2}
    MaxUserId = 2
    MaxSecret = 1
    MaxToken = 2
PROPERTY AdminRemains
CHECK_DEADLOCK FALSE
