SPECIFICATION Spec
CONSTANTS
    Names = {root, ann}
    AdminName = root
    NoName = NoName
    Requests = {r1, r2}
    MaxUserId = 3
    MaxSecret = 3
    MaxToken = 3
SYMMETRY Symmetry
INVARIANTS
    TypeOK
    Integrity
    OldSessionsExplained
PROPERTIES
    LockoutNeedsStaleActor
    AccountStatements
CHECK_DEADLOCK FALSE
