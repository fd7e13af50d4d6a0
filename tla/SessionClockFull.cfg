SPECIFICATION Spec
CONSTANTS
    Requests = {r1, r2, r3}
    SessionTTL = 6
    SessionRefreshThreshold = 4
    Duration = 1
    Gap = 2
SYMMETRY Symmetry
INVARIANTS
    TypeOK
    ActiveStaysIn
PROPERTIES
    DeletedIsFinal
    AbandonedIsDead
    PromiseIsKept
