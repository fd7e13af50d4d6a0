SPECIFICATION Spec
CONSTANTS
    Requests = {r1, r2}
    SessionTTL = 4
    SessionRefreshThreshold = 2
    Duration = 1
    Gap = 2
INVARIANT RefreshHolds
