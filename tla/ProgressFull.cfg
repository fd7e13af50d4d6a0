SPECIFICATION Spec
CONSTANTS
    Users = {u1}
    Nobody = Nobody
    Requests = {r1}
    MaxLevelId = 3
    MaxOrder = 3
    Flags = {"Key", "rune"}
    Answers = {"key"}
    NoText = NoText
    Lower <- MCLower
INVARIANTS
    TypeOK
    Integrity
    NeverStuck
    ListMatchesGate
PROPERTY
    EarnedSolve
