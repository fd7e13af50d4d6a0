SPECIFICATION MoveSpec
CONSTANTS
    Users = {u1}
    Nobody = Nobody
    Requests = {r1}
    MaxLevelId = 2
    MaxOrder = 3
    Flags = {"Key"}
    Answers = {"key"}
    NoText = NoText
    Lower <- MCLower
INVARIANT GateSound
