SPECIFICATION SteadySpec
CONSTANTS
    Users = {u1, u2}
    Nobody = Nobody
    Requests = {r1, r2}
    MaxLevelId = 3
    MaxOrder = 3
    Flags = {"Key"}
    Answers = {"key", "rune"}
    NoText = NoText
    Lower <- MCLower
SYMMETRY Symmetry
INVARIANTS
    LinearPlay
    SolvedStayOpen
    GateSound
    ListIsOpen
PROPERTY
    ImplementsCampaign
