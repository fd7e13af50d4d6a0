SPECIFICATION ToolsSpec
CONSTANTS
    Users = {u1}
    Nobody = Nobody
    Requests = {r1}
    MaxLevelId = 2
    MaxOrder = 2
    Flags = {"Key"}
    Answers = {"key"}
    NoText = NoText
    Lower <- MCLower
    MaxToolId = 2
    Paths = {"a.pdf", "b.pdf"}
INVARIANTS
    ToolsTypeOK
    NoDanglingTie
PROPERTIES
    ToolsEarned
    FilesKept
    SameStatements
