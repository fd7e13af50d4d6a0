SPECIFICATION Safe
CONSTANTS
    Users = {"ann", "bob"}
    Registered = {"ann"}
    MaxLevelId = 2
    MaxOrder = 2
    MaxTools = 1
    Texts <- MCTexts
    Lists <- MCLists
    Keys = {"k1", "k2"}
    NoKey = NoKey
    Files <- MCFiles
    Elsewhere = {"other"}
    Conns = {c1, c2}
    Offered <- MCOffered
    NoJob = NoJob
    NoImage = NoImage
    Unread = Unread
PROPERTY BusyMeansWaited
