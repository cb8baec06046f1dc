SPECIFICATION FairSpec
CONSTANTS
    p1 = p1
    p2 = p2
    p3 = p3
    NoIp = NoIp
    Player = {p1, p2}
    Ip <- OwnIp
    Chairs = 2
    EnterMin = 1
    EnterMax = 1
    MaxScore = 2
    TableNum = 1
    MaxTables = 3
    IsAddBlockers = TRUE
    MayStop = TRUE
    MayIdle = TRUE
INVARIANTS Membership
PROPERTIES ImplementsMatchMaking MarryEnds OfflineRecovered
