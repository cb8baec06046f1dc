SPECIFICATION Spec
CONSTANTS
    p1 = p1
    p2 = p2
    p3 = p3
    NoIp = NoIp
    Player = {p1, p2, p3}
    Ip <- SharedIp
    Chairs = 2
    EnterMin = 1
    EnterMax = 1
    MaxScore = 1
    TableNum = 2
    MaxTables = 5
    IsAddBlockers = TRUE
    MayStop = FALSE
    MayIdle = FALSE
SYMMETRY Symmetry
INVARIANTS TypeOK Membership
PROPERTIES FewTables ImplementsMatchMaking
