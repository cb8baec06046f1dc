SPECIFICATION Spec
CONSTANTS
    p1 = p1
    p2 = p2
    p3 = p3
    NoOne = NoOne
    Player = {p1, p2, p3}
    Robot = {p3}
    Start <- Balances
    MaxBet = 1
    BetArea = {0, 1}
    MaxInt = 1
    MaxOverflows = 1
    Rate = 1
    FeeRate = 50
    EnterMin = 1
    JettonMin = 1
    Condition = 1
    Limit = 2
    Chip = 1
    RobotApplySize = 1
    RobotRounds = 1
    JumpCost = 1
    MinRounds = 1
    BankerTimeLimit = 1
    EarlyPro <- FirstRound
    EarlyWin = 0
INVARIANTS TypeOK BankerCovers BettorCovers LockConsistent 
PROPERTIES NothingMinted BankerStays
