SPECIFICATION FairSpec
CONSTANTS
    p1 = p1
    p2 = p2
    p3 = p3
    NoOne = NoOne
    Player = {p1, p2}
    Robot = {p2}
    Start <- TwoBalances
    MaxBet = 1
    BetArea = {0, 1}
    MaxInt = 1
    MaxOverflows = 1
    Rate = 2
    FeeRate = 50
    EnterMin = 1
    JettonMin = 1
    Condition = 2
    Limit = 4
    Chip = 1
    RobotApplySize = 1
    RobotRounds = 1
    JumpCost = 1
    MinRounds = 1
    BankerTimeLimit = 2
    EarlyPro <- FirstRound
    EarlyWin = 0
INVARIANTS BankerCovers BettorCovers
PROPERTIES SeatFilled TurnEnds
