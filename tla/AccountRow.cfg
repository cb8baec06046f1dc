CONSTANTS
    Columns = {"coin"}
    Amounts <- OneCoin
    Start = 1
    MaxCoin = 2
    MaxDebt = 1
    MaxQueue = 2
    MaxToGame = 1
    MaxToLobby = 2
SPECIFICATION Spec
INVARIANTS RowNotNegative
