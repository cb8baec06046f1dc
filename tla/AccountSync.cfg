CONSTANTS
    Columns = {"coin", "safecoin"}
    Amounts <- OneCoin
    Start = 1
    MaxCoin = 2
    MaxDebt = 0
    MaxQueue = 2
    MaxToGame = 1
    MaxToLobby = 2
SPECIFICATION Spec
INVARIANTS TypeOK MemoryExact
PROPERTIES CopyStaysRight
