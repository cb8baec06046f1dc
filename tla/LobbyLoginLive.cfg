CONSTANTS
    Uid = {u1, u2}
    Sock = {s1}
    NoUid = NoUid
    NoSock = NoSock
    Unset = Unset
    NoRow = {u2}
    LoadTimeout = 0
    OfflineTime = 0
    MaxQueue = 2
    Followed = {}
SPECIFICATION FairSpec
PROPERTIES AbandonedReclaimed RepairDrains
