CONSTANTS
    Uid = {u1, u2}
    Sock = {s1, s2}
    NoUid = NoUid
    NoSock = NoSock
    Unset = Unset
    NoRow = {}
    LoadTimeout = 0
    OfflineTime = 0
    MaxQueue = 2
    Followed = {"account"}
SPECIFICATION Spec
INVARIANTS TypeOK SessionsOwned
PROPERTIES ChangesKept ConnectedKept
SYMMETRY Symmetry
