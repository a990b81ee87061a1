SPECIFICATION ScenesSpec
CONSTANTS
    Keys = {k1}
    Ids = {i1, i2}
    Users = {u1}
    Chats = {c1}
    DialCap = 2
    BackoffBase = 1
    Grace = 0
    Retention = 1
    MaxAsks = 2
    MaxTime = 2
    BatchSize = 2
    MaxRestarts = 1
    MaxLostWrites = 1
    peer = p
    PeerOf <- MCPeerOf
    AuthorOf <- MCAuthorOf
    Driver = driver
    NONE = NONE
SYMMETRY Symmetry
CHECK_DEADLOCK FALSE
INVARIANTS
    OneTicketPerAsk
    DialsAnswerRecordedAsks
    SpentByOwnDelivery
    InFlightAskKept
    OwnBudgetHolds
PROPERTIES
    KeepsRedemption
