SPECIFICATION ProgressSpec
CONSTANTS
    Keys = {k1}
    Ids = {i1}
    Users = {u1}
    Chats = {}
    DialCap = 2
    BackoffBase = 1
    Grace = 1
    Retention = 2
    MaxAsks = 2
    MaxTime = 2
    BatchSize = 2
    MaxAskRestarts = 0
    MaxLostWrites = 0
    PeerOf <- MCPeerOf
    AuthorOf <- MCPeerOf
    Driver = driver
    NONE = NONE
    peer = p
    Conns = {c1, c2}
    OtherAskers = {c2}
    Slugs = {s1}
    SlugOf <- MCSlugOf
    slug = s1
    Permits = 1
    Contacts = {x1, x2, x3}
    MaxChanges = 1
    NoContact = NoContact
    Wraps = {w1}
    Foreign = {f1}
    PollSlots = {p1}
    Margin = 1
    MaxNow = 2
    MaxRestarts = 0
    Unsent = Unsent
CHECK_DEADLOCK FALSE
PROPERTIES
    PendingHasItsTurn
    EveryWrapDecoded
    AnswerSettles
    ConnectionsEnd
