SPECIFICATION SafetySpec
CONSTANTS
    a1 = a1
    a2 = a2
    b1 = b1
    A = A
    B = B
    Sessions = {a1, b1}
    Npubs = {A, B}
    NpubOf <- MCNpubOf
    Callers = {t1, t2}
    Commands = {c1, c2}
    Endpoints = {e1, e2}
    MaxWipes = 2
    WipeCanFail = TRUE
    NONE = NONE
    MaxWriters = 2
    MaxSeen = 1
    MaxCommands = 2
    NoRow = NoRow
    Letters = {l1, l2}
    Echo = echo
    CommandSlots = {k1, k2}
    MaxUserActs = 3
    MaxDmCrashes = 1
    Wraps = {w1}
    Foreign = {f1}
    PollSlots = {p1, p2}
    Margin = 1
    MaxNow = 2
    MaxRestarts = 1
    Unsent = Unsent
    Selections = {h1}
    PublishSlots = {u1, u2}
    Watch = watch
    MaxEdits = 1
    MaxClicks = 4
    MaxExits = 1
    MaxActs = 5
    None = None
    TopicSlots = {q1, q2}
    Invites = {v1, v2}
    MaxTopicCommands = 3
    MaxTopicExits = 1
    NoTopic = NoTopic
    Lists = {g1}
    CacheThreads = {h1t, h2t}
    OldCopies = 2
    MaxPuts = 3
    MaxClears = 1
    MaxCacheStops = 2
    Nobody = Nobody
    Nowhere = Nowhere
    Resolvers = {r1, r2}
    BrowseKeys = {y1, y2}
    MaxDraftEdits = 1
    MaxSettingsEdits = 1
    MaxResolves = 3
    NoList = NoList
SYMMETRY Symm
CHECK_DEADLOCK FALSE
INVARIANTS
    PartsTypeOK
    WipedSessionHasNoPlane
    HandAddedOnly
    NoFalseEmpty
    MessagesKept
    QuarantineHolds
    NoResurrectedListing
    ListingAccountedFor
    MembershipHonest
    InviteAdmitsOnce
    CacheHoldsLastStore
    OldCopyKept
    SentIsCurrent
PROPERTIES
    KeepsOneEndpoint
    ListenersSurvive
    VisibilityNeverFlips
