SPECIFICATION FullListSpec
CONSTANTS
    Conns = {c1, c2, c3}
    OtherAskers = {c3}
    Ids = {i1}
    Slugs = {s1}
    Permits = 2
    MaxLate = 1
    i1 = i1
    s1 = s1
    s2 = s2
    SlugOf <- MCSlugOf
    NONE = NONE
    MaxPlainNodes = 5
    MaxSealedNodes = 3
    NodeWeights = {2, 3, 5}
    PartLimit = 5
    MaxRounds = 8
    Drafts = {1, 2, 3, 4}
    FaceOf <- MCFaceOf
    PartsOf <- MCPartsOf
    BigRelays = {g1, g2}
    OwnBig = g1
    Uploads = {u1, u2}
    NoRelay = NoRelay
    NoEvent = NoEvent
    NoTree = NoTree
    MaxDrafts = 2
    MaxUploads = 2
    MaxSettings = 1
    MaxImports = 1
    MaxViews = 1
SYMMETRY FullListSymmetry
CHECK_DEADLOCK FALSE
INVARIANTS
    ClaimsMatchHandlers
    DeliveredIsUsable
    OutcomesAgree
    PartsReassemble
    EachNodeOnce
    FullListInOnePiece
PROPERTIES
    KeepsExchange
