SPECIFICATION AutoFairSpec
CONSTANTS
    m1 = m1
    m2 = m2
    x1 = x1
    p = p
    ManifestAsks = {m1, m2}
    AccessAsks = {}
    PairOf <- MCPairOf
    Cooldown = 1
    GlobalMax = 1
    Window = 1
    AttemptsMax = 2
    AttemptKeysMax = 3
    SeenMax = 2
    HoldMax = 1
    Margin = 0
    MaxStamp = 1
    MaxCrashes = 0
    MaxChanges = 2
CHECK_DEADLOCK FALSE
PROPERTIES
    HeldIsServed
