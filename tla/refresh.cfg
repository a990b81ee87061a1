SPECIFICATION RefreshSpec
CONSTANTS
    c1 = c1
    c2 = c2
    Carriers <- MCCarriers
    Author = author
    WaveMax = 1
    MaxAttempts = 1
    MaxSnapshot = 2
    MaxRestarts = 1
    a1 = a1
    a2 = a2
    b1 = b1
    A = A
    B = B
    Sessions = {a1, b1}
    Npubs = {A, B}
    NpubOf <- MCNpubOf
    Callers = {t1, t2}
    Commands = {m1}
    Endpoints = {e1, e2}
    MaxWipes = 2
    WipeCanFail = TRUE
    NONE = NONE
CHECK_DEADLOCK FALSE
INVARIANTS
    AuthorNotBehind
    PlaneServesLiveNpub
PROPERTIES
    CarrierDelivers
    NobodyWaitsForEver
