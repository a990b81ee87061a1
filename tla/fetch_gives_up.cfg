SPECIFICATION WaveFairSpec
CONSTANTS
    Carriers <- NoCarriers
    Author = author
    WaveMax = 1
    MaxAttempts = 1
    MaxSnapshot = 3
    MaxRestarts = 0
CHECK_DEADLOCK FALSE
PROPERTIES
    SelfHeals
