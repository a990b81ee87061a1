SPECIFICATION DmSpec
CONSTANTS
    Letters = {l1}
    Echo = echo
    CommandSlots = {k1}
    MaxUserActs = 2
    MaxDmCrashes = 1
CHECK_DEADLOCK FALSE
INVARIANTS
    NoMessageLost
