SPECIFICATION CursorSpec
CONSTANTS
    Wraps = {w1, w2}
    Foreign = {}
    PollSlots = {p1}
    Margin = 1
    MaxNow = 2
    MaxRestarts = 0
    Unsent = Unsent
CHECK_DEADLOCK FALSE
INVARIANTS
    NoStrandedWrap
