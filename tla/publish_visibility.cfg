SPECIFICATION PublishSpec
CONSTANTS
    Selections = {h1}
    PublishSlots = {u1}
    Watch = watch
    MaxEdits = 0
    MaxClicks = 3
    MaxExits = 0
    None = None
CHECK_DEADLOCK FALSE
PROPERTIES
    VisibilityHonoured
