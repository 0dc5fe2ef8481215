SPECIFICATION Spec
CONSTANTS
    None = None
    Slots = {1, 2}
    MaxTicks = 2
    MaxMade = 7
INVARIANT ReleasedOnce
CHECK_DEADLOCK FALSE
