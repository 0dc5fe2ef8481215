SPECIFICATION Spec
CONSTANTS
    None = None
    Emergencies = {2}
    MaxCues = 3
    MaxRetained = 2
    MaxOverlap = 2
    MaxSends = 2
INVARIANT AppliedOnce
CHECK_DEADLOCK FALSE
