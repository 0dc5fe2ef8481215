SPECIFICATION Spec
CONSTANTS
 Inputs = {i1, i2}
 SpeakerOf <- MCSpeaker
 DiscOf <- MCDisc
 RunIds = {r1, r2}
 Slots = {t1, t2}
 Outs = {o1}
 NoRun = NoRun
 None = None
 DeadlineMs = 1
 MaxWork = 4
 MaxAttempt = 2
 MaxQueue = 2
 MaxClock = 1
 MaxCrashes = 1
SYMMETRY MCSymmetry
INVARIANTS TypeOK OneOpenRun OutputsOnce BegunRunsTended
PROPERTIES TerminalStays
CHECK_DEADLOCK FALSE
