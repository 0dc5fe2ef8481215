SPECIFICATION Spec
CONSTANTS
    Seats <- MCSeats
    Habits <- MCHabits
    SignEvery = 1
    WindowTicks = 2
    LevelTicks = 2
    MaxLevels = 2
    MaxRecords = 4
    Perm <- MCPerm
    Controls = {"pass"}
    Careful = FALSE
    None = None
INVARIANT ChainContinues
CHECK_DEADLOCK FALSE
