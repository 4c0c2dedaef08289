CONSTANTS
    CoreCounts = {0, 1, 2, 3}
    Latencies = {1, 2}
    Windows <- MCWindows
SPECIFICATION ConsoleSpec
INVARIANTS
    TypeOK
    HeatmapIsWhole
    MovedOffMeasuredCores
    GridShowsProgress
    ConsoleShowsGrid
    CursorReturns
PROPERTY MapCompletes
