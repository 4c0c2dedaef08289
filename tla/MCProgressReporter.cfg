CONSTANTS
    n = 4
    NoFile = NoFile
    OldFile = OldFile
    Truncated = Truncated
    Machines = {0, 1, 2, 4}
    Windows <- MCWindows
    DescriptionSize <- MCDescriptionSize
SPECIFICATION ConsoleSpec
INVARIANTS
    FileIsComplete
    ConsoleShowsProgress
PROPERTY SuiteEnds
