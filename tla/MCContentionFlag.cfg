CONSTANTS
    MaxThreads = 2
    MaxAdds = 2
    MaxIncrements = 4
    MaxInt = 7
    Samples = 1
    destroyed = destroyed
SPECIFICATION Spec
INVARIANT FlagCountsEveryIncrement
