CONSTANTS
    MaxThreads = 3
    MaxAdds = 2
    MaxIncrements = 4
    MaxInt = 7
    Samples = 2
    destroyed = destroyed
SPECIFICATION Spec
INVARIANTS
    TypeOK
    AllWorkIsTimed
    CountIsExact
    LossIsBounded
    LatchesOutliveTheirUse
    SamplesAreIndependent
PROPERTY SamplesComplete
