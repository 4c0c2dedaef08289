CONSTANTS
    Pings = 3
    Calls = 3
    nullopt = nullopt
    destroyed = destroyed
SPECIFICATION Spec
INVARIANTS
    TypeOK
    SamplesAreSingleHandoffs
    StartedTogether
    LatchOutlivesItsUse
    CallsAreIndependent
PROPERTIES
    StoresAreHandoffs
    ImplementsHandoff
