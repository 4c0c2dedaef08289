CONSTANTS
    Rounds = 3
    nullopt = nullopt
SPECIFICATION Spec
INVARIANTS
    TypeOK
    RoundsAreIndependent
    StampAfterRelease
    MailboxProtocol
    PrimitiveContracts
PROPERTY ImplementsHandoff
