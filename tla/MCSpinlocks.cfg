CONSTANTS
    Threads = {t1, t2, t3, t4}
    nobody = nobody
SPECIFICATION Spec
INVARIANTS
    TypeOK
    MutualExclusion
PROPERTY ImplementsLock
