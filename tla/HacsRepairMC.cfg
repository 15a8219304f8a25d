SPECIFICATION FairSpec
CONSTANTS
    Run = {r1, r2}
    MaxFaults = 2
    HacsMeanwhile = FALSE
INVARIANTS
    TypeOK
    OriginalKept
PROPERTIES
    AtomicSpec
    RetriesSucceed
