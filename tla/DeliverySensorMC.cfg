SPECIFICATION Spec
CONSTANTS
    Estimate = {2, 7, 722}
    Unknown = Unknown
    Minute = 2
    Period = 1
    IdlePeriod = 2
    PollTime = 2
    MaxTime = 14
INVARIANTS
    TypeOK
    ArrivalIsGenuine
    CountdownConsistent
    EstimatesAgree
