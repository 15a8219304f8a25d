SPECIFICATION FairSpec
CONSTANTS
    Call = {c1, c2, c3}
    NoCall = NoCall
CHECK_DEADLOCK FALSE
INVARIANTS
    TypeOK
    NoNeedlessRefresh
    RetryCarriesNewToken
    RefusedMeansDead
PROPERTIES
    CredentialSpec
    CallsEnd
