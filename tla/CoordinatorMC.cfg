SPECIFICATION FairSpec
CONSTANTS
    Order = {o1, o2}
    NoOrder = NoOrder
    CacheLimit = 1
    MaxDoublings = 1
    MaxBackoff = 3
INVARIANTS
    TypeOK
    RetryOnlyForActive
    MissingDetailsFailed
    PromptPoll
    CacheBounded
PROPERTIES
    TrackingFailureHarmless
    FeedSpec
    DetailsAskedAgain
