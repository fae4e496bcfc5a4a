SPECIFICATION Spec
CONSTANTS
    ann = ann
    bob = bob
    cid = cid
    stranger = stranger
    v1 = v1
    v2 = v2
    v3 = v3
    SubscribedTo <- MCSubscribedTo
    LikedVideos <- MCLikedVideos
    Rank <- MCRank
    RawTopVideos <- MCRawTopVideos
    ServiceBatchSize = 2
    Ttl = 2
    Request = {r1, r2}
    Updater = Updater
    AskedUser = {ann, stranger}
    Limit = {0, 1, 4}
    MaxBatchSize = 2
    Fallback = TRUE
    Retry = TRUE
    Modes = {"dial", "pool"}
    PoolSize = 2
    Lead = 1
    Configs <- MCConfigs
    Nil = Nil
    MaxConfigs = 1
    MaxNow = 3
SYMMETRY Symmetry
VIEW View
INVARIANTS
    VideoCallsAreValid
    RankedIsBest
    CacheIsComplete
    StatsAgree
    RoundRobin
PROPERTIES
    NoErrorOnceCached
