SPECIFICATION LoadSpec
CONSTANTS
    ann = ann
    bob = bob
    cid = cid
    stranger = stranger
    v1 = v1
    v2 = v2
    v3 = v3
    SubscribedTo <- MCSubscribedTo
    LikedVideos <- MCLikedVideos
    Rank <- MCRank
    RawTopVideos <- MCRawTopVideo
    ServiceBatchSize = 2
    Ttl = 2
    Request = {r1}
    Updater = Updater
    AskedUser = {bob}
    Limit = {0}
    MaxBatchSize = 0
    Fallback = TRUE
    Retry = TRUE
    Modes = {"dial", "mock"}
    PoolSize = 2
    Lead = 1
    Configs <- MCConfigs
    Nil = Nil
    MaxConfigs = 2
    MaxNow = 3
INVARIANTS
    ClientBehindServer
PROPERTIES
    ReportSettles
    RequestsAnswered
    CacheGetsFresh
