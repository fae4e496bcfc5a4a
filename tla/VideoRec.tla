------------------------------ MODULE VideoRec ------------------------------
(***************************************************************************)
(* VideoRecService of lab1 and lab2 (video_rec_service/server_lib): any    *)
(* number of GetTopVideos handlers, each a goroutine, and the goroutine    *)
(* that keeps the cache of trending videos, over the two services of       *)
(* Services.tla.                                                           *)
(*                                                                         *)
(* A step is one call of a service, or the code between two calls that     *)
(* touches shared state once: the cache under trendingLock, the counters   *)
(* under lock.  The one access to a counter that takes no lock, the atomic *)
(* increment at the start of GetTopVideos, may fall between the load and   *)
(* the store of the decrement.                                             *)
(***************************************************************************)
EXTENDS Services

CONSTANTS
    Request,        \* the calls of GetTopVideos
    Updater,        \* the goroutine of UpdateTrendingVideos
    AskedUser,      \* the user ids clients ask for, some perhaps unknown
    Limit,          \* the limits they ask for
    MaxBatchSize,   \* VideoRecServiceOptions.MaxBatchSize
    Fallback,       \* ~ DisableFallback
    Retry,          \* ~ DisableRetry
    Modes,          \* how clients are made: "dial" in each request (lab1), a "pool"
                    \* of connections (lab2), in-process "mock" clients (tests)
    PoolSize,       \* ClientPoolSize
    Lead,           \* how long before the expiration the cache is refreshed
    Configs,        \* the injection configs SetInjectionConfig is given
    Nil,            \* trendingVideos = nil, no response
    MaxConfigs,     \* bound: calls of SetInjectionConfig
    MaxNow          \* bound: the clock

ASSUME OptionsAssumption ==
    /\ Updater \notin Request /\ Nil \notin 0..(PoolSize - 1)
    /\ MaxBatchSize \in 0..ServiceBatchSize
    /\ {Lead, MaxConfigs, MaxNow} \subseteq Nat
    /\ Configs \subseteq [failureRate : Nat, responseOmissionRate : Nat]
    /\ {Fallback, Retry} \subseteq BOOLEAN
    /\ Modes \subseteq {"dial", "pool", "mock"} /\ PoolSize \in Nat \ {0}

Caller == Request \cup {Updater}

VARIABLES
    mode,           \* how this server was made
    connIndex,      \* userConnIndex and videoConnIndex
    conn,           \* the connections each request has picked
    pc,             \* where each goroutine is
    userId, limit,  \* the fields of each request
    todo,           \* the ids a Fetch loop has not fetched yet
    infos,          \* what it has fetched, an info named by its id
    failed,         \* TRUE after the first failure of a call that is retried
    expired,        \* the context's deadline is over
    response,       \* the GetTopVideosResponse, or the error
    trendingVideos, expirationTime,  \* the cache
    fetchedExpiration,               \* expirationTime of the refresh under way
    numActiveRequests, activeLoaded, \* the counter, and the value -= has loaded
    stats,          \* the other counters
    faults,         \* the injection config of each service
    configs, now

calls == <<todo, infos, failed, expired>>
pool  == <<mode, connIndex, conn>>
cache == <<trendingVideos, expirationTime, fetchedExpiration>>
world == <<faults, configs, now>>
vars  == <<pc, userId, limit, calls, response, cache, numActiveRequests,
           activeLoaded, stats, world, pool>>

Fetching == {"origUser", "subscribed", "videos"}

\* trendingLock is held for the whole of a refresh, its calls included.
Refreshing == pc[Updater] \in {"trending", "videos", "hung"}

\* Mutant: without `limit > 0`.
TruncateToZero(ids, n) == IF n \in 0..Len(ids) THEN SubSeq(ids, 1, n) ELSE ids

\* A limit that is not positive, or larger than the list, is none.
Truncate(ids, n) == IF n \in 1..Len(ids) THEN SubSeq(ids, 1, n) ELSE ids

\* sort.SliceStable by descending rank.
Ranked(ids) ==
    LET Before(j, i) == \/ Rank[ids[j]] > Rank[ids[i]]
                        \/ Rank[ids[j]] = Rank[ids[i]] /\ j < i
        Place(i) == 1 + Cardinality({j \in 1..Len(ids) : Before(j, i)})
    IN  [k \in 1..Len(ids) |-> ids[CHOOSE i \in 1..Len(ids) : Place(i) = k]]

\* Mutant: liked videos are collected without LikedVideosMap.
LikedWithRepeats(users) == FlattenSeq([i \in 1..Len(users) |-> LikedVideos[users[i]]])

\* The videos the users like, each once, in the order of its first like.
LikedByAny(users) ==
    DeduplicateIds(FlattenSeq([i \in 1..Len(users) |-> LikedVideos[users[i]]]))

\* The slice of the next call; MaxBatchSize = 0 means one call for each id.
Batch(ids) ==
    SubSeq(ids, 1, IF MaxBatchSize = 0 THEN 1
                   ELSE IF Len(ids) > MaxBatchSize THEN MaxBatchSize ELSE Len(ids))

-----------------------------------------------------------------------------
Init ==
    /\ mode \in Modes
    /\ connIndex = [s \in {"user", "video"} |-> 0]
    /\ conn = [r \in Request |-> [s \in {"user", "video"} |-> Nil]]
    /\ pc = [c \in Caller |-> CASE c \in Request -> "idle"
                                [] c = Updater -> IF Fallback THEN "connect"
                                                              ELSE "disabled"]
    /\ userId = [r \in Request |-> Nil] /\ limit = [r \in Request |-> 0]
    /\ todo = [c \in Caller |-> <<>>] /\ infos = [c \in Caller |-> <<>>]
    /\ failed = [c \in Caller |-> FALSE] /\ expired = [c \in Caller |-> FALSE]
    /\ response = [r \in Request |-> Nil]
    /\ trendingVideos = Nil
    /\ now = Lead /\ expirationTime = now /\ fetchedExpiration = 0
    /\ numActiveRequests = 0 /\ activeLoaded = 0
    /\ stats = [total |-> 0, errors |-> 0, user |-> 0, video |-> 0, stale |-> 0]
    /\ faults = [s \in {"user", "video"} |-> NoFaults] /\ configs = 0

Goto(c, where) == pc' = [pc EXCEPT ![c] = where]

\* A Fetch loop is entered for these ids.
Fetch(c, ids) ==
    /\ todo' = [todo EXCEPT ![c] = ids]
    /\ infos' = [infos EXCEPT ![c] = <<>>]
    /\ failed' = [failed EXCEPT ![c] = FALSE]

\* The variables of the loops and of the refresh go out of scope.
Forget(c) ==
    /\ todo' = [todo EXCEPT ![c] = <<>>] /\ infos' = [infos EXCEPT ![c] = <<>>]
    /\ failed' = [failed EXCEPT ![c] = FALSE] /\ expired' = [expired EXCEPT ![c] = FALSE]
    /\ fetchedExpiration' = IF c = Updater THEN 0 ELSE fetchedExpiration

-----------------------------------------------------------------------------
(* GetTopVideos, FetchUserInfos and FetchVideoInfos. *)

\* Where a request goes to get a client of a service.
ClientFor(s) ==
    CASE mode = "dial" -> IF s = "user" THEN "dialUser" ELSE "dialVideo"
      [] mode = "pool" -> IF s = "user" THEN "claimUser" ELSE "claimVideo"
      [] mode = "mock" -> IF s = "user" THEN "origUser" ELSE "videos"

\* With a pool, GetUserConnRoundRobin or GetVideoConnRoundRobin loads the index and
\* picks a connection; Claim adds to the index, some time later.
MakeClient(r, s) ==
    /\ Goto(r, ClientFor(s))
    /\ conn' = IF mode # "pool" THEN conn
               ELSE [conn EXCEPT ![r][s] = connIndex[s] % PoolSize]
    /\ UNCHANGED <<mode, connIndex>>

GetTopVideos(r, u, n) ==
    /\ pc[r] = "idle"
    /\ numActiveRequests' = numActiveRequests + 1
    /\ userId' = [userId EXCEPT ![r] = u]
    /\ limit' = [limit EXCEPT ![r] = n]
    /\ Fetch(r, <<u>>)
    /\ MakeClient(r, "user")
    /\ UNCHANGED <<expired, response, cache, activeLoaded, stats, world>>

\* The service a goroutine calls next.
Service(c) ==
    IF pc[c] \in {"dialUser", "origUser", "subscribed"} THEN "user" ELSE "video"

\* An error that is not retried any more: a handler falls back, the updater
\* sleeps.
GiveUp(c) ==
    /\ Goto(c, IF c = Updater THEN "backoff"
               ELSE IF Service(c) = "user" THEN "userFailed" ELSE "videoFailed")
    /\ Forget(c)

\* CreateConnection in GetTopVideos, its retry included.
Dial(r) ==
    /\ pc[r] \in {"dialUser", "dialVideo"}
    /\ \/ /\ Goto(r, IF pc[r] = "dialUser" THEN "origUser" ELSE "videos")
          /\ UNCHANGED <<calls, fetchedExpiration>>
       \/ GiveUp(r)
    /\ UNCHANGED <<userId, limit, response, trendingVideos, expirationTime,
                   numActiveRequests, activeLoaded, stats, world, pool>>

\* Mutant: the index is stored, not added to.
ClaimByStore(r) ==
    /\ pc[r] \in {"claimUser", "claimVideo"}
    /\ LET s == IF pc[r] = "claimUser" THEN "user" ELSE "video"
       IN  connIndex' = [connIndex EXCEPT ![s] = conn[r][s] + 1]
    /\ Goto(r, IF pc[r] = "claimUser" THEN "origUser" ELSE "videos")
    /\ UNCHANGED <<userId, limit, calls, response, cache, numActiveRequests,
                   activeLoaded, stats, world, mode, conn>>

\* The second half of the round robin.  The index is an int32, of which requests
\* use up one each.
Claim(r) ==
    /\ pc[r] \in {"claimUser", "claimVideo"}
    /\ connIndex' = [connIndex EXCEPT
          ![IF pc[r] = "claimUser" THEN "user" ELSE "video"] = @ + 1]
    /\ Goto(r, IF pc[r] = "claimUser" THEN "origUser" ELSE "videos")
    /\ UNCHANGED <<userId, limit, calls, response, cache, numActiveRequests,
                   activeLoaded, stats, world, mode, conn>>

\* Mutant: the updater is given the server's mock client.
ConfigOfShared(c, s) == faults[s]

\* The goroutine of the cache makes a mock client of its own, whose server nobody
\* configures.
ConfigOf(c, s) == IF mode = "mock" /\ c = Updater THEN NoFaults ELSE faults[s]

\* The calls, through a gRPC stub or a mock client, and what they may come back with.
CallUser(c)     == GetUser(ConfigOf(c, "user"), Batch(todo[c]))
CallVideo(c)    == GetVideo(ConfigOf(c, "video"), Batch(todo[c]))
CallTrending(c) == GetTrendingVideos(ConfigOf(c, "video"))

Outcomes(c) ==
    IF expired[c] THEN {"error"}
    ELSE CASE pc[c] = "trending" -> CallTrending(c)
           [] pc[c] = "videos"   -> CallVideo(c)
           [] OTHER              -> CallUser(c)

\* A mock client runs the handler itself and does not look at the context: a response
\* that is omitted is waited for for ever.
Hangs(outcome) == outcome = "omitted" /\ mode = "mock"

\* The call failed, and is retried once with the same context.
CallFails(c, retry) ==
    /\ \E outcome \in Outcomes(c) \ {"served"} :
          IF Hangs(outcome) THEN Goto(c, "hung") /\ Forget(c)
          ELSE IF ~ retry \/ failed[c] THEN GiveUp(c)
          ELSE /\ expired' = [expired EXCEPT ![c] = @ \/ outcome = "omitted"]
               /\ failed' = [failed EXCEPT ![c] = TRUE]
               /\ UNCHANGED <<pc, todo, infos, fetchedExpiration>>
    /\ UNCHANGED <<userId, limit, response, trendingVideos, expirationTime,
                   numActiveRequests, activeLoaded, stats, world, pool>>

\* One round of the loop of FetchUserInfos or FetchVideoInfos.
FetchBatch(c) ==
    /\ pc[c] \in Fetching /\ todo[c] # <<>>
    /\ \/ /\ "served" \in Outcomes(c)
          /\ infos' = [infos EXCEPT ![c] = @ \o Batch(todo[c])]
          /\ todo' = [todo EXCEPT ![c] =
                SubSeq(@, Len(Batch(@)) + 1, Len(@))]
          /\ failed' = [failed EXCEPT ![c] = FALSE]
          /\ UNCHANGED <<pc, userId, limit, expired, response, cache,
                         numActiveRequests, activeLoaded, stats, world, pool>>
       \/ CallFails(c, Retry)

\* Steps (3) to (5) of part I, and part II (1): from one loop to the next.
NextFetch(r) ==
    /\ todo[r] = <<>>
    /\ \/ /\ pc[r] = "origUser"
          /\ Fetch(r, SubscribedTo[infos[r][1]])
          /\ Goto(r, "subscribed") /\ UNCHANGED pool
       \/ /\ pc[r] = "subscribed"
          /\ Fetch(r, LikedByAny(infos[r]))
          /\ MakeClient(r, "video")
    /\ UNCHANGED <<userId, limit, expired, response, cache, numActiveRequests,
                   activeLoaded, stats, world>>

RankVideos(r) ==
    /\ pc[r] = "videos" /\ todo[r] = <<>>
    /\ response' = [response EXCEPT ![r] =
          [kind |-> "ranked", videos |-> Truncate(Ranked(infos[r]), limit[r])]]
    /\ Goto(r, "stats")
    /\ Forget(r)
    /\ UNCHANGED <<userId, limit, trendingVideos, expirationTime, numActiveRequests,
                   activeLoaded, stats, world, pool>>

Failure(r) ==
    [kind |-> IF pc[r] = "userFailed" THEN "userError" ELSE "videoError",
     videos |-> <<>>]

\* Mutant: expired videos are not handed out.
FallBackWhileFresh(r) ==
    /\ pc[r] \in {"userFailed", "videoFailed"}
    /\ Fallback => ~ Refreshing
    /\ response' = [response EXCEPT ![r] =
          IF Fallback /\ trendingVideos # Nil /\ now < expirationTime
          THEN [kind |-> "stale", videos |-> Truncate(trendingVideos, limit[r])]
          ELSE Failure(r)]
    /\ Goto(r, "stats")
    /\ UNCHANGED <<userId, limit, calls, cache, numActiveRequests, activeLoaded,
                   stats, world, pool>>

\* GetCachedTrendingVideos waits for a refresh to end, then the cached videos
\* are the response, expired or not; without any the error is.
FallBack(r) ==
    /\ pc[r] \in {"userFailed", "videoFailed"}
    /\ Fallback => ~ Refreshing
    /\ response' = [response EXCEPT ![r] =
          IF Fallback /\ trendingVideos # Nil
          THEN [kind |-> "stale", videos |-> Truncate(trendingVideos, limit[r])]
          ELSE Failure(r)]
    /\ Goto(r, "stats")
    /\ UNCHANGED <<userId, limit, calls, cache, numActiveRequests, activeLoaded,
                   stats, world, pool>>

-----------------------------------------------------------------------------
(* updateStats: deferred, so it runs before the client sees the response. *)

StatsLocked == \E r \in Request : pc[r] = "leaving"

Bump(condition) == IF condition THEN 1 ELSE 0

\* Mutant: hasError is passed for a stale response too.
AddStatsStaleIsError(kind) ==
    [total  |-> stats.total + 1,
     errors |-> stats.errors + Bump(kind # "ranked"),
     user   |-> stats.user + Bump(kind = "userError"),
     video  |-> stats.video + Bump(kind = "videoError"),
     stale  |-> stats.stale + Bump(kind = "stale")]

AddStats(kind) ==
    [total  |-> stats.total + 1,
     errors |-> stats.errors + Bump(kind \in {"userError", "videoError"}),
     user   |-> stats.user + Bump(kind = "userError"),
     video  |-> stats.video + Bump(kind = "videoError"),
     stale  |-> stats.stale + Bump(kind = "stale")]

\* Up to the load of numActiveRequests -= 1.
UpdateStats(r) ==
    /\ pc[r] = "stats" /\ ~ StatsLocked
    /\ stats' = AddStats(response[r].kind)
    /\ activeLoaded' = numActiveRequests
    /\ Goto(r, "leaving")
    /\ UNCHANGED <<userId, limit, calls, response, cache, numActiveRequests, world, pool>>

\* Its store, and the return to the client.  The counter is a uint64: a value
\* below zero stands for one just below 2^64.
Return(r) ==
    /\ pc[r] = "leaving"
    /\ numActiveRequests' = activeLoaded - 1
    /\ activeLoaded' = 0
    /\ Goto(r, "done")
    /\ UNCHANGED <<userId, limit, calls, response, cache, stats, world, pool>>

\* What GetStats returns when nobody holds the lock.
GetStats ==
    [active |-> numActiveRequests, total |-> stats.total, errors |-> stats.errors,
     user |-> stats.user, video |-> stats.video, stale |-> stats.stale]

-----------------------------------------------------------------------------
(* UpdateTrendingVideos. *)

\* Until CreateConnection succeeds the goroutine sleeps and tries again.
Connect ==
    /\ pc[Updater] = "connect"
    /\ Goto(Updater, "check")
    /\ UNCHANGED <<userId, limit, calls, response, cache, numActiveRequests,
                   activeLoaded, stats, world, pool>>

\* Mutant: only an empty cache is filled.
RefreshEmpty ==
    /\ pc[Updater] = "check" /\ trendingVideos = Nil
    /\ Goto(Updater, "trending")
    /\ UNCHANGED <<userId, limit, calls, response, cache, numActiveRequests,
                   activeLoaded, stats, world, pool>>

Refresh ==
    /\ pc[Updater] = "check" /\ now >= expirationTime - Lead
    /\ Goto(Updater, "trending")
    /\ UNCHANGED <<userId, limit, calls, response, cache, numActiveRequests,
                   activeLoaded, stats, world, pool>>

\* The loop goes round without sleeping as long as the cache is fresh.
StillFresh ==
    /\ pc[Updater] = "check" /\ now < expirationTime - Lead
    /\ UNCHANGED vars

\* The retry of this call does not look at DisableRetry.
FetchTrending ==
    /\ pc[Updater] = "trending"
    /\ \/ /\ "served" \in Outcomes(Updater)
          /\ Fetch(Updater, TopVideos)
          /\ fetchedExpiration' = ExpirationTimeS(now)
          /\ Goto(Updater, "videos")
          /\ UNCHANGED <<userId, limit, expired, response, trendingVideos,
                         expirationTime, numActiveRequests, activeLoaded, stats,
                         world, pool>>
       \/ CallFails(Updater, TRUE)

\* Mutant: what was fetched goes to the cache one batch after the other.
UpdateCacheEarly ==
    /\ pc[Updater] = "videos"
    /\ fetchedExpiration > expirationTime
    /\ trendingVideos' = infos[Updater]
    /\ IF todo[Updater] = <<>>
       THEN expirationTime' = fetchedExpiration /\ Goto(Updater, "check")
       ELSE UNCHANGED <<expirationTime, pc>>
    /\ UNCHANGED <<userId, limit, calls, response, fetchedExpiration,
                   numActiveRequests, activeLoaded, stats, world, pool>>

UpdateCache ==
    /\ pc[Updater] = "videos" /\ todo[Updater] = <<>>
    /\ IF fetchedExpiration > expirationTime
       THEN /\ trendingVideos' = infos[Updater]
            /\ expirationTime' = fetchedExpiration
       ELSE UNCHANGED <<trendingVideos, expirationTime>>
    /\ Goto(Updater, "check")
    /\ Forget(Updater)
    /\ UNCHANGED <<userId, limit, response, numActiveRequests, activeLoaded, stats,
                   world, pool>>

WakeUp ==
    /\ pc[Updater] = "backoff"
    /\ Goto(Updater, "check")
    /\ UNCHANGED <<userId, limit, calls, response, cache, numActiveRequests,
                   activeLoaded, stats, world, pool>>

-----------------------------------------------------------------------------
(* The rest of the world. *)

SetInjectionConfig(service, config) ==
    /\ configs < MaxConfigs
    /\ configs' = configs + 1
    /\ faults' = [faults EXCEPT ![service] = config]
    /\ UNCHANGED <<pc, userId, limit, calls, response, cache, numActiveRequests,
                   activeLoaded, stats, now, pool>>

Tick ==
    /\ now < MaxNow
    /\ now' = now + 1
    /\ UNCHANGED <<pc, userId, limit, calls, response, cache, numActiveRequests,
                   activeLoaded, stats, faults, configs, pool>>

Handler(r) ==
    \/ Dial(r) \/ Claim(r) \/ FetchBatch(r) \/ NextFetch(r) \/ RankVideos(r)
    \/ UpdateStats(r) \/ Return(r)

UpdateTrendingVideos ==
    \/ Connect \/ Refresh \/ FetchTrending \/ FetchBatch(Updater)
    \/ UpdateCache \/ WakeUp

Next ==
    \/ \E r \in Request :
          \/ \E u \in AskedUser, n \in Limit : GetTopVideos(r, u, n)
          \/ Handler(r) \/ FallBack(r)
    \/ UpdateTrendingVideos \/ StillFresh
    \/ \E s \in {"user", "video"} : \E config \in Configs : SetInjectionConfig(s, config)
    \/ Tick

\* Goroutines run, calls end (every context has a deadline), sleeps end and the
\* clock goes on.  sync.RWMutex lets the readers that wait go first when a writer
\* unlocks, so a refresh that is always followed by another cannot keep a handler
\* from the cache.
Fairness ==
    /\ \A r \in Request : WF_vars(Handler(r)) /\ SF_vars(FallBack(r))
    /\ WF_vars(UpdateTrendingVideos)
    /\ WF_vars(Tick)

Spec == Init /\ [][Next]_vars /\ Fairness

-----------------------------------------------------------------------------
(* Properties. *)

\* VideoService refuses an empty batch, one that is too long and one with the same
\* id twice; whatever the users like, VideoRecService never sends one.
VideoCallsAreValid ==
    \A c \in Caller :
        (pc[c] = "videos" /\ todo[c] # <<>>) => ValidVideoIds(Batch(todo[c]))

\* The answer that is not degraded is the one the API promises: the videos the
\* subscribed-to users like, no video left out for one of a lower rank, none
\* twice, and as many as the limit allows, however the batches were cut and
\* retried.
RankedIsBest ==
    \A r \in Request :
        (response[r] # Nil /\ response[r].kind = "ranked") =>
            LET liked == UNION {ToSet(LikedVideos[u]) :
                                    u \in ToSet(SubscribedTo[userId[r]])}
                top   == response[r].videos
                size  == Cardinality(liked)
            IN  /\ Len(top) = IF limit[r] \in 1..size THEN limit[r] ELSE size
                /\ Cardinality(ToSet(top)) = Len(top)
                /\ ToSet(top) \subseteq liked
                /\ \A in \in ToSet(top), out \in liked \ ToSet(top) :
                      Rank[in] >= Rank[out]

\* A refresh that fails half way leaves the cache as it was: it holds nothing or
\* all trending videos.
CacheIsComplete == trendingVideos \in {Nil, TopVideos}

\* "prefer to return expired responses over an error if you can cache at least
\* one successful set of trending videos".
NoErrorOnceCached ==
    [][\A r \in Request :
          (/\ response[r] = Nil /\ response'[r] # Nil
           /\ response'[r].kind \in {"userError", "videoError"})
          => trendingVideos = Nil]_vars

\* GetStats, whenever it gets the lock, shows the requests that were answered, how
\* many of them "returned an error" and how many were stale, although the answer is
\* chosen long before the deferred updateStats counts it.
StatsAgree ==
    LET counted(kinds) == Cardinality({r \in Request :
            pc[r] \in {"leaving", "done"} /\ response[r].kind \in kinds})
        errors == {"userError", "videoError"}
    IN  /\ GetStats.total = counted({"ranked", "stale"} \cup errors)
        /\ GetStats.errors = counted(errors)
        /\ GetStats.stale = counted({"stale"})

\* The round robin moves on by one for each connection handed out, although the
\* index is loaded and added to in two steps by any number of requests: requests
\* share a connection only when they pick at the same time or the pool is used up.
RoundRobin ==
    \A s \in {"user", "video"} :
        /\ connIndex[s] = Cardinality({r \in Request : conn[r][s] # Nil}
                                        \ {r \in Request : pc[r] = ClientFor(s)})
        /\ \A r \in Request : conn[r][s] \in 0..(PoolSize - 1) \cup {Nil}

\* "The current number of active requests or in-progress calls".
ActiveIsExact ==
    ~ StatsLocked => GetStats.active =
        Cardinality({r \in Request : pc[r] \notin {"idle", "done"}})

\* Every call of GetTopVideos is answered, although its fallback waits for the
\* lock that the refresh holds while it calls a service that fails, unless it hangs
\* itself in a mock service that omits the response; then it takes nobody with it.
RequestsAnswered ==
    \A r \in Request : (pc[r] # "idle") ~> (pc[r] = "done" \/ pc[r] = "hung")

\* Once VideoService answers again the cache is filled and kept fresh.
CacheGetsFresh ==
    []<>(faults["video"] # NoFaults)
        \/ <>[](trendingVideos # Nil /\ (now = MaxNow => now < expirationTime))
=============================================================================
