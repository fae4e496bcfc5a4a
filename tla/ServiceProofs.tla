---------------------------- MODULE ServiceProofs ----------------------------
(***************************************************************************)
(* VideoRecService and its load generator, for any number of requests, any *)
(* database and any batch size.  A counter is proved right by naming the   *)
(* set of requests it counts and following that set from step to step.     *)
(***************************************************************************)
EXTENDS LoadGen, FiniteSetTheorems, SequenceTheorems, WellFoundedInduction, TLAPS

\* Where a handler can be, and where the goroutine of the cache can be.
HandlerPc ==
    {"idle", "dialUser", "claimUser", "origUser", "subscribed", "dialVideo",
     "claimVideo", "videos", "hung", "userFailed", "videoFailed", "stats",
     "leaving", "done"}
UpdaterPc == {"disabled", "connect", "check", "trending", "videos", "hung", "backoff"}

Kinds == {"ranked", "stale", "userError", "videoError"}

\* Ranges of what the control flow is about.  Without Fallback there is no cache.
ServiceType ==
    /\ mode \in {"dial", "pool", "mock"}
    /\ connIndex \in [{"user", "video"} -> Nat]
    /\ conn \in [Request -> [{"user", "video"} -> 0..(PoolSize - 1) \cup {Nil}]]
    /\ pc \in [Caller -> HandlerPc \cup UpdaterPc]
    /\ \A r \in Request : pc[r] \in HandlerPc
    /\ pc[Updater] \in UpdaterPc
    /\ Fallback \/ (pc[Updater] = "disabled" /\ trendingVideos = Nil)
    /\ response = [r \in Request |-> response[r]]
    /\ stats \in [total : Nat, errors : Nat, user : Nat, video : Nat, stale : Nat]

\* Only finitely many calls have begun.
CallsInv == IsFiniteSet({r \in Request : pc[r] # "idle"})

-----------------------------------------------------------------------------
(* The control flow of the handlers. *)

LEMMA InitType == Init => ServiceType /\ CallsInv
  <1>. SUFFICES ASSUME Init PROVE ServiceType /\ CallsInv
    OBVIOUS
  <1>1. \A r \in Request : pc[r] = "idle"
    BY OptionsAssumption DEF Init, Caller
  <1>2. pc[Updater] = IF Fallback THEN "connect" ELSE "disabled"
    BY OptionsAssumption DEF Init, Caller
  <1>3. pc \in [Caller -> HandlerPc \cup UpdaterPc]
    BY <1>1, <1>2 DEF Init, Caller, HandlerPc, UpdaterPc
  <1>4. {r \in Request : pc[r] # "idle"} = {}
    BY <1>1
  <1>5. response = [r \in Request |-> response[r]]
    BY DEF Init
  <1>6. /\ mode \in {"dial", "pool", "mock"} /\ trendingVideos = Nil
        /\ connIndex \in [{"user", "video"} -> Nat]
        /\ conn \in [Request -> [{"user", "video"} -> 0..(PoolSize - 1) \cup {Nil}]]
    BY OptionsAssumption DEF Init
  <1>7. stats \in [total : Nat, errors : Nat, user : Nat, video : Nat, stale : Nat]
    BY DEF Init
  <1>8. Fallback \/ pc[Updater] = "disabled"
    BY <1>2
  <1>. QED  BY <1>1, <1>2, <1>3, <1>4, <1>5, <1>6, <1>7, <1>8, FS_EmptySet
            DEF ServiceType, CallsInv, HandlerPc, UpdaterPc

\* A call that fails is retried, or it ends the loop: nothing else comes of it.
LEMMA FailedCall ==
    ASSUME NEW c \in Caller, NEW retry, CallFails(c, retry)
    PROVE  /\ UNCHANGED <<response, trendingVideos, expirationTime, stats, pool>>
           /\ \/ UNCHANGED <<pc, todo, infos, fetchedExpiration>>
              \/ /\ Forget(c)
                 /\ \/ Goto(c, "hung") /\ mode = "mock"
                    \/ c = Updater /\ Goto(c, "backoff")
                    \/ c # Updater /\ Service(c) = "user" /\ Goto(c, "userFailed")
                    \/ c # Updater /\ Service(c) # "user" /\ Goto(c, "videoFailed")
  <1>1. UNCHANGED <<response, trendingVideos, expirationTime, stats, pool>>
    BY DEF CallFails
  <1>2. \/ UNCHANGED <<pc, todo, infos, fetchedExpiration>>
        \/ Goto(c, "hung") /\ Forget(c) /\ mode = "mock"
        \/ GiveUp(c)
    BY DEF CallFails, Hangs
  <1>. QED  BY <1>1, <1>2 DEF GiveUp


\* What a step of the client can leave alone: everything but the deadlines.
server == <<pc, userId, limit, todo, infos, failed, response, cache, numActiveRequests,
            activeLoaded, stats, world, pool>>

LEMMA HandlerGoes ==
    ASSUME ServiceType, NEW r \in Request, NEW where \in HandlerPc, Goto(r, where)
    PROVE  /\ pc' \in [Caller -> HandlerPc \cup UpdaterPc]
           /\ pc'[r] = where /\ \A c \in Caller \ {r} : pc'[c] = pc[c]
           /\ \A q \in Request : pc'[q] \in HandlerPc
           /\ pc'[Updater] = pc[Updater]
  <1>1. r # Updater /\ Updater \in Caller /\ r \in Caller
    BY OptionsAssumption DEF Caller
  <1>2. pc' = [pc EXCEPT ![r] = where] /\ pc \in [Caller -> HandlerPc \cup UpdaterPc]
    BY DEF Goto, ServiceType
  <1>3. \A q \in Request : q \in Caller /\ pc[q] \in HandlerPc
    BY DEF ServiceType, Caller
  <1>. QED  BY <1>1, <1>2, <1>3

LEMMA UpdaterGoes ==
    ASSUME ServiceType, NEW where \in UpdaterPc, Goto(Updater, where)
    PROVE  /\ pc' \in [Caller -> HandlerPc \cup UpdaterPc]
           /\ pc'[Updater] = where /\ \A r \in Request : pc'[r] = pc[r]
  <1>1. Updater \notin Request /\ Updater \in Caller
    BY OptionsAssumption DEF Caller
  <1>2. pc' = [pc EXCEPT ![Updater] = where] /\ pc \in [Caller -> HandlerPc \cup UpdaterPc]
    BY DEF Goto, ServiceType
  <1>3. \A q \in Request : q \in Caller
    BY DEF Caller
  <1>. QED  BY <1>1, <1>2, <1>3

\* The ways of a handler r through GetTopVideos, and what it leaves alone on each.
Begins(r) ==
    /\ pc[r] = "idle" /\ MakeClient(r, "user")
    /\ UNCHANGED <<response, stats, trendingVideos>>
Connects(r) ==
    /\ pc[r] \in {"dialUser", "claimUser", "dialVideo", "claimVideo"}
    /\ Goto(r, IF pc[r] \in {"dialUser", "claimUser"} THEN "origUser" ELSE "videos")
    /\ UNCHANGED <<response, stats, trendingVideos, mode, conn>>
    /\ connIndex' = IF pc[r] \in {"dialUser", "dialVideo"} THEN connIndex
                    ELSE [connIndex EXCEPT
                            ![IF pc[r] = "claimUser" THEN "user" ELSE "video"] = @ + 1]
GoesOn(r) ==
    /\ pc[r] = "origUser" /\ Goto(r, "subscribed")
    /\ UNCHANGED <<response, stats, trendingVideos, pool>>
GoesToVideos(r) ==
    /\ pc[r] = "subscribed" /\ MakeClient(r, "video")
    /\ UNCHANGED <<response, stats, trendingVideos>>
Fails(r) ==
    /\ pc[r] \in {"dialUser", "dialVideo", "origUser", "subscribed", "videos"}
    /\ \/ Goto(r, "hung") /\ pc[r] \in Fetching
       \/ Goto(r, "userFailed") /\ Service(r) = "user"
       \/ Goto(r, "videoFailed") /\ Service(r) # "user"
    /\ UNCHANGED <<response, stats, trendingVideos, pool>>
\* The goroutine of the cache.
Updates ==
    /\ \E where \in UpdaterPc : Goto(Updater, where)
    /\ Fallback
    /\ UNCHANGED <<response, stats, pool>>
Rests == UNCHANGED <<pc, response, stats, trendingVideos, pool>>

LEMMA BatchIsServed ==
    ASSUME NEW c \in Caller, FetchBatch(c)
    PROVE  \/ Rests
           \/ pc[c] \in Fetching /\ CallFails(c, Retry)
  BY DEF FetchBatch, Rests, cache, pool

LEMMA HandlerFails ==
    ASSUME NEW r \in Request, NEW retry, CallFails(r, retry), pc[r] \in Fetching
    PROVE  Rests \/ Fails(r)
  <1>1. r \in Caller /\ r # Updater
    BY OptionsAssumption DEF Caller
  <1>. QED  BY <1>1, FailedCall DEF Rests, Fails, Fetching, pool

LEMMA UpdaterFails ==
    ASSUME ServiceType, NEW retry, CallFails(Updater, retry), Fallback
    PROVE  (Rests \/ Updates) /\ UNCHANGED trendingVideos
  <1>1. Updater \in Caller
    BY DEF Caller
  <1>. QED  BY <1>1, FailedCall DEF Rests, Updates, UpdaterPc, pool

LEMMA HandlerStep ==
    ASSUME NEW r \in Request, Handler(r)
    PROVE  \/ Connects(r) \/ GoesOn(r) \/ GoesToVideos(r) \/ Fails(r) \/ Rests
           \/ RankVideos(r) \/ UpdateStats(r) \/ Return(r)
  <1>0. r \in Caller /\ r # Updater
    BY OptionsAssumption DEF Caller
  <1>1. CASE Dial(r)
    <2>1. UNCHANGED <<response, stats, trendingVideos, mode, conn, connIndex, pool>>
      BY <1>1 DEF Dial, pool
    <2>2. CASE Goto(r, IF pc[r] = "dialUser" THEN "origUser" ELSE "videos")
      BY <1>1, <2>1, <2>2 DEF Dial, Connects
    <2>3. CASE GiveUp(r)
      BY <1>0, <1>1, <2>1, <2>3 DEF Dial, GiveUp, Fails
    <2>. QED  BY <1>1, <2>2, <2>3 DEF Dial
  <1>2. CASE Claim(r)
    <2>1. UNCHANGED <<response, stats, trendingVideos, mode, conn>>
      BY <1>2 DEF Claim, cache
    <2>. QED  BY <1>2, <2>1 DEF Claim, Connects
  <1>3. CASE FetchBatch(r)
    BY <1>0, <1>3, BatchIsServed, HandlerFails
  <1>4. CASE NextFetch(r)
    BY <1>4 DEF NextFetch, GoesOn, GoesToVideos, cache
  <1>. QED  BY <1>1, <1>2, <1>3, <1>4 DEF Handler

LEMMA UpdaterStep ==
    ASSUME ServiceType, UpdateTrendingVideos
    PROVE  Rests \/ Updates
  <1>1. pc[Updater] # "disabled"
    BY DEF UpdateTrendingVideos, Connect, Refresh, FetchTrending, FetchBatch, UpdateCache,
           WakeUp, Fetching
  <1>2. Fallback
    BY <1>1 DEF ServiceType
  <1>3. CASE Connect \/ Refresh \/ UpdateCache \/ WakeUp
    BY <1>2, <1>3 DEF Connect, Refresh, UpdateCache, WakeUp, Updates, UpdaterPc, pool
  <1>4. CASE FetchTrending
    <2>1. CASE CallFails(Updater, TRUE)
      BY <1>2, <2>1, UpdaterFails
    <2>2. CASE Goto(Updater, "videos") /\ UNCHANGED <<response, stats, pool>>
      BY <1>2, <2>2 DEF Updates, UpdaterPc
    <2>. QED  BY <1>4, <2>1, <2>2 DEF FetchTrending
  <1>5. CASE FetchBatch(Updater)
    <2>1. Updater \in Caller
      BY DEF Caller
    <2>. QED  BY <1>2, <1>5, <2>1, BatchIsServed, UpdaterFails
  <1>. QED  BY <1>3, <1>4, <1>5 DEF UpdateTrendingVideos

\* Every step of the server, by what it does to the requests.
LEMMA ServerStep ==
    ASSUME ServiceType, Next \/ UNCHANGED server
    PROVE  \/ Rests \/ Updates
           \/ \E r \in Request :
                 \/ Begins(r) \/ Connects(r) \/ GoesOn(r) \/ GoesToVideos(r) \/ Fails(r)
                 \/ RankVideos(r) \/ FallBack(r) \/ UpdateStats(r) \/ Return(r)
  <1>1. CASE \E r \in Request, u \in AskedUser, n \in Limit : GetTopVideos(r, u, n)
    BY <1>1 DEF GetTopVideos, Begins, cache
  <1>2. CASE \E r \in Request : Handler(r)
    BY <1>2, HandlerStep
  <1>3. CASE UpdateTrendingVideos
    BY <1>3, UpdaterStep
  <1>4. CASE StillFresh \/ UNCHANGED server
    BY <1>4 DEF StillFresh, Rests, vars, server, cache, pool
  <1>5. CASE \E s \in {"user", "video"} : \E config \in Configs :
                SetInjectionConfig(s, config)
    BY <1>5 DEF SetInjectionConfig, Rests, cache, pool
  <1>6. CASE Tick
    BY <1>6 DEF Tick, Rests, cache, pool
  <1>. QED  BY <1>1, <1>2, <1>3, <1>4, <1>5, <1>6 DEF Next


LEMMA ClientIsPlace ==
    ASSUME ServiceType, NEW s \in {"user", "video"}
    PROVE  ClientFor(s) \in HandlerPc \ {"idle", "hung", "userFailed", "videoFailed",
                                          "stats", "leaving", "done", "subscribed"}
  BY DEF ServiceType, ClientFor, HandlerPc

LEMMA MakeClientType ==
    ASSUME ServiceType, NEW r \in Request, NEW s \in {"user", "video"}, MakeClient(r, s)
    PROVE  /\ Goto(r, ClientFor(s)) /\ UNCHANGED <<mode, connIndex>>
           /\ conn' \in [Request -> [{"user", "video"} -> 0..(PoolSize - 1) \cup {Nil}]]
           /\ mode # "pool" => conn' = conn
           /\ mode = "pool" => /\ conn' = [conn EXCEPT ![r][s] = conn'[r][s]]
                               /\ conn'[r][s] # Nil
  <1>1. connIndex[s] % PoolSize \in 0..(PoolSize - 1) /\ connIndex[s] % PoolSize # Nil
    <2>1. connIndex[s] \in Nat /\ PoolSize \in Nat \ {0}
      BY OptionsAssumption DEF ServiceType
    <2>2. connIndex[s] % PoolSize \in 0..(PoolSize - 1)
      BY <2>1
    <2>. QED  BY <2>2, OptionsAssumption
  <1>2. conn \in [Request -> [{"user", "video"} -> 0..(PoolSize - 1) \cup {Nil}]]
    BY DEF ServiceType
  <1>3. CASE mode = "pool"
    <2>. DEFINE k == connIndex[s] % PoolSize
    <2>1. conn' = [conn EXCEPT ![r][s] = k] /\ k \in 0..(PoolSize - 1) /\ k # Nil
      BY <1>1, <1>3 DEF MakeClient
    <2>. HIDE DEF k
    <2>2. conn'[r][s] = k
      BY <1>2, <2>1
    <2>3. conn' = [conn EXCEPT ![r][s] = conn'[r][s]] /\ conn'[r][s] # Nil
      BY <2>1, <2>2
    <2>4. conn' \in [Request -> [{"user", "video"} -> 0..(PoolSize - 1) \cup {Nil}]]
      BY <1>2, <2>1
    <2>. QED  BY <1>3, <2>3, <2>4 DEF MakeClient
  <1>. QED  BY <1>2, <1>3 DEF MakeClient

LEMMA StatsType ==
    ASSUME ServiceType, NEW kind
    PROVE  AddStats(kind) \in
              [total : Nat, errors : Nat, user : Nat, video : Nat, stale : Nat]
  <1>2. \A m, n \in Nat : m + n \in Nat
    OBVIOUS
  <1>3. /\ Bump(kind \in {"userError", "videoError"}) \in Nat
        /\ Bump(kind = "userError") \in Nat /\ Bump(kind = "videoError") \in Nat
        /\ Bump(kind = "stale") \in Nat
    BY DEF Bump
  <1>4. /\ stats.total \in Nat /\ stats.errors \in Nat /\ stats.user \in Nat
        /\ stats.video \in Nat /\ stats.stale \in Nat
    BY DEF ServiceType
  <1>5. 1 \in Nat
    OBVIOUS
  <1>. QED  BY <1>2, <1>3, <1>4, <1>5 DEF AddStats

LEMMA TypeStep ==
    ASSUME ServiceType, Next \/ UNCHANGED server
    PROVE  ServiceType'
  <1>1. CASE Rests
    BY <1>1 DEF Rests, pool, ServiceType
  <1>2. CASE Updates
    BY <1>2, UpdaterGoes DEF Updates, pool, ServiceType
  <1>3. ASSUME NEW r \in Request, Begins(r) \/ GoesToVideos(r)
        PROVE  ServiceType'
    <2>1. PICK s \in {"user", "video"} : MakeClient(r, s)
      BY <1>3 DEF Begins, GoesToVideos
    <2>2. UNCHANGED <<response, stats, trendingVideos>>
      BY <1>3 DEF Begins, GoesToVideos
    <2>3. ClientFor(s) \in HandlerPc
      BY ClientIsPlace
    <2>4. /\ Goto(r, ClientFor(s)) /\ UNCHANGED <<mode, connIndex>>
          /\ conn' \in [Request -> [{"user", "video"} -> 0..(PoolSize - 1) \cup {Nil}]]
      BY <2>1, MakeClientType
    <2>5. /\ pc' \in [Caller -> HandlerPc \cup UpdaterPc]
          /\ \A q \in Request : pc'[q] \in HandlerPc
          /\ pc'[Updater] = pc[Updater]
      BY <2>3, <2>4, HandlerGoes
    <2>. QED  BY <2>2, <2>4, <2>5 DEF ServiceType
  <1>4. ASSUME NEW r \in Request, Connects(r)
        PROVE  ServiceType'
    <2>1. /\ pc' \in [Caller -> HandlerPc \cup UpdaterPc]
          /\ \A q \in Request : pc'[q] \in HandlerPc
          /\ pc'[Updater] = pc[Updater]
      BY <1>4, HandlerGoes DEF Connects, HandlerPc
    <2>2. connIndex' \in [{"user", "video"} -> Nat]
      BY <1>4 DEF Connects, ServiceType
    <2>. QED  BY <1>4, <2>1, <2>2 DEF Connects, ServiceType
  <1>5. ASSUME NEW r \in Request, GoesOn(r) \/ Fails(r)
        PROVE  ServiceType'
    <2>1. \E where \in HandlerPc : Goto(r, where)
      BY <1>5 DEF GoesOn, Fails, HandlerPc
    <2>2. UNCHANGED <<response, stats, trendingVideos, pool>>
      BY <1>5 DEF GoesOn, Fails
    <2>. QED  BY <2>1, <2>2, HandlerGoes DEF ServiceType, pool
  <1>6. ASSUME NEW r \in Request, RankVideos(r) \/ FallBack(r)
        PROVE  ServiceType'
    <2>1. /\ Goto(r, "stats") /\ UNCHANGED <<stats, trendingVideos, pool>>
          /\ \E x : response' = [response EXCEPT ![r] = x]
      BY <1>6 DEF RankVideos, FallBack, cache
    <2>2. response' = [q \in Request |-> response'[q]]
      BY <2>1 DEF ServiceType
    <2>3. /\ pc' \in [Caller -> HandlerPc \cup UpdaterPc]
          /\ \A q \in Request : pc'[q] \in HandlerPc
          /\ pc'[Updater] = pc[Updater]
      BY <2>1, HandlerGoes DEF HandlerPc
    <2>. QED  BY <2>1, <2>2, <2>3 DEF ServiceType, pool
  <1>7. ASSUME NEW r \in Request, UpdateStats(r) \/ Return(r)
        PROVE  ServiceType'
    <2>1. /\ Goto(r, "leaving") \/ Goto(r, "done")
          /\ UNCHANGED <<response, trendingVideos, pool>>
          /\ stats' = stats \/ \E kind : stats' = AddStats(kind)
      BY <1>7 DEF UpdateStats, Return, cache
    <2>2. stats' \in [total : Nat, errors : Nat, user : Nat, video : Nat, stale : Nat]
      BY <2>1, StatsType DEF ServiceType
    <2>3. /\ pc' \in [Caller -> HandlerPc \cup UpdaterPc]
          /\ \A q \in Request : pc'[q] \in HandlerPc
          /\ pc'[Updater] = pc[Updater]
      BY <2>1, HandlerGoes DEF HandlerPc
    <2>. QED  BY <2>1, <2>2, <2>3 DEF ServiceType, pool
  <1>. QED  BY <1>1, <1>2, <1>3, <1>4, <1>5, <1>6, <1>7, ServerStep

\* A step of the server takes one request at most from where it is; none comes back
\* to "idle".
LEMMA OneMoves ==
    ASSUME ServiceType, Next \/ UNCHANGED server
    PROVE  \/ \A q \in Request : pc'[q] = pc[q]
           \/ \E r \in Request : /\ pc'[r] # "idle"
                                 /\ \A q \in Request \ {r} : pc'[q] = pc[q]
  <1>1. CASE Rests
    BY <1>1 DEF Rests
  <1>2. CASE Updates
    BY <1>2, UpdaterGoes DEF Updates
  <1>3. ASSUME NEW r \in Request, NEW where \in HandlerPc \ {"idle"}, Goto(r, where)
        PROVE  pc'[r] # "idle" /\ \A q \in Request \ {r} : pc'[q] = pc[q]
    BY <1>3, HandlerGoes DEF Caller
  <1>4. ASSUME NEW r \in Request,
               \/ Begins(r) \/ Connects(r) \/ GoesOn(r) \/ GoesToVideos(r) \/ Fails(r)
               \/ RankVideos(r) \/ FallBack(r) \/ UpdateStats(r) \/ Return(r)
        PROVE  \E where \in HandlerPc \ {"idle"} : Goto(r, where)
    <2>1. CASE Begins(r) \/ GoesToVideos(r)
      BY <2>1, ClientIsPlace DEF Begins, GoesToVideos, MakeClient
    <2>2. CASE Connects(r) \/ GoesOn(r) \/ Fails(r)
      BY <2>2 DEF Connects, GoesOn, Fails, HandlerPc
    <2>3. CASE RankVideos(r) \/ FallBack(r) \/ UpdateStats(r) \/ Return(r)
      BY <2>3 DEF RankVideos, FallBack, UpdateStats, Return, HandlerPc
    <2>. QED  BY <1>4, <2>1, <2>2, <2>3
  <1>. QED  BY <1>1, <1>2, <1>3, <1>4, ServerStep

LEMMA CallsStep ==
    ASSUME ServiceType, CallsInv, Next \/ UNCHANGED server
    PROVE  CallsInv'
  <1>. DEFINE begun == {r \in Request : pc[r] # "idle"}
  <1>1. IsFiniteSet(begun)
    BY DEF CallsInv
  <1>2. CASE \A q \in Request : pc'[q] = pc[q]
    BY <1>1, <1>2 DEF CallsInv
  <1>3. ASSUME NEW r \in Request, \A q \in Request \ {r} : pc'[q] = pc[q]
        PROVE  CallsInv'
    <2>1. IsFiniteSet(begun \cup {r})
      BY <1>1, FS_AddElement
    <2>2. {q \in Request : pc'[q] # "idle"} \subseteq begun \cup {r}
      BY <1>3
    <2>. QED  BY <2>1, <2>2, FS_Subset DEF CallsInv
  <1>. QED  BY <1>2, <1>3, OneMoves


-----------------------------------------------------------------------------
(* The counters of updateStats. *)

\* The requests that have been counted, with an answer of these kinds.
Counted(kinds) ==
    {r \in Request : pc[r] \in {"leaving", "done"} /\ response[r].kind \in kinds}

\* What updateStats has counted.  user and video are the requests that failed for
\* good, each put down to one service, not the attempts that failed.
StatsInv ==
    /\ \A r \in Request : pc[r] \in {"stats", "leaving", "done"} => response[r].kind \in Kinds
    /\ stats.user = Cardinality(Counted({"userError"}))
    /\ stats.video = Cardinality(Counted({"videoError"}))
    /\ stats.stale = Cardinality(Counted({"stale"}))
    /\ stats.errors = stats.user + stats.video
    /\ stats.total = stats.errors + stats.stale + Cardinality(Counted({"ranked"}))

LEMMA InitStats == Init => StatsInv
  <1>. SUFFICES ASSUME Init PROVE StatsInv
    OBVIOUS
  <1>1. \A r \in Request : pc[r] = "idle"
    BY OptionsAssumption DEF Init, Caller
  <1>2. \A kinds : Counted(kinds) = {}
    BY <1>1 DEF Counted
  <1>3. Cardinality({}) = 0
    BY FS_EmptySet
  <1>4. /\ stats.user = 0 /\ stats.video = 0 /\ stats.stale = 0 /\ stats.errors = 0
        /\ stats.total = 0
    BY DEF Init
  <1>5. \A kinds : Cardinality(Counted(kinds)) = 0
    BY <1>2, <1>3
  <1>. QED  BY <1>1, <1>4, <1>5 DEF StatsInv

LEMMA CountedIsFinite ==
    ASSUME CallsInv, NEW kinds
    PROVE  IsFiniteSet(Counted(kinds)) /\ Cardinality(Counted(kinds)) \in Nat
  <1>1. Counted(kinds) \subseteq {r \in Request : pc[r] # "idle"}
    BY DEF Counted
  <1>. QED  BY <1>1, FS_Subset, FS_CardinalityType DEF CallsInv

\* Nobody is counted but in UpdateStats, and the answer is final by then.
LEMMA CountedOnce ==
    ASSUME ServiceType, StatsInv, Next \/ UNCHANGED server,
           ~ \E r \in Request : UpdateStats(r)
    PROVE  /\ stats' = stats
           /\ \A r \in Request :
                 /\ pc'[r] \in {"leaving", "done"} <=> pc[r] \in {"leaving", "done"}
                 /\ pc[r] \in {"leaving", "done"} => response'[r] = response[r]
                 /\ pc'[r] = "stats" => response'[r].kind \in Kinds
  <1>0. \A r \in Request : pc[r] \in {"stats", "leaving", "done"} => response[r].kind \in Kinds
    BY DEF StatsInv
  <1>1. CASE Rests
    BY <1>0, <1>1 DEF Rests
  <1>2. CASE Updates
    BY <1>0, <1>2, UpdaterGoes DEF Updates
  <1>3. ASSUME NEW r \in Request, \E where \in HandlerPc : Goto(r, where),
               UNCHANGED <<response, stats>>, pc'[r] \notin {"stats", "leaving", "done"},
               pc[r] \notin {"leaving", "done"}
        PROVE  /\ stats' = stats
               /\ \A q \in Request :
                     /\ pc'[q] \in {"leaving", "done"} <=> pc[q] \in {"leaving", "done"}
                     /\ pc[q] \in {"leaving", "done"} => response'[q] = response[q]
                     /\ pc'[q] = "stats" => response'[q].kind \in Kinds
    <2>1. \A q \in Request \ {r} : pc'[q] = pc[q]
      BY <1>3, HandlerGoes DEF Caller
    <2>. QED  BY <1>0, <1>3, <2>1
  <1>4. ASSUME NEW r \in Request, Begins(r) \/ GoesToVideos(r)
        PROVE  \E where \in HandlerPc : /\ Goto(r, where)
                                        /\ where \notin {"stats", "leaving", "done"}
    BY <1>4, ClientIsPlace DEF Begins, GoesToVideos, MakeClient
  <1>5. ASSUME NEW r \in Request, Connects(r) \/ GoesOn(r) \/ Fails(r)
        PROVE  \E where \in HandlerPc : /\ Goto(r, where)
                                        /\ where \notin {"stats", "leaving", "done"}
    BY <1>5 DEF Connects, GoesOn, Fails, HandlerPc
  <1>6. ASSUME NEW r \in Request,
               Begins(r) \/ GoesToVideos(r) \/ Connects(r) \/ GoesOn(r) \/ Fails(r)
        PROVE  /\ stats' = stats
               /\ \A q \in Request :
                     /\ pc'[q] \in {"leaving", "done"} <=> pc[q] \in {"leaving", "done"}
                     /\ pc[q] \in {"leaving", "done"} => response'[q] = response[q]
                     /\ pc'[q] = "stats" => response'[q].kind \in Kinds
    <2>1. PICK where \in HandlerPc :
             Goto(r, where) /\ where \notin {"stats", "leaving", "done"}
      BY <1>4, <1>5, <1>6
    <2>2. pc'[r] \notin {"stats", "leaving", "done"}
      BY <2>1, HandlerGoes
    <2>3. UNCHANGED <<response, stats>> /\ pc[r] \notin {"leaving", "done"}
      BY <1>6 DEF Begins, GoesToVideos, Connects, GoesOn, Fails
    <2>. QED  BY <1>3, <2>1, <2>2, <2>3
  <1>7. ASSUME NEW r \in Request, RankVideos(r) \/ FallBack(r) \/ Return(r)
        PROVE  /\ stats' = stats
               /\ \A q \in Request :
                     /\ pc'[q] \in {"leaving", "done"} <=> pc[q] \in {"leaving", "done"}
                     /\ pc[q] \in {"leaving", "done"} => response'[q] = response[q]
                     /\ pc'[q] = "stats" => response'[q].kind \in Kinds
    <2>1. CASE Return(r)
      <3>1. pc[r] = "leaving" /\ Goto(r, "done") /\ UNCHANGED <<response, stats>>
        BY <2>1 DEF Return
      <3>2. pc'[r] = "done" /\ \A q \in Request \ {r} : pc'[q] = pc[q]
        BY <3>1, HandlerGoes DEF HandlerPc, Caller
      <3>. QED  BY <1>0, <3>1, <3>2
    <2>2. CASE RankVideos(r) \/ FallBack(r)
      <3>1. PICK x : x.kind \in Kinds /\ response' = [response EXCEPT ![r] = x]
        <4>1. CASE RankVideos(r)
          <5>. DEFINE best == [kind |-> "ranked",
                               videos |-> Truncate(Ranked(infos[r]), limit[r])]
          <5>1. response' = [response EXCEPT ![r] = best]
            BY <4>1 DEF RankVideos
          <5>2. best.kind \in Kinds
            BY DEF Kinds
          <5>. HIDE DEF best
          <5>. QED  BY <5>1, <5>2
        <4>2. CASE FallBack(r)
          <5>. DEFINE cached == [kind |-> "stale", videos |-> Truncate(trendingVideos, limit[r])]
          <5>1. cached.kind \in Kinds /\ Failure(r).kind \in Kinds
            BY DEF Failure, Kinds
          <5>2. \/ response' = [response EXCEPT ![r] = cached]
                \/ response' = [response EXCEPT ![r] = Failure(r)]
            BY <4>2 DEF FallBack
          <5>. HIDE DEF cached
          <5>. QED  BY <5>1, <5>2
        <4>. QED  BY <2>2, <4>1, <4>2
      <3>2. /\ Goto(r, "stats") /\ stats' = stats
            /\ pc[r] \notin {"stats", "leaving", "done"}
        BY <2>2 DEF RankVideos, FallBack
      <3>3. pc'[r] = "stats" /\ \A q \in Request \ {r} : pc'[q] = pc[q]
        BY <3>2, HandlerGoes DEF HandlerPc, Caller
      <3>4. response'[r] = x /\ \A q \in Request \ {r} : response'[q] = response[q]
        BY <3>1 DEF ServiceType
      <3>. QED  BY <1>0, <3>1, <3>2, <3>3, <3>4
    <2>. QED  BY <1>7, <2>1, <2>2
  <1>. QED  BY <1>1, <1>2, <1>6, <1>7, ServerStep

\* A request that is counted joins the one set that its answer belongs to.
LEMMA CountedNow ==
    ASSUME ServiceType, CallsInv, NEW r \in Request, UpdateStats(r), NEW kind
    PROVE  Cardinality(Counted({kind}))' =
              Cardinality(Counted({kind})) + Bump(response[r].kind = kind)
  <1>1. /\ pc[r] = "stats" /\ Goto(r, "leaving") /\ response' = response
    BY DEF UpdateStats
  <1>2. pc'[r] = "leaving" /\ \A q \in Request \ {r} : pc'[q] = pc[q]
    BY <1>1, HandlerGoes DEF HandlerPc, Caller
  <1>3. IsFiniteSet(Counted({kind})) /\ Cardinality(Counted({kind})) \in Nat
    BY CountedIsFinite
  <1>4. CASE response[r].kind = kind
    <2>1. Counted({kind})' = Counted({kind}) \cup {r} /\ r \notin Counted({kind})
      BY <1>1, <1>2, <1>4 DEF Counted
    <2>2. Cardinality(Counted({kind}) \cup {r}) = Cardinality(Counted({kind})) + 1
      BY <1>3, <2>1, FS_AddElement
    <2>. QED  BY <1>4, <2>1, <2>2 DEF Bump
  <1>5. CASE response[r].kind # kind
    <2>1. Counted({kind})' = Counted({kind})
      BY <1>1, <1>2, <1>5 DEF Counted
    <2>. QED  BY <1>3, <1>5, <2>1 DEF Bump
  <1>. QED  BY <1>4, <1>5

LEMMA StatsStep ==
    ASSUME ServiceType, CallsInv, StatsInv, Next \/ UNCHANGED server
    PROVE  StatsInv'
  <1>1. CASE ~ \E r \in Request : UpdateStats(r)
    <2>1. /\ stats' = stats
          /\ \A r \in Request :
                /\ pc'[r] \in {"leaving", "done"} <=> pc[r] \in {"leaving", "done"}
                /\ pc[r] \in {"leaving", "done"} => response'[r] = response[r]
                /\ pc'[r] = "stats" => response'[r].kind \in Kinds
      BY <1>1, CountedOnce
    <2>2. \A kinds : Counted(kinds)' = Counted(kinds)
      BY <2>1 DEF Counted
    <2>3. \A r \in Request : pc'[r] \in {"stats", "leaving", "done"}
                                => response'[r].kind \in Kinds
      BY <2>1 DEF StatsInv
    <2>. QED  BY <2>1, <2>2, <2>3 DEF StatsInv
  <1>2. ASSUME NEW r \in Request, UpdateStats(r)
        PROVE  StatsInv'
    <2>. DEFINE kind == response[r].kind
                n(k) == Cardinality(Counted({k}))
    <2>1. pc[r] = "stats" /\ Goto(r, "leaving") /\ response' = response
          /\ stats' = AddStats(kind)
      BY <1>2 DEF UpdateStats
    <2>2. kind \in Kinds
      BY <2>1 DEF StatsInv
    <2>3. pc'[r] = "leaving" /\ \A q \in Request \ {r} : pc'[q] = pc[q]
      BY <2>1, HandlerGoes DEF HandlerPc, Caller
    <2>4. \A q \in Request : pc'[q] \in {"stats", "leaving", "done"}
                                => response'[q].kind \in Kinds
      BY <2>1, <2>2, <2>3 DEF StatsInv
    <2>5. \A k : n(k)' = n(k) + Bump(kind = k) /\ n(k) \in Nat
      BY <1>2, CountedNow, CountedIsFinite
    <2>. HIDE DEF n, kind
    <2>6. /\ stats'.total = stats.total + 1
          /\ stats'.errors = stats.errors + Bump(kind \in {"userError", "videoError"})
          /\ stats'.user = stats.user + Bump(kind = "userError")
          /\ stats'.video = stats.video + Bump(kind = "videoError")
          /\ stats'.stale = stats.stale + Bump(kind = "stale")
      BY <2>1 DEF AddStats
    <2>7. /\ stats.user = n("userError") /\ stats.video = n("videoError")
          /\ stats.stale = n("stale") /\ stats.errors = stats.user + stats.video
          /\ stats.total = stats.errors + stats.stale + n("ranked")
      BY DEF StatsInv, n
    <2>8. /\ stats'.user = n("userError")' /\ stats'.video = n("videoError")'
          /\ stats'.stale = n("stale")'
      BY <2>5, <2>6, <2>7
    <2>. DEFINE bu == Bump(kind = "userError")
                bv == Bump(kind = "videoError")
                bs == Bump(kind = "stale")
                br == Bump(kind = "ranked")
                be == Bump(kind \in {"userError", "videoError"})
    <2>9. /\ bu \in Nat /\ bv \in Nat /\ bs \in Nat /\ br \in Nat /\ be \in Nat
          /\ be = bu + bv /\ be + bs + br = 1
      BY <2>2 DEF Bump, Kinds
    <2>. HIDE DEF bu, bv, bs, br, be
    <2>10. /\ n("ranked")' = n("ranked") + br /\ n("ranked") \in Nat
           /\ n("userError") \in Nat /\ n("videoError") \in Nat /\ n("stale") \in Nat
      BY <2>5 DEF br
    <2>11. /\ stats'.total = stats.total + 1 /\ stats'.errors = stats.errors + be
           /\ stats'.user = stats.user + bu /\ stats'.video = stats.video + bv
           /\ stats'.stale = stats.stale + bs
      BY <2>6 DEF bu, bv, bs, be
    <2>12. /\ stats'.errors = stats'.user + stats'.video
           /\ stats'.total = stats'.errors + stats'.stale + n("ranked")'
      BY <2>7, <2>9, <2>10, <2>11
    <2>. QED  BY <2>4, <2>8, <2>12 DEF StatsInv, n
  <1>. QED  BY <1>1, <1>2

\* What ServiceSpec and the specification with a client have in common.
ServerInv == ServiceType /\ CallsInv /\ StatsInv

THEOREM StatsInvariance == Spec => []ServerInv
  <1>1. Init => ServerInv
    BY InitType, InitStats DEF ServerInv
  <1>2. ServerInv /\ [Next]_vars => ServerInv'
    <2>. SUFFICES ASSUME ServerInv, [Next]_vars PROVE ServerInv'
      OBVIOUS
    <2>1. Next \/ UNCHANGED server
      BY DEF vars, server, calls, cache, world, pool
    <2>. QED  BY <2>1, TypeStep, CallsStep, StatsStep DEF ServerInv
  <1>. QED  BY <1>1, <1>2, PTL DEF Spec

\* The requests of one kind of answer and of others make up those of all.
LEMMA CountedTogether ==
    ASSUME CallsInv, NEW some, NEW others, some \cap others = {}
    PROVE  Cardinality(Counted(some \cup others)) =
              Cardinality(Counted(some)) + Cardinality(Counted(others))
  <1>1. /\ Counted(some \cup others) = Counted(some) \cup Counted(others)
        /\ Counted(some) \cap Counted(others) = {}
    BY DEF Counted
  <1>2. /\ IsFiniteSet(Counted(some)) /\ Cardinality(Counted(some)) \in Nat
        /\ IsFiniteSet(Counted(others)) /\ Cardinality(Counted(others)) \in Nat
    BY CountedIsFinite
  <1>. DEFINE S == Counted(some)
              T == Counted(others)
  <1>3. Cardinality(S \cap T) = 0
    BY <1>1, FS_EmptySet
  <1>4. Counted(some \cup others) = S \cup T
    BY <1>1
  <1>. HIDE DEF S, T
  <1>5. Cardinality(S \cup T) = Cardinality(S) + Cardinality(T) - Cardinality(S \cap T)
    BY <1>2, FS_Union DEF S, T
  <1>6. Cardinality(S) \in Nat /\ Cardinality(T) \in Nat
    BY <1>2 DEF S, T
  <1>7. Cardinality(S \cup T) = Cardinality(S) + Cardinality(T)
    BY <1>3, <1>5, <1>6
  <1>. QED  BY <1>4, <1>7 DEF S, T

\* GetStats agrees in every state, also between two requests that are being counted,
\* with the answers of the requests: all, errors and stale ones.
THEOREM CountersAgree == Spec => []StatsAgree
  <1>1. ASSUME ServerInv PROVE StatsAgree
    <2>. DEFINE n(kinds) == Cardinality(Counted(kinds))
                errors == {"userError", "videoError"}
    <2>1. stats.errors = n(errors)
      <3>1. n({"userError"} \cup {"videoError"}) = n({"userError"}) + n({"videoError"})
        BY <1>1, CountedTogether DEF ServerInv
      <3>2. errors = {"userError"} \cup {"videoError"}
        OBVIOUS
      <3>. HIDE DEF errors
      <3>. QED  BY <1>1, <3>1, <3>2 DEF ServerInv, StatsInv
    <2>2. stats.total = n({"ranked", "stale"} \cup errors)
      <3>1. n({"ranked", "stale"} \cup errors) = n({"ranked", "stale"}) + n(errors)
        BY <1>1, CountedTogether DEF ServerInv
      <3>2. n({"ranked"} \cup {"stale"}) = n({"ranked"}) + n({"stale"})
        BY <1>1, CountedTogether DEF ServerInv
      <3>3. {"ranked", "stale"} = {"ranked"} \cup {"stale"}
        OBVIOUS
      <3>4. /\ n({"ranked"}) \in Nat /\ n({"stale"}) \in Nat /\ n(errors) \in Nat
        BY <1>1, CountedIsFinite DEF ServerInv
      <3>5. /\ stats.total = stats.errors + stats.stale + n({"ranked"})
            /\ stats.stale = n({"stale"})
        BY <1>1 DEF ServerInv, StatsInv
      <3>6. n({"ranked", "stale"}) = n({"ranked"}) + n({"stale"})
        BY <3>2, <3>3
      <3>. HIDE DEF n, errors
      <3>. QED  BY <2>1, <3>1, <3>4, <3>5, <3>6
    <2>3. stats.stale = n({"stale"})
      BY <1>1 DEF ServerInv, StatsInv
    <2>4. /\ GetStats.errors = stats.errors /\ GetStats.total = stats.total
          /\ GetStats.stale = stats.stale
      BY DEF GetStats
    <2>. QED  BY <2>1, <2>2, <2>3, <2>4 DEF StatsAgree, Counted
  <1>. QED  BY <1>1, StatsInvariance, PTL

-----------------------------------------------------------------------------
(* The round robin. *)

Claiming(s) == IF s = "user" THEN "claimUser" ELSE "claimVideo"

\* The requests that have added to the index of a service.
Claimed(s) == {r \in Request : conn[r][s] # Nil /\ pc[r] # Claiming(s)}

\* Where a request cannot have picked a connection to VideoService yet.
BeforeVideo == {"idle", "dialUser", "claimUser", "origUser", "subscribed"}

PoolInv ==
    /\ \A r \in Request : /\ pc[r] = "idle" => conn[r]["user"] = Nil
                          /\ pc[r] \in BeforeVideo => conn[r]["video"] = Nil
    /\ mode # "pool" => \A r \in Request, s \in {"user", "video"} :
                           conn[r][s] = Nil /\ pc[r] # Claiming(s)
    /\ mode = "pool" => \A r \in Request :
                           /\ pc[r] \notin {"dialUser", "dialVideo"}
                           /\ \A s \in {"user", "video"} :
                                 pc[r] = Claiming(s) => conn[r][s] # Nil
    /\ \A s \in {"user", "video"} : connIndex[s] = Cardinality(Claimed(s))

LEMMA InitPool == Init => PoolInv
  <1>. SUFFICES ASSUME Init PROVE PoolInv
    OBVIOUS
  <1>1. \A r \in Request : pc[r] = "idle"
    BY OptionsAssumption DEF Init, Caller
  <1>2. \A r \in Request, s \in {"user", "video"} : conn[r][s] = Nil
    BY DEF Init
  <1>3. \A s \in {"user", "video"} : Claimed(s) = {} /\ connIndex[s] = 0
    BY <1>2 DEF Claimed, Init
  <1>4. \A s \in {"user", "video"} : connIndex[s] = Cardinality(Claimed(s))
    BY <1>3, FS_EmptySet
  <1>. QED  BY <1>1, <1>2, <1>4 DEF PoolInv, Claiming, BeforeVideo

LEMMA ClaimedIsFinite ==
    ASSUME ServiceType, CallsInv, PoolInv, NEW s \in {"user", "video"}
    PROVE  IsFiniteSet(Claimed(s))
  <1>1. Claimed(s) \subseteq {r \in Request : pc[r] # "idle"}
    BY DEF Claimed, PoolInv, BeforeVideo
  <1>. QED  BY <1>1, FS_Subset DEF CallsInv

\* Nobody claims in a step that leaves the pool alone and takes one request at most
\* from a place where it has nothing to claim to another.
LEMMA PoolIsLeftAlone ==
    ASSUME ServiceType, PoolInv, UNCHANGED pool, NEW r \in Request,
           \A q \in Request \ {r} : pc'[q] = pc[q],
           \/ pc'[r] = pc[r]
           \/ /\ pc'[r] \notin {"idle", "dialUser", "dialVideo", "claimUser", "claimVideo"}
              /\ pc[r] \notin {"claimUser", "claimVideo"}
              /\ pc'[r] \in BeforeVideo => pc[r] \in BeforeVideo
    PROVE  PoolInv'
  <1>1. \A s \in {"user", "video"}, q \in Request :
           /\ pc'[q] = Claiming(s) <=> pc[q] = Claiming(s)
           /\ pc'[q] \in {"dialUser", "dialVideo"} => pc[q] \in {"dialUser", "dialVideo"}
           /\ pc'[q] = "idle" => pc[q] = "idle"
           /\ pc'[q] \in BeforeVideo => pc[q] \in BeforeVideo
    BY DEF Claiming
  <1>2. \A s \in {"user", "video"} : Claimed(s)' = Claimed(s)
    BY <1>1 DEF Claimed, pool, Claiming
  <1>. QED  BY <1>1, <1>2 DEF PoolInv, pool, Claiming

\* A request picks a connection, to be claimed later.
LEMMA PicksConnection ==
    ASSUME ServiceType, PoolInv, NEW r \in Request, NEW s \in {"user", "video"},
           MakeClient(r, s), pc[r] = IF s = "user" THEN "idle" ELSE "subscribed"
    PROVE  PoolInv'
  <1>. DEFINE t == IF s = "user" THEN "video" ELSE "user"
  <1>1. /\ Goto(r, ClientFor(s)) /\ UNCHANGED <<mode, connIndex>>
        /\ mode # "pool" => conn' = conn
        /\ mode = "pool" => conn' = [conn EXCEPT ![r][s] = conn'[r][s]] /\ conn'[r][s] # Nil
    BY MakeClientType
  <1>2. pc'[r] = ClientFor(s) /\ \A q \in Request \ {r} : pc'[q] = pc[q]
    BY <1>1, HandlerGoes, ClientIsPlace DEF Caller
  <1>3. conn[r][s] = Nil /\ t \in {"user", "video"} /\ t # s
    BY DEF PoolInv, BeforeVideo
  <1>4. CASE mode = "pool"
    <2>1. ClientFor(s) = Claiming(s)
      BY <1>4 DEF ClientFor, Claiming
    <2>2. /\ conn'[r][s] # Nil /\ conn'[r][t] = conn[r][t]
          /\ \A q \in Request \ {r} : conn'[q] = conn[q]
      BY <1>1, <1>3, <1>4 DEF ServiceType
    <2>3. r \notin Claimed(s) /\ r \notin Claimed(s)'
      BY <1>2, <1>3, <2>1 DEF Claimed
    <2>4. pc[r] # Claiming(t) /\ pc'[r] # Claiming(t)
      BY <1>2, <2>1 DEF Claiming
    <2>5. Claimed(s)' = Claimed(s)
      BY <1>2, <2>2, <2>3 DEF Claimed, Claiming
    <2>6. Claimed(t)' = Claimed(t)
      BY <1>2, <2>2, <2>4 DEF Claimed, Claiming
    <2>7. {"user", "video"} = {s, t}
      OBVIOUS
    <2>8. \A x \in {"user", "video"} : Claimed(x)' = Claimed(x)
      BY <2>5, <2>6, <2>7
    <2>9. \A x \in {"user", "video"} : connIndex'[x] = Cardinality(Claimed(x))'
      BY <1>1, <2>8 DEF PoolInv
    <2>10. \A q \in Request : /\ pc'[q] = "idle" => conn'[q]["user"] = Nil
                              /\ pc'[q] \in BeforeVideo => conn'[q]["video"] = Nil
      BY <1>2, <1>3, <2>1, <2>2 DEF PoolInv, BeforeVideo, Claiming
    <2>11. \A q \in Request : /\ pc'[q] \notin {"dialUser", "dialVideo"}
                              /\ \A x \in {"user", "video"} :
                                    pc'[q] = Claiming(x) => conn'[q][x] # Nil
      BY <1>2, <1>4, <2>1, <2>2 DEF PoolInv, Claiming
    <2>. QED  BY <1>1, <1>4, <2>9, <2>10, <2>11 DEF PoolInv, Claiming
  <1>5. CASE mode # "pool"
    <2>1. conn' = conn /\ \A q \in Request, x \in {"user", "video"} : conn[q][x] = Nil
      BY <1>1, <1>5 DEF PoolInv
    <2>2. ClientFor(s) \notin {"claimUser", "claimVideo"}
      BY <1>5 DEF ServiceType, ClientFor
    <2>3. \A q \in Request, x \in {"user", "video"} : pc'[q] # Claiming(x)
      BY <1>2, <1>5, <2>2 DEF PoolInv, Claiming
    <2>4. \A x \in {"user", "video"} : Claimed(x) = {} /\ Claimed(x)' = {}
      BY <2>1 DEF Claimed
    <2>5. \A x \in {"user", "video"} : connIndex'[x] = Cardinality(Claimed(x))'
      BY <1>1, <2>4 DEF PoolInv
    <2>. QED  BY <1>1, <1>5, <2>1, <2>3, <2>5 DEF PoolInv, Claiming
  <1>. QED  BY <1>4, <1>5

\* It adds to the index, whoever has done so since it picked.
LEMMA ClaimsConnection ==
    ASSUME ServiceType, CallsInv, PoolInv, NEW r \in Request, Connects(r)
    PROVE  PoolInv'
  <1>0. /\ UNCHANGED <<mode, conn>> /\ pc'[r] \in {"origUser", "videos"}
        /\ pc[r] \in {"dialUser", "claimUser"} <=> pc'[r] = "origUser"
        /\ \A q \in Request \ {r} : pc'[q] = pc[q]
        /\ pc[r] \in {"dialUser", "claimUser", "dialVideo", "claimVideo"}
    BY HandlerGoes DEF Connects, HandlerPc, Caller
  <1>1. \A q \in Request, x \in {"user", "video"} :
           /\ pc'[q] = Claiming(x) => pc[q] = Claiming(x)
           /\ pc'[q] \in {"dialUser", "dialVideo"} => pc[q] \in {"dialUser", "dialVideo"}
           /\ pc'[q] = "idle" => pc[q] = "idle"
           /\ pc'[q] \in BeforeVideo => pc[q] \in BeforeVideo
    BY <1>0 DEF Claiming, BeforeVideo
  <1>2. \A s \in {"user", "video"} : connIndex'[s] = Cardinality(Claimed(s))'
    <2>1. CASE mode # "pool"
      <3>1. pc[r] \in {"dialUser", "dialVideo"}
        BY <1>0, <2>1 DEF PoolInv, Claiming
      <3>2. connIndex' = connIndex
        BY <3>1 DEF Connects
      <3>3. \A s \in {"user", "video"} : Claimed(s) = {} /\ Claimed(s)' = {}
        BY <1>0, <2>1 DEF PoolInv, Claimed
      <3>. QED  BY <3>2, <3>3 DEF PoolInv
    <2>2. CASE mode = "pool"
      <3>1. PICK s \in {"user", "video"} : pc[r] = Claiming(s)
        BY <1>0, <2>2 DEF PoolInv, Claiming
      <3>2. PICK t \in {"user", "video"} : t # s /\ {"user", "video"} = {s, t}
        OBVIOUS
      <3>0. pc[r] # Claiming(t) /\ pc'[r] # Claiming(s) /\ pc'[r] # Claiming(t)
        BY <1>0, <3>1, <3>2 DEF Claiming
      <3>3. connIndex' = [connIndex EXCEPT ![s] = @ + 1]
        BY <2>2, <3>1 DEF Connects, PoolInv, Claiming
      <3>4. connIndex'[s] = connIndex[s] + 1 /\ connIndex'[t] = connIndex[t]
        BY <3>1, <3>2, <3>3 DEF ServiceType
      <3>5. conn[r][s] # Nil
        BY <2>2, <3>1, <3>2 DEF PoolInv
      <3>6. Claimed(s)' = Claimed(s) \cup {r} /\ r \notin Claimed(s)
        BY <1>0, <3>0, <3>1, <3>5 DEF Claimed, Claiming
      <3>7. Claimed(t)' = Claimed(t)
        BY <1>0, <3>0 DEF Claimed, Claiming
      <3>8. Cardinality(Claimed(s) \cup {r}) = Cardinality(Claimed(s)) + 1
        BY <3>2, <3>6, ClaimedIsFinite, FS_AddElement
      <3>9. connIndex[s] = Cardinality(Claimed(s)) /\ connIndex[t] = Cardinality(Claimed(t))
        BY <3>2 DEF PoolInv
      <3>10. /\ connIndex'[s] = Cardinality(Claimed(s))'
             /\ connIndex'[t] = Cardinality(Claimed(t))'
        BY <3>4, <3>6, <3>7, <3>8, <3>9
      <3>. QED  BY <3>2, <3>10
    <2>. QED  BY <2>1, <2>2
  <1>. QED  BY <1>0, <1>1, <1>2 DEF PoolInv

LEMMA PoolStep ==
    ASSUME ServiceType, CallsInv, PoolInv, Next \/ UNCHANGED server
    PROVE  PoolInv'
  <1>1. ASSUME UNCHANGED pool, \A q \in Request : pc'[q] = pc[q]
        PROVE  PoolInv'
    <2>1. \A s : Claimed(s)' = Claimed(s)
      BY <1>1 DEF Claimed, pool, Claiming
    <2>. QED  BY <1>1, <2>1 DEF PoolInv, pool, Claiming
  <1>2. CASE Rests \/ Updates
    BY <1>1, <1>2, UpdaterGoes DEF Rests, Updates
  <1>3. ASSUME NEW r \in Request, Begins(r) \/ GoesToVideos(r)
        PROVE  PoolInv'
    BY <1>3, PicksConnection DEF Begins, GoesToVideos
  <1>4. ASSUME NEW r \in Request, Connects(r)
        PROVE  PoolInv'
    BY <1>4, ClaimsConnection
  <1>5. ASSUME NEW r \in Request,
               \/ GoesOn(r) \/ Fails(r) \/ RankVideos(r) \/ FallBack(r)
               \/ UpdateStats(r) \/ Return(r)
        PROVE  PoolInv'
    <2>1. /\ UNCHANGED pool
          /\ \/ pc[r] = "origUser" /\ Goto(r, "subscribed")
             \/ /\ pc[r] \notin {"claimUser", "claimVideo"}
                /\ \E where \in HandlerPc \ (BeforeVideo \cup {"dialVideo", "claimVideo"}) :
                      Goto(r, where)
      BY <1>5 DEF GoesOn, Fails, RankVideos, FallBack, UpdateStats, Return, HandlerPc,
                  BeforeVideo, Fetching
    <2>2. /\ \A q \in Request \ {r} : pc'[q] = pc[q]
          /\ pc'[r] \notin {"idle", "dialUser", "dialVideo", "claimUser", "claimVideo"}
          /\ pc[r] \notin {"claimUser", "claimVideo"}
          /\ pc'[r] \in BeforeVideo => pc[r] \in BeforeVideo
      BY <2>1, HandlerGoes DEF HandlerPc, BeforeVideo, Caller
    <2>. QED  BY <2>1, <2>2, PoolIsLeftAlone
  <1>. QED  BY <1>2, <1>3, <1>4, <1>5, ServerStep

\* Whatever the requests do between the load of the index and the addition to it,
\* the index is the number of connections handed out.
THEOREM RoundRobinHolds == Spec => []RoundRobin
  <1>1. Init => ServerInv /\ PoolInv
    BY InitType, InitStats, InitPool DEF ServerInv
  <1>2. ServerInv /\ PoolInv /\ [Next]_vars => PoolInv'
    <2>1. [Next]_vars => Next \/ UNCHANGED server
      BY DEF vars, server, calls, cache, world, pool
    <2>. QED  BY <2>1, PoolStep DEF ServerInv
  <1>3. ServerInv /\ PoolInv => RoundRobin
    <2>. SUFFICES ASSUME ServiceType, PoolInv PROVE RoundRobin
      BY DEF ServerInv
    <2>1. \A s \in {"user", "video"} :
             Claimed(s) = {r \in Request : conn[r][s] # Nil}
                             \ {r \in Request : pc[r] = ClientFor(s)}
      <3>1. CASE mode = "pool"
        BY <3>1 DEF Claimed, Claiming, ClientFor
      <3>2. CASE mode # "pool"
        BY <3>2 DEF Claimed, PoolInv
      <3>. QED  BY <3>1, <3>2
    <2>2. \A s \in {"user", "video"}, r \in Request :
             conn[r][s] \in 0..(PoolSize - 1) \cup {Nil}
      BY DEF ServiceType
    <2>3. \A s \in {"user", "video"} : connIndex[s] = Cardinality(Claimed(s))
      BY DEF PoolInv
    <2>. QED  BY <2>1, <2>2, <2>3 DEF RoundRobin
  <1>4. Spec => []ServerInv
    BY StatsInvariance
  <1>. QED  BY <1>1, <1>2, <1>3, <1>4, PTL DEF Spec


-----------------------------------------------------------------------------
(* The fallback. *)

\* Once the cache has been filled, no request that falls back gets an error.
THEOREM StaleNotError == Spec => NoErrorOnceCached
  <1>. DEFINE A == \A r \in Request :
                      (/\ response[r] = Nil /\ response'[r] # Nil
                       /\ response'[r].kind \in {"userError", "videoError"})
                      => trendingVideos = Nil
  <1>1. ServiceType /\ Next => A
    <2>. SUFFICES ASSUME ServiceType, Next PROVE A
      OBVIOUS
    <2>1. CASE response' = response
      BY <2>1
    <2>2. ASSUME NEW r \in Request, NEW answer,
                 response' = [response EXCEPT ![r] = answer],
                 trendingVideos = Nil \/ answer.kind \in {"ranked", "stale"}
          PROVE  A
      <3>1. /\ \A q \in Request \ {r} : response'[q] = response[q]
            /\ response'[r] = answer
        BY <2>2 DEF ServiceType
      <3>. QED  BY <2>2, <3>1
    <2>3. ASSUME NEW r \in Request, RankVideos(r)
          PROVE  A
      <3>. DEFINE best == [kind |-> "ranked",
                           videos |-> Truncate(Ranked(infos[r]), limit[r])]
      <3>1. response' = [response EXCEPT ![r] = best]
        BY <2>3 DEF RankVideos
      <3>2. best.kind = "ranked"
        OBVIOUS
      <3>. HIDE DEF best, A
      <3>. QED  BY <2>2, <3>1, <3>2
    <2>4. ASSUME NEW r \in Request, FallBack(r)
          PROVE  A
      <3>. DEFINE cached == [kind |-> "stale", videos |-> Truncate(trendingVideos, limit[r])]
      <3>1. CASE Fallback /\ trendingVideos # Nil
        <4>1. response' = [response EXCEPT ![r] = cached] /\ cached.kind = "stale"
          BY <2>4, <3>1 DEF FallBack
        <4>. HIDE DEF cached, A
        <4>. QED  BY <2>2, <4>1
      <3>2. CASE ~ (Fallback /\ trendingVideos # Nil)
        <4>1. trendingVideos = Nil
          BY <3>2 DEF ServiceType
        <4>. QED  BY <4>1
      <3>. QED  BY <3>1, <3>2
    <2>5. \/ response' = response
          \/ \E r \in Request : RankVideos(r) \/ FallBack(r)
      BY ServerStep DEF Rests, Updates, Begins, Connects, GoesOn, GoesToVideos, Fails,
                        UpdateStats, Return
    <2>. HIDE DEF A
    <2>. QED  BY <2>1, <2>3, <2>4, <2>5
  <1>2. ServerInv /\ [Next]_vars => [A]_vars
    BY <1>1 DEF ServerInv
  <1>3. Spec => []ServerInv
    BY StatsInvariance
  <1>4. [][A]_vars => NoErrorOnceCached
    BY DEF NoErrorOnceCached
  <1>. QED  BY <1>2, <1>3, <1>4, PTL DEF Spec


-----------------------------------------------------------------------------
(* The load generator. *)

\* The requests the totals count: each has been counted by the server before.
SeenStale == {r \in Request : wasSuccess[r] /\ response[r].kind = "stale"}
SeenSuccesses == {r \in Request : wasSuccess[r] /\ sending[r] = "finished"}

LoadInv ==
    /\ sending \in [Request -> {"unsent", "waiting", "deferred", "counted", "finished"}]
    /\ wasSuccess \in [Request -> BOOLEAN]
    /\ totals \in [sent : Nat, responses : Nat, successes : Nat, stale : Nat]
    /\ \A r \in Request :
          wasSuccess[r] => /\ sending[r] \notin {"unsent", "waiting"}
                           /\ r \in Counted({"ranked", "stale"})
    /\ totals.stale = Cardinality(SeenStale)
    /\ totals.successes = Cardinality(SeenSuccesses)

LEMMA LoadInitInv == LoadInit => LoadInv
  <1>. SUFFICES ASSUME LoadInit PROVE LoadInv
    OBVIOUS
  <1>1. SeenStale = {} /\ SeenSuccesses = {}
    BY DEF LoadInit, SeenStale, SeenSuccesses
  <1>2. Cardinality(SeenStale) = 0 /\ Cardinality(SeenSuccesses) = 0
    BY <1>1, FS_EmptySet
  <1>. QED  BY <1>2 DEF LoadInit, LoadInv

\* What a client has seen is finite, because what the server has counted is.
LEMMA SeenIsFinite ==
    ASSUME CallsInv, LoadInv
    PROVE  IsFiniteSet(SeenStale) /\ IsFiniteSet(SeenSuccesses)
  <1>1. /\ SeenStale \subseteq Counted({"ranked", "stale"})
        /\ SeenSuccesses \subseteq Counted({"ranked", "stale"})
    BY DEF LoadInv, SeenStale, SeenSuccesses
  <1>. QED  BY <1>1, CountedIsFinite, FS_Subset

LEMMA LoadServerStep ==
    ASSUME [LoadNext]_loadVars
    PROVE  Next \/ UNCHANGED server
  <1>1. CASE UNCHANGED vars
    BY <1>1 DEF vars, server, calls, cache, world, pool
  <1>2. CASE \E r \in Request, u \in AskedUser, n \in Limit : SendRequest(r, u, n)
    BY <1>2 DEF SendRequest, Next
  <1>3. CASE \E r \in Request : SendRequests(r)
    <2>1. CASE \E r \in Request : Deadline(r)
      BY <2>1 DEF Deadline, server, cache, world, pool
    <2>2. CASE \E r \in Request : Receive(r) \/ CountResponse(r) \/ CountSuccess(r)
      BY <1>1, <2>2 DEF Receive, CountResponse, CountSuccess
    <2>. QED  BY <1>3, <2>1, <2>2 DEF SendRequests
  <1>4. CASE ReportStats
    BY <1>1, <1>4 DEF ReportStats, LoadResponses, PrintReport
  <1>5. CASE \E r \in Request : Handler(r) \/ FallBack(r)
    BY <1>5 DEF Next
  <1>6. CASE \/ UpdateTrendingVideos \/ StillFresh \/ Tick
             \/ \E s \in {"user", "video"} : \E config \in Configs :
                   SetInjectionConfig(s, config)
    BY <1>6 DEF Next
  <1>. QED  BY <1>1, <1>2, <1>3, <1>4, <1>5, <1>6 DEF LoadNext, loadVars

\* What the server has counted it goes on counting.
LEMMA CountedForEver ==
    ASSUME ServerInv, Next \/ UNCHANGED server, NEW kinds
    PROVE  \A r \in Counted(kinds) :
              r \in Counted(kinds)' /\ response'[r] = response[r]
  <1>1. CASE ~ \E r \in Request : UpdateStats(r)
    <2>1. \A r \in Request :
             /\ pc'[r] \in {"leaving", "done"} <=> pc[r] \in {"leaving", "done"}
             /\ pc[r] \in {"leaving", "done"} => response'[r] = response[r]
      BY <1>1, CountedOnce DEF ServerInv
    <2>. QED  BY <2>1 DEF Counted
  <1>2. ASSUME NEW q \in Request, UpdateStats(q)
        PROVE  \A r \in Counted(kinds) :
                  r \in Counted(kinds)' /\ response'[r] = response[r]
    <2>1. pc[q] = "stats" /\ Goto(q, "leaving") /\ response' = response
      BY <1>2 DEF UpdateStats
    <2>2. \A r \in Request \ {q} : pc'[r] = pc[r]
      BY <2>1, HandlerGoes DEF ServerInv, HandlerPc, Caller
    <2>. QED  BY <2>1, <2>2 DEF Counted
  <1>. QED  BY <1>1, <1>2

\* A step that changes neither what the client knows of a request nor its totals.
LEMMA ClientSeesNothing ==
    ASSUME ServerInv, LoadInv, [LoadNext]_loadVars, wasSuccess' = wasSuccess,
           totals' \in [sent : Nat, responses : Nat, successes : Nat, stale : Nat],
           totals'.stale = totals.stale, totals'.successes = totals.successes,
           sending' \in [Request -> {"unsent", "waiting", "deferred", "counted", "finished"}],
           \A r \in Request :
              wasSuccess[r] => /\ sending'[r] \notin {"unsent", "waiting"}
                               /\ sending'[r] = "finished" <=> sending[r] = "finished"
    PROVE  LoadInv'
  <1>1. \A r \in Counted({"ranked", "stale"}) :
           r \in Counted({"ranked", "stale"})' /\ response'[r] = response[r]
    BY LoadServerStep, CountedForEver
  <1>2. \A r \in Request : wasSuccess[r] => r \in Counted({"ranked", "stale"})
    BY DEF LoadInv
  <1>3. SeenStale' = SeenStale
    BY <1>1, <1>2 DEF SeenStale
  <1>4. SeenSuccesses' = SeenSuccesses
    BY DEF SeenSuccesses
  <1>5. \A r \in Request : wasSuccess'[r] => r \in Counted({"ranked", "stale"})'
    BY <1>1, <1>2
  <1>. QED  BY <1>3, <1>4, <1>5 DEF LoadInv

LEMMA LoadStep ==
    ASSUME ServerInv, LoadInv, [LoadNext]_loadVars
    PROVE  LoadInv'
  <1>0. /\ sending \in [Request -> {"unsent", "waiting", "deferred", "counted", "finished"}]
        /\ wasSuccess \in [Request -> BOOLEAN]
        /\ totals \in [sent : Nat, responses : Nat, successes : Nat, stale : Nat]
        /\ \A r \in Request : wasSuccess[r] => sending[r] \notin {"unsent", "waiting"}
    BY DEF LoadInv
  <1>1. CASE UNCHANGED client
    BY <1>0, <1>1, ClientSeesNothing DEF client
  <1>2. ASSUME NEW r \in Request, NEW u \in AskedUser, NEW n \in Limit, SendRequest(r, u, n)
        PROVE  LoadInv'
    <2>1. /\ pc[r] = "idle" /\ wasSuccess' = wasSuccess
          /\ totals' = [totals EXCEPT !.sent = @ + 1]
          /\ sending' = [sending EXCEPT ![r] = "waiting"]
      BY <1>2 DEF SendRequest, GetTopVideos, GoOn
    <2>2. ~ wasSuccess[r]
      BY <2>1 DEF LoadInv, Counted
    <2>3. /\ totals' \in [sent : Nat, responses : Nat, successes : Nat, stale : Nat]
          /\ totals'.stale = totals.stale /\ totals'.successes = totals.successes
      BY <1>0, <2>1
    <2>. QED  BY <1>0, <2>1, <2>2, <2>3, ClientSeesNothing
  <1>3. ASSUME NEW r \in Request, Receive(r)
        PROVE  LoadInv'
    <2>. DEFINE kind == response[r].kind
    <2>1. /\ sending[r] = "waiting" /\ pc[r] = "done"
          /\ UNCHANGED <<pc, response>>
          /\ wasSuccess' = [wasSuccess EXCEPT ![r] = kind \in {"ranked", "stale"}]
          /\ totals' = IF kind = "stale" THEN [totals EXCEPT !.stale = @ + 1] ELSE totals
          /\ sending' = [sending EXCEPT ![r] = "deferred"]
      BY <1>3 DEF Receive, GoOn, vars
    <2>2. ~ wasSuccess[r]
      BY <1>0, <2>1
    <2>3. /\ sending' \in [Request -> {"unsent", "waiting", "deferred", "counted", "finished"}]
          /\ wasSuccess' \in [Request -> BOOLEAN]
          /\ totals' \in [sent : Nat, responses : Nat, successes : Nat, stale : Nat]
      BY <1>0, <2>1
    <2>4. /\ wasSuccess'[r] = (kind \in {"ranked", "stale"}) /\ sending'[r] = "deferred"
          /\ \A q \in Request \ {r} : wasSuccess'[q] = wasSuccess[q] /\ sending'[q] = sending[q]
      BY <1>0, <2>1
    <2>5. \A q \in Request :
             wasSuccess'[q] => /\ sending'[q] \notin {"unsent", "waiting"}
                               /\ q \in Counted({"ranked", "stale"})'
      BY <2>1, <2>4 DEF LoadInv, Counted
    <2>6. SeenSuccesses' = SeenSuccesses /\ totals'.successes = totals.successes
      BY <1>0, <2>1, <2>2, <2>4 DEF SeenSuccesses
    <2>7. totals'.stale = Cardinality(SeenStale')
      <3>1. CASE kind = "stale"
        <4>1. SeenStale' = SeenStale \cup {r} /\ r \notin SeenStale
          BY <2>1, <2>2, <2>4, <3>1 DEF SeenStale
        <4>2. Cardinality(SeenStale \cup {r}) = Cardinality(SeenStale) + 1
          BY <4>1, SeenIsFinite, FS_AddElement DEF ServerInv
        <4>3. totals'.stale = totals.stale + 1
          BY <1>0, <2>1, <3>1
        <4>. QED  BY <4>1, <4>2, <4>3 DEF LoadInv
      <3>2. CASE kind # "stale"
        <4>1. SeenStale' = SeenStale
          BY <2>1, <2>2, <2>4, <3>2 DEF SeenStale
        <4>. QED  BY <2>1, <3>2, <4>1 DEF LoadInv
      <3>. QED  BY <3>1, <3>2
    <2>. QED  BY <2>3, <2>5, <2>6, <2>7 DEF LoadInv
  <1>4. ASSUME NEW r \in Request, Deadline(r) \/ CountResponse(r)
        PROVE  LoadInv'
    <2>1. /\ wasSuccess' = wasSuccess /\ sending[r] \in {"waiting", "deferred"}
          /\ totals' = totals \/ totals' = [totals EXCEPT !.responses = @ + 1]
          /\ \/ sending' = [sending EXCEPT ![r] = "deferred"]
             \/ sending' = [sending EXCEPT ![r] = "counted"]
      BY <1>4 DEF Deadline, CountResponse, GoOn
    <2>2. /\ totals' \in [sent : Nat, responses : Nat, successes : Nat, stale : Nat]
          /\ totals'.stale = totals.stale /\ totals'.successes = totals.successes
      BY <1>0, <2>1
    <2>. QED  BY <1>0, <2>1, <2>2, ClientSeesNothing
  <1>5. ASSUME NEW r \in Request, CountSuccess(r)
        PROVE  LoadInv'
    <2>1. /\ sending[r] = "counted" /\ UNCHANGED <<pc, response, wasSuccess>>
          /\ totals' = IF wasSuccess[r] THEN [totals EXCEPT !.successes = @ + 1] ELSE totals
          /\ sending' = [sending EXCEPT ![r] = "finished"]
      BY <1>5 DEF CountSuccess, GoOn, vars
    <2>2. /\ sending' \in [Request -> {"unsent", "waiting", "deferred", "counted", "finished"}]
          /\ totals' \in [sent : Nat, responses : Nat, successes : Nat, stale : Nat]
          /\ totals'.stale = totals.stale /\ sending'[r] = "finished"
          /\ \A q \in Request \ {r} : sending'[q] = sending[q]
      BY <1>0, <2>1
    <2>3. /\ SeenStale' = SeenStale
          /\ Counted({"ranked", "stale"})' = Counted({"ranked", "stale"})
      BY <2>1 DEF SeenStale, Counted
    <2>4. \A q \in Request :
             wasSuccess'[q] => /\ sending'[q] \notin {"unsent", "waiting"}
                               /\ q \in Counted({"ranked", "stale"})'
      BY <2>1, <2>2, <2>3 DEF LoadInv
    <2>5. totals'.successes = Cardinality(SeenSuccesses')
      <3>1. CASE wasSuccess[r]
        <4>1. SeenSuccesses' = SeenSuccesses \cup {r} /\ r \notin SeenSuccesses
          BY <2>1, <2>2, <3>1 DEF SeenSuccesses
        <4>2. Cardinality(SeenSuccesses \cup {r}) = Cardinality(SeenSuccesses) + 1
          BY <4>1, SeenIsFinite, FS_AddElement DEF ServerInv
        <4>3. totals'.successes = totals.successes + 1
          BY <1>0, <2>1, <3>1
        <4>. QED  BY <4>1, <4>2, <4>3 DEF LoadInv
      <3>2. CASE ~ wasSuccess[r]
        <4>1. SeenSuccesses' = SeenSuccesses
          BY <2>1, <2>2, <3>2 DEF SeenSuccesses
        <4>. QED  BY <2>1, <3>2, <4>1 DEF LoadInv
      <3>. QED  BY <3>1, <3>2
    <2>. QED  BY <1>0, <2>1, <2>2, <2>3, <2>4, <2>5 DEF LoadInv
  <1>6. CASE ReportStats
    BY <1>0, <1>6, ClientSeesNothing DEF ReportStats, LoadResponses, PrintReport
  <1>7. CASE loadVars' = loadVars
    BY <1>1, <1>7 DEF loadVars
  <1>. QED  BY <1>1, <1>2, <1>3, <1>4, <1>5, <1>6, <1>7 DEF LoadNext, SendRequests

\* What the client counts the server has counted before.
LEMMA SeenIsCounted ==
    ASSUME ServerInv, LoadInv
    PROVE  ClientBehindServer
  <1>. DEFINE stale  == Cardinality(Counted({"stale"}))
              ranked == Cardinality(Counted({"ranked"}))
              both   == Counted({"ranked"}) \cup Counted({"stale"})
  <1>1. /\ IsFiniteSet(Counted({"stale"})) /\ IsFiniteSet(Counted({"ranked"}))
        /\ stale \in Nat /\ ranked \in Nat
    BY CountedIsFinite DEF ServerInv
  <1>2. SeenStale \subseteq Counted({"stale"})
    BY DEF LoadInv, SeenStale, Counted
  <1>3. Cardinality(SeenStale) <= stale
    BY <1>1, <1>2, FS_Subset
  <1>4. SeenSuccesses \subseteq both
    BY DEF LoadInv, SeenSuccesses, Counted
  <1>5. Counted({"ranked"}) \cap Counted({"stale"}) = {}
    BY DEF Counted
  <1>6. IsFiniteSet(both) /\ Cardinality(both) = ranked + stale - Cardinality({})
    BY <1>1, <1>5, FS_Union
  <1>7. Cardinality({}) = 0
    BY FS_EmptySet
  <1>8. Cardinality(SeenSuccesses) <= Cardinality(both)
    BY <1>4, <1>6, FS_Subset
  <1>9. /\ stats.stale = stale /\ stats.total = stats.errors + stats.stale + ranked
        /\ stats.errors \in Nat
    BY DEF ServerInv, StatsInv, ServiceType
  <1>10. totals.stale = Cardinality(SeenStale) /\ totals.successes = Cardinality(SeenSuccesses)
    BY DEF LoadInv
  <1>. HIDE DEF stale, ranked, both
  <1>11. Cardinality(SeenSuccesses) <= stale + ranked
    BY <1>1, <1>6, <1>7, <1>8
  <1>12. stats.total - stats.errors = stale + ranked
    BY <1>1, <1>9
  <1>. QED  BY <1>3, <1>9, <1>10, <1>11, <1>12 DEF ClientBehindServer

\* The totals the client prints never run ahead of those of GetStats.
THEOREM ClientsAreBehind == LoadSpec => []ClientBehindServer
  <1>1. LoadInit => ServerInv /\ LoadInv
    BY InitType, InitStats, LoadInitInv DEF ServerInv, LoadInit
  <1>2. ServerInv /\ LoadInv /\ [LoadNext]_loadVars => (ServerInv /\ LoadInv)'
    BY LoadServerStep, TypeStep, CallsStep, StatsStep, LoadStep DEF ServerInv
  <1>3. ServerInv /\ LoadInv => ClientBehindServer
    BY SeenIsCounted
  <1>. QED  BY <1>1, <1>2, <1>3, PTL DEF LoadSpec


-----------------------------------------------------------------------------
(* Lists of ids: deduplicateIds, the sort by rank and their results.  What is *)
(* true of each list is proved from least elements, not by induction.         *)

\* A nonempty set of natural numbers has a least element.
LEMMA Least ==
    ASSUME NEW T \in SUBSET Nat, T # {}
    PROVE  \E x \in T : \A y \in T : x <= y
  <1>1. PICK Less : /\ IsWellFoundedOn(Less, Nat)
                    /\ \A x, y \in Nat : y < x => <<y, x>> \in Less
    <2>1. \A x, y \in Nat : y < x => <<y, x>> \in OpToRel(<, Nat)
      BY DEF OpToRel
    <2>. QED  BY <2>1, NatLessThanWellFounded
  <1>2. PICK x \in T : \A y \in T : ~ (<<y, x>> \in Less)
    BY <1>1, WFMin
  <1>3. \A y \in T : ~ (y < x)
    BY <1>1, <1>2
  <1>4. \A y \in T : x <= y
    BY <1>3
  <1>. QED  BY <1>4

\* What holds at 0 and is handed on holds of every natural number up to n.
LEMMA UpTo ==
    ASSUME NEW n \in Nat, NEW T, 0 \in T, \A k \in 0..(n - 1) : k \in T => k + 1 \in T
    PROVE  \A k \in 0..n : k \in T
  <1>. SUFFICES ASSUME {k \in 0..n : k \notin T} # {} PROVE FALSE
    OBVIOUS
  <1>1. {k \in 0..n : k \notin T} \in SUBSET Nat
    OBVIOUS
  <1>2. PICK x \in {k \in 0..n : k \notin T} : \A y \in {k \in 0..n : k \notin T} : x <= y
    BY <1>1, Least
  <1>3. x \in 0..n /\ x \notin T /\ x # 0
    BY <1>2
  <1>4. x - 1 \in 0..(n - 1) /\ x - 1 \in 0..n /\ x - 1 + 1 = x /\ ~ (x <= x - 1)
    BY <1>3
  <1>5. x - 1 \in T
    BY <1>2, <1>4
  <1>6. x \in T
    BY <1>4, <1>5
  <1>. QED  BY <1>3, <1>6

Distinct(ids) == \A i, j \in DOMAIN ids : ids[i] = ids[j] => i = j

\* An order of indices: upTo[i] are those that come no later than i.
Ordered(I, upTo) ==
    /\ \A i \in I : i \in upTo[i] /\ upTo[i] \subseteq I
    /\ \A i, j \in I : i # j => \/ upTo[i] \subseteq upTo[j] /\ j \notin upTo[i]
                                \/ upTo[j] \subseteq upTo[i] /\ i \notin upTo[j]

\* at[k] is the index in the k-th place.
InPlace(I, place, at) ==
    /\ \A i, j \in I : place[i] = place[j] => i = j
    /\ \A i \in I : place[i] \in 1..Cardinality(I)
    /\ \A k \in 1..Cardinality(I) : at[k] \in I /\ place[at[k]] = k

\* The place of an index is the number of those that come up to it: each place from 1
\* to the number of indices is the place of one index.
LEMMA Places ==
    ASSUME NEW I, IsFiniteSet(I), NEW upTo, Ordered(I, upTo)
    PROVE  /\ Cardinality(I) \in Nat
           /\ \A i \in I : Cardinality(upTo[i]) \in 1..Cardinality(I)
           /\ \A i, j \in I : Cardinality(upTo[i]) = Cardinality(upTo[j]) => i = j
           /\ \A k \in 1..Cardinality(I) : \E i \in I : Cardinality(upTo[i]) = k
           /\ \A i, j \in I : Cardinality(upTo[i]) < Cardinality(upTo[j]) => i \in upTo[j]
  <1>. DEFINE place == [i \in I |-> Cardinality(upTo[i])]
              n == Cardinality(I)
  <1>0. /\ \A i \in I : i \in upTo[i] /\ upTo[i] \subseteq I
        /\ \A i, j \in I : i # j => \/ upTo[i] \subseteq upTo[j] /\ j \notin upTo[i]
                                    \/ upTo[j] \subseteq upTo[i] /\ i \notin upTo[j]
    BY DEF Ordered
  <1>1. n \in Nat
    BY FS_CardinalityType
  <1>2. \A i \in I : /\ IsFiniteSet(upTo[i]) /\ Cardinality(upTo[i]) \in Nat
                     /\ Cardinality(upTo[i]) <= n /\ Cardinality(upTo[i]) # 0
    BY <1>0, FS_Subset, FS_CardinalityType, FS_EmptySet
  <1>3. \A i \in I : Cardinality(upTo[i]) \in 1..n
    BY <1>1, <1>2
  <1>4. ASSUME NEW i \in I, NEW j \in I, upTo[i] \subseteq upTo[j], j \notin upTo[i]
        PROVE  Cardinality(upTo[i]) < Cardinality(upTo[j])
    <2>1. upTo[i] \in SUBSET upTo[j] /\ upTo[i] # upTo[j]
      BY <1>0, <1>4
    <2>2. /\ Cardinality(upTo[i]) <= Cardinality(upTo[j])
          /\ Cardinality(upTo[i]) # Cardinality(upTo[j])
      BY <1>2, <2>1, FS_Subset
    <2>. QED  BY <1>2, <2>2
  <1>5. \A i, j \in I : Cardinality(upTo[i]) = Cardinality(upTo[j]) => i = j
    BY <1>0, <1>2, <1>4
  <1>6. place \in Injection(I, 1..n)
    BY <1>3, <1>5 DEF Injection, IsInjective
  <1>7. IsFiniteSet(1..n) /\ Cardinality(1..n) = n
    BY <1>1, FS_Interval
  <1>8. place \in Surjection(I, 1..n)
    BY <1>6, <1>7, FS_Injection
  <1>9. \A k \in 1..n : \E i \in I : place[i] = k
    BY <1>8 DEF Surjection
  <1>10. \A i, j \in I : Cardinality(upTo[i]) < Cardinality(upTo[j]) => i \in upTo[j]
    BY <1>0, <1>2, <1>4
  <1>. QED  BY <1>1, <1>3, <1>5, <1>9, <1>10

\* The list a set of indices, put in order, picks from another list.
Pick(ids, I, at) == [k \in 1..Cardinality(I) |-> ids[at[k]]]

LEMMA Picked ==
    ASSUME NEW S, NEW ids \in Seq(S), NEW I \in SUBSET (DOMAIN ids), NEW place,
           Cardinality(I) \in Nat, NEW at, InPlace(I, place, at),
           \A i, j \in I : ids[i] = ids[j] => i = j
    PROVE  /\ Pick(ids, I, at) \in Seq(S) /\ Len(Pick(ids, I, at)) = Cardinality(I)
           /\ Distinct(Pick(ids, I, at))
           /\ ToSet(Pick(ids, I, at)) = {ids[i] : i \in I}
  <1>. DEFINE n == Cardinality(I)
              picked == Pick(ids, I, at)
  <1>1. /\ \A k \in 1..n : at[k] \in I /\ place[at[k]] = k
        /\ \A i \in I : place[i] \in 1..n
    BY DEF InPlace
  <1>2. \A i \in I : at[place[i]] = i
    BY <1>1 DEF InPlace
  <1>3. \A i \in I : ids[i] \in S
    OBVIOUS
  <1>4. picked = [k \in 1..n |-> ids[at[k]]]
    BY DEF Pick
  <1>. HIDE DEF picked
  <1>5. picked \in Seq(S) /\ Len(picked) = n /\ DOMAIN picked = 1..n
    BY <1>1, <1>3, <1>4
  <1>6. Distinct(picked)
    BY <1>1, <1>4 DEF Distinct
  <1>7. \A i \in I : place[i] \in 1..n /\ picked[place[i]] = ids[i]
    BY <1>1, <1>2, <1>4
  <1>8. ToSet(picked) = {ids[i] : i \in I}
    <2>1. \A k \in 1..n : \E i \in I : picked[k] = ids[i]
      BY <1>1, <1>4
    <2>2. \A i \in I : \E k \in 1..n : picked[k] = ids[i]
      BY <1>7
    <2>3. ToSet(picked) = {picked[k] : k \in 1..n}
      BY <1>5 DEF ToSet
    <2>4. \A x \in ToSet(picked) : x \in {ids[i] : i \in I}
      BY <2>1, <2>3
    <2>5. ASSUME NEW x \in {ids[i] : i \in I} PROVE x \in ToSet(picked)
      <3>1. PICK i \in I : x = ids[i]
        OBVIOUS
      <3>2. PICK k \in 1..n : picked[k] = x
        BY <2>2, <3>1
      <3>. QED  BY <2>3, <3>2
    <2>. QED  BY <2>4, <2>5
  <1>. QED  BY <1>5, <1>6, <1>8 DEF picked


\* deduplicateIds keeps every id, once.
LEMMA Deduplicated ==
    ASSUME NEW S, NEW ids \in Seq(S)
    PROVE  /\ DeduplicateIds(ids) \in Seq(S) /\ Distinct(DeduplicateIds(ids))
           /\ ToSet(DeduplicateIds(ids)) = ToSet(ids)
  <1>. DEFINE I == {i \in DOMAIN ids : \A j \in 1..(i - 1) : ids[j] # ids[i]}
              upTo == [i \in I |-> {j \in I : j <= i}]
              place == [i \in I |-> Cardinality({j \in I : j <= i})]
              at == [k \in 1..Cardinality(I) |->
                        CHOOSE i \in I : Cardinality({j \in I : j <= i}) = k]
  <1>1. DOMAIN ids = 1..Len(ids) /\ Len(ids) \in Nat
    OBVIOUS
  <1>2. I \in SUBSET (DOMAIN ids) /\ I \subseteq 1..Len(ids) /\ \A i \in I : i \in Nat
    BY <1>1
  <1>3. IsFiniteSet(I)
    <2>1. IsFiniteSet(1..Len(ids))
      BY <1>1, FS_Interval
    <2>2. I \in SUBSET (1..Len(ids))
      BY <1>2
    <2>. HIDE DEF I
    <2>. QED  BY <2>1, <2>2, FS_Subset
  <1>4. \A i, j \in I : ids[i] = ids[j] => i = j
    <2>1. \A i, j \in I : i < j => ids[i] # ids[j]
      BY <1>1
    <2>2. \A i, j \in I : i < j \/ j < i \/ i = j
      BY <1>2
    <2>. QED  BY <2>1, <2>2
  <1>5. DeduplicateIds(ids) = Pick(ids, I, at)
    <2>1. DeduplicateIds(ids) = [k \in 1..Cardinality(I) |->
             ids[CHOOSE i \in I : Cardinality({j \in I : j <= i}) = k]]
      BY DEF DeduplicateIds
    <2>. QED  BY <2>1 DEF Pick
  <1>6. Ordered(I, upTo)
    <2>. HIDE DEF I
    <2>1. \A i \in I : i \in upTo[i] /\ upTo[i] \subseteq I
      BY <1>2
    <2>2. \A i, j \in I : i < j => upTo[i] \subseteq upTo[j] /\ j \notin upTo[i]
      <3>1. SUFFICES ASSUME NEW i \in I, NEW j \in I, i < j
                     PROVE  upTo[i] \subseteq upTo[j] /\ j \notin upTo[i]
        OBVIOUS
      <3>2. i \in Nat /\ j \in Nat /\ \A k \in I : k \in Nat
        BY <1>2
      <3>3. ~ (j <= i) /\ \A k \in I : k <= i => k <= j
        BY <3>1, <3>2
      <3>4. upTo[i] = {k \in I : k <= i} /\ upTo[j] = {k \in I : k <= j}
        OBVIOUS
      <3>. HIDE DEF upTo
      <3>. QED  BY <3>3, <3>4
    <2>3. \A i, j \in I : i # j => i < j \/ j < i
      BY <1>2
    <2>. HIDE DEF upTo
    <2>. QED  BY <2>1, <2>2, <2>3 DEF Ordered
  <1>7. \A i \in I : Cardinality(upTo[i]) = place[i]
    OBVIOUS
  <1>. HIDE DEF I, upTo, place
  <1>8. /\ Cardinality(I) \in Nat
        /\ \A i \in I : Cardinality(upTo[i]) \in 1..Cardinality(I)
        /\ \A i, j \in I : Cardinality(upTo[i]) = Cardinality(upTo[j]) => i = j
        /\ \A k \in 1..Cardinality(I) : \E i \in I : Cardinality(upTo[i]) = k
    BY <1>3, <1>6, Places
  <1>9. \A k \in 1..Cardinality(I) : at[k] \in I /\ place[at[k]] = k
    <2>. TAKE k \in 1..Cardinality(I)
    <2>1. \E i \in I : place[i] = k
      BY <1>7, <1>8
    <2>2. \E i \in I : Cardinality({j \in I : j <= i}) = k
      BY <2>1 DEF place
    <2>3. at[k] \in I /\ Cardinality({j \in I : j <= at[k]}) = k
      BY <2>2
    <2>. QED  BY <2>3 DEF place
  <1>12. InPlace(I, place, at)
    BY SMTT(40), <1>7, <1>8, <1>9 DEF InPlace
  <1>. HIDE DEF at
  <1>10. /\ Pick(ids, I, at) \in Seq(S) /\ Distinct(Pick(ids, I, at))
         /\ ToSet(Pick(ids, I, at)) = {ids[i] : i \in I}
    BY <1>2, <1>4, <1>8, <1>12, Picked
  <1>11. {ids[i] : i \in I} = ToSet(ids)
    <2>1. ASSUME NEW x \in ToSet(ids)
          PROVE  \E i \in I : x = ids[i]
      <3>. DEFINE T == {j \in DOMAIN ids : ids[j] = x}
      <3>1. T \in SUBSET Nat /\ T # {}
        BY <1>1 DEF ToSet
      <3>2. PICK i \in T : \A j \in T : i <= j
        BY <3>1, Least
      <3>3. \A j \in 1..(i - 1) : j \in DOMAIN ids /\ ~ (i <= j)
        BY <1>1
      <3>4. i \in I
        BY <3>2, <3>3 DEF I
      <3>. QED  BY <3>4
    <2>2. \A i \in I : ids[i] \in ToSet(ids)
      BY <1>2 DEF ToSet
    <2>. QED  BY <2>1, <2>2
  <1>. QED  BY <1>5, <1>10, <1>11

\* A list without repetitions is left as it is.
LEMMA NothingToDeduplicate ==
    ASSUME NEW S, NEW ids \in Seq(S), Distinct(ids)
    PROVE  DeduplicateIds(ids) = ids
  <1>. DEFINE I == {i \in DOMAIN ids : \A j \in 1..(i - 1) : ids[j] # ids[i]}
              n == Len(ids)
  <1>1. DOMAIN ids = 1..n /\ n \in Nat
    OBVIOUS
  <1>2. I = 1..n
    BY <1>1 DEF Distinct
  <1>3. Cardinality(1..n) = n
    BY <1>1, FS_Interval
  <1>4. \A i \in 1..n : Cardinality(1..i) = i
    BY <1>1, FS_Interval
  <1>5. \A i \in 1..n : {j \in 1..n : j <= i} = 1..i
    BY <1>1
  <1>. DEFINE at == [k \in 1..Cardinality(I) |->
                        CHOOSE i \in I : Cardinality({j \in I : j <= i}) = k]
  <1>6. DeduplicateIds(ids) = [k \in 1..Cardinality(I) |-> ids[at[k]]]
    <2>1. DeduplicateIds(ids) = [k \in 1..Cardinality(I) |->
             ids[CHOOSE i \in I : Cardinality({j \in I : j <= i}) = k]]
      BY DEF DeduplicateIds
    <2>. QED  BY <2>1
  <1>. HIDE DEF I
  <1>7. \A i \in I : Cardinality({j \in I : j <= i}) = i
    BY <1>2, <1>4, <1>5
  <1>8. \A k \in 1..n : at[k] = k
    <2>. TAKE k \in 1..n
    <2>1. \E i \in I : Cardinality({j \in I : j <= i}) = k
      BY <1>2, <1>7
    <2>2. at[k] \in I /\ Cardinality({j \in I : j <= at[k]}) = k
      BY <1>2, <1>3, <2>1
    <2>. QED  BY <1>7, <2>2
  <1>. HIDE DEF at
  <1>9. DeduplicateIds(ids) = [k \in 1..n |-> ids[k]]
    BY <1>2, <1>3, <1>6, <1>8
  <1>. QED  BY <1>1, <1>9


\* The stable sort keeps every id, and puts none before one of a higher rank.
LEMMA RankedInOrder ==
    ASSUME NEW ids \in Seq(Video), Distinct(ids)
    PROVE  /\ Ranked(ids) \in Seq(Video) /\ Len(Ranked(ids)) = Len(ids)
           /\ Distinct(Ranked(ids)) /\ ToSet(Ranked(ids)) = ToSet(ids)
           /\ \A k, l \in 1..Len(ids) :
                 k < l => Rank[Ranked(ids)[k]] >= Rank[Ranked(ids)[l]]
  <1>. DEFINE n == Len(ids)
              Before(j, i) == \/ Rank[ids[j]] > Rank[ids[i]]
                              \/ Rank[ids[j]] = Rank[ids[i]] /\ j < i
              earlier == [i \in 1..n |-> {j \in 1..n : Before(j, i)}]
              upTo == [i \in 1..n |-> earlier[i] \cup {i}]
              place == [i \in 1..n |-> 1 + Cardinality({j \in 1..n : Before(j, i)})]
              at == [k \in 1..n |-> CHOOSE i \in 1..n :
                        1 + Cardinality({j \in 1..n : Before(j, i)}) = k]
  <1>1. /\ n \in Nat /\ IsFiniteSet(1..n) /\ Cardinality(1..n) = n /\ DOMAIN ids = 1..n
        /\ \A i \in 1..n : ids[i] \in Video /\ Rank[ids[i]] \in Nat
    <2>1. n \in Nat /\ DOMAIN ids = 1..n /\ \A i \in 1..n : ids[i] \in Video
      OBVIOUS
    <2>2. IsFiniteSet(1..n) /\ Cardinality(1..n) = n
      <3>. HIDE DEF n
      <3>1. 1 \in Int /\ n \in Int /\ (1 > n => n = 0)
        BY <2>1
      <3>2. Cardinality(1..n) = IF 1 > n THEN 0 ELSE n - 1 + 1
        BY <3>1, FS_Interval
      <3>. QED  BY <2>1, <3>1, <3>2, FS_Interval
    <2>3. \A v \in Video : Rank[v] \in Nat
      BY DatabaseAssumption
    <2>. QED  BY <2>1, <2>2, <2>3
  <1>2. Ranked(ids) = Pick(ids, 1..n, at)
    <2>1. Ranked(ids) = [k \in 1..n |-> ids[CHOOSE i \in 1..n :
             1 + Cardinality({j \in 1..n : Before(j, i)}) = k]]
      BY DEF Ranked
    <2>2. Ranked(ids) = [k \in 1..n |-> ids[at[k]]]
      BY <2>1
    <2>. HIDE DEF at, n
    <2>. QED  BY <1>1, <2>2 DEF Pick
  <1>3. \A i, j, k \in 1..n : /\ i # j => Before(i, j) \/ Before(j, i)
                              /\ ~ (Before(i, j) /\ Before(j, i)) /\ ~ Before(i, i)
                              /\ Before(i, j) /\ Before(j, k) => Before(i, k)
    <2>. DEFINE rank(i) == Rank[ids[i]]
    <2>1. \A i \in 1..n : rank(i) \in Nat /\ i \in Nat
      BY <1>1
    <2>2. \A i, j : Before(i, j) <=> rank(i) > rank(j) \/ (rank(i) = rank(j) /\ i < j)
      OBVIOUS
    <2>. HIDE DEF rank, Before
    <2>. QED  BY <2>1, <2>2
  <1>4. \A i \in 1..n : earlier[i] = {j \in 1..n : Before(j, i)}
    OBVIOUS
  <1>5. \A i \in 1..n : upTo[i] = earlier[i] \cup {i}
    OBVIOUS
  <1>. HIDE DEF Before, upTo
  <1>6. Ordered(1..n, upTo)
    <2>1. \A i, j \in 1..n : Before(i, j) => upTo[i] \subseteq upTo[j] /\ j \notin upTo[i]
      BY <1>3, <1>4, <1>5
    <2>2. \A i \in 1..n : i \in upTo[i] /\ upTo[i] \subseteq 1..n
      BY <1>4, <1>5
    <2>. QED  BY <1>3, <2>1, <2>2 DEF Ordered
  <1>7. \A i \in 1..n : place[i] = Cardinality(upTo[i])
    <2>. TAKE i \in 1..n
    <2>1. IsFiniteSet(earlier[i]) /\ i \notin earlier[i]
      BY <1>1, <1>3, <1>4, FS_Subset
    <2>2. Cardinality(upTo[i]) = Cardinality(earlier[i]) + 1
      BY ZenonT(40), <1>5, <2>1, FS_AddElement
    <2>3. Cardinality(earlier[i]) \in Nat
      BY <2>1, FS_CardinalityType
    <2>4. place[i] = 1 + Cardinality(earlier[i])
      BY <1>4
    <2>. QED  BY <2>2, <2>3, <2>4
  <1>8. /\ \A i \in 1..n : Cardinality(upTo[i]) \in 1..n
        /\ \A i, j \in 1..n : Cardinality(upTo[i]) = Cardinality(upTo[j]) => i = j
        /\ \A k \in 1..n : \E i \in 1..n : Cardinality(upTo[i]) = k
        /\ \A i, j \in 1..n : Cardinality(upTo[i]) < Cardinality(upTo[j]) => i \in upTo[j]
    <2>. HIDE DEF n
    <2>. DEFINE I == 1..n
    <2>1. IsFiniteSet(I) /\ Ordered(I, upTo) /\ Cardinality(I) = n
      BY <1>1, <1>6
    <2>. HIDE DEF I
    <2>2. /\ \A i \in I : Cardinality(upTo[i]) \in 1..Cardinality(I)
          /\ \A i, j \in I : Cardinality(upTo[i]) = Cardinality(upTo[j]) => i = j
          /\ \A k \in 1..Cardinality(I) : \E i \in I : Cardinality(upTo[i]) = k
          /\ \A i, j \in I : Cardinality(upTo[i]) < Cardinality(upTo[j]) => i \in upTo[j]
      BY <2>1, Places
    <2>3. /\ \A i \in I : Cardinality(upTo[i]) \in 1..n
          /\ \A i, j \in I : Cardinality(upTo[i]) = Cardinality(upTo[j]) => i = j
          /\ \A k \in 1..n : \E i \in I : Cardinality(upTo[i]) = k
          /\ \A i, j \in I : Cardinality(upTo[i]) < Cardinality(upTo[j]) => i \in upTo[j]
      BY <2>1, <2>2
    <2>. QED  BY <2>3 DEF I
  <1>9. \A k \in 1..n : at[k] \in 1..n /\ place[at[k]] = k
    <2>. TAKE k \in 1..n
    <2>0. \E i \in 1..n : Cardinality(upTo[i]) = k
      BY <1>8
    <2>1. \E i \in 1..n : place[i] = k
      <3>. HIDE DEF place, n
      <3>. QED  BY <1>7, <2>0
    <2>2. \E i \in 1..n : 1 + Cardinality({j \in 1..n : Before(j, i)}) = k
      BY <2>1
    <2>3. at[k] \in 1..n /\ 1 + Cardinality({j \in 1..n : Before(j, at[k])}) = k
      BY <2>2
    <2>. QED  BY <2>3
  <1>. HIDE DEF place, at, earlier, n
  <1>10. InPlace(1..n, place, at)
    <2>1. Cardinality(1..n) = n
      BY <1>1
    <2>4. \A i \in 1..n : Cardinality(upTo[i]) \in 1..n
      BY <1>8
    <2>2. \A i \in 1..n : place[i] \in 1..n
      BY <1>7, <2>4
    <2>3. \A i, j \in 1..n : place[i] = place[j] => i = j
      BY <1>7, <1>8
    <2>. QED  BY <1>9, <2>1, <2>2, <2>3 DEF InPlace
  <1>11. /\ Ranked(ids) \in Seq(Video) /\ Len(Ranked(ids)) = n /\ Distinct(Ranked(ids))
         /\ ToSet(Ranked(ids)) = {ids[i] : i \in 1..n}
    <2>1. \A i, j \in 1..n : ids[i] = ids[j] => i = j
      BY <1>1 DEF Distinct
    <2>2. ids \in Seq(Video) /\ 1..n \in SUBSET (DOMAIN ids) /\ Cardinality(1..n) \in Nat
      BY <1>1
    <2>. DEFINE I == 1..n
    <2>4. /\ I \in SUBSET (DOMAIN ids) /\ Cardinality(I) \in Nat /\ Cardinality(I) = n
          /\ InPlace(I, place, at) /\ \A i, j \in I : ids[i] = ids[j] => i = j
          /\ Ranked(ids) = Pick(ids, I, at)
      BY <1>1, <1>2, <1>10, <2>1, <2>2
    <2>. HIDE DEF I
    <2>3. /\ Pick(ids, I, at) \in Seq(Video) /\ Len(Pick(ids, I, at)) = Cardinality(I)
          /\ Distinct(Pick(ids, I, at)) /\ ToSet(Pick(ids, I, at)) = {ids[i] : i \in I}
      BY <2>2, <2>4, Picked
    <2>5. /\ Ranked(ids) \in Seq(Video) /\ Len(Ranked(ids)) = n /\ Distinct(Ranked(ids))
          /\ ToSet(Ranked(ids)) = {ids[i] : i \in I}
      BY <2>3, <2>4
    <2>. QED  BY <2>5 DEF I
  <1>12. {ids[i] : i \in 1..n} = ToSet(ids)
    BY <1>1 DEF ToSet
  <1>13. \A k, l \in 1..n : k < l => Rank[Ranked(ids)[k]] >= Rank[Ranked(ids)[l]]
    <2>. SUFFICES ASSUME NEW k \in 1..n, NEW l \in 1..n, k < l
                  PROVE  Rank[Ranked(ids)[k]] >= Rank[Ranked(ids)[l]]
      OBVIOUS
    <2>0. at[k] \in 1..n /\ at[l] \in 1..n /\ place[at[k]] = k /\ place[at[l]] = l
      BY <1>9
    <2>5. Cardinality(upTo[at[k]]) < Cardinality(upTo[at[l]])
      BY <1>7, <2>0
    <2>1. at[k] \in 1..n /\ at[l] \in 1..n /\ at[k] \in upTo[at[l]]
      BY <1>8, <2>0, <2>5
    <2>2. Before(at[k], at[l]) \/ at[k] = at[l]
      BY <1>4, <1>5, <2>1
    <2>3. Ranked(ids)[k] = ids[at[k]] /\ Ranked(ids)[l] = ids[at[l]]
      BY <1>1, <1>2 DEF Pick
    <2>4. Rank[ids[at[k]]] >= Rank[ids[at[l]]]
      BY <1>1, <2>1, <2>2 DEF Before
    <2>. QED  BY <2>3, <2>4
  <1>. QED  BY <1>11, <1>12, <1>13 DEF n


LEMMA ToSetOfConcat ==
    ASSUME NEW S, NEW s \in Seq(S), NEW t \in Seq(S)
    PROVE  ToSet(s \o t) = ToSet(s) \cup ToSet(t)
  <1>. DEFINE m == Len(s)
              n == Len(t)
              u == s \o t
  <1>1. /\ m \in Nat /\ n \in Nat /\ DOMAIN s = 1..m /\ DOMAIN t = 1..n
    OBVIOUS
  <1>2. /\ u \in Seq(S) /\ Len(u) = m + n
        /\ \A i \in 1..(m + n) : u[i] = IF i <= m THEN s[i] ELSE t[i - m]
    BY ConcatProperties
  <1>3. DOMAIN u = 1..(m + n)
    BY <1>2
  <1>. HIDE DEF m, n, u
  <1>4. ASSUME NEW i \in 1..(m + n)
        PROVE  u[i] \in ToSet(s) \cup ToSet(t)
    <2>1. i <= m => i \in 1..m /\ u[i] = s[i]
      BY <1>1, <1>2
    <2>2. ~ (i <= m) => i - m \in 1..n /\ u[i] = t[i - m]
      BY <1>1, <1>2
    <2>. QED  BY <1>1, <2>1, <2>2 DEF ToSet
  <1>5. ASSUME NEW i \in 1..m
        PROVE  s[i] \in ToSet(u)
    <2>1. i \in 1..(m + n) /\ u[i] = s[i]
      BY <1>1, <1>2
    <2>. QED  BY <1>3, <2>1 DEF ToSet
  <1>6. ASSUME NEW i \in 1..n
        PROVE  t[i] \in ToSet(u)
    <2>. DEFINE j == i + m
    <2>1. j \in 1..(m + n) /\ ~ (j <= m) /\ j - m = i
      BY <1>1
    <2>. HIDE DEF j
    <2>2. u[j] = t[j - m]
      BY <1>2, <2>1
    <2>. QED  BY <1>3, <2>1, <2>2 DEF ToSet
  <1>7. ToSet(u) \subseteq ToSet(s) \cup ToSet(t)
    BY <1>3, <1>4 DEF ToSet
  <1>8. ToSet(s) \subseteq ToSet(u) /\ ToSet(t) \subseteq ToSet(u)
    <2>1. \A x \in ToSet(s) : \E i \in 1..m : x = s[i]
      BY <1>1 DEF ToSet
    <2>2. \A x \in ToSet(t) : \E i \in 1..n : x = t[i]
      BY <1>1 DEF ToSet
    <2>. QED  BY <1>5, <1>6, <2>1, <2>2
  <1>. QED  BY <1>7, <1>8 DEF u

\* FlattenSeq is a function that is defined by recursion on its argument: it exists,
\* because each of its first values determines the next.
LEMMA Flattened ==
    ASSUME NEW S, NEW seqs \in Seq(Seq(S))
    PROVE  /\ FlattenSeq(seqs) \in Seq(S)
           /\ ToSet(FlattenSeq(seqs)) = UNION {ToSet(seqs[i]) : i \in DOMAIN seqs}
  <1>. DEFINE n == Len(seqs)
              Flat(f, k) == f = [i \in 1..k |-> IF i = 1 THEN seqs[i] ELSE f[i - 1] \o seqs[i]]
              done == {k \in Nat : \E f : Flat(f, k)}
  <1>1. n \in Nat /\ DOMAIN seqs = 1..n /\ \A i \in 1..n : seqs[i] \in Seq(S)
    OBVIOUS
  <1>2. CASE n = 0
    <2>1. seqs = <<>> /\ FlattenSeq(seqs) = seqs
      BY <1>2 DEF FlattenSeq
    <2>2. DOMAIN seqs = {} /\ seqs \in Seq(S)
      BY <1>1, <1>2, <2>1
    <2>3. ToSet(seqs) = {} /\ UNION {ToSet(seqs[i]) : i \in DOMAIN seqs} = {}
      BY <2>2 DEF ToSet
    <2>. QED  BY <2>1, <2>2, <2>3
  <1>3. CASE n # 0
    <2>1. 0 \in done
      <3>1. Flat([i \in 1..0 |-> 0], 0)
        OBVIOUS
      <3>. QED  BY <3>1
    <2>2. ASSUME NEW k \in 0..(n - 1), k \in done
          PROVE  k + 1 \in done
      <3>1. PICK f : Flat(f, k)
        BY <2>2
      <3>. DEFINE next == IF k + 1 = 1 THEN seqs[k + 1] ELSE f[k] \o seqs[k + 1]
                  g == [i \in 1..(k + 1) |-> IF i = k + 1 THEN next ELSE f[i]]
      <3>2. k \in Nat /\ \A i \in 1..(k + 1) : i # k + 1 => i \in 1..k
        OBVIOUS
      <3>3. \A i \in 1..k : f[i] = IF i = 1 THEN seqs[i] ELSE f[i - 1] \o seqs[i]
        BY <3>1
      <3>. HIDE DEF Flat
      <3>4. \A i \in 1..k : g[i] = f[i]
        BY <3>2
      <3>5. \A i \in 1..(k + 1) : g[i] = IF i = 1 THEN seqs[i] ELSE g[i - 1] \o seqs[i]
        <4>1. \A i \in 1..(k + 1) : i # 1 => i - 1 \in 1..k
          BY <3>2
        <4>2. \A i \in 1..k : g[i] = IF i = 1 THEN seqs[i] ELSE g[i - 1] \o seqs[i]
          BY <3>2, <3>3, <3>4, <4>1
        <4>3. g[k + 1] = next /\ (k + 1 # 1 => g[k] = f[k] /\ k + 1 - 1 = k)
          BY <3>2, <3>4
        <4>. HIDE DEF g
        <4>4. g[k + 1] = IF k + 1 = 1 THEN seqs[k + 1] ELSE g[k + 1 - 1] \o seqs[k + 1]
          BY <4>3
        <4>. QED  BY <3>2, <4>2, <4>4
      <3>6. g = [i \in 1..(k + 1) |-> g[i]]
        OBVIOUS
      <3>. HIDE DEF g
      <3>7. Flat(g, k + 1)
        BY <3>5, <3>6 DEF Flat
      <3>. QED  BY <3>2, <3>7
    <2>3. n \in done
      <3>. HIDE DEF done, n
      <3>1. \A k \in 0..(n - 1) : k \in done => k + 1 \in done
        BY <2>2
      <3>2. \A k \in 0..n : k \in done
        BY <1>1, <2>1, <3>1, UpTo
      <3>. QED  BY <1>1, <3>2
    <2>. DEFINE flatten == CHOOSE f : Flat(f, n)
    <2>4. Flat(flatten, n)
      <3>. HIDE DEF Flat
      <3>. QED  BY <2>3
    <2>5. FlattenSeq(seqs) = flatten[n]
      BY <1>3 DEF FlattenSeq
    <2>. DEFINE upTo(k) == UNION {ToSet(seqs[i]) : i \in 1..k}
                typed == {k \in Nat : k = 0 \/ (/\ flatten[k] \in Seq(S)
                                               /\ ToSet(flatten[k]) = upTo(k))}
    <2>6. \A i \in 1..n : flatten[i] = IF i = 1 THEN seqs[i] ELSE flatten[i - 1] \o seqs[i]
      BY <2>4
    <2>. HIDE DEF flatten
    <2>7. 0 \in typed
      OBVIOUS
    <2>8. ASSUME NEW k \in 0..(n - 1), k \in typed
          PROVE  k + 1 \in typed
      <3>1. k \in Nat /\ k + 1 \in 1..n /\ k + 1 - 1 = k
        BY <1>1
      <3>2. 1..(k + 1) = 1..k \cup {k + 1}
        BY <3>1
      <3>3. upTo(k + 1) = upTo(k) \cup ToSet(seqs[k + 1])
        BY <3>2
      <3>4. seqs[k + 1] \in Seq(S)
        BY <1>1, <3>1
      <3>5. CASE k = 0
        <4>1. flatten[k + 1] = seqs[k + 1]
          BY <2>6, <3>1, <3>5
        <4>2. 1..k = {}
          BY <3>5
        <4>3. upTo(k) = {}
          BY <4>2
        <4>4. ToSet(flatten[k + 1]) = upTo(k + 1)
          BY <3>3, <4>1, <4>3
        <4>. QED  BY <3>1, <3>4, <4>1, <4>4
      <3>6. CASE k # 0
        <4>1. flatten[k + 1] = flatten[k] \o seqs[k + 1]
          <5>. DEFINE j == k + 1
          <5>1. j \in 1..n /\ j # 1 /\ j - 1 = k
            BY <3>1, <3>6
          <5>. HIDE DEF j, n
          <5>2. flatten[j] = flatten[j - 1] \o seqs[j]
            BY <2>6, <5>1
          <5>. QED  BY <5>1, <5>2 DEF j
        <4>2. flatten[k] \in Seq(S) /\ ToSet(flatten[k]) = upTo(k)
          BY <2>8, <3>6
        <4>. HIDE DEF upTo
        <4>3. ToSet(flatten[k + 1]) = upTo(k + 1)
          <5>1. ToSet(flatten[k] \o seqs[k + 1]) = ToSet(flatten[k]) \cup ToSet(seqs[k + 1])
            BY <3>4, <4>2, ToSetOfConcat
          <5>. QED  BY <3>3, <4>1, <4>2, <5>1
        <4>4. flatten[k + 1] \in Seq(S)
          BY <3>4, <4>1, <4>2, ConcatProperties
        <4>. QED  BY <3>1, <4>3, <4>4
      <3>. QED  BY <3>5, <3>6
    <2>9. n \in typed
      <3>. HIDE DEF typed, n
      <3>1. \A k \in 0..(n - 1) : k \in typed => k + 1 \in typed
        BY <2>8
      <3>2. \A k \in 0..n : k \in typed
        BY <1>1, <2>7, <3>1, UpTo
      <3>. QED  BY <1>1, <3>2
    <2>10. flatten[n] \in Seq(S) /\ ToSet(flatten[n]) = upTo(n)
      BY <1>3, <2>9
    <2>. QED  BY <1>1, <2>5, <2>10
  <1>. QED  BY <1>2, <1>3


\* A batch and what is left make up the list, and both are as good as it.
LEMMA BatchAndRest ==
    ASSUME NEW S, NEW ids \in Seq(S), ids # <<>>
    PROVE  /\ Batch(ids) \in Seq(S) /\ Len(Batch(ids)) \in 1..ServiceBatchSize
           /\ SubSeq(ids, Len(Batch(ids)) + 1, Len(ids)) \in Seq(S)
           /\ Batch(ids) \o SubSeq(ids, Len(Batch(ids)) + 1, Len(ids)) = ids
           /\ Distinct(ids) => Distinct(Batch(ids))
           /\ ToSet(Batch(ids)) \subseteq ToSet(ids)
  <1>. DEFINE n == Len(ids)
              m == IF MaxBatchSize = 0 THEN 1 ELSE IF n > MaxBatchSize THEN MaxBatchSize ELSE n
              b == SubSeq(ids, 1, m)
  <1>1. Batch(ids) = b
    BY DEF Batch
  <1>2. n \in Nat /\ n # 0 /\ DOMAIN ids = 1..n /\ \A i \in 1..n : ids[i] \in S
    OBVIOUS
  <1>3. MaxBatchSize \in Nat /\ MaxBatchSize <= ServiceBatchSize /\ ServiceBatchSize \in Nat \ {0}
    BY OptionsAssumption, DatabaseAssumption
  <1>4. m \in 1..n /\ m \in 1..ServiceBatchSize
    <2>. HIDE DEF n
    <2>. QED  BY <1>2, <1>3
  <1>. HIDE DEF m, n
  <1>5. 1 \in Int /\ m \in Int /\ 1 <= m /\ m - 1 + 1 = m /\ \A i \in 1..m : i \in 1..n
    BY <1>2, <1>4
  <1>6. b \in Seq(S) /\ Len(b) = m /\ \A i \in 1..m : b[i] = ids[i]
    <2>1. \A i \in 1..m : ids[i] \in S
      BY <1>2, <1>5
    <2>2. /\ b \in Seq(S) /\ Len(b) = IF 1 <= m THEN m - 1 + 1 ELSE 0
          /\ \A i \in 1..(m - 1 + 1) : b[i] = ids[1 + i - 1]
      BY <1>5, <2>1, SubSeqProperties
    <2>3. \A i \in 1..m : 1 + i - 1 = i
      BY <1>5
    <2>. QED  BY <1>5, <2>2, <2>3
  <1>7. DOMAIN b = 1..m
    BY <1>6
  <1>8. SubSeq(ids, m + 1, n) \in Seq(S)
    <2>1. m + 1 \in Int /\ n \in Int /\ \A i \in (m + 1)..n : i \in 1..n
      BY <1>2, <1>4
    <2>2. \A i \in (m + 1)..n : ids[i] \in S
      BY <1>2, <2>1
    <2>. QED  BY <2>1, <2>2, SubSeqProperties
  <1>9. b \o SubSeq(ids, m + 1, n) = ids
    <2>1. 1 \in 1..(n + 1) /\ m \in (1 - 1)..n /\ n \in m..n
      BY <1>2, <1>4
    <2>2. n = Len(ids)
      BY DEF n
    <2>3. b \o SubSeq(ids, m + 1, n) = SubSeq(ids, 1, n)
      BY <2>1, <2>2, ConcatAdjacentSubSeq
    <2>. QED  BY <2>2, <2>3, SubSeqFull
  <1>. HIDE DEF b
  <1>10. Distinct(ids) => Distinct(b)
    BY <1>2, <1>5, <1>6, <1>7 DEF Distinct
  <1>11. ToSet(b) \subseteq ToSet(ids)
    BY <1>2, <1>5, <1>6, <1>7 DEF ToSet
  <1>. QED  BY <1>1, <1>4, <1>6, <1>8, <1>9, <1>10, <1>11 DEF n

LEMMA DistinctSuffix ==
    ASSUME NEW S, NEW s \in Seq(S), NEW t \in Seq(S), Distinct(s \o t)
    PROVE  Distinct(t)
  <1>. DEFINE m == Len(s)
              n == Len(t)
              u == s \o t
  <1>1. m \in Nat /\ n \in Nat /\ DOMAIN t = 1..n
    OBVIOUS
  <1>2. /\ u \in Seq(S) /\ Len(u) = m + n
        /\ \A i \in 1..(m + n) : u[i] = IF i <= m THEN s[i] ELSE t[i - m]
    BY ConcatProperties
  <1>3. DOMAIN u = 1..(m + n) /\ Distinct(u)
    BY <1>2
  <1>. HIDE DEF m, n, u
  <1>4. ASSUME NEW i \in 1..n PROVE i + m \in 1..(m + n) /\ u[i + m] = t[i]
    <2>. DEFINE j == i + m
    <2>1. j \in 1..(m + n) /\ ~ (j <= m) /\ j - m = i
      BY <1>1
    <2>. HIDE DEF j
    <2>2. u[j] = t[j - m]
      BY <1>2, <2>1
    <2>. QED  BY <2>1, <2>2 DEF j
  <1>5. ASSUME NEW i \in 1..n, NEW j \in 1..n, t[i] = t[j] PROVE i = j
    <2>1. i + m \in DOMAIN u /\ j + m \in DOMAIN u /\ u[i + m] = u[j + m]
      BY <1>3, <1>4, <1>5
    <2>2. i + m = j + m
      BY <1>3, <2>1 DEF Distinct
    <2>. QED  BY <1>1, <2>2
  <1>. QED  BY <1>1, <1>5 DEF Distinct

\* The ids of the two lists of videos, and what they are made of.
LEMMA TopVideosAreVideos == TopVideos \in Seq(Video) /\ Distinct(TopVideos)
  <1>1. RawTopVideos \in Seq(Video)
    BY DatabaseAssumption DEF MadeByVideoService
  <1>. QED  BY <1>1, Deduplicated DEF TopVideos

LEMMA LikedAreVideos ==
    ASSUME NEW users \in Seq(User)
    PROVE  /\ LikedByAny(users) \in Seq(Video) /\ Distinct(LikedByAny(users))
           /\ ToSet(LikedByAny(users)) = UNION {ToSet(LikedVideos[u]) : u \in ToSet(users)}
  <1>. DEFINE lists == [i \in 1..Len(users) |-> LikedVideos[users[i]]]
  <1>1. \A i \in 1..Len(users) : users[i] \in User /\ LikedVideos[users[i]] \in Seq(Video)
    <2>1. \A i \in 1..Len(users) : users[i] \in User
      OBVIOUS
    <2>2. \A u \in User : LikedVideos[u] \in Seq(Video)
      BY DatabaseAssumption DEF MadeByUserService
    <2>. QED  BY <2>1, <2>2
  <1>2. Len(users) \in Nat /\ DOMAIN users = 1..Len(users)
    OBVIOUS
  <1>3. lists \in Seq(Seq(Video)) /\ DOMAIN lists = 1..Len(users)
    BY <1>1, <1>2
  <1>4. \A i \in 1..Len(users) : lists[i] = LikedVideos[users[i]]
    OBVIOUS
  <1>5. LikedByAny(users) = DeduplicateIds(FlattenSeq(lists))
    BY DEF LikedByAny
  <1>. HIDE DEF lists
  <1>6. /\ FlattenSeq(lists) \in Seq(Video)
        /\ ToSet(FlattenSeq(lists)) = UNION {ToSet(lists[i]) : i \in DOMAIN lists}
    BY <1>3, Flattened
  <1>7. UNION {ToSet(lists[i]) : i \in DOMAIN lists}
           = UNION {ToSet(LikedVideos[u]) : u \in ToSet(users)}
    <2>1. \A i \in DOMAIN lists : users[i] \in ToSet(users) /\ lists[i] = LikedVideos[users[i]]
      BY <1>2, <1>3, <1>4 DEF ToSet
    <2>2. \A u \in ToSet(users) : \E i \in DOMAIN lists : u = users[i]
      BY <1>2, <1>3 DEF ToSet
    <2>. QED  BY <2>1, <2>2
  <1>. QED  BY <1>5, <1>6, <1>7, Deduplicated


-----------------------------------------------------------------------------
(* What the loops fetch, and what becomes of it. *)

\* c has fetched the first of these ids and has the others to fetch.
Progress(c, S, ids) ==
    infos[c] \in Seq(S) /\ todo[c] \in Seq(S) /\ infos[c] \o todo[c] = ids

\* The videos a request is about.
Liked(r) == LikedByAny(SubscribedTo[userId[r]])

RequestInv(r) ==
    /\ pc[r] \in {"dialUser", "claimUser", "origUser"} =>
          Progress(r, {userId[r]}, <<userId[r]>>) /\ infos[r] \in Seq(User)
    /\ pc[r] = "subscribed" =>
          userId[r] \in User /\ Progress(r, User, SubscribedTo[userId[r]])
    /\ pc[r] \in {"dialVideo", "claimVideo", "videos"} =>
          userId[r] \in User /\ Progress(r, Video, Liked(r))
    /\ pc[r] \notin {"stats", "leaving", "done"} => response[r] = Nil
    /\ (response[r] # Nil /\ response[r].kind = "ranked") =>
          /\ userId[r] \in User
          /\ response[r].videos = Truncate(Ranked(Liked(r)), limit[r])

FetchShape ==
    /\ DOMAIN todo = Caller /\ DOMAIN infos = Caller
    /\ DOMAIN userId = Request /\ DOMAIN limit = Request

CacheInv ==
    /\ trendingVideos \in {Nil, TopVideos}
    /\ pc[Updater] = "videos" => Progress(Updater, Video, TopVideos)

FetchInv == FetchShape /\ CacheInv /\ \A r \in Request : RequestInv(r)

LEMMA InitFetch == Init => FetchInv
  <1>. SUFFICES ASSUME Init PROVE FetchInv
    OBVIOUS
  <1>1. \A r \in Request : pc[r] = "idle"
    BY OptionsAssumption DEF Init, Caller
  <1>2. pc[Updater] # "videos"
    BY OptionsAssumption DEF Init, Caller
  <1>3. FetchShape /\ CacheInv
    BY <1>2 DEF Init, FetchShape, CacheInv
  <1>4. \A r \in Request : response[r] = Nil
    BY DEF Init
  <1>. QED  BY <1>1, <1>3, <1>4 DEF FetchInv, RequestInv

\* One goroutine moves: nothing changes for the others.
Alone(c) ==
    /\ \A d \in Caller \ {c} : pc'[d] = pc[d] /\ todo'[d] = todo[d] /\ infos'[d] = infos[d]
    /\ \A q \in Request \ {c} :
          userId'[q] = userId[q] /\ limit'[q] = limit[q] /\ response'[q] = response[q]
    /\ FetchShape'

LEMMA GoesAlone ==
    ASSUME ServiceType, FetchShape, NEW c \in Caller, NEW where, Goto(c, where)
    PROVE  pc'[c] = where /\ \A d \in Caller \ {c} : pc'[d] = pc[d]
  BY DEF Goto, ServiceType

LEMMA FetchesAlone ==
    ASSUME FetchShape, NEW c \in Caller, NEW ids, Fetch(c, ids)
    PROVE  /\ todo'[c] = ids /\ infos'[c] = <<>>
           /\ \A d \in Caller \ {c} : todo'[d] = todo[d] /\ infos'[d] = infos[d]
           /\ DOMAIN todo' = Caller /\ DOMAIN infos' = Caller
  BY DEF FetchShape, Fetch

LEMMA ForgetsAlone ==
    ASSUME FetchShape, NEW c \in Caller, Forget(c)
    PROVE  /\ \A d \in Caller \ {c} : todo'[d] = todo[d] /\ infos'[d] = infos[d]
           /\ DOMAIN todo' = Caller /\ DOMAIN infos' = Caller
  BY DEF FetchShape, Forget

\* The step leaves the loops alone.
LEMMA MovesAlone ==
    ASSUME ServiceType, FetchShape, NEW c \in Caller, NEW where, Goto(c, where),
           UNCHANGED <<todo, infos, userId, limit>>,
           \A q \in Request \ {c} : response'[q] = response[q]
    PROVE  Alone(c) /\ pc'[c] = where
  BY GoesAlone DEF Alone, FetchShape

\* A loop has failed, or tries again.
LEMMA FailsAlone ==
    ASSUME ServiceType, FetchShape, NEW c \in Caller, NEW retry, CallFails(c, retry)
    PROVE  /\ Alone(c) /\ UNCHANGED <<response, userId, limit, trendingVideos>>
           /\ \/ UNCHANGED <<pc, todo, infos>>
              \/ pc'[c] \in {"hung", "backoff", "userFailed", "videoFailed"}
  <1>1. UNCHANGED <<response, userId, limit, trendingVideos>>
    BY DEF CallFails
  <1>2. CASE UNCHANGED <<pc, todo, infos>>
    BY <1>1, <1>2 DEF Alone, FetchShape
  <1>3. CASE /\ Forget(c)
             /\ \E where \in {"hung", "backoff", "userFailed", "videoFailed"} : Goto(c, where)
    BY <1>1, <1>3, ForgetsAlone, GoesAlone DEF Alone, FetchShape
  <1>. QED  BY <1>1, <1>2, <1>3, FailedCall

\* A batch has come: it moves from what is to be fetched to what has been.
LEMMA BatchComes ==
    ASSUME FetchShape, NEW c \in Caller, UNCHANGED <<pc, response, userId, limit>>,
           infos' = [infos EXCEPT ![c] = @ \o Batch(todo[c])],
           todo' = [todo EXCEPT ![c] = SubSeq(@, Len(Batch(@)) + 1, Len(@))],
           todo[c] # <<>>
    PROVE  /\ Alone(c)
           /\ \A S, ids : Progress(c, S, ids) => Progress(c, S, ids)'
           /\ \A S : (/\ infos[c] \in Seq(S) /\ \E T : todo[c] \in Seq(T)
                      /\ ToSet(Batch(todo[c])) \subseteq S) => infos'[c] \in Seq(S)
  <1>. DEFINE b == Batch(todo[c])
              rest == SubSeq(todo[c], Len(b) + 1, Len(todo[c]))
  <1>1. /\ infos'[c] = infos[c] \o b /\ todo'[c] = rest
        /\ \A d \in Caller \ {c} : todo'[d] = todo[d] /\ infos'[d] = infos[d]
        /\ FetchShape'
    BY DEF FetchShape
  <1>2. Alone(c)
    BY <1>1 DEF Alone
  <1>3. ASSUME NEW S, NEW ids, Progress(c, S, ids)
        PROVE  Progress(c, S, ids)'
    <2>1. infos[c] \in Seq(S) /\ todo[c] \in Seq(S) /\ infos[c] \o todo[c] = ids
      BY <1>3 DEF Progress
    <2>2. b \in Seq(S) /\ rest \in Seq(S) /\ b \o rest = todo[c]
      BY <2>1, BatchAndRest
    <2>. HIDE DEF b, rest
    <2>3. infos[c] \o b \in Seq(S)
      BY <2>1, <2>2, ConcatProperties
    <2>4. (infos[c] \o b) \o rest = infos[c] \o (b \o rest)
      <3>. DEFINE fetched == infos[c]
      <3>1. fetched \in Seq(S) /\ b \in Seq(S) /\ rest \in Seq(S)
        BY <2>1, <2>2
      <3>. HIDE DEF fetched
      <3>2. (fetched \o b) \o rest = fetched \o (b \o rest)
        BY <3>1, ConcatAssociative
      <3>. QED  BY <3>2 DEF fetched
    <2>. QED  BY <1>1, <2>1, <2>2, <2>3, <2>4 DEF Progress
  <1>4. ASSUME NEW S, NEW T, infos[c] \in Seq(S), todo[c] \in Seq(T), ToSet(b) \subseteq S
        PROVE  infos'[c] \in Seq(S)
    <2>1. b \in Seq(T)
      BY <1>4, BatchAndRest
    <2>. HIDE DEF b
    <2>2. \A i \in 1..Len(b) : b[i] \in S
      BY <1>4, <2>1 DEF ToSet
    <2>3. b \in Seq(S)
      BY <2>1, <2>2
    <2>. QED  BY ZenonT(40), <1>1, <1>4, <2>3, ConcatProperties
  <1>. QED  BY <1>2, <1>3, <1>4

\* The loops of the others, and the cache of others, stay as they are.
LEMMA OthersStay ==
    ASSUME FetchInv, NEW c \in Caller, Alone(c),
           c \in Request => trendingVideos' = trendingVideos,
           c = Updater => CacheInv',
           c \in Request => RequestInv(c)'
    PROVE  FetchInv'
  <1>1. \A q \in Request \ {c} : RequestInv(q)'
    <2>. TAKE q \in Request \ {c}
    <2>1. /\ pc'[q] = pc[q] /\ todo'[q] = todo[q] /\ infos'[q] = infos[q]
          /\ userId'[q] = userId[q] /\ limit'[q] = limit[q] /\ response'[q] = response[q]
      BY DEF Alone, Caller
    <2>2. RequestInv(q)
      BY DEF FetchInv
    <2>. QED  BY <2>1, <2>2 DEF RequestInv, Progress, Liked
  <1>2. CASE c \in Request
    <2>1. Updater \in Caller \ {c}
      BY <1>2, OptionsAssumption DEF Caller
    <2>2. CacheInv'
      BY <1>2, <2>1 DEF Alone, FetchInv, CacheInv, Progress
    <2>. QED  BY <1>1, <1>2, <2>2 DEF FetchInv, Alone
  <1>3. CASE c = Updater
    <2>1. Updater \notin Request
      BY OptionsAssumption
    <2>. QED  BY <1>1, <1>3, <2>1 DEF FetchInv, Alone
  <1>. QED  BY <1>2, <1>3 DEF Caller


\* A list that is about to be fetched.
LEMMA ProgressStarts ==
    ASSUME FetchShape, NEW c \in Caller, NEW S, NEW ids \in Seq(S), Fetch(c, ids)
    PROVE  Progress(c, S, ids)'
  <1>1. todo'[c] = ids /\ infos'[c] = <<>>
    BY FetchesAlone
  <1>2. <<>> \o ids = ids /\ <<>> \in Seq(S)
    BY ConcatEmptySeq
  <1>. QED  BY <1>1, <1>2 DEF Progress

\* A list that has been fetched.
LEMMA ProgressEnds ==
    ASSUME NEW c, NEW S, NEW ids, Progress(c, S, ids), todo[c] = <<>>
    PROVE  infos[c] = ids /\ ids \in Seq(S)
  <1>. DEFINE fetched == infos[c]
  <1>1. fetched \in Seq(S) /\ fetched \o <<>> = ids
    BY DEF Progress
  <1>. HIDE DEF fetched
  <1>2. fetched \o <<>> = fetched
    BY <1>1, ConcatEmptySeq
  <1>. QED  BY <1>1, <1>2 DEF fetched

LEMMA RequestIsCaller == \A r \in Request : r \in Caller /\ r # Updater
  BY OptionsAssumption DEF Caller

LEMMA BeginStep ==
    ASSUME ServiceType, FetchInv, NEW r \in Request, NEW u, NEW n, GetTopVideos(r, u, n)
    PROVE  FetchInv'
  <1>0. r \in Caller /\ FetchShape /\ RequestInv(r)
    BY RequestIsCaller DEF FetchInv
  <1>1. /\ pc[r] = "idle" /\ MakeClient(r, "user") /\ Fetch(r, <<u>>)
        /\ userId' = [userId EXCEPT ![r] = u] /\ limit' = [limit EXCEPT ![r] = n]
        /\ UNCHANGED <<response, trendingVideos>>
    BY DEF GetTopVideos, cache
  <1>2. Goto(r, ClientFor("user")) /\ ClientFor("user") \in {"dialUser", "claimUser", "origUser"}
    BY <1>1 DEF MakeClient, ClientFor, ServiceType
  <1>3. pc'[r] = ClientFor("user") /\ \A d \in Caller \ {r} : pc'[d] = pc[d]
    BY <1>0, <1>2, GoesAlone
  <1>4. /\ todo'[r] = <<u>> /\ infos'[r] = <<>>
        /\ \A d \in Caller \ {r} : todo'[d] = todo[d] /\ infos'[d] = infos[d]
        /\ DOMAIN todo' = Caller /\ DOMAIN infos' = Caller
    BY <1>0, <1>1, FetchesAlone
  <1>5. /\ userId'[r] = u /\ DOMAIN userId' = Request /\ DOMAIN limit' = Request
        /\ \A q \in Request \ {r} : userId'[q] = userId[q] /\ limit'[q] = limit[q]
    BY <1>0, <1>1 DEF FetchShape
  <1>6. Alone(r)
    BY <1>1, <1>3, <1>4, <1>5 DEF Alone, FetchShape
  <1>7. Progress(r, {u}, <<u>>)'
    <2>1. <<u>> \in Seq({u})
      OBVIOUS
    <2>. QED  BY <1>0, <1>1, <2>1, ProgressStarts
  <1>8. response'[r] = Nil /\ infos'[r] \in Seq(User)
    BY <1>0, <1>1, <1>4 DEF RequestInv
  <1>9. RequestInv(r)'
    BY <1>2, <1>3, <1>5, <1>7, <1>8 DEF RequestInv, Progress
  <1>. QED  BY <1>0, <1>1, <1>6, <1>9, RequestIsCaller, OthersStay

LEMMA ConnectStep ==
    ASSUME ServiceType, FetchInv, NEW r \in Request, Dial(r) \/ Claim(r)
    PROVE  FetchInv'
  <1>0. r \in Caller /\ r # Updater /\ FetchShape /\ RequestInv(r)
    BY RequestIsCaller DEF FetchInv
  <1>1. UNCHANGED <<response, userId, limit, trendingVideos>>
    BY DEF Dial, Claim, cache
  <1>2. CASE /\ UNCHANGED <<todo, infos>>
             /\ \/ pc[r] \in {"dialUser", "claimUser"} /\ Goto(r, "origUser")
                \/ pc[r] \in {"dialVideo", "claimVideo"} /\ Goto(r, "videos")
    <2>1. Alone(r) /\ \/ pc[r] \in {"dialUser", "claimUser"} /\ pc'[r] = "origUser"
                      \/ pc[r] \in {"dialVideo", "claimVideo"} /\ pc'[r] = "videos"
      BY <1>0, <1>1, <1>2, MovesAlone
    <2>2. RequestInv(r)'
      BY <1>0, <1>1, <1>2, <2>1 DEF RequestInv, Progress, Liked
    <2>. QED  BY <1>0, <1>1, <2>1, <2>2, OthersStay
  <1>3. CASE GiveUp(r) /\ Dial(r)
    <2>1. Forget(r) /\ (Goto(r, "userFailed") \/ Goto(r, "videoFailed"))
          /\ pc[r] \in {"dialUser", "dialVideo"}
      BY <1>0, <1>3 DEF GiveUp, Dial
    <2>2. Alone(r) /\ pc'[r] \in {"userFailed", "videoFailed"}
      BY <1>0, <1>1, <2>1, ForgetsAlone, GoesAlone DEF Alone, FetchShape
    <2>3. RequestInv(r)'
      BY <1>0, <1>1, <2>1, <2>2 DEF RequestInv
    <2>. QED  BY <1>0, <1>1, <2>2, <2>3, OthersStay
  <1>. QED  BY <1>2, <1>3 DEF Dial, Claim, calls

\* A call that was served was one for users that exist.
LEMMA UsersExist ==
    ASSUME NEW c \in Caller, "served" \in Outcomes(c), pc[c] \notin {"trending", "videos"}
    PROVE  ToSet(Batch(todo[c])) \subseteq User
  BY DEF Outcomes, CallUser, GetUser, Handle

LEMMA BatchStep ==
    ASSUME ServiceType, FetchInv, NEW c \in Caller, FetchBatch(c),
           UNCHANGED <<pc, response, userId, limit, trendingVideos>>,
           infos' = [infos EXCEPT ![c] = @ \o Batch(todo[c])],
           todo' = [todo EXCEPT ![c] = SubSeq(@, Len(Batch(@)) + 1, Len(@))],
           "served" \in Outcomes(c)
    PROVE  FetchInv'
  <1>0. FetchShape /\ todo[c] # <<>> /\ pc[c] \in Fetching
    BY DEF FetchInv, FetchBatch
  <1>1. /\ Alone(c) /\ \A S, ids : Progress(c, S, ids) => Progress(c, S, ids)'
        /\ \A S : (/\ infos[c] \in Seq(S) /\ \E T : todo[c] \in Seq(T)
                   /\ ToSet(Batch(todo[c])) \subseteq S) => infos'[c] \in Seq(S)
    BY <1>0, BatchComes
  <1>2. CASE c \in Request
    <2>1. RequestInv(c)
      BY <1>2 DEF FetchInv
    <2>2. pc[c] = "origUser" => infos'[c] \in Seq(User)
      <3>. SUFFICES ASSUME pc[c] = "origUser" PROVE infos'[c] \in Seq(User)
        OBVIOUS
      <3>1. infos[c] \in Seq(User) /\ todo[c] \in Seq({userId[c]})
        BY <2>1 DEF RequestInv, Progress
      <3>2. ToSet(Batch(todo[c])) \subseteq User
        BY UsersExist
      <3>. QED  BY <1>1, <3>1, <3>2
    <2>3. pc[c] \notin {"dialUser", "claimUser"}
      BY <1>0 DEF Fetching
    <2>4. \A S, ids : Progress(c, S, ids) => Progress(c, S, ids)'
      BY <1>1
    <2>5. RequestInv(c)'
      BY <1>2, <2>1, <2>2, <2>3, <2>4 DEF RequestInv, Liked, Progress
    <2>. QED  BY <1>1, <1>2, <2>5, RequestIsCaller, OthersStay
  <1>3. CASE c = Updater
    <2>1. CacheInv'
      BY <1>1, <1>3 DEF FetchInv, CacheInv
    <2>. QED  BY <1>1, <1>3, <2>1, RequestIsCaller, OthersStay
  <1>. QED  BY <1>2, <1>3 DEF Caller


LEMMA FailStep ==
    ASSUME ServiceType, FetchInv, NEW c \in Caller, NEW retry, CallFails(c, retry),
           pc[c] \in Fetching \cup {"trending"}
    PROVE  FetchInv'
  <1>0. /\ Alone(c) /\ UNCHANGED <<response, userId, limit, trendingVideos>>
        /\ \/ UNCHANGED <<pc, todo, infos>>
           \/ pc'[c] \in {"hung", "backoff", "userFailed", "videoFailed"}
    BY FailsAlone DEF FetchInv
  <1>1. CASE c \in Request
    <2>1. RequestInv(c)
      BY <1>1 DEF FetchInv
    <2>2. pc[c] \notin {"stats", "leaving", "done"}
      BY DEF Fetching
    <2>3. RequestInv(c)'
      BY <1>0, <2>1, <2>2 DEF RequestInv, Liked, Progress
    <2>. QED  BY <1>0, <1>1, <2>3, RequestIsCaller, OthersStay
  <1>2. CASE c = Updater
    <2>1. CacheInv'
      BY <1>0, <1>2 DEF FetchInv, CacheInv, Progress
    <2>. QED  BY <1>0, <1>2, <2>1, RequestIsCaller, OthersStay
  <1>. QED  BY <1>1, <1>2 DEF Caller

LEMMA FetchStep ==
    ASSUME ServiceType, FetchInv, NEW c \in Caller, FetchBatch(c)
    PROVE  FetchInv'
  <1>1. CASE CallFails(c, Retry)
    BY <1>1, FailStep DEF FetchBatch
  <1>2. CASE ~ CallFails(c, Retry)
    BY <1>2, BatchStep DEF FetchBatch, cache
  <1>. QED  BY <1>1, <1>2

LEMMA NextFetchStep ==
    ASSUME ServiceType, FetchInv, NEW r \in Request, NextFetch(r)
    PROVE  FetchInv'
  <1>0. r \in Caller /\ r # Updater /\ FetchShape /\ RequestInv(r) /\ todo[r] = <<>>
    BY RequestIsCaller DEF FetchInv, NextFetch
  <1>1. UNCHANGED <<response, userId, limit, trendingVideos>>
    BY DEF NextFetch, cache
  <1>2. CASE /\ pc[r] = "origUser" /\ Goto(r, "subscribed")
             /\ Fetch(r, SubscribedTo[infos[r][1]])
    <2>. DEFINE u == userId[r]
    <2>1. Progress(r, {u}, <<u>>) /\ infos[r] \in Seq(User)
      BY <1>0, <1>2 DEF RequestInv
    <2>2. infos[r] = <<u>>
      BY <1>0, <2>1, ProgressEnds
    <2>3. u \in User /\ infos[r][1] = u
      <3>1. Len(<<u>>) = 1 /\ <<u>>[1] = u /\ <<u>> \in Seq(User)
        BY <2>1, <2>2
      <3>2. <<u>>[1] \in User
        BY <3>1
      <3>. QED  BY <2>2, <3>1, <3>2
    <2>4. SubscribedTo[u] \in Seq(User)
      <3>1. SubscribedTo[u] \in Seq(User \ {u})
        BY <2>3, DatabaseAssumption DEF MadeByUserService
      <3>. QED  BY <3>1
    <2>5. Progress(r, User, SubscribedTo[u])'
      <3>1. userId' = userId /\ Fetch(r, SubscribedTo[u])
        BY <1>1, <1>2, <2>3
      <3>2. PICK ids \in Seq(User) : ids = SubscribedTo[u]
        BY <2>4
      <3>3. Progress(r, User, ids)'
        BY <1>0, <3>1, <3>2, ProgressStarts
      <3>. QED  BY <3>1, <3>2, <3>3
    <2>6. pc'[r] = "subscribed" /\ Alone(r)
      BY <1>0, <1>1, <1>2, GoesAlone, FetchesAlone DEF Alone, FetchShape
    <2>7. RequestInv(r)'
      BY <1>0, <1>1, <1>2, <2>3, <2>5, <2>6 DEF RequestInv, Progress
    <2>. QED  BY <1>0, <1>1, <2>6, <2>7, OthersStay
  <1>3. CASE /\ pc[r] = "subscribed" /\ MakeClient(r, "video")
             /\ Fetch(r, LikedByAny(infos[r]))
    <2>. DEFINE u == userId[r]
    <2>1. u \in User /\ Progress(r, User, SubscribedTo[u])
      BY <1>0, <1>3 DEF RequestInv
    <2>2. infos[r] = SubscribedTo[u] /\ SubscribedTo[u] \in Seq(User)
      BY <1>0, <2>1, ProgressEnds
    <2>3. LikedByAny(infos[r]) = Liked(r) /\ Liked(r) \in Seq(Video) /\ Liked(r)' = Liked(r)
      BY <1>1, <2>2, LikedAreVideos DEF Liked
    <2>4. Progress(r, Video, Liked(r))'
      BY <1>0, <1>3, <2>3, ProgressStarts DEF Progress
    <2>5. Goto(r, ClientFor("video")) /\ ClientFor("video") \in {"dialVideo", "claimVideo", "videos"}
      BY <1>3 DEF MakeClient, ClientFor, ServiceType
    <2>6. pc'[r] \in {"dialVideo", "claimVideo", "videos"} /\ Alone(r)
      BY <1>0, <1>1, <1>3, <2>5, GoesAlone, FetchesAlone DEF Alone, FetchShape
    <2>7. RequestInv(r)'
      BY <1>0, <1>1, <1>3, <2>1, <2>4, <2>6 DEF RequestInv
    <2>. QED  BY <1>0, <1>1, <2>6, <2>7, OthersStay
  <1>. QED  BY <1>2, <1>3 DEF NextFetch

LEMMA RankStep ==
    ASSUME ServiceType, FetchInv, NEW r \in Request, RankVideos(r)
    PROVE  FetchInv'
  <1>. DEFINE best == [kind |-> "ranked", videos |-> Truncate(Ranked(infos[r]), limit[r])]
  <1>0. /\ r \in Caller /\ r # Updater /\ FetchShape /\ RequestInv(r)
        /\ pc[r] = "videos" /\ todo[r] = <<>>
    BY RequestIsCaller DEF FetchInv, RankVideos
  <1>1. /\ UNCHANGED <<userId, limit, trendingVideos>> /\ Goto(r, "stats") /\ Forget(r)
        /\ response' = [response EXCEPT ![r] = best]
    BY DEF RankVideos
  <1>2. userId[r] \in User /\ Progress(r, Video, Liked(r))
    BY <1>0 DEF RequestInv
  <1>3. infos[r] = Liked(r)
    BY <1>0, <1>2, ProgressEnds
  <1>4. best.kind = "ranked" /\ best.videos = Truncate(Ranked(Liked(r)), limit[r])
    BY <1>3
  <1>. HIDE DEF best
  <1>5. response'[r] = best /\ \A q \in Request \ {r} : response'[q] = response[q]
    BY <1>1 DEF ServiceType
  <1>6. pc'[r] = "stats" /\ Alone(r)
    BY <1>0, <1>1, <1>5, GoesAlone, ForgetsAlone DEF Alone, FetchShape
  <1>7. RequestInv(r)'
    BY <1>1, <1>2, <1>4, <1>5, <1>6 DEF RequestInv, Liked
  <1>. QED  BY <1>0, <1>1, <1>6, <1>7, OthersStay

LEMMA FallBackStep ==
    ASSUME ServiceType, FetchInv, NEW r \in Request, FallBack(r)
    PROVE  FetchInv'
  <1>0. r \in Caller /\ r # Updater /\ FetchShape /\ RequestInv(r)
    BY RequestIsCaller DEF FetchInv
  <1>1. /\ UNCHANGED <<todo, infos, userId, limit, trendingVideos>> /\ Goto(r, "stats")
        /\ \E x : x.kind # "ranked" /\ response' = [response EXCEPT ![r] = x]
    <2>. DEFINE cached == [kind |-> "stale", videos |-> Truncate(trendingVideos, limit[r])]
    <2>1. cached.kind # "ranked" /\ Failure(r).kind # "ranked"
      BY DEF Failure
    <2>2. \/ response' = [response EXCEPT ![r] = cached]
          \/ response' = [response EXCEPT ![r] = Failure(r)]
      BY DEF FallBack
    <2>3. UNCHANGED <<todo, infos, userId, limit, trendingVideos>> /\ Goto(r, "stats")
      BY DEF FallBack, calls, cache
    <2>. HIDE DEF cached
    <2>. QED  BY <2>1, <2>2, <2>3
  <1>2. response'[r].kind # "ranked" /\ \A q \in Request \ {r} : response'[q] = response[q]
    BY <1>1 DEF ServiceType
  <1>3. pc'[r] = "stats" /\ Alone(r)
    BY <1>0, <1>1, <1>2, MovesAlone
  <1>4. RequestInv(r)'
    BY <1>2, <1>3 DEF RequestInv
  <1>. QED  BY <1>0, <1>1, <1>3, <1>4, OthersStay

LEMMA LeaveStep ==
    ASSUME ServiceType, FetchInv, NEW r \in Request, UpdateStats(r) \/ Return(r)
    PROVE  FetchInv'
  <1>0. r \in Caller /\ r # Updater /\ FetchShape /\ RequestInv(r)
    BY RequestIsCaller DEF FetchInv
  <1>1. /\ UNCHANGED <<todo, infos, userId, limit, trendingVideos, response>>
        /\ Goto(r, "leaving") \/ Goto(r, "done")
    BY DEF UpdateStats, Return, calls, cache
  <1>2. pc'[r] \in {"leaving", "done"} /\ Alone(r)
    BY <1>0, <1>1, MovesAlone
  <1>3. RequestInv(r)'
    BY <1>0, <1>1, <1>2 DEF RequestInv, Liked
  <1>. QED  BY <1>0, <1>1, <1>2, <1>3, OthersStay

\* The cache gets the whole of what was fetched, or nothing.
LEMMA UpdateStep ==
    ASSUME ServiceType, FetchInv, UpdateTrendingVideos
    PROVE  FetchInv'
  <1>0. Updater \in Caller /\ Updater \notin Request /\ FetchShape /\ CacheInv
    BY OptionsAssumption DEF Caller, FetchInv
  <1>1. CASE Connect \/ Refresh \/ WakeUp
    <2>1. /\ UNCHANGED <<todo, infos, userId, limit, trendingVideos, response>>
          /\ Goto(Updater, "check") \/ Goto(Updater, "trending")
      BY <1>1 DEF Connect, Refresh, WakeUp, calls, cache
    <2>2. pc'[Updater] \in {"check", "trending"} /\ Alone(Updater)
      BY <1>0, <2>1, MovesAlone
    <2>3. CacheInv'
      BY <1>0, <2>1, <2>2 DEF CacheInv
    <2>. QED  BY <1>0, <2>2, <2>3, OthersStay
  <1>2. CASE FetchTrending
    <2>1. CASE CallFails(Updater, TRUE)
      BY <1>0, <1>2, <2>1, FailStep DEF FetchTrending
    <2>2. CASE ~ CallFails(Updater, TRUE)
      <3>1. /\ Fetch(Updater, TopVideos) /\ Goto(Updater, "videos")
            /\ UNCHANGED <<userId, limit, trendingVideos, response>>
        BY <1>2, <2>2 DEF FetchTrending
      <3>2. Alone(Updater)
        BY <1>0, <3>1, GoesAlone, FetchesAlone DEF Alone, FetchShape
      <3>3. Progress(Updater, Video, TopVideos)'
        BY <1>0, <3>1, TopVideosAreVideos, ProgressStarts
      <3>4. CacheInv'
        BY <1>0, <3>1, <3>3 DEF CacheInv
      <3>. QED  BY <1>0, <3>2, <3>4, OthersStay
    <2>. QED  BY <2>1, <2>2
  <1>3. CASE FetchBatch(Updater)
    BY <1>0, <1>3, FetchStep
  <1>4. CASE UpdateCache
    <2>1. /\ pc[Updater] = "videos" /\ todo[Updater] = <<>>
          /\ trendingVideos' \in {trendingVideos, infos[Updater]}
          /\ Goto(Updater, "check") /\ Forget(Updater)
          /\ UNCHANGED <<userId, limit, response>>
      BY <1>4 DEF UpdateCache
    <2>2. infos[Updater] = TopVideos
      BY <1>0, <2>1, ProgressEnds DEF CacheInv
    <2>3. pc'[Updater] = "check" /\ Alone(Updater)
      BY <1>0, <2>1, GoesAlone, ForgetsAlone DEF Alone, FetchShape
    <2>4. CacheInv'
      BY <1>0, <2>1, <2>2, <2>3 DEF CacheInv
    <2>. QED  BY <1>0, <2>3, <2>4, OthersStay
  <1>. QED  BY <1>1, <1>2, <1>3, <1>4 DEF UpdateTrendingVideos


LEMMA FetchInvStep ==
    ASSUME ServiceType, FetchInv, [Next]_vars
    PROVE  FetchInv'
  <1>1. ASSUME UNCHANGED <<pc, todo, infos, userId, limit, response, trendingVideos>>
        PROVE  FetchInv'
    BY <1>1 DEF FetchInv, FetchShape, CacheInv, RequestInv, Progress, Liked
  <1>2. CASE UNCHANGED vars \/ StillFresh
    BY <1>1, <1>2 DEF StillFresh, vars, calls, cache
  <1>3. CASE \E s \in {"user", "video"} : \E config \in Configs : SetInjectionConfig(s, config)
    BY <1>1, <1>3 DEF SetInjectionConfig, calls, cache
  <1>4. CASE Tick
    BY <1>1, <1>4 DEF Tick, calls, cache
  <1>5. ASSUME NEW r \in Request, \E u \in AskedUser, n \in Limit : GetTopVideos(r, u, n)
        PROVE  FetchInv'
    BY <1>5, BeginStep
  <1>6. ASSUME NEW r \in Request, Handler(r)
        PROVE  FetchInv'
    BY <1>6, RequestIsCaller, ConnectStep, FetchStep, NextFetchStep, RankStep, LeaveStep
       DEF Handler
  <1>7. ASSUME NEW r \in Request, FallBack(r)
        PROVE  FetchInv'
    BY <1>7, FallBackStep
  <1>8. CASE UpdateTrendingVideos
    BY <1>8, UpdateStep
  <1>. QED  BY <1>2, <1>3, <1>4, <1>5, <1>6, <1>7, <1>8 DEF Next

THEOREM FetchInvariance == Spec => []FetchInv
  <1>1. Init => FetchInv
    BY InitFetch
  <1>2. ServiceType /\ FetchInv /\ [Next]_vars => FetchInv'
    BY FetchInvStep
  <1>3. Spec => []ServerInv
    BY StatsInvariance
  <1>4. ServerInv => ServiceType
    BY DEF ServerInv
  <1>. QED  BY <1>1, <1>2, <1>3, <1>4, PTL DEF Spec

\* A refresh that fails half way leaves the cache as it was, whatever the list of
\* trending videos, the size of a batch and the failures.
THEOREM CacheIsWhole == Spec => []CacheIsComplete
  <1>1. FetchInv => CacheIsComplete
    BY DEF FetchInv, CacheInv, CacheIsComplete
  <1>. QED  BY <1>1, FetchInvariance, PTL

\* VideoService never gets a batch it must refuse: the ids are cut from a list in
\* which deduplicateIds, or LikedVideosMap, has left each of them once.
THEOREM BatchesAreValid == Spec => []VideoCallsAreValid
  <1>1. FetchInv => VideoCallsAreValid
    <2>. SUFFICES ASSUME FetchInv, NEW c \in Caller, pc[c] = "videos", todo[c] # <<>>
                  PROVE  ValidVideoIds(Batch(todo[c]))
      BY DEF VideoCallsAreValid
    <2>1. PICK ids \in Seq(Video) : Distinct(ids) /\ Progress(c, Video, ids)
      <3>1. CASE c = Updater
        BY <3>1, TopVideosAreVideos DEF FetchInv, CacheInv
      <3>2. CASE c \in Request
        <4>1. userId[c] \in User /\ Progress(c, Video, Liked(c))
          BY <3>2 DEF FetchInv, RequestInv
        <4>2. SubscribedTo[userId[c]] \in Seq(User)
          <5>1. SubscribedTo[userId[c]] \in Seq(User \ {userId[c]})
            BY <4>1, DatabaseAssumption DEF MadeByUserService
          <5>. QED  BY <5>1
        <4>. QED  BY <4>1, <4>2, LikedAreVideos DEF Liked
      <3>. QED  BY <3>1, <3>2 DEF Caller
    <2>. DEFINE fetched == infos[c]
                left == todo[c]
    <2>2. fetched \in Seq(Video) /\ left \in Seq(Video) /\ fetched \o left = ids /\ left # <<>>
      BY <2>1 DEF Progress
    <2>. HIDE DEF fetched, left
    <2>3. Distinct(left)
      BY <2>1, <2>2, DistinctSuffix
    <2>4. /\ Batch(left) \in Seq(Video) /\ Len(Batch(left)) \in 1..ServiceBatchSize
          /\ Distinct(Batch(left))
      BY <2>2, <2>3, BatchAndRest
    <2>5. DeduplicateIds(Batch(left)) = Batch(left)
      BY <2>4, NothingToDeduplicate
    <2>. QED  BY <2>4, <2>5 DEF ValidVideoIds, Fits, left
  <1>. QED  BY <1>1, FetchInvariance, PTL


LEMMA DistinctCardinality ==
    ASSUME NEW S, NEW ids \in Seq(S), Distinct(ids)
    PROVE  Cardinality(ToSet(ids)) = Len(ids)
  <1>. DEFINE n == Len(ids)
  <1>1. n \in Nat /\ DOMAIN ids = 1..n /\ ids \in [1..n -> ToSet(ids)]
    BY DEF ToSet
  <1>2. ids \in Bijection(1..n, ToSet(ids))
    BY <1>1 DEF Distinct, Bijection, Injection, Surjection, IsInjective, ToSet
  <1>. HIDE DEF n
  <1>3. IsFiniteSet(1..n) /\ Cardinality(1..n) = n
    <2>1. 1 \in Int /\ n \in Int /\ (1 > n => n = 0)
      BY <1>1
    <2>2. Cardinality(1..n) = IF 1 > n THEN 0 ELSE n - 1 + 1
      BY <2>1, FS_Interval
    <2>. QED  BY <1>1, <2>1, <2>2, FS_Interval
  <1>4. ExistsBijection(1..n, ToSet(ids))
    BY <1>2 DEF ExistsBijection
  <1>5. Cardinality(ToSet(ids)) = Cardinality(1..n)
    BY <1>3, <1>4, FS_Bijection
  <1>. QED  BY <1>3, <1>5 DEF n

\* The first ids of a list in descending order of rank.
LEMMA TruncatedIsBest ==
    ASSUME NEW ids \in Seq(Video), Distinct(ids), NEW n
    PROVE  LET top == Truncate(Ranked(ids), n)
           IN  /\ Len(top) = IF n \in 1..Len(ids) THEN n ELSE Len(ids)
               /\ Cardinality(ToSet(top)) = Len(top)
               /\ ToSet(top) \subseteq ToSet(ids)
               /\ \A in \in ToSet(top), out \in ToSet(ids) \ ToSet(top) :
                     Rank[in] >= Rank[out]
  <1>. DEFINE rk == Ranked(ids)
              size == Len(ids)
              m == IF n \in 1..size THEN n ELSE size
              top == Truncate(rk, n)
  <1>1. /\ rk \in Seq(Video) /\ Len(rk) = size /\ Distinct(rk) /\ ToSet(rk) = ToSet(ids)
        /\ \A k, l \in 1..size : k < l => Rank[rk[k]] >= Rank[rk[l]]
    BY RankedInOrder
  <1>2. size \in Nat /\ m \in 0..size
    OBVIOUS
  <1>3. top = IF n \in 1..size THEN SubSeq(rk, 1, n) ELSE rk
    BY <1>1 DEF Truncate
  <1>. HIDE DEF rk, size, top
  <1>4. DOMAIN rk = 1..size /\ \A i \in 1..size : rk[i] \in Video
    BY <1>1
  <1>5. top \in Seq(Video) /\ Len(top) = m /\ \A i \in 1..m : top[i] = rk[i]
    <2>1. CASE n \in 1..size
      <3>1. 1 \in Int /\ n \in Int /\ 1 <= n /\ n - 1 + 1 = n /\ \A i \in 1..n : i \in 1..size
        BY <1>2, <2>1
      <3>2. \A i \in 1..n : rk[i] \in Video
        BY <1>4, <3>1
      <3>3. /\ SubSeq(rk, 1, n) \in Seq(Video)
            /\ Len(SubSeq(rk, 1, n)) = IF 1 <= n THEN n - 1 + 1 ELSE 0
            /\ \A i \in 1..(n - 1 + 1) : SubSeq(rk, 1, n)[i] = rk[1 + i - 1]
        BY <3>1, <3>2, SubSeqProperties
      <3>4. \A i \in 1..n : 1 + i - 1 = i
        BY <3>1
      <3>. QED  BY <1>3, <2>1, <3>1, <3>3, <3>4
    <2>2. CASE n \notin 1..size
      BY <1>1, <1>3, <2>2
    <2>. QED  BY <2>1, <2>2
  <1>. HIDE DEF m
  <1>6. DOMAIN top = 1..m /\ \A i \in 1..m : i \in 1..size
    BY <1>2, <1>5
  <1>7. Distinct(top)
    BY <1>1, <1>4, <1>5, <1>6 DEF Distinct
  <1>8. Cardinality(ToSet(top)) = Len(top)
    BY <1>5, <1>7, DistinctCardinality
  <1>9. ToSet(top) \subseteq ToSet(rk)
    BY <1>4, <1>5, <1>6 DEF ToSet
  <1>10. ASSUME NEW in \in ToSet(top), NEW out \in ToSet(rk) \ ToSet(top)
         PROVE  Rank[in] >= Rank[out]
    <2>1. PICK i \in 1..m : in = rk[i]
      BY <1>5, <1>6 DEF ToSet
    <2>2. PICK j \in 1..size : out = rk[j]
      BY <1>4 DEF ToSet
    <2>3. j \notin 1..m
      BY <1>5, <1>6, <2>2 DEF ToSet
    <2>4. i < j /\ i \in 1..size
      BY <1>2, <1>6, <2>3
    <2>. QED  BY <1>1, <2>1, <2>2, <2>4
  <1>11. /\ Len(top) = m /\ ToSet(top) \subseteq ToSet(ids)
         /\ \A in \in ToSet(top), out \in ToSet(ids) \ ToSet(top) : Rank[in] >= Rank[out]
    BY <1>1, <1>5, <1>9, <1>10
  <1>. QED  BY <1>8, <1>11 DEF top, m, size, rk

\* The answer that is not degraded is the best the database has, for every user, limit
\* and batch size, and whatever was retried on the way.
THEOREM BestIsReturned == Spec => []RankedIsBest
  <1>1. FetchInv => RankedIsBest
    <2>. SUFFICES ASSUME FetchInv, NEW r \in Request, response[r] # Nil,
                         response[r].kind = "ranked"
                  PROVE  LET liked == UNION {ToSet(LikedVideos[u]) :
                                                u \in ToSet(SubscribedTo[userId[r]])}
                             top   == response[r].videos
                             size  == Cardinality(liked)
                         IN  /\ Len(top) = IF limit[r] \in 1..size THEN limit[r] ELSE size
                             /\ Cardinality(ToSet(top)) = Len(top)
                             /\ ToSet(top) \subseteq liked
                             /\ \A in \in ToSet(top), out \in liked \ ToSet(top) :
                                   Rank[in] >= Rank[out]
      BY DEF RankedIsBest
    <2>. DEFINE liked == UNION {ToSet(LikedVideos[u]) : u \in ToSet(SubscribedTo[userId[r]])}
                ids == Liked(r)
                top == response[r].videos
    <2>1. userId[r] \in User /\ top = Truncate(Ranked(ids), limit[r])
      BY DEF FetchInv, RequestInv
    <2>2. SubscribedTo[userId[r]] \in Seq(User)
      <3>1. SubscribedTo[userId[r]] \in Seq(User \ {userId[r]})
        BY <2>1, DatabaseAssumption DEF MadeByUserService
      <3>. QED  BY <3>1
    <2>3. ids \in Seq(Video) /\ Distinct(ids) /\ ToSet(ids) = liked
      BY <2>2, LikedAreVideos DEF Liked
    <2>. HIDE DEF ids, liked, top
    <2>4. Cardinality(liked) = Len(ids)
      BY <2>3, DistinctCardinality
    <2>5. /\ Len(top) = IF limit[r] \in 1..Len(ids) THEN limit[r] ELSE Len(ids)
          /\ Cardinality(ToSet(top)) = Len(top) /\ ToSet(top) \subseteq ToSet(ids)
          /\ \A in \in ToSet(top), out \in ToSet(ids) \ ToSet(top) : Rank[in] >= Rank[out]
      BY <2>1, <2>3, TruncatedIsBest
    <2>6. /\ Len(top) = IF limit[r] \in 1..Cardinality(liked) THEN limit[r]
                                                             ELSE Cardinality(liked)
          /\ Cardinality(ToSet(top)) = Len(top) /\ ToSet(top) \subseteq liked
          /\ \A in \in ToSet(top), out \in liked \ ToSet(top) : Rank[in] >= Rank[out]
      BY <2>3, <2>4, <2>5
    <2>. QED  BY <2>6 DEF liked, top
  <1>. QED  BY <1>1, FetchInvariance, PTL
=============================================================================
