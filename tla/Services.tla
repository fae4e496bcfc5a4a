------------------------------ MODULE Services ------------------------------
(***************************************************************************)
(* UserService and VideoService of lab2, with the failure injector that    *)
(* every handler asks first.  Their databases never change after start-up, *)
(* so a call is its outcome: "served", "error" (any gRPC error) or         *)
(* "omitted" (MaybeInject blocks forever and the caller's deadline ends    *)
(* the call).                                                              *)
(***************************************************************************)
EXTENDS Integers, FiniteSets, Sequences, SequencesExt

CONSTANTS
    SubscribedTo,      \* UserInfo.SubscribedTo of every user of the database
    LikedVideos,       \* UserInfo.LikedVideos of every user
    Rank,              \* BcryptRanker's rank of every video, for the user asking
    RawTopVideos,      \* the random ids makeRandomVideos draws, with repetitions
    ServiceBatchSize,  \* MaxBatchSize of both services
    Ttl                \* VideoServiceOptions.TtlSeconds

User  == DOMAIN SubscribedTo
Video == DOMAIN Rank

\* Ids are drawn from those that are used, nobody subscribes to himself, and both
\* lists may have repetitions.
MadeByUserService ==
    /\ DOMAIN LikedVideos = User
    /\ \A u \in User : /\ SubscribedTo[u] \in Seq(User \ {u})
                      /\ LikedVideos[u] \in Seq(Video)

MadeByVideoService == RawTopVideos \in Seq(Video)

ASSUME DatabaseAssumption ==
    /\ MadeByUserService /\ MadeByVideoService
    /\ \A v \in Video : Rank[v] \in Nat
    /\ ServiceBatchSize \in Nat \ {0}
    /\ Ttl \in Nat \ {0}

\* InjectionConfig: rates are "one in n", 0 is never.
NoFaults == [failureRate |-> 0, responseOmissionRate |-> 0]

OneIn(n) == IF n = 0 THEN {FALSE} ELSE IF n = 1 THEN {TRUE} ELSE BOOLEAN

MaybeInject(config) ==
    {IF omit THEN "omitted" ELSE IF fail THEN "error" ELSE "served" :
        omit \in OneIn(config.responseOmissionRate),
        fail \in OneIn(config.failureRate)}

\* The outcomes of a handler whose request is as it should be, or is not.
Handle(config, valid) ==
    {IF outcome = "served" /\ ~ valid THEN "error" ELSE outcome :
        outcome \in MaybeInject(config)}

\* deduplicateIds keeps the first occurrence of every id, in the order of the list.
DeduplicateIds(ids) ==
    LET First == {i \in DOMAIN ids : \A j \in 1..(i - 1) : ids[j] # ids[i]}
        Place(i) == Cardinality({j \in First : j <= i})
    IN  [k \in 1..Cardinality(First) |-> ids[CHOOSE i \in First : Place(i) = k]]

TopVideos == DeduplicateIds(RawTopVideos)

Fits(ids) == Len(ids) \in 1..ServiceBatchSize

GetUser(config, ids) == Handle(config, Fits(ids) /\ ToSet(ids) \subseteq User)

ValidVideoIds(ids) == Fits(ids) /\ DeduplicateIds(ids) = ids

GetVideo(config, ids) ==
    Handle(config, ValidVideoIds(ids) /\ ToSet(ids) \subseteq Video)

\* The response carries TopVideos and the time of the call plus Ttl.
GetTrendingVideos(config) == MaybeInject(config)
ExpirationTimeS(now) == now + Ttl
=============================================================================
