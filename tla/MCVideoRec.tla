----------------------------- MODULE MCVideoRec -----------------------------
(* The VideoRecService on a small database. *)
EXTENDS VideoRec

CONSTANTS ann, bob, cid, stranger, v1, v2, v3

\* ann subscribes to two users who share a liked video; bob to nobody.
MCSubscribedTo == (ann :> <<bob, cid>>) @@ (bob :> <<>>) @@ (cid :> <<ann>>)
MCLikedVideos  == (ann :> <<v1>>) @@ (bob :> <<v2, v1>>) @@ (cid :> <<v3, v3, v1>>)
MCRank         == (v1 :> 1) @@ (v2 :> 2) @@ (v3 :> 2)
MCRawTopVideos == <<v3, v1, v3, v2>>

\* A shorter list, for the runs with a client.
MCRawTopVideo == <<v3, v3>>

\* A service that fails, omits its response or serves, and one that only serves.
Sick      == [failureRate |-> 2, responseOmissionRate |-> 2]
MCConfigs == {NoFaults, Sick}

Symmetry == Permutations(Request)

(***************************************************************************)
(* Which connection a request has picked makes no difference once the      *)
(* index has moved on.                                                     *)
(***************************************************************************)
View ==
    <<pc, userId, limit, response, calls, cache, numActiveRequests, activeLoaded,
      stats, world, mode, connIndex,
      [r \in Request |->
         [s \in {"user", "video"} |->
            IF pc[r] = ClientFor(s) THEN conn[r][s] ELSE conn[r][s] # Nil]]>>
=============================================================================
