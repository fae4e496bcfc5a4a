------------------------------- MODULE MCRaft -------------------------------
(* The Raft specification on small clusters. *)
EXTENDS RaftInvariants

\* Peers are only compared with one another, and commands are only copied.
Symmetry == Permutations(Server) \cup Permutations(Command)

(***************************************************************************)
(* Two states with the same view have the same futures.  The view leaves   *)
(* out the replies that no step will ever use (sent to an incarnation that *)
(* is gone, or to a candidate or leader that no longer is one, terms never *)
(* going back within an incarnation), and the election counters and leader *)
(* arrays that ConvertToCandidate and ConvertToLeader overwrite before     *)
(* they are read again.                                                    *)
(***************************************************************************)
LiveVoteReps ==
    {r \in voteReps :
        /\ r.inst = inst[r.dst]
        /\ \/ r.term > currentTerm[r.dst]
           \/ /\ r.granted
              /\ r.reqTerm = currentTerm[r.dst]
              /\ myRole[r.dst] = Candidate
              /\ r.src \notin votesGranted[r.dst][r.round]}

LiveAppendReps ==
    {r \in appendReps :
        /\ r.inst = inst[r.dst]
        /\ \/ r.term > currentTerm[r.dst]
           \/ myRole[r.dst] = Leader}

View ==
    <<stable, progress, myRole, instances, voteReqs, appendReqs, history,
      LiveVoteReps, LiveAppendReps,
      [s \in Server |->
         CASE myRole[s] = Leader ->
                 <<inStartLeader[s], nextIndex[s], matchIndex[s]>>
           [] myRole[s] = Candidate -> <<votingRound[s], votesGranted[s]>>
           [] OTHER -> <<>>]>>

(***************************************************************************)
(* Schedules of the runs that need three or four terms.  Rival candidates  *)
(* of one term, requests that arrive after their term is over and a timer  *)
(* that fires for a candidate or a leader are left to the runs with fewer  *)
(* terms.                                                                  *)
(***************************************************************************)
OneCampaignPerTerm ==
    \A s \in Server : myRole[s] = Candidate =>
        /\ \A t \in Server \ {s} :
              ~ (currentTerm[t] = currentTerm[s] /\ votedFor[t] = t)
        /\ \A n \in 1..(currentTerm[s] - 1) : \E m \in voteReqs : m.term = n

NoLateRequests ==
    /\ \A r \in voteReps' \ voteReps : r.term = r.reqTerm
    /\ \A r \in appendReps' \ appendReps : r.term = r.reqTerm

FollowersCampaign ==
    \A s \in Server : myRole[s] # Follower => myRole'[s] # Candidate
                                              \/ currentTerm'[s] = currentTerm[s]
=============================================================================
