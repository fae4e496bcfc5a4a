------------------------------ MODULE RoleLoop ------------------------------
(***************************************************************************)
(* One peer's startRoles goroutine (lab3/raft/raft.go) against everything  *)
(* else that takes the same rf.mu: RPC handlers, vote-counting goroutines  *)
(* and clients in Start.                                                   *)
(*                                                                         *)
(* Raft.tla treats a timeout as one step; here the loop is taken apart at  *)
(* every point where it holds no lock: between startRoles' switch and the  *)
(* function it chose, in the select, and between a timer firing and the    *)
(* lock that follows.  A critical section is one step; the mutex is a      *)
(* variable because one path returns without unlocking it.                 *)
(***************************************************************************)
EXTENDS Integers

CONSTANT MaxEvents  \* bound: RPCs and won elections the rest of the cluster
                    \* brings; once they are used up the network is silent

ASSUME EventsAssumption == MaxEvents \in Nat

VARIABLES
    pc,            \* where the startRoles goroutine is
    mu,            \* rf.mu between steps: free, or held by a function that
                   \* returned without unlocking it
    myRole,        \* Raft.myRole
    candidacy,     \* parity of currentTerm's steps by convertToCandidate
    toVote,        \* some startVoting goroutine is waiting for the lock, perhaps
                   \* of an earlier candidacy; more than one ask no more than one
    asked,         \* startVoting has sent requests in the current candidacy
    resetTimerCh,  \* goroutines waiting to send on the channel
    voteSuccessCh, \* the same for the other channel
    dead,          \* Raft.dead
    client,        \* a client's call of Start
    events         \* how many events the cluster has brought

net  == <<resetTimerCh, voteSuccessCh, events>>
vars == <<pc, mu, myRole, candidacy, toVote, asked, net, dead, client>>

Leader    == "leader"
Follower  == "follower"
Candidate == "candidate"

Waiting     == {"followerSelect", "candidateSelect"}
TimedOut    == {"followerTimeout", "candidateTimeout"}
InLeader    == {"startLeader", "leaderSleep"}
InCandidate == {"startCandidate", "candidateSelect", "candidateTimeout"}

\* Every variable keeps to its range; the number of goroutines blocked in a send
\* on a channel is never negative, so each receive meets one of them.
TypeOK ==
    /\ pc \in {"startRoles", "startFollower", "exited"}
              \cup Waiting \cup TimedOut \cup InLeader \cup InCandidate
    /\ mu \in {"free", "leaked"}
    /\ myRole \in {Leader, Follower, Candidate}
    /\ candidacy \in {0, 1}
    /\ toVote \in BOOLEAN /\ asked \in BOOLEAN
    /\ resetTimerCh \in Nat /\ voteSuccessCh \in Nat /\ events \in Nat
    /\ dead \in BOOLEAN
    /\ client \in {"idle", "inStart"}

Init ==
    /\ pc = "startRoles" /\ mu = "free" /\ myRole = Follower
    /\ candidacy = 0 /\ toVote = FALSE /\ asked = FALSE
    /\ resetTimerCh = 0 /\ voteSuccessCh = 0 /\ events = 0
    /\ dead = FALSE /\ client = "idle"

Goto(where) == pc' = where

-----------------------------------------------------------------------------
(* The startRoles goroutine. *)

\* startRoles reads the role under the lock and unlocks before it calls.
Switch ==
    /\ pc = "startRoles" /\ ~ dead /\ mu = "free"
    /\ Goto(CASE myRole = Follower  -> "startFollower"
              [] myRole = Candidate -> "startCandidate"
              [] myRole = Leader    -> "startLeader")
    /\ UNCHANGED <<mu, myRole, candidacy, toVote, asked, net, dead, client>>

Exit ==
    /\ pc = "startRoles" /\ dead
    /\ Goto("exited")
    /\ UNCHANGED <<mu, myRole, candidacy, toVote, asked, net, dead, client>>

StartFollower ==
    /\ pc = "startFollower" /\ mu = "free"
    /\ Goto(IF myRole = Follower THEN "followerSelect" ELSE "startRoles")
    /\ UNCHANGED <<mu, myRole, candidacy, toVote, asked, net, dead, client>>

\* When the role has changed since startRoles looked, startCandidate returns
\* and keeps the lock.
LockAfterCandidate == IF myRole = Candidate THEN "free" ELSE "leaked"

StartCandidate ==
    /\ pc = "startCandidate" /\ mu = "free"
    /\ mu' = LockAfterCandidate
    /\ Goto(IF myRole = Candidate THEN "candidateSelect" ELSE "startRoles")
    /\ toVote' = (toVote \/ myRole = Candidate)
    /\ UNCHANGED <<myRole, candidacy, asked, net, dead, client>>

\* The top of startLeader's loop, and the pause after the heartbeats.
StartLeader ==
    /\ pc = "startLeader"
    /\ \/ dead /\ Goto("startRoles")
       \/ /\ ~ dead /\ mu = "free"
          /\ Goto(IF myRole = Leader THEN "leaderSleep" ELSE "startRoles")
    /\ UNCHANGED <<mu, myRole, candidacy, toVote, asked, net, dead, client>>

LeaderWakes ==
    /\ pc = "leaderSleep"
    /\ Goto("startLeader")
    /\ UNCHANGED <<mu, myRole, candidacy, toVote, asked, net, dead, client>>

\* Mutant: a receive that does not wait for a sender.
ReceiveFromClosed ==
    /\ pc \in Waiting
    /\ resetTimerCh' = resetTimerCh - 1
    /\ Goto("startRoles")
    /\ UNCHANGED <<mu, myRole, candidacy, toVote, asked, voteSuccessCh, events,
                   dead, client>>

\* The three branches of the selects.
ReceiveReset ==
    /\ pc \in Waiting /\ resetTimerCh > 0
    /\ resetTimerCh' = resetTimerCh - 1
    /\ Goto("startRoles")
    /\ UNCHANGED <<mu, myRole, candidacy, toVote, asked, voteSuccessCh, events,
                   dead, client>>

ReceiveVoteSuccess ==
    /\ pc = "candidateSelect" /\ voteSuccessCh > 0
    /\ voteSuccessCh' = voteSuccessCh - 1
    /\ Goto("startRoles")
    /\ UNCHANGED <<mu, myRole, candidacy, toVote, asked, resetTimerCh, events,
                   dead, client>>

\* Mutant: the select of startCandidate without its timer.
TimerFiresForFollower ==
    /\ pc = "followerSelect"
    /\ Goto("followerTimeout")
    /\ UNCHANGED <<mu, myRole, candidacy, toVote, asked, net, dead, client>>

TimerFires ==
    /\ pc \in Waiting
    /\ Goto(IF pc = "followerSelect" THEN "followerTimeout"
                                     ELSE "candidateTimeout")
    /\ UNCHANGED <<mu, myRole, candidacy, toVote, asked, net, dead, client>>

\* Mutant: the timer leaves the role as it is.
TimeoutIgnored ==
    /\ pc \in TimedOut /\ mu = "free"
    /\ Goto("startRoles")
    /\ UNCHANGED <<mu, myRole, candidacy, toVote, asked, net, dead, client>>

\* Mutant: after the timeout the follower's select is entered again.
TimeoutStays ==
    /\ pc \in TimedOut /\ mu = "free"
    /\ myRole' = Candidate
    /\ candidacy' = 1 - candidacy
    /\ asked' = FALSE
    /\ Goto("followerSelect")
    /\ UNCHANGED <<mu, toVote, net, dead, client>>

\* convertToCandidate after a timeout, whatever the role has become meanwhile.
Timeout ==
    /\ pc \in TimedOut /\ mu = "free"
    /\ myRole' = Candidate
    /\ candidacy' = 1 - candidacy
    /\ asked' = FALSE
    /\ Goto("startRoles")
    /\ UNCHANGED <<mu, toVote, net, dead, client>>

LoopStep ==
    \/ Switch \/ Exit \/ StartFollower \/ StartCandidate \/ StartLeader
    \/ LeaderWakes \/ ReceiveReset \/ ReceiveVoteSuccess \/ TimerFires
    \/ Timeout

-----------------------------------------------------------------------------
(* The other goroutines of the peer. *)

StartVoting ==
    /\ toVote /\ mu = "free"
    /\ toVote' = FALSE
    /\ asked' = (asked \/ myRole = Candidate)
    /\ UNCHANGED <<pc, mu, myRole, candidacy, net, dead, client>>

\* Mutant: the winning vote does not look at the role again.
WonLate ==
    /\ asked /\ mu = "free" /\ events < MaxEvents
    /\ events' = events + 1
    /\ myRole' = Leader
    /\ voteSuccessCh' = voteSuccessCh + 1
    /\ UNCHANGED <<pc, mu, candidacy, toVote, asked, resetTimerCh, dead, client>>

\* requestVoteFromPeer counts the vote that makes a majority.
WinElection ==
    /\ asked /\ mu = "free" /\ events < MaxEvents
    /\ myRole = Candidate
    /\ events' = events + 1
    /\ myRole' = Leader
    /\ voteSuccessCh' = voteSuccessCh + 1
    /\ UNCHANGED <<pc, mu, candidacy, toVote, asked, resetTimerCh, dead, client>>

\* An AppendEntries that is not stale, or a vote granted to another peer:
\* resetElectionTimer, and this peer is a follower afterwards.
HearLeader ==
    /\ mu = "free" /\ events < MaxEvents
    /\ events' = events + 1
    /\ myRole' = Follower
    /\ resetTimerCh' = resetTimerCh + 1
    /\ UNCHANGED <<pc, mu, candidacy, toVote, asked, voteSuccessCh, dead, client>>

\* A request that is refused or a reply, of a newer term: no timer reset.
HearNewerTerm ==
    /\ mu = "free" /\ events < MaxEvents
    /\ events' = events + 1
    /\ myRole' = Follower
    /\ UNCHANGED <<pc, mu, candidacy, toVote, asked, resetTimerCh, voteSuccessCh,
                   dead, client>>

Kill ==
    /\ ~ dead
    /\ dead' = TRUE
    /\ UNCHANGED <<pc, mu, myRole, candidacy, toVote, asked, net, client>>

CallStart ==
    /\ client = "idle"
    /\ client' = "inStart"
    /\ UNCHANGED <<pc, mu, myRole, candidacy, toVote, asked, net, dead>>

\* Start takes the lock, does its work and returns.
StartReturn ==
    /\ client = "inStart" /\ mu = "free"
    /\ client' = "idle"
    /\ UNCHANGED <<pc, mu, myRole, candidacy, toVote, asked, net, dead>>

Next ==
    \/ LoopStep \/ StartVoting \/ WinElection \/ HearLeader \/ HearNewerTerm
    \/ Kill \/ CallStart \/ StartReturn

\* A runnable goroutine runs, timers fire, and a goroutine that waits for a free
\* mutex gets it (sync.Mutex hands the lock to a waiter that starves).  Nothing
\* is assumed of the network, of Kill or of the client's next call.
Fairness ==
    /\ WF_vars(LoopStep)
    /\ WF_vars(StartVoting)
    /\ WF_vars(StartReturn)

Spec == Init /\ [][Next]_vars /\ Fairness

-----------------------------------------------------------------------------
(* Properties. *)

\* startFollower does not look at the role again after its timer fired: it need
\* not, because nothing but this goroutine ever leaves the follower role, however
\* late votes and tokens arrive.
FollowerWaitIsSafe ==
    pc \in {"followerSelect", "followerTimeout"} => myRole = Follower

\* A candidate always has its goroutine on the way to, in, or just out of
\* startCandidate; it never waits behind the heartbeat loop or without a timer.
CandidateHasTimer ==
    (myRole = Candidate /\ pc # "exited")
        => pc \in {"startRoles"} \cup InCandidate

\* Unless the lock is lost or the peer killed, a follower that hears nothing any
\* more becomes a candidate, however many stale tokens are left on resetTimerCh.
FollowerCampaigns ==
    (myRole = Follower /\ mu = "free" /\ ~ dead)
        ~> (myRole = Candidate \/ mu = "leaked" \/ dead)

\* An election ends: the candidate wins, follows, or starts the next one.
ElectionEnds ==
    \A n \in {0, 1} :
        (myRole = Candidate /\ candidacy = n)
            ~> (myRole # Candidate \/ candidacy # n \/ mu = "leaked" \/ dead)

\* "even if the Raft instance has been killed, this function should return
\* gracefully": a call of Start returns.
StartReturns == (client = "inStart") ~> (client = "idle")
=============================================================================
