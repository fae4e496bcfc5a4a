--------------------------- MODULE RoleLoopProofs ---------------------------
(***************************************************************************)
(* The safety of the startRoles goroutine, for any number of calls and     *)
(* elections.  The three invariants of the run RoleLoop are inductive      *)
(* together: every proof below is one step of the loop or of another       *)
(* goroutine at a time.                                                    *)
(***************************************************************************)
EXTENDS RoleLoop, TLAPS

LoopInv == TypeOK /\ FollowerWaitIsSafe /\ CandidateHasTimer

LEMMA InitLoop == Init => LoopInv
  <1>. SUFFICES ASSUME Init PROVE LoopInv
    OBVIOUS
  <1>1. /\ pc = "startRoles" /\ mu = "free" /\ myRole = Follower
        /\ toVote = FALSE /\ asked = FALSE /\ dead = FALSE /\ client = "idle"
    BY DEF Init
  <1>2. /\ candidacy \in {0, 1}
        /\ resetTimerCh \in Nat /\ voteSuccessCh \in Nat /\ events \in Nat
    BY DEF Init
  <1>. QED  BY <1>1, <1>2 DEF LoopInv, TypeOK, FollowerWaitIsSafe, CandidateHasTimer,
               Leader, Follower, Candidate

\* The steps of the startRoles goroutine that leave the role alone.  A role other
\* than the one it looked up sends it back to look again.
LEMMA WalkStep ==
    ASSUME LoopInv,
           \/ Switch \/ Exit \/ StartFollower \/ StartCandidate \/ StartLeader
           \/ LeaderWakes \/ TimerFires
    PROVE  LoopInv'
  <1>. USE DEF LoopInv, TypeOK, FollowerWaitIsSafe, CandidateHasTimer,
               Leader, Follower, Candidate, Waiting, TimedOut, InLeader, InCandidate,
               Goto, net
  <1>1. CASE Switch
    BY <1>1 DEF Switch
  <1>2. CASE Exit
    BY <1>2 DEF Exit
  <1>3. CASE StartFollower
    BY <1>3 DEF StartFollower
  <1>4. CASE StartCandidate
    BY <1>4 DEF StartCandidate, LockAfterCandidate
  <1>5. CASE StartLeader
    BY <1>5 DEF StartLeader
  <1>6. CASE LeaderWakes
    BY <1>6 DEF LeaderWakes
  <1>7. CASE TimerFires
    BY <1>7 DEF TimerFires
  <1>. QED  BY <1>1, <1>2, <1>3, <1>4, <1>5, <1>6, <1>7

\* A token from a channel, old or new, and the timer end the wait: the goroutine
\* goes to look the role up.  A receive meets a goroutine that waits to send.
LEMMA WakeStep ==
    ASSUME LoopInv, ReceiveReset \/ ReceiveVoteSuccess \/ Timeout
    PROVE  LoopInv'
  <1>. USE DEF LoopInv, TypeOK, FollowerWaitIsSafe, CandidateHasTimer,
               Leader, Follower, Candidate, Waiting, TimedOut, InLeader, InCandidate,
               Goto
  <1>1. CASE ReceiveReset
    BY <1>1 DEF ReceiveReset
  <1>2. CASE ReceiveVoteSuccess
    BY <1>2 DEF ReceiveVoteSuccess
  <1>3. CASE Timeout
    <2>1. candidacy' \in {0, 1}
      BY <1>3 DEF Timeout
    <2>2. pc' = "startRoles" /\ myRole' = Candidate /\ asked' = FALSE
      BY <1>3 DEF Timeout
    <2>3. UNCHANGED <<mu, toVote, resetTimerCh, voteSuccessCh, events, dead, client>>
      BY <1>3 DEF Timeout, net
    <2>. QED  BY <2>1, <2>2, <2>3
  <1>. QED  BY <1>1, <1>2, <1>3

\* The other goroutines: only a candidate is elected, and everybody else makes the
\* peer a follower or leaves its role.
LEMMA OthersStep ==
    ASSUME LoopInv,
           \/ StartVoting \/ WinElection \/ HearLeader \/ HearNewerTerm
           \/ Kill \/ CallStart \/ StartReturn
    PROVE  LoopInv'
  <1>. USE DEF LoopInv, TypeOK, FollowerWaitIsSafe, CandidateHasTimer,
               Leader, Follower, Candidate, Waiting, TimedOut, InLeader, InCandidate
  <1>1. CASE StartVoting
    BY <1>1 DEF StartVoting, net
  <1>2. CASE WinElection
    BY <1>2 DEF WinElection
  <1>3. CASE HearLeader
    BY <1>3 DEF HearLeader
  <1>4. CASE HearNewerTerm
    BY <1>4 DEF HearNewerTerm
  <1>5. CASE Kill
    BY <1>5 DEF Kill, net
  <1>6. CASE CallStart
    BY <1>6 DEF CallStart, net
  <1>7. CASE StartReturn
    BY <1>7 DEF StartReturn, net
  <1>. QED  BY <1>1, <1>2, <1>3, <1>4, <1>5, <1>6, <1>7

LEMMA NextLoop == LoopInv /\ [Next]_vars => LoopInv'
  <1>. SUFFICES ASSUME LoopInv, [Next]_vars PROVE LoopInv'
    OBVIOUS
  <1>1. CASE UNCHANGED vars
    BY <1>1 DEF vars, net, LoopInv, TypeOK, FollowerWaitIsSafe, CandidateHasTimer
  <1>. QED  BY <1>1, WalkStep, WakeStep, OthersStep DEF Next, LoopStep

THEOREM LoopInvariance == Spec => []LoopInv
  BY InitLoop, NextLoop, PTL DEF Spec

\* The number of goroutines that wait to send on resetTimerCh or voteSuccessCh is
\* never negative, whatever stale tokens the loop receives.
THEOREM LoopTypes == Spec => []TypeOK
  <1>1. LoopInv => TypeOK
    BY DEF LoopInv
  <1>. QED  BY <1>1, LoopInvariance, PTL

\* The timer of startFollower turns only a follower into a candidate, although its
\* branch does not look at the role: votes that arrive late elect nobody.
THEOREM TimerMeetsFollower == Spec => []FollowerWaitIsSafe
  <1>1. LoopInv => FollowerWaitIsSafe
    BY DEF LoopInv
  <1>. QED  BY <1>1, LoopInvariance, PTL

\* A candidate never waits in the follower's or the leader's loop, where nothing
\* would start the next election.
THEOREM CandidateIsTimed == Spec => []CandidateHasTimer
  <1>1. LoopInv => CandidateHasTimer
    BY DEF LoopInv
  <1>. QED  BY <1>1, LoopInvariance, PTL
=============================================================================
