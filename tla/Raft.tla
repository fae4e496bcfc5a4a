-------------------------------- MODULE Raft --------------------------------
(***************************************************************************)
(* The Raft peer of lab3/raft/raft.go, all peers together, over the        *)
(* simulated network of lab3/labrpc and under the crashes of               *)
(* lab3/raft/config.go.                                                    *)
(*                                                                         *)
(* One action is one critical section of rf.mu.  An RPC is four steps: the *)
(* caller's section that builds the arguments, the handler, and the        *)
(* caller's section that reads the reply, with the network in between.     *)
(* Requests and replies are kept in sets that never shrink: a message that *)
(* is never received is a lost one, a late one is a delayed one, and the   *)
(* same request received twice is what two identical calls produce         *)
(* (heartbeats repeat the same arguments until the leader's state changes).*)
(***************************************************************************)
EXTENDS Integers, FiniteSets, Sequences, SequencesExt

CONSTANTS
    Server,      \* the peers; rf.me is a member of it
    Command,     \* the commands a client may hand to Start
    Nil,         \* votedFor = -1
    MaxTerm,     \* bound: the highest term an election timeout may start
    MaxLogLen,   \* bound: the longest log Start may produce
    MaxRounds,   \* bound: calls of startVoting in one term of one candidate
    MaxRestarts, \* bound: crashes, of all peers together
    MaxVoteCalls,   \* bound: distinct RequestVote calls, of all peers together
    MaxAppendCalls  \* bound: distinct AppendEntries calls, of all peers together

ASSUME ServerAssumption == IsFiniteSet(Server) /\ Cardinality(Server) > 1
ASSUME NilAssumption == Nil \notin Server
ASSUME BoundAssumption ==
    {MaxTerm, MaxLogLen, MaxRounds, MaxRestarts, MaxVoteCalls, MaxAppendCalls}
        \subseteq Nat

Leader    == "leader"
Follower  == "follower"
Candidate == "candidate"

VARIABLES
    currentTerm,   \* Raft.currentTerm of every peer
    votedFor,      \* Raft.votedFor
    log,           \* Raft.log, log[s][i] is rf.log[i-1]
    persisted,     \* the peer's Persister: what SaveRaftState saved last
    commitIndex,   \* Raft.commitIndex
    lastApplied,   \* Raft.lastApplied
    applied,       \* cfg.logs[s] of the tester: what the peer sent on applyCh
    myRole,        \* Raft.myRole
    inStartLeader, \* TRUE when the startRoles goroutine is inside startLeader
    votingRound,   \* how often startVoting ran in the current candidacy
    votesGranted,  \* per round, the peers whose votes its counter has counted
    nextIndex,     \* Raft.nextIndex
    matchIndex,    \* Raft.matchIndex
    restarts,      \* how many crashes there were
    inst,          \* the incarnation of every peer: crash1 cuts off the old one
    voteReqs, voteReps, appendReqs, appendReps,  \* calls in the network
    elected,       \* history: the [term, server] that convertToLeader ran for
    started        \* history: the [index, term, command] of every call of Start

stable    == <<currentTerm, votedFor, log, persisted>>
progress  == <<commitIndex, lastApplied, applied>>
roles     == <<myRole, inStartLeader>>
votes     == <<votingRound, votesGranted>>
leading   == <<nextIndex, matchIndex>>
instances == <<restarts, inst>>
history   == <<elected, started>>
voteNet   == <<voteReqs, voteReps>>
appendNet == <<appendReqs, appendReps>>

vars == <<stable, progress, roles, votes, leading, instances,
          voteNet, appendNet, history>>

-----------------------------------------------------------------------------
(* The shape of the state. *)

Entry == [term : Nat, command : Command]

\* The calls of startVoting in one candidacy, each with its own counter.
Round == 1..MaxRounds

PersistentState ==
    [currentTerm : Nat, votedFor : Server \cup {Nil}, log : Seq(Entry)]

RequestVoteArgs ==
    [src : Server, dst : Server, inst : Nat, round : Round,
     term : Nat, lastLogIndex : Nat, lastLogTerm : Int]

RequestVoteReply ==
    [src : Server, dst : Server, inst : Nat, round : Round,
     reqTerm : Nat, term : Nat, granted : BOOLEAN]

AppendEntriesArgs ==
    [src : Server, dst : Server, inst : Nat, term : Nat,
     prevLogIndex : Nat, prevLogTerm : Nat, entries : Seq(Entry),
     leaderCommit : Nat]

AppendEntriesReply ==
    [src : Server, dst : Server, inst : Nat, reqTerm : Nat,
     prevLogIndex : Nat, sent : Nat, term : Nat, success : BOOLEAN,
     conflictTerm : Int, conflictIndex : Nat]

-----------------------------------------------------------------------------
(* Helpers. *)

Majority(n) == 2 * n > Cardinality(Server)

LastLogTerm(l) == IF l = <<>> THEN -1 ELSE Last(l).term

\* Mutant: the comparison of RequestVote (3) with its sides exchanged.
UpToDateSwapped(m, l) ==
    \/ m.lastLogTerm < LastLogTerm(l)
    \/ m.lastLogTerm = LastLogTerm(l) /\ m.lastLogIndex <= Len(l)

\* RequestVote (3): the candidate's log is at least as up-to-date as l.
UpToDate(m, l) ==
    \/ m.lastLogTerm > LastLogTerm(l)
    \/ m.lastLogTerm = LastLogTerm(l) /\ m.lastLogIndex >= Len(l)

\* Mutant: the loop of AppendEntries (6) without its comparison of terms.
MatchingPositions(l, prev, entries) == Min({Len(entries), Len(l) - prev})

\* AppendEntries (6): how many of the new entries the log already holds.
MatchingEntries(l, prev, entries) ==
    Max({k \in 0..Len(entries) :
            /\ prev + k <= Len(l)
            /\ \A j \in 1..k : l[prev + j].term = entries[j].term})

\* Mutant: always truncate at prevLogIndex, conflict or not.
OverwriteLog(l, prev, entries) == SubSeq(l, 1, prev) \o entries

\* AppendEntries (6) and (7): truncate at the first conflict, append the rest.
MergeLog(l, prev, entries) ==
    LET k == MatchingEntries(l, prev, entries)
    IN  IF k = Len(entries)
        THEN l
        ELSE SubSeq(l, 1, prev + k) \o SubSeq(entries, k + 1, Len(entries))

\* Mutants: persist() forgets to encode the vote, or the log.
PersistWithoutVote(s, term, vote, l) ==
    persisted' = [persisted EXCEPT ![s] =
        [currentTerm |-> term, votedFor |-> @.votedFor, log |-> l]]
PersistWithoutLog(s, term, vote, l) ==
    persisted' = [persisted EXCEPT ![s] =
        [currentTerm |-> term, votedFor |-> vote, log |-> @.log]]

\* persist(): the term, the vote and the log the handler has assigned so far go
\* to the Persister.
Persist(s, term, vote, l) ==
    persisted' = [persisted EXCEPT ![s] =
        [currentTerm |-> term, votedFor |-> vote, log |-> l]]

\* Send the entries of l after lastApplied up to `upto` on applyCh; the tester
\* stores them by index, over what an earlier incarnation delivered.
Apply(s, l, upto) ==
    /\ lastApplied' = [lastApplied EXCEPT ![s] = Max({@, upto})]
    /\ applied' = [applied EXCEPT ![s] =
          [i \in 1..Max({Len(@), upto}) |->
              IF i > lastApplied[s] /\ i <= upto THEN l[i] ELSE @[i]]]

\* Mutant: convertToFollower without its persist().
ConvertToFollowerUnsaved(s, term, vote) ==
    /\ myRole' = [myRole EXCEPT ![s] = Follower]
    /\ currentTerm' = [currentTerm EXCEPT ![s] = term]
    /\ votedFor' = [votedFor EXCEPT ![s] = vote]
    /\ UNCHANGED persisted

ConvertToFollower(s, term, vote) ==
    /\ myRole' = [myRole EXCEPT ![s] = Follower]
    /\ currentTerm' = [currentTerm EXCEPT ![s] = term]
    /\ votedFor' = [votedFor EXCEPT ![s] = vote]
    /\ Persist(s, term, vote, log[s])

\* The counters of the rounds belong to one candidacy: a reply to a request of
\* an earlier term is dropped before it reaches its counter.
ConvertToCandidate(s) ==
    /\ myRole' = [myRole EXCEPT ![s] = Candidate]
    /\ currentTerm' = [currentTerm EXCEPT ![s] = @ + 1]
    /\ votedFor' = [votedFor EXCEPT ![s] = s]
    /\ Persist(s, currentTerm[s] + 1, s, log[s])
    /\ votingRound' = [votingRound EXCEPT ![s] = 0]
    /\ votesGranted' = [votesGranted EXCEPT ![s] = [k \in Round |-> {}]]

\* Mutant: the arrays are made with length 0 and never filled.
ConvertToLeaderUnfilled(s) ==
    /\ myRole' = [myRole EXCEPT ![s] = Leader]
    /\ nextIndex' = [nextIndex EXCEPT ![s] = <<>>]
    /\ matchIndex' = [matchIndex EXCEPT ![s] = <<>>]
    /\ Persist(s, currentTerm[s], votedFor[s], log[s])
    /\ elected' = elected \cup {[term |-> currentTerm[s], server |-> s]}

ConvertToLeader(s) ==
    /\ myRole' = [myRole EXCEPT ![s] = Leader]
    /\ nextIndex' = [nextIndex EXCEPT ![s] =
          [p \in Server |-> Len(log[s]) + 1]]
    /\ matchIndex' = [matchIndex EXCEPT ![s] =
          [p \in Server |-> IF p = s THEN Len(log[s]) ELSE 0]]
    /\ Persist(s, currentTerm[s], votedFor[s], log[s])
    /\ elected' = elected \cup {[term |-> currentTerm[s], server |-> s]}

-----------------------------------------------------------------------------
\* Make on an empty Persister.  nextIndex and matchIndex are not read before
\* ConvertToLeader fills them.
Init ==
    /\ currentTerm = [s \in Server |-> 0]
    /\ votedFor = [s \in Server |-> Nil]
    /\ log = [s \in Server |-> <<>>]
    /\ persisted = [s \in Server |->
          [currentTerm |-> 0, votedFor |-> Nil, log |-> <<>>]]
    /\ commitIndex = [s \in Server |-> 0]
    /\ lastApplied = [s \in Server |-> 0]
    /\ applied = [s \in Server |-> <<>>]
    /\ myRole = [s \in Server |-> Follower]
    /\ inStartLeader = [s \in Server |-> FALSE]
    /\ votingRound = [s \in Server |-> 0]
    /\ votesGranted = [s \in Server |-> [k \in Round |-> {}]]
    /\ nextIndex = [s \in Server |-> [p \in Server |-> 1]]
    /\ matchIndex = [s \in Server |-> [p \in Server |-> 0]]
    /\ restarts = 0
    /\ inst = [s \in Server |-> 0]
    /\ voteReqs = {} /\ voteReps = {} /\ appendReqs = {} /\ appendReps = {}
    /\ elected = {} /\ started = {}

-----------------------------------------------------------------------------
(* The startRoles goroutine. *)

\* The select of startFollower or startCandidate takes its timeout branch.
\* Neither branch looks at myRole, so a candidate that has been elected, or has
\* recognised a leader, while it waited starts another election all the same.
\* Only a loop that has reached startLeader and is still leader is safe from it.
ElectionTimeout(s) ==
    /\ currentTerm[s] < MaxTerm
    /\ ~ (myRole[s] = Leader /\ inStartLeader[s])
    /\ ConvertToCandidate(s)
    /\ inStartLeader' = [inStartLeader EXCEPT ![s] = FALSE]
    /\ UNCHANGED <<log, progress, leading, instances, voteNet, appendNet,
                   history>>

\* startRoles finds the role leader and calls startLeader.
StartLeader(s) ==
    /\ myRole[s] = Leader
    /\ ~ inStartLeader[s]
    /\ inStartLeader' = [inStartLeader EXCEPT ![s] = TRUE]
    /\ UNCHANGED <<stable, progress, myRole, votes, leading, instances,
                   voteNet, appendNet, history>>

\* The goroutine startCandidate spawned; a stale token on resetTimerCh or
\* voteSuccessCh makes startCandidate run, and ask for votes, again.
StartVoting(s) ==
    /\ myRole[s] = Candidate
    /\ votingRound[s] < MaxRounds
    /\ Cardinality(voteReqs) < MaxVoteCalls
    /\ votingRound' = [votingRound EXCEPT ![s] = @ + 1]
    /\ voteReqs' = voteReqs \cup
          {[src |-> s, dst |-> p, inst |-> inst[s], round |-> votingRound'[s],
            term |-> currentTerm[s], lastLogIndex |-> Len(log[s]),
            lastLogTerm |-> LastLogTerm(log[s])] : p \in Server \ {s}}
    /\ UNCHANGED <<stable, progress, roles, votesGranted, leading, instances,
                   voteReps, appendNet, history>>

-----------------------------------------------------------------------------
(* RequestVote: the handler and the caller's use of the reply. *)

VoteReply(m, term, granted) ==
    [src |-> m.dst, dst |-> m.src, inst |-> m.inst, round |-> m.round,
     reqTerm |-> m.term, term |-> term, granted |-> granted]

RejectStaleVoteRequest(s, m) ==
    /\ m.dst = s
    /\ m.term < currentTerm[s]
    /\ voteReps' = voteReps \cup {VoteReply(m, currentTerm[s], FALSE)}
    /\ UNCHANGED <<stable, progress, roles, votes, leading, instances,
                   voteReqs, appendNet, history>>

RequestVote(s, m) ==
    LET newer == m.term > currentTerm[s]
        vote  == IF newer THEN Nil ELSE votedFor[s]
        grant == vote \in {Nil, m.src} /\ UpToDate(m, log[s])
        final == IF grant THEN m.src ELSE vote
    IN  /\ m.dst = s
        /\ m.term >= currentTerm[s]
        /\ currentTerm' = [currentTerm EXCEPT ![s] = m.term]
        /\ votedFor' = [votedFor EXCEPT ![s] = final]
        /\ myRole' = [myRole EXCEPT ![s] = IF newer THEN Follower ELSE @]
        /\ IF newer \/ grant
           THEN Persist(s, m.term, final, log[s])
           ELSE UNCHANGED persisted
        /\ voteReps' = voteReps \cup {VoteReply(m, m.term, grant)}
        /\ UNCHANGED <<log, progress, inStartLeader, votes, leading, instances,
                       voteReqs, appendNet, history>>

\* requestVoteFromPeer or sendAppendEntriesToOnePeer sees a higher term.
StepDown(s, r) ==
    /\ r.dst = s /\ r.inst = inst[s]
    /\ r.term > currentTerm[s]
    /\ ConvertToFollower(s, r.term, Nil)
    /\ UNCHANGED <<log, progress, inStartLeader, votes, leading, instances,
                   voteNet, appendNet, history>>

\* The votes of the reply's round once the reply is counted.
Tally(s, r) ==
    votesGranted[s][r.round] \cup (IF r.granted THEN {r.src} ELSE {})

\* requestVoteFromPeer counts the reply on its round's counter, which starts at
\* one for the candidate's own vote.
CountVote(s, r) ==
    /\ r.dst = s /\ r.inst = inst[s]
    /\ r.term <= currentTerm[s]
    /\ r.reqTerm = currentTerm[s]
    /\ myRole[s] = Candidate
    /\ votesGranted' = [votesGranted EXCEPT ![s][r.round] = Tally(s, r)]
    /\ IF Majority(1 + Cardinality(Tally(s, r)))
       THEN /\ ConvertToLeader(s)
            /\ UNCHANGED <<currentTerm, votedFor, log>>
       ELSE UNCHANGED <<stable, myRole, leading, elected>>
    /\ UNCHANGED <<progress, inStartLeader, votingRound, instances,
                   voteNet, appendNet, started>>

-----------------------------------------------------------------------------
(* Start and AppendEntries. *)

\* A client's command reaches a leader, and Start returns the new entry's index
\* and term; anywhere else it returns false and changes nothing.
Start(s, c) ==
    /\ myRole[s] = Leader
    /\ Len(log[s]) < MaxLogLen
    /\ LET l == Append(log[s], [term |-> currentTerm[s], command |-> c])
       IN  /\ log' = [log EXCEPT ![s] = l]
           /\ Persist(s, currentTerm[s], votedFor[s], l)
           /\ started' = started \cup
                 {[index |-> Len(l), term |-> currentTerm[s], command |-> c]}
    /\ UNCHANGED <<currentTerm, votedFor, progress, roles, votes, leading,
                   instances, voteNet, appendNet, elected>>

\* sendAppendEntriesToOnePeer builds its arguments: heartbeat, a new command
\* and a retry after a conflict all send the whole suffix from nextIndex.
SendAppendEntries(s, p) ==
    LET prev == nextIndex[s][p] - 1
    IN  /\ myRole[s] = Leader
        /\ Cardinality(appendReqs) < MaxAppendCalls
        /\ appendReqs' = appendReqs \cup
              {[src |-> s, dst |-> p, inst |-> inst[s], term |-> currentTerm[s],
                prevLogIndex |-> prev,
                prevLogTerm  |-> IF prev > 0 THEN log[s][prev].term ELSE 0,
                entries      |-> SubSeq(log[s], prev + 1, Len(log[s])),
                leaderCommit |-> commitIndex[s]]}
        /\ UNCHANGED <<stable, progress, roles, votes, leading, instances,
                       voteNet, appendReps, history>>

AppendReply(m, term, success, conflictTerm, conflictIndex) ==
    [src |-> m.dst, dst |-> m.src, inst |-> m.inst, reqTerm |-> m.term,
     prevLogIndex |-> m.prevLogIndex, sent |-> Len(m.entries), term |-> term,
     success |-> success, conflictTerm |-> conflictTerm,
     conflictIndex |-> conflictIndex]

RejectStaleAppend(s, m) ==
    /\ m.dst = s
    /\ m.term < currentTerm[s]
    /\ appendReps' = appendReps \cup
          {AppendReply(m, currentTerm[s], FALSE, 0, 0)}
    /\ UNCHANGED <<stable, progress, roles, votes, leading, instances,
                   voteNet, appendReqs, history>>

\* AppendEntries (3) and (4): adopt the sender's term and recognise it as leader.
Recognises(s, m) == m.term > currentTerm[s] \/ myRole[s] = Candidate

VoteAfter(s, m) == IF Recognises(s, m) THEN m.src ELSE votedFor[s]

RecogniseLeader(s, m) ==
    /\ m.dst = s
    /\ m.term >= currentTerm[s]
    /\ currentTerm' = [currentTerm EXCEPT ![s] = m.term]
    /\ votedFor' = [votedFor EXCEPT ![s] = VoteAfter(s, m)]
    /\ myRole' = [myRole EXCEPT ![s] = IF Recognises(s, m) THEN Follower ELSE @]
    /\ UNCHANGED <<inStartLeader, votes, leading, instances, voteNet,
                   appendReqs, history>>

\* AppendEntries (5), the log consistency check.
PrevMatches(s, m) ==
    /\ m.prevLogIndex <= Len(log[s])
    /\ m.prevLogIndex > 0 => log[s][m.prevLogIndex].term = m.prevLogTerm

\* AppendEntries (5) fails: no entry at prevLogIndex, or one of another term.
RejectAppend(s, m) ==
    /\ RecogniseLeader(s, m)
    /\ UNCHANGED <<log, progress>>
    /\ IF Recognises(s, m)
       THEN Persist(s, m.term, VoteAfter(s, m), log[s])
       ELSE UNCHANGED persisted
    /\ \/ /\ m.prevLogIndex > Len(log[s])
          /\ appendReps' = appendReps \cup
                {AppendReply(m, m.term, FALSE, -1, Len(log[s]) + 1)}
       \/ /\ m.prevLogIndex \in 1..Len(log[s])
          /\ log[s][m.prevLogIndex].term # m.prevLogTerm
          /\ LET t == log[s][m.prevLogIndex].term
                 first == Min({i \in 1..Len(log[s]) : log[s][i].term = t})
             IN  appendReps' = appendReps \cup
                    {AppendReply(m, m.term, FALSE, t, first)}

\* Mutant: AppendEntries (8) without `if args.LeaderCommit > rf.commitIndex`.
FollowerCommitAlways(s, m, l) == Min({m.leaderCommit, Len(l)})

\* The index AppendEntries (8) commits up to.
FollowerCommit(s, m, l) ==
    IF m.leaderCommit > commitIndex[s]
    THEN Min({m.leaderCommit, Len(l)})
    ELSE commitIndex[s]

AcceptAppend(s, m) ==
    LET l == MergeLog(log[s], m.prevLogIndex, m.entries)
        c == FollowerCommit(s, m, l)
    IN  /\ RecogniseLeader(s, m)
        /\ PrevMatches(s, m)
        /\ log' = [log EXCEPT ![s] = l]
        /\ Persist(s, m.term, VoteAfter(s, m), l)
        /\ commitIndex' = [commitIndex EXCEPT ![s] = c]
        /\ Apply(s, l, c)
        /\ appendReps' = appendReps \cup {AppendReply(m, m.term, TRUE, 0, 0)}

\* Mutants: the leader's own matchIndex entry follows its log, so that it is
\* counted twice for new entries too; or entries of any term are counted.
LeaderCommitSelfTwice(s, match) ==
    Max({commitIndex[s]} \cup
        {n \in (commitIndex[s] + 1)..Len(log[s]) :
            /\ log[s][n].term = currentTerm[s]
            /\ Majority(1 + Cardinality({i \in Server :
                                            match[i] >= n \/ i = s}))})
LeaderCommitAnyTerm(s, match) ==
    Max({commitIndex[s]} \cup
        {n \in (commitIndex[s] + 1)..Len(log[s]) :
            Majority(1 + Cardinality({i \in Server : match[i] >= n}))})

\* The largest n of the current term that enough matchIndex entries reach.  The
\* count starts at one for the leader, whose own matchIndex entry (its log's
\* length at its election) is then counted like any other.
LeaderCommit(s, match) ==
    Max({commitIndex[s]} \cup
        {n \in (commitIndex[s] + 1)..Len(log[s]) :
            /\ log[s][n].term = currentTerm[s]
            /\ Majority(1 + Cardinality({i \in Server : match[i] >= n}))})

\* Mutant: without `rf.currentTerm != args.Term`.
AnyReply(s, r) ==
    /\ r.dst = s /\ r.inst = inst[s]
    /\ r.term <= currentTerm[s]
    /\ myRole[s] = Leader

\* The reply is to a request of the term this server still leads.
CurrentReply(s, r) ==
    /\ r.dst = s /\ r.inst = inst[s]
    /\ r.term <= currentTerm[s]
    /\ r.reqTerm = currentTerm[s]
    /\ myRole[s] = Leader

HandleAppendSuccess(s, r) ==
    LET index == r.prevLogIndex + r.sent
        match == [matchIndex[s] EXCEPT ![r.src] = index]
        c     == LeaderCommit(s, match)
    IN  /\ CurrentReply(s, r)
        /\ r.success
        /\ matchIndex' = [matchIndex EXCEPT ![s] = match]
        /\ nextIndex' = [nextIndex EXCEPT ![s][r.src] = index + 1]
        /\ commitIndex' = [commitIndex EXCEPT ![s] = c]
        /\ Apply(s, log[s], c)
        /\ UNCHANGED <<stable, roles, votes, instances, voteNet, appendNet,
                       history>>

\* Fast backtracking: skip the whole conflicting term.  When the leader has no
\* entry of a term above it, nextIndex stays as it is.
BacktrackTo(s, r) ==
    LET above == {i \in 1..Len(log[s]) : log[s][i].term > r.conflictTerm}
        found == \E i \in 1..Len(log[s]) :
                    /\ log[s][i].term = r.conflictTerm
                    /\ \A j \in above : i < j
    IN  IF r.conflictTerm <= 0
        THEN r.conflictIndex
        ELSE IF above = {}
             THEN nextIndex[s][r.src]
             ELSE IF found THEN Min(above) ELSE r.conflictIndex

HandleAppendConflict(s, r) ==
    /\ CurrentReply(s, r)
    /\ ~ r.success
    /\ nextIndex' = [nextIndex EXCEPT ![s][r.src] = BacktrackTo(s, r)]
    /\ UNCHANGED <<stable, progress, roles, votes, matchIndex, instances,
                   voteNet, appendNet, history>>

-----------------------------------------------------------------------------
(* Crashes. *)

\* crash1 then start1: Make reads back what the Persister p holds; everything
\* else starts afresh, and the replies owed to the old incarnation are lost.
RestartFrom(s, p) ==
    /\ restarts < MaxRestarts
    /\ restarts' = restarts + 1
    /\ inst' = [inst EXCEPT ![s] = restarts + 1]
    /\ persisted' = [persisted EXCEPT ![s] = p]
    /\ currentTerm' = [currentTerm EXCEPT ![s] = p.currentTerm]
    /\ votedFor' = [votedFor EXCEPT ![s] = p.votedFor]
    /\ log' = [log EXCEPT ![s] = p.log]
    /\ commitIndex' = [commitIndex EXCEPT ![s] = 0]
    /\ lastApplied' = [lastApplied EXCEPT ![s] = 0]
    /\ myRole' = [myRole EXCEPT ![s] = Follower]
    /\ inStartLeader' = [inStartLeader EXCEPT ![s] = FALSE]
    /\ votingRound' = [votingRound EXCEPT ![s] = 0]
    /\ votesGranted' = [votesGranted EXCEPT ![s] = [k \in Round |-> {}]]
    /\ nextIndex' = [nextIndex EXCEPT ![s] = [p2 \in Server |-> 1]]
    /\ matchIndex' = [matchIndex EXCEPT ![s] = [p2 \in Server |-> 0]]
    /\ UNCHANGED <<applied, voteNet, appendNet, history>>

Restart(s) == RestartFrom(s, persisted[s])

\* The crash falls between the two persist() calls of RequestVote: the newer
\* term is saved, the vote is not.
CrashInRequestVote(s, m) ==
    /\ m.dst = s
    /\ m.term > currentTerm[s]
    /\ RestartFrom(s, [currentTerm |-> m.term, votedFor |-> Nil,
                       log |-> log[s]])

\* The crash falls after the persist() of convertToFollower, before the log is
\* merged, or after the log is saved, before anything is applied.
CrashInAppendEntries(s, m) ==
    /\ m.dst = s
    /\ m.term >= currentTerm[s]
    /\ \/ /\ Recognises(s, m)
          /\ RestartFrom(s, [currentTerm |-> m.term, votedFor |-> m.src,
                             log |-> log[s]])
       \/ /\ PrevMatches(s, m)
          /\ RestartFrom(s, [currentTerm |-> m.term,
                 votedFor |-> VoteAfter(s, m),
                 log |-> MergeLog(log[s], m.prevLogIndex, m.entries)])

-----------------------------------------------------------------------------
Next ==
    \/ \E s \in Server :
          \/ ElectionTimeout(s)
          \/ StartLeader(s)
          \/ StartVoting(s)
          \/ Restart(s)
          \/ \E c \in Command : Start(s, c)
          \/ \E p \in Server \ {s} : SendAppendEntries(s, p)
          \/ \E m \in voteReqs :
                \/ RejectStaleVoteRequest(s, m)
                \/ RequestVote(s, m)
                \/ CrashInRequestVote(s, m)
          \/ \E r \in voteReps : StepDown(s, r) \/ CountVote(s, r)
          \/ \E m \in appendReqs :
                \/ RejectStaleAppend(s, m)
                \/ RejectAppend(s, m)
                \/ AcceptAppend(s, m)
                \/ CrashInAppendEntries(s, m)
          \/ \E r \in appendReps :
                \/ StepDown(s, r)
                \/ HandleAppendSuccess(s, r)
                \/ HandleAppendConflict(s, r)

Spec == Init /\ [][Next]_vars

-----------------------------------------------------------------------------
(* Properties. *)

StableType ==
    /\ currentTerm \in [Server -> Nat]
    /\ votedFor \in [Server -> Server \cup {Nil}]
    /\ log \in [Server -> Seq(Entry)]
    /\ persisted \in [Server -> PersistentState]

ProgressType ==
    /\ commitIndex \in [Server -> Nat]
    /\ lastApplied \in [Server -> Nat]
    /\ applied \in [Server -> Seq(Entry)]

RoleType ==
    /\ myRole \in [Server -> {Leader, Follower, Candidate}]
    /\ inStartLeader \in [Server -> BOOLEAN]
    /\ restarts \in Nat
    /\ inst \in [Server -> Nat]

VoteType ==
    /\ votingRound \in [Server -> 0..MaxRounds]
    /\ votesGranted \in [Server -> [Round -> SUBSET Server]]
    /\ voteReqs \subseteq RequestVoteArgs
    /\ voteReps \subseteq RequestVoteReply

AppendType ==
    /\ nextIndex \in [Server -> [Server -> Nat]]
    /\ matchIndex \in [Server -> [Server -> Nat]]
    /\ appendReqs \subseteq AppendEntriesArgs
    /\ appendReps \subseteq AppendEntriesReply

HistoryType ==
    /\ elected \subseteq [term : Nat, server : Server]
    /\ started \subseteq [index : Nat, term : Nat, command : Command]

\* Every variable holds what its Go declaration allows; the indices that travel
\* in messages and come back are never negative.
TypeOK ==
    /\ StableType
    /\ ProgressType
    /\ RoleType
    /\ VoteType
    /\ AppendType
    /\ HistoryType

\* At most one server is ever elected in a term (5.2), although a candidate may
\* run several rounds of startVoting in one term, although AppendEntries
\* overwrites votedFor with the leader's id, and although voters crash between
\* the two persist() calls of a handler.  config.go checkOneLeader fails a test
\* with "term %d has %d (>1) leaders".
ElectionSafety ==
    \A a, b \in elected : a.term = b.term => a.server = b.server

\* Two logs that hold an entry of the same term at the same index are equal up
\* to that index (5.3): the merge of AppendEntries (6), (7) may be handed old,
\* short or repeated requests in any order.
LogMatching ==
    \A s, t \in Server :
        \A i \in (1..Len(log[s])) \cap (1..Len(log[t])) :
            log[s][i].term = log[t][i].term =>
                SubSeq(log[s], 1, i) = SubSeq(log[t], 1, i)

\* Two servers never deliver different commands for the same index, which is
\* what checkLogs of config.go fails a test for.
StateMachineSafety ==
    \A s, t \in Server :
        \A i \in (1..Len(applied[s])) \cap (1..Len(applied[t])) :
            applied[s][i] = applied[t][i]

\* An entry that was delivered anywhere is on the stable storage of a majority,
\* so it survives any later crash; a leader that counts itself twice or commits
\* an entry of an older term (Figure 8) would break it.
AppliedIsDurable ==
    \A s \in Server : \A i \in 1..Len(applied[s]) :
        Majority(Cardinality({t \in Server :
            /\ i <= Len(persisted[t].log)
            /\ persisted[t].log[i] = applied[s][i]}))

\* A leader no server has outrun holds every entry that was ever delivered
\* (5.4): the up-to-date check of RequestVote keeps out the others.
LeaderCompleteness ==
    \A s \in Server :
        (/\ myRole[s] = Leader
         /\ \A t \in Server : currentTerm[t] <= currentTerm[s])
        => \A t \in Server : IsPrefix(applied[t], log[s])

\* What the leader believes of a follower of its own term is true, whatever
\* order the replies came in: the follower's log agrees with the leader's up to
\* matchIndex.
MatchIndexTruthful ==
    \A s, p \in Server :
        (/\ myRole[s] = Leader
         /\ p # s
         /\ currentTerm[p] = currentTerm[s])
        => /\ matchIndex[s][p] <= Len(log[p])
           /\ IsPrefix(SubSeq(log[p], 1, matchIndex[s][p]), log[s])

\* nextIndex of a leader stays within its log, so that the slice that
\* sendAppendEntriesToOnePeer takes from it never panics.  The code has dropped
\* the check for nextIndex < 1 and says the conflict index makes it needless.
NextIndexInRange ==
    \A s, p \in Server :
        myRole[s] = Leader => nextIndex[s][p] \in 1..(Len(log[s]) + 1)

\* Persistent state is "updated on stable storage before responding to RPCs":
\* between any two critical sections the Persister holds what memory holds.
PersistedIsCurrent ==
    \A s \in Server :
        persisted[s] = [currentTerm |-> currentTerm[s],
                        votedFor |-> votedFor[s], log |-> log[s]]

\* Once an index was delivered at a server, no later step, of this incarnation
\* or of one restarted from the Persister, delivers another command for it.
DeliveryIsFinal ==
    [][\A s \in Server : IsPrefix(applied[s], applied'[s])]_vars

\* The declarations of Raft say that currentTerm (over crashes too), and within
\* an incarnation commitIndex and lastApplied, increase monotonically.
Monotonic ==
    [][\A s \in Server :
          /\ currentTerm'[s] >= currentTerm[s]
          /\ inst'[s] = inst[s] =>
                /\ commitIndex'[s] >= commitIndex[s]
                /\ lastApplied'[s] >= lastApplied[s]]_vars

\* After a conflict the leader decrements nextIndex before it retries: the next
\* request starts below the one that was refused.
ConflictDecrements ==
    \A s \in Server : \A r \in appendReps :
        (CurrentReply(s, r) /\ ~ r.success) =>
            BacktrackTo(s, r) <= r.prevLogIndex

\* What a user of the package is promised: one log, whose entries were handed to
\* Start and sit at the index Start returned, delivered to every server in order.
LongestApplied ==
    applied[CHOOSE s \in Server :
                \A t \in Server : Len(applied[t]) <= Len(applied[s])]

Abstract == INSTANCE ReplicatedLog WITH
                chosen <- LongestApplied, delivered <- applied

\* The peers together implement one replicated log: Start never returns the same
\* (index, term) twice, and what applyCh delivers anywhere is a growing prefix of
\* one sequence of started commands, over elections, lost and late calls and
\* crashes.
ImplementsReplicatedLog == Abstract!Spec

=============================================================================
