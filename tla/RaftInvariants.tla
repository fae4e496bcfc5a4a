--------------------------- MODULE RaftInvariants ---------------------------
(***************************************************************************)
(* The strengthening of Raft's safety properties that every step keeps.    *)
(* RaftProofs (types, elections), RaftLogProofs (logs) and                 *)
(* RaftCommitProofs (what is committed) prove that it does; TLC checks it  *)
(* on small clusters first.                                                *)
(***************************************************************************)
EXTENDS Raft

\* The apply loops always catch up with commitIndex before they let go of the
\* lock, so what was committed was delivered.
DeliveredInv ==
    \A s \in Server :
        /\ commitIndex[s] <= lastApplied[s]
        /\ lastApplied[s] <= Len(applied[s])

\* The reach of a request within the log of the leader that sent it, as long as
\* that server still leads the term of the request.
WithinSender(s, term, reach) ==
    /\ term <= currentTerm[s]
    /\ term = currentTerm[s] => myRole[s] # Candidate
    /\ (term = currentTerm[s] /\ myRole[s] = Leader) => reach <= Len(log[s])

AppendReqInv ==
    \A m \in appendReqs :
        /\ m.src # m.dst
        /\ WithinSender(m.src, m.term, m.prevLogIndex + Len(m.entries))

\* A reply reports a term no lower than the request's, and a conflict it reports
\* for that term lies at or before prevLogIndex.
AppendRepInv ==
    \A r \in appendReps :
        /\ r.reqTerm <= r.term
        /\ WithinSender(r.dst, r.reqTerm, r.prevLogIndex + r.sent)
        /\ (~ r.success /\ r.term = r.reqTerm) =>
               r.conflictIndex \in 1..r.prevLogIndex

\* No index of the code is ever out of range: together with TypeOK and
\* PersistedIsCurrent this is inductive.
IndexInv ==
    /\ TypeOK
    /\ PersistedIsCurrent
    /\ DeliveredInv
    /\ NextIndexInRange
    /\ AppendReqInv
    /\ AppendRepInv

-----------------------------------------------------------------------------
(* Why at most one server is elected in a term. *)

\* Peer v granted its vote of this term to c.
Voted(v, term, c) ==
    \E r \in voteReps :
        r.granted /\ r.src = v /\ r.reqTerm = term /\ r.dst = c

\* A peer remembers a vote it granted until its term is over, and remains a
\* follower until then.
GrantInv ==
    \A r \in voteReps : r.granted =>
        /\ r.src # r.dst
        /\ r.reqTerm <= currentTerm[r.src]
        /\ r.reqTerm = currentTerm[r.src] =>
              votedFor[r.src] = r.dst /\ myRole[r.src] = Follower

\* A peer grants the vote of a term to one candidate.
GrantUnique ==
    \A a, b \in voteReps :
        (a.granted /\ b.granted /\ a.src = b.src /\ a.reqTerm = b.reqTerm)
        => a.dst = b.dst

\* Candidates and leaders voted for themselves.
SelfVote ==
    \A s \in Server : myRole[s] # Follower => votedFor[s] = s

\* What a candidate has counted are votes of its current term.
TallyInv ==
    \A s \in Server : myRole[s] = Candidate =>
        \A k \in Round : \A v \in votesGranted[s][k] :
            v # s /\ Voted(v, currentTerm[s], s)

\* A server that was elected has not voted for another in that term, never will,
\* and had the votes of a majority.
ElectedInv ==
    \A e \in elected :
        /\ e.term <= currentTerm[e.server]
        /\ e.term = currentTerm[e.server] =>
              votedFor[e.server] = e.server /\ myRole[e.server] # Candidate
        /\ \A c \in Server : ~ Voted(e.server, e.term, c)
        /\ \E Q \in SUBSET Server :
              /\ e.server \in Q
              /\ Majority(Cardinality(Q))
              /\ \A v \in Q \ {e.server} : Voted(v, e.term, e.server)

\* Only elected servers lead, and only they ever sent AppendEntries.
LeadersInv ==
    /\ \A s \in Server : myRole[s] = Leader =>
          [term |-> currentTerm[s], server |-> s] \in elected
    /\ \A m \in appendReqs : [term |-> m.term, server |-> m.src] \in elected
    /\ \A m \in voteReqs : m.src # m.dst

ElectionInv ==
    /\ GrantInv
    /\ GrantUnique
    /\ SelfVote
    /\ TallyInv
    /\ ElectedInv
    /\ LeadersInv
-----------------------------------------------------------------------------
(***************************************************************************)
(* Why logs agree.  L[t] is the log of the leader of term t as it was when *)
(* that server last led the term, and <<>> when nobody ever did.  Logs are *)
(* overwritten, so L cannot be read off the state: the proofs carry it     *)
(* along, extending it when a server is elected and when it takes a        *)
(* command.                                                                *)
(***************************************************************************)

\* The logs l and k are equal up to index n.
SamePrefix(l, k, n) ==
    n <= Len(l) /\ n <= Len(k) /\ \A j \in 1..n : l[j] = k[j]

\* Up to each of its entries, l is the log of the leader who made the entry.
Recorded(L, l) ==
    \A i \in 1..Len(l) : SamePrefix(l, L[l[i].term], i)

\* The log l holds the entry that Start returned x for.
Holds(l, x) == x.index <= Len(l) /\ l[x.index].term = x.term

\* A term has a log only if it has a leader; the entries of its own term are those
\* that Start has appended, the others are older.
LeaderLogInv(L) ==
    /\ \A t \in Nat : /\ L[t] # <<>> => \E e \in elected : e.term = t
                      /\ Recorded(L, L[t])
                      /\ \A i \in 1..Len(L[t]) :
                            /\ L[t][i].term <= t
                            /\ L[t][i].term = t =>
                                  [index |-> i, term |-> t,
                                   command |-> L[t][i].command] \in started
    /\ \A x \in started :
          /\ x.index \in 1..Len(L[x.term])
          /\ L[x.term][x.index] = [term |-> x.term, command |-> x.command]

ServerLogInv(L) ==
    \A s \in Server :
        /\ Recorded(L, log[s])
        /\ \A i \in 1..Len(log[s]) : log[s][i].term <= currentTerm[s]
        /\ myRole[s] = Leader => log[s] = L[currentTerm[s]]

\* The last index that a request, or the request a reply answers, reaches.
Reach(m) == m.prevLogIndex + Len(m.entries)
RepReach(r) == r.prevLogIndex + r.sent

\* A request carries the end of its leader's log, and everything the leader had
\* when it was elected lies within its reach.
RequestLogInv(L) ==
    \A m \in appendReqs :
        /\ Reach(m) <= Len(L[m.term])
        /\ m.prevLogIndex > 0 => L[m.term][m.prevLogIndex].term = m.prevLogTerm
        /\ \A k \in 1..Len(m.entries) :
              m.entries[k] = L[m.term][m.prevLogIndex + k]
        /\ \A i \in 1..Len(L[m.term]) : L[m.term][i].term < m.term => i <= Reach(m)

\* A follower that has accepted a request agrees with the leader up to its reach
\* as long as their term lasts.
ReplyLogInv(L) ==
    \A r \in appendReps : r.success =>
        /\ r.src # r.dst
        /\ r.reqTerm <= currentTerm[r.src]
        /\ RepReach(r) <= Len(L[r.reqTerm])
        /\ r.reqTerm = currentTerm[r.src] =>
              SamePrefix(log[r.src], L[r.reqTerm], RepReach(r))

\* Server p has answered, in this term, that it agrees with the leader up to n.
Answered(p, term, n) ==
    \E r \in appendReps :
        r.success /\ r.src = p /\ r.reqTerm = term /\ RepReach(r) = n

\* What a leader believes of a peer that peer has answered; and the leader's own
\* entry of matchIndex is below every entry of its term.
MatchInv ==
    \A s \in Server : myRole[s] = Leader =>
        /\ \A p \in Server \ {s} :
              matchIndex[s][p] = 0 \/ Answered(p, currentTerm[s], matchIndex[s][p])
        /\ matchIndex[s][s] <= Len(log[s])
        /\ \A i \in 1..Len(log[s]) :
              log[s][i].term = currentTerm[s] => matchIndex[s][s] < i

LogInv(L) ==
    /\ LeaderLogInv(L)
    /\ ServerLogInv(L)
    /\ RequestLogInv(L)
    /\ ReplyLogInv(L)
    /\ MatchInv

-----------------------------------------------------------------------------
(***************************************************************************)
(* Why what was committed stays.  A server acknowledges the call x of      *)
(* Start when it takes the command as leader or accepts a request of that  *)
(* term that reaches its index.                                            *)
(***************************************************************************)
Acked(q, x) ==
    \/ [term |-> x.term, server |-> q] \in elected
    \/ \E r \in appendReps :
          r.success /\ r.src = q /\ r.reqTerm = x.term /\ x.index <= RepReach(r)

\* A majority has acknowledged x.
Chosen(x) ==
    \E Q \in SUBSET Server :
        Majority(Cardinality(Q)) /\ \A q \in Q : Acked(q, x)

\* A majority has not acknowledged x and never will: its terms are later.
Dead(x) ==
    \E Q \in SUBSET Server :
        /\ Majority(Cardinality(Q))
        /\ \A q \in Q : currentTerm[q] > x.term /\ ~ Acked(q, x)

\* Leaders of later terms hold what may still be chosen.
LeaderSafe(L) ==
    \A x \in started : \A e \in elected :
        x.term < e.term => Dead(x) \/ Holds(L[e.term], x)

\* So do the servers that have acknowledged it.
AckInv ==
    \A x \in started : \A q \in Server :
        Acked(q, x) => /\ x.term <= currentTerm[q]
                       /\ Dead(x) \/ Holds(log[q], x)

\* A request for votes describes the log of the candidate, and no vote is granted
\* ahead of the candidate's term.
VoteReqInv ==
    /\ \A m \in voteReqs :
          /\ m.term <= currentTerm[m.src]
          /\ (m.term = currentTerm[m.src] /\ myRole[m.src] = Candidate) =>
                /\ m.lastLogIndex = Len(log[m.src])
                /\ m.lastLogTerm = LastLogTerm(log[m.src])
    /\ \A r \in voteReps : r.granted => r.reqTerm <= currentTerm[r.dst]

\* A candidate that was granted a vote holds what the voter has acknowledged.
GrantLogInv ==
    \A r \in voteReps :
        (r.granted /\ r.reqTerm = currentTerm[r.dst] /\ myRole[r.dst] = Candidate)
        => \A x \in started :
              (x.term < r.reqTerm /\ Acked(r.src, x)) =>
                  Dead(x) \/ Holds(log[r.dst], x)

\* The first n entries of l were chosen, by terms up to t.
ChosenUpTo(L, l, n, t) ==
    n = 0 \/ \E x \in started :
        Chosen(x) /\ x.term <= t /\ n <= x.index /\ SamePrefix(l, L[x.term], n)

\* Only what was chosen is committed, announced and delivered.
CommitInv(L) ==
    /\ \A s \in Server :
          /\ ChosenUpTo(L, log[s], commitIndex[s], currentTerm[s])
          /\ \E t \in Nat : ChosenUpTo(L, applied[s], Len(applied[s]), t)
    /\ \A m \in appendReqs :
          /\ m.leaderCommit <= Reach(m)
          /\ ChosenUpTo(L, L[m.term], m.leaderCommit, m.term)

SafetyInv(L) ==
    /\ LeaderSafe(L)
    /\ AckInv
    /\ VoteReqInv
    /\ GrantLogInv
    /\ CommitInv(L)

\* The inductive invariant about logs.
HistoryInv ==
    \E L \in [Nat -> Seq(Entry)] : LogInv(L) /\ SafetyInv(L)
=============================================================================
