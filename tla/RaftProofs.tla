----------------------------- MODULE RaftProofs -----------------------------
(***************************************************************************)
(* Raft: IndexInv and ElectionInv of RaftInvariants hold together.  The    *)
(* election argument needs the types, and the index bounds of a leader     *)
(* need that no other server sends AppendEntries in its term.  First the   *)
(* types, one group of variables at a time, then elections, then the       *)
(* indices of leaders and of messages, then the theorems that follow.      *)
(***************************************************************************)
EXTENDS RaftInvariants, FiniteSetTheorems, SequenceTheorems, WellFoundedInduction, TLAPS

\* A nonempty set of natural numbers has a least element.
LEMMA NatMinimum ==
    ASSUME NEW T \in SUBSET Nat, T # {}
    PROVE  /\ Min(T) \in T
           /\ \A y \in T : Min(T) <= y
  <1>1. PICK Less : /\ IsWellFoundedOn(Less, Nat)
                    /\ \A x, y \in Nat : y < x => <<y, x>> \in Less
    <2>1. \A x, y \in Nat : y < x => <<y, x>> \in OpToRel(<, Nat)
      BY DEF OpToRel
    <2>. QED  BY <2>1, NatLessThanWellFounded
  <1>2. PICK x \in T : \A y \in T : ~ (<<y, x>> \in Less)
    BY <1>1, WFMin
  <1>3. \A y \in T : ~ (y < x)
    BY <1>1, <1>2
  <1>4. \A y \in T : x <= y
    BY <1>3
  <1>. QED  BY <1>4 DEF Min

\* A nonempty bounded set of natural numbers has a greatest element.
LEMMA NatMaximum ==
    ASSUME NEW n \in Nat, NEW T \in SUBSET (0..n), T # {}
    PROVE  /\ Max(T) \in T
           /\ \A y \in T : y <= Max(T)
  <1>. DEFINE D == {k \in Nat : \E y \in T : y = n - k}
  <1>1. \A y \in T : y \in 0..n /\ n - y \in D
    <2>. TAKE y \in T
    <2>1. y \in 0..n /\ n - y \in Nat /\ y = n - (n - y)
      OBVIOUS
    <2>. QED  BY <2>1
  <1>2. Min(D) \in D /\ \A k \in D : Min(D) <= k
    <2>1. D \in SUBSET Nat /\ D # {}
      BY <1>1
    <2>. QED  BY <2>1, NatMinimum
  <1>3. PICK x \in T : x = n - Min(D)
    BY <1>2
  <1>4. \A y \in T : y <= x
    <2>. TAKE y \in T
    <2>1. Min(D) <= n - y
      BY <1>1, <1>2
    <2>2. Min(D) \in Nat
      BY <1>2
    <2>. QED  BY <1>1, <1>3, <2>1, <2>2
  <1>. QED  BY <1>1, <1>4 DEF Max

\* The prefix of the new entries that the log holds already.
LEMMA MatchingEntriesType ==
    ASSUME NEW l \in Seq(Entry), NEW prev \in Nat, NEW entries \in Seq(Entry),
           prev <= Len(l)
    PROVE  /\ MatchingEntries(l, prev, entries) \in 0..Len(entries)
           /\ prev + MatchingEntries(l, prev, entries) <= Len(l)
           /\ \A j \in 1..MatchingEntries(l, prev, entries) :
                  l[prev + j].term = entries[j].term
  <1>. DEFINE T == {k \in 0..Len(entries) :
            /\ prev + k <= Len(l)
            /\ \A j \in 1..k : l[prev + j].term = entries[j].term}
  <1>1. Len(entries) \in Nat /\ Len(l) \in Nat
    OBVIOUS
  <1>2. 0 \in T
    BY <1>1
  <1>3. Max(T) \in T
    BY <1>1, <1>2, NatMaximum
  <1>. QED  BY <1>3 DEF MatchingEntries

\* The merge of a log with new entries is a log, and it reaches past them.
LEMMA MergeLogType ==
    ASSUME NEW l \in Seq(Entry), NEW prev \in Nat, NEW entries \in Seq(Entry),
           prev <= Len(l)
    PROVE  /\ MergeLog(l, prev, entries) \in Seq(Entry)
           /\ Len(MergeLog(l, prev, entries)) >= prev + Len(entries)
  <1>. DEFINE k == MatchingEntries(l, prev, entries)
  <1>1. k \in 0..Len(entries) /\ prev + k <= Len(l)
    BY MatchingEntriesType
  <1>2. Len(entries) \in Nat /\ Len(l) \in Nat
    OBVIOUS
  <1>. HIDE DEF k
  <1>3. SubSeq(l, 1, prev + k) \in Seq(Entry) /\ Len(SubSeq(l, 1, prev + k)) = prev + k
    BY <1>1, <1>2, SubSeqProperties
  <1>4. SubSeq(entries, k + 1, Len(entries)) \in Seq(Entry)
        /\ Len(SubSeq(entries, k + 1, Len(entries))) = Len(entries) - k
    BY <1>1, <1>2, SubSeqProperties
  <1>5. CASE k = Len(entries)
    BY <1>1, <1>2, <1>5 DEF MergeLog, k
  <1>6. CASE k # Len(entries)
    BY SMTT(40), <1>1, <1>2, <1>3, <1>4, <1>6, ConcatProperties DEF MergeLog, k
  <1>. QED  BY <1>5, <1>6

\* Freshly made peers satisfy the invariant.
LEMMA InitIndexInv == Init => IndexInv
  <1>. SUFFICES ASSUME Init PROVE IndexInv
    OBVIOUS
  <1>. USE DEF Init
  <1>0. MaxRounds \in Nat
    BY BoundAssumption
  <1>1. TypeOK
    BY <1>0 DEF TypeOK, StableType, ProgressType, RoleType, VoteType,
              AppendType, HistoryType, PersistentState
  <1>2. PersistedIsCurrent /\ DeliveredInv /\ NextIndexInRange
    BY EmptySeq DEF PersistedIsCurrent, DeliveredInv, NextIndexInRange
  <1>3. AppendReqInv /\ AppendRepInv
    BY DEF AppendReqInv, AppendRepInv
  <1>. QED  BY <1>1, <1>2, <1>3 DEF IndexInv

\* The Max of SequencesExt of two numbers, as Apply uses it.
LEMMA MaxOfTwo ==
    ASSUME NEW a \in Nat, NEW b \in Nat
    PROVE  /\ Max({a, b}) \in Nat
           /\ Max({a, b}) = IF a >= b THEN a ELSE b
  <1>1. {a, b} \in SUBSET (0..(a + b)) /\ {a, b} # {}
    OBVIOUS
  <1>2. Max({a, b}) \in {a, b} /\ \A y \in {a, b} : y <= Max({a, b})
    BY <1>1, NatMaximum
  <1>. QED  BY <1>2

\* The Min of two numbers, getMin of the code.
LEMMA MinOfTwo ==
    ASSUME NEW a \in Nat, NEW b \in Nat
    PROVE  /\ Min({a, b}) \in Nat
           /\ Min({a, b}) = IF a <= b THEN a ELSE b
  <1>1. {a, b} \in SUBSET Nat /\ {a, b} # {}
    OBVIOUS
  <1>2. Min({a, b}) \in {a, b} /\ \A y \in {a, b} : Min({a, b}) <= y
    BY <1>1, NatMinimum
  <1>. QED  BY <1>2

\* What Apply delivers is a sequence of entries that never gets shorter.
LEMMA ApplyType ==
    ASSUME ProgressType, DeliveredInv, NEW s \in Server, NEW l \in Seq(Entry),
           NEW upto \in Nat, upto <= Len(l) \/ upto = commitIndex[s],
           Apply(s, l, upto)
    PROVE  /\ lastApplied' \in [Server -> Nat]
           /\ applied' \in [Server -> Seq(Entry)]
           /\ upto <= lastApplied'[s]
           /\ lastApplied'[s] <= Len(applied'[s])
           /\ \A t \in Server \ {s} : /\ applied'[t] = applied[t]
                                      /\ lastApplied'[t] = lastApplied[t]
  <1>. DEFINE n == Max({Len(applied[s]), upto})
              d == [i \in 1..n |-> IF i > lastApplied[s] /\ i <= upto
                                   THEN l[i] ELSE applied[s][i]]
              k == Max({lastApplied[s], upto})
  <1>1. /\ applied[s] \in Seq(Entry) /\ Len(applied[s]) \in Nat /\ Len(l) \in Nat
        /\ lastApplied[s] \in Nat /\ commitIndex[s] \in Nat
        /\ commitIndex[s] <= lastApplied[s] /\ lastApplied[s] <= Len(applied[s])
    BY DEF ProgressType, DeliveredInv
  <1>2. n \in Nat /\ n = IF Len(applied[s]) >= upto THEN Len(applied[s]) ELSE upto
    BY <1>1, MaxOfTwo
  <1>3. k \in Nat /\ k = IF lastApplied[s] >= upto THEN lastApplied[s] ELSE upto
    BY <1>1, MaxOfTwo
  <1>4. /\ applied' = [applied EXCEPT ![s] = d]
        /\ lastApplied' = [lastApplied EXCEPT ![s] = k]
    BY DEF Apply
  <1>. HIDE DEF n, k
  <1>5. ASSUME NEW i \in 1..n PROVE d[i] \in Entry
    <2>1. CASE i > lastApplied[s] /\ i <= upto
      <3>1. i \in 1..Len(l)
        BY <1>1, <1>2, <2>1
      <3>. QED  BY <2>1, <3>1, ElementOfSeq
    <2>2. CASE ~ (i > lastApplied[s] /\ i <= upto)
      <3>1. i \in 1..Len(applied[s])
        BY <1>1, <1>2, <2>2
      <3>. QED  BY <1>1, <2>2, <3>1, ElementOfSeq
    <2>. QED  BY <2>1, <2>2
  <1>6. d \in [1..n -> Entry]
    BY <1>5
  <1>7. d \in Seq(Entry) /\ Len(d) = n
    BY <1>2, <1>6
  <1>. HIDE DEF d
  <1>8. applied \in [Server -> Seq(Entry)] /\ lastApplied \in [Server -> Nat]
    BY DEF ProgressType
  <1>. QED  BY <1>1, <1>2, <1>3, <1>4, <1>7, <1>8

-----------------------------------------------------------------------------
(* Type correctness, one group of variables at a time. *)

\* persist() writes a persistent state.
LEMMA PersistType ==
    ASSUME TypeOK, NEW s \in Server, NEW term \in Nat,
           NEW vote \in Server \cup {Nil}, NEW l \in Seq(Entry),
           Persist(s, term, vote, l) \/ UNCHANGED persisted
    PROVE  persisted' \in [Server -> PersistentState]
  <1>1. [currentTerm |-> term, votedFor |-> vote, log |-> l] \in PersistentState
    BY DEF PersistentState
  <1>2. persisted \in [Server -> PersistentState]
    BY DEF TypeOK, StableType
  <1>. QED  BY <1>1, <1>2 DEF Persist

\* The log AppendEntries assigns after its consistency check is a log.
LEMMA MergedLogType ==
    ASSUME TypeOK, NEW s \in Server, NEW m \in appendReqs, PrevMatches(s, m)
    PROVE  /\ MergeLog(log[s], m.prevLogIndex, m.entries) \in Seq(Entry)
           /\ Len(MergeLog(log[s], m.prevLogIndex, m.entries))
                >= m.prevLogIndex + Len(m.entries)
  <1>1. /\ log[s] \in Seq(Entry)
        /\ m.prevLogIndex \in Nat /\ m.entries \in Seq(Entry)
    BY DEF TypeOK, StableType, AppendType, AppendEntriesArgs
  <1>2. m.prevLogIndex <= Len(log[s])
    BY DEF PrevMatches
  <1>. QED  BY <1>1, <1>2, MergeLogType

\* The fields of an AppendEntries request.
LEMMA AppendArgsType ==
    ASSUME TypeOK, NEW m \in appendReqs
    PROVE  /\ m.src \in Server /\ m.dst \in Server
           /\ m.inst \in Nat /\ m.term \in Nat /\ m.prevLogIndex \in Nat
           /\ m.leaderCommit \in Nat /\ m.entries \in Seq(Entry)
  BY DEF TypeOK, AppendType, AppendEntriesArgs

\* The fields of a RequestVote request.
LEMMA VoteArgsType ==
    ASSUME TypeOK, NEW m \in voteReqs
    PROVE  /\ m.src \in Server /\ m.dst \in Server
           /\ m.inst \in Nat /\ m.term \in Nat /\ m.round \in Round
  BY DEF TypeOK, VoteType, RequestVoteArgs

\* The fields of an AppendEntries reply.
LEMMA AppendReplyType ==
    ASSUME TypeOK, NEW r \in appendReps
    PROVE  /\ r.src \in Server /\ r.dst \in Server /\ r.inst \in Nat
           /\ r.reqTerm \in Nat /\ r.term \in Nat /\ r.prevLogIndex \in Nat
           /\ r.sent \in Nat /\ r.conflictIndex \in Nat /\ r.conflictTerm \in Int
           /\ r.success \in BOOLEAN
  BY DEF TypeOK, AppendType, AppendEntriesReply

\* The fields of a RequestVote reply.
LEMMA VoteReplyType ==
    ASSUME TypeOK, NEW r \in voteReps
    PROVE  /\ r.src \in Server /\ r.dst \in Server /\ r.inst \in Nat
           /\ r.reqTerm \in Nat /\ r.term \in Nat /\ r.round \in Round
           /\ r.granted \in BOOLEAN
  BY DEF TypeOK, VoteType, RequestVoteReply

\* Whatever a restart reads back was a persistent state.
LEMMA RestartCases ==
    ASSUME IndexInv, NEW s \in Server,
           \/ Restart(s)
           \/ \E m \in voteReqs : CrashInRequestVote(s, m)
           \/ \E m \in appendReqs : CrashInAppendEntries(s, m)
    PROVE  \E p \in PersistentState :
              /\ RestartFrom(s, p)
              /\ p.currentTerm >= currentTerm[s]
  <1>. TypeOK
    BY DEF IndexInv
  <1>. /\ log[s] \in Seq(Entry) /\ currentTerm[s] \in Nat
       /\ votedFor[s] \in Server \cup {Nil} /\ persisted[s] \in PersistentState
    BY DEF TypeOK, StableType
  <1>1. CASE Restart(s)
    <2>1. persisted[s] = [currentTerm |-> currentTerm[s],
                          votedFor |-> votedFor[s], log |-> log[s]]
      BY DEF IndexInv, PersistedIsCurrent
    <2>. QED  BY <1>1, <2>1 DEF Restart
  <1>2. ASSUME NEW m \in voteReqs, CrashInRequestVote(s, m)
        PROVE  \E p \in PersistentState :
                  RestartFrom(s, p) /\ p.currentTerm >= currentTerm[s]
    <2>. DEFINE p == [currentTerm |-> m.term, votedFor |-> Nil, log |-> log[s]]
    <2>1. m.term \in Nat /\ p \in PersistentState
      BY VoteArgsType DEF PersistentState
    <2>. QED  BY <1>2, <2>1 DEF CrashInRequestVote
  <1>3. ASSUME NEW m \in appendReqs, CrashInAppendEntries(s, m)
        PROVE  \E p \in PersistentState :
                  RestartFrom(s, p) /\ p.currentTerm >= currentTerm[s]
    <2>. DEFINE before == [currentTerm |-> m.term, votedFor |-> m.src,
                           log |-> log[s]]
                after == [currentTerm |-> m.term, votedFor |-> VoteAfter(s, m),
                          log |-> MergeLog(log[s], m.prevLogIndex, m.entries)]
    <2>1. m.term \in Nat /\ before \in PersistentState
      BY AppendArgsType DEF PersistentState
    <2>2. PrevMatches(s, m) => after \in PersistentState
      BY <2>1, AppendArgsType, MergedLogType DEF PersistentState, VoteAfter
    <2>. QED  BY <1>3, <2>1, <2>2 DEF CrashInAppendEntries
  <1>. QED  BY <1>1, <1>2, <1>3

\* Every step keeps the type of the term, the vote, the log and the Persister.
LEMMA StableTypeStep == ASSUME IndexInv, Next PROVE StableType'
  <1>. USE DEF stable, StableType
  <1>. TypeOK /\ StableType
    BY DEF IndexInv, TypeOK
  <1>1. ASSUME NEW s \in Server, ElectionTimeout(s) PROVE StableType'
    BY <1>1 DEF ElectionTimeout, ConvertToCandidate, Persist, PersistentState
  <1>2. ASSUME NEW s \in Server, NEW c \in Command, Start(s, c) PROVE StableType'
    <2>. DEFINE l == Append(log[s], [term |-> currentTerm[s], command |-> c])
    <2>1. [term |-> currentTerm[s], command |-> c] \in Entry
      BY DEF Entry
    <2>2. l \in Seq(Entry)
      BY <2>1, AppendProperties
    <2>. QED  BY <2>2, <1>2 DEF Start, Persist, PersistentState
  <1>3. ASSUME NEW s \in Server, NEW m \in voteReqs, RequestVote(s, m)
        PROVE  StableType'
    <2>. DEFINE vote  == IF m.term > currentTerm[s] THEN Nil ELSE votedFor[s]
                grant == vote \in {Nil, m.src} /\ UpToDate(m, log[s])
                final == IF grant THEN m.src ELSE vote
    <2>1. m.term \in Nat /\ final \in Server \cup {Nil}
      BY VoteArgsType
    <2>2. /\ currentTerm' = [currentTerm EXCEPT ![s] = m.term]
          /\ votedFor' = [votedFor EXCEPT ![s] = final]
          /\ \/ Persist(s, m.term, final, log[s])
             \/ UNCHANGED persisted
          /\ log' = log
      BY <1>3 DEF RequestVote
    <2>. HIDE DEF final
    <2>. QED  BY <2>1, <2>2, PersistType
  <1>4. ASSUME NEW s \in Server, NEW r \in voteReps \cup appendReps, StepDown(s, r)
        PROVE  StableType'
    BY <1>4, VoteReplyType, AppendReplyType
    DEF StepDown, ConvertToFollower, Persist, PersistentState
  <1>5. ASSUME NEW s \in Server, NEW r \in voteReps, CountVote(s, r)
        PROVE  StableType'
    <2>1. /\ UNCHANGED <<currentTerm, votedFor, log>>
          /\ \/ Persist(s, currentTerm[s], votedFor[s], log[s])
             \/ UNCHANGED persisted
      BY <1>5 DEF CountVote, ConvertToLeader
    <2>. QED  BY <2>1, PersistType
  <1>6. ASSUME NEW s \in Server, NEW m \in appendReqs, RejectAppend(s, m)
        PROVE  StableType'
    <2>1. m.term \in Nat /\ VoteAfter(s, m) \in Server \cup {Nil}
      BY AppendArgsType DEF VoteAfter
    <2>2. /\ currentTerm' = [currentTerm EXCEPT ![s] = m.term]
          /\ votedFor' = [votedFor EXCEPT ![s] = VoteAfter(s, m)]
          /\ \/ Persist(s, m.term, VoteAfter(s, m), log[s])
             \/ UNCHANGED persisted
          /\ log' = log
      BY <1>6 DEF RejectAppend, RecogniseLeader
    <2>. QED  BY <2>1, <2>2, PersistType
  <1>7. ASSUME NEW s \in Server, NEW m \in appendReqs, AcceptAppend(s, m)
        PROVE  StableType'
    <2>1. MergeLog(log[s], m.prevLogIndex, m.entries) \in Seq(Entry)
      BY <1>7, MergedLogType DEF AcceptAppend
    <2>. QED
      BY <1>7, <2>1, AppendArgsType
      DEF AcceptAppend, RecogniseLeader, VoteAfter, Persist, PersistentState
  <1>8. ASSUME NEW s \in Server, NEW p \in PersistentState, RestartFrom(s, p)
        PROVE  StableType'
    BY <1>8 DEF RestartFrom, PersistentState
  <1>9. ASSUME UNCHANGED stable PROVE StableType'
    BY <1>9
  <1>10. ASSUME NEW s \in Server,
                \/ StartLeader(s)
                \/ StartVoting(s)
                \/ \E p \in Server \ {s} : SendAppendEntries(s, p)
                \/ \E m \in voteReqs : RejectStaleVoteRequest(s, m)
                \/ \E m \in appendReqs : RejectStaleAppend(s, m)
                \/ \E r \in appendReps : HandleAppendSuccess(s, r)
                \/ \E r \in appendReps : HandleAppendConflict(s, r)
         PROVE  UNCHANGED stable
    BY <1>10 DEF StartLeader, StartVoting, SendAppendEntries,
                 RejectStaleVoteRequest, RejectStaleAppend, HandleAppendSuccess,
                 HandleAppendConflict
  <1>. HIDE DEF StableType, stable
  <1>. QED
    BY <1>1, <1>2, <1>3, <1>4, <1>5, <1>6, <1>7, <1>8, <1>9, <1>10, RestartCases
    DEF Next

\* The commit index the follower moves to is within its new log.
LEMMA FollowerCommitType ==
    ASSUME TypeOK, NEW s \in Server, NEW m \in appendReqs, NEW l \in Seq(Entry)
    PROVE  /\ FollowerCommit(s, m, l) \in Nat
           /\ \/ FollowerCommit(s, m, l) <= Len(l)
              \/ FollowerCommit(s, m, l) = commitIndex[s]
  <1>1. m.leaderCommit \in Nat /\ Len(l) \in Nat /\ commitIndex[s] \in Nat
    BY AppendArgsType DEF TypeOK, ProgressType
  <1>2. /\ Min({m.leaderCommit, Len(l)}) \in Nat
        /\ Min({m.leaderCommit, Len(l)}) <= Len(l)
    BY <1>1, MinOfTwo
  <1>. QED  BY <1>1, <1>2 DEF FollowerCommit

\* So is the one the leader moves to, and it never moves back.
LEMMA LeaderCommitType ==
    ASSUME TypeOK, NEW s \in Server, NEW match
    PROVE  /\ LeaderCommit(s, match) \in Nat
           /\ commitIndex[s] <= LeaderCommit(s, match)
           /\ \/ LeaderCommit(s, match) <= Len(log[s])
              \/ LeaderCommit(s, match) = commitIndex[s]
  <1>. DEFINE T == {commitIndex[s]} \cup
                   {n \in (commitIndex[s] + 1)..Len(log[s]) :
                      /\ log[s][n].term = currentTerm[s]
                      /\ Majority(1 + Cardinality({i \in Server : match[i] >= n}))}
  <1>1. commitIndex[s] \in Nat /\ Len(log[s]) \in Nat
    BY DEF TypeOK, ProgressType, StableType
  <1>2. T \in SUBSET (0..(commitIndex[s] + Len(log[s]))) /\ T # {}
    BY <1>1
  <1>3. LeaderCommit(s, match) = Max(T)
    BY DEF LeaderCommit
  <1>4. commitIndex[s] \in T /\ \A n \in T : n <= Len(log[s]) \/ n = commitIndex[s]
    BY <1>1
  <1>. HIDE DEF T
  <1>5. commitIndex[s] + Len(log[s]) \in Nat
    BY <1>1
  <1>6. Max(T) \in T /\ \A y \in T : y <= Max(T)
    BY <1>2, <1>5, NatMaximum
  <1>7. Max(T) \in Nat
    <2>1. Max(T) \in 0..(commitIndex[s] + Len(log[s]))
      BY <1>2, <1>6
    <2>. QED  BY <1>5, <2>1
  <1>8. commitIndex[s] <= Max(T)
    BY <1>4, <1>6
  <1>9. Max(T) <= Len(log[s]) \/ Max(T) = commitIndex[s]
    BY <1>4, <1>6
  <1>. QED  BY <1>3, <1>7, <1>8, <1>9

\* Every step keeps the type of the indices of progress, and the apply loops
\* catch up with commitIndex before they end.
LEMMA ProgressTypeStep == ASSUME IndexInv, Next PROVE ProgressType' /\ DeliveredInv'
  <1>. TypeOK /\ DeliveredInv /\ ProgressType /\ StableType
    BY DEF IndexInv, TypeOK
  <1>1. ASSUME NEW s \in Server, NEW m \in appendReqs, AcceptAppend(s, m)
        PROVE  ProgressType' /\ DeliveredInv'
    <2>. DEFINE l == MergeLog(log[s], m.prevLogIndex, m.entries)
                c == FollowerCommit(s, m, l)
    <2>1. l \in Seq(Entry)
      BY <1>1, MergedLogType DEF AcceptAppend
    <2>2. c \in Nat /\ (c <= Len(l) \/ c = commitIndex[s])
      BY <2>1, FollowerCommitType
    <2>3. commitIndex' = [commitIndex EXCEPT ![s] = c] /\ Apply(s, l, c)
      BY <1>1 DEF AcceptAppend
    <2>. HIDE DEF l, c
    <2>. QED  BY <2>1, <2>2, <2>3, ApplyType DEF ProgressType, DeliveredInv
  <1>2. ASSUME NEW s \in Server, NEW r \in appendReps, HandleAppendSuccess(s, r)
        PROVE  ProgressType' /\ DeliveredInv'
    <2>. DEFINE c == LeaderCommit(s, [matchIndex[s] EXCEPT ![r.src] =
                                         r.prevLogIndex + r.sent])
    <2>1. c \in Nat /\ (c <= Len(log[s]) \/ c = commitIndex[s])
      BY LeaderCommitType
    <2>2. commitIndex' = [commitIndex EXCEPT ![s] = c] /\ Apply(s, log[s], c)
      BY <1>2 DEF HandleAppendSuccess
    <2>3. log[s] \in Seq(Entry)
      BY DEF StableType
    <2>. HIDE DEF c
    <2>. QED  BY <2>1, <2>2, <2>3, ApplyType DEF ProgressType, DeliveredInv
  <1>3. ASSUME NEW s \in Server, NEW p \in PersistentState, RestartFrom(s, p)
        PROVE  ProgressType' /\ DeliveredInv'
    BY <1>3 DEF RestartFrom, ProgressType, DeliveredInv
  <1>4. ASSUME UNCHANGED progress PROVE ProgressType' /\ DeliveredInv'
    BY <1>4 DEF progress, ProgressType, DeliveredInv
  <1>5. ASSUME NEW s \in Server,
               \/ ElectionTimeout(s)
               \/ StartLeader(s)
               \/ StartVoting(s)
               \/ \E c \in Command : Start(s, c)
               \/ \E p \in Server \ {s} : SendAppendEntries(s, p)
               \/ \E m \in voteReqs : RejectStaleVoteRequest(s, m)
               \/ \E m \in voteReqs : RequestVote(s, m)
               \/ \E r \in voteReps \cup appendReps : StepDown(s, r)
               \/ \E r \in voteReps : CountVote(s, r)
               \/ \E m \in appendReqs : RejectStaleAppend(s, m)
               \/ \E m \in appendReqs : RejectAppend(s, m)
               \/ \E r \in appendReps : HandleAppendConflict(s, r)
        PROVE  UNCHANGED progress
    BY <1>5 DEF ElectionTimeout, StartLeader, StartVoting, Start,
                SendAppendEntries, RejectStaleVoteRequest, RequestVote, StepDown,
                CountVote, RejectStaleAppend, RejectAppend, HandleAppendConflict
  <1>. QED  BY <1>1, <1>2, <1>3, <1>4, <1>5, RestartCases DEF Next

\* Every step keeps the type of the roles and the incarnations.
LEMMA RoleTypeStep == ASSUME IndexInv, Next PROVE RoleType'
  <1>. TypeOK /\ RoleType
    BY DEF IndexInv, TypeOK
  <1>1. ASSUME NEW s \in Server, ElectionTimeout(s) PROVE RoleType'
    BY <1>1 DEF ElectionTimeout, ConvertToCandidate, RoleType, instances
  <1>2. ASSUME NEW s \in Server, StartLeader(s) PROVE RoleType'
    BY <1>2 DEF StartLeader, RoleType, instances
  <1>3. ASSUME NEW s \in Server, NEW m \in voteReqs, RequestVote(s, m)
        PROVE  RoleType'
    BY <1>3 DEF RequestVote, RoleType, instances
  <1>4. ASSUME NEW s \in Server, NEW r \in voteReps \cup appendReps, StepDown(s, r)
        PROVE  RoleType'
    BY <1>4 DEF StepDown, ConvertToFollower, RoleType, instances
  <1>5. ASSUME NEW s \in Server, NEW r \in voteReps, CountVote(s, r)
        PROVE  RoleType'
    BY <1>5 DEF CountVote, ConvertToLeader, RoleType, instances
  <1>6. ASSUME NEW s \in Server, NEW m \in appendReqs, RecogniseLeader(s, m)
        PROVE  RoleType'
    BY <1>6 DEF RecogniseLeader, RoleType, instances
  <1>7. ASSUME NEW s \in Server, NEW p, RestartFrom(s, p)
        PROVE  RoleType'
    BY <1>7 DEF RestartFrom, RoleType
  <1>8. ASSUME UNCHANGED <<roles, instances>> PROVE RoleType'
    BY <1>8 DEF roles, instances, RoleType
  <1>9. ASSUME NEW s \in Server,
               \/ StartVoting(s)
               \/ \E c \in Command : Start(s, c)
               \/ \E p \in Server \ {s} : SendAppendEntries(s, p)
               \/ \E m \in voteReqs : RejectStaleVoteRequest(s, m)
               \/ \E m \in appendReqs : RejectStaleAppend(s, m)
               \/ \E r \in appendReps : HandleAppendSuccess(s, r)
               \/ \E r \in appendReps : HandleAppendConflict(s, r)
        PROVE  UNCHANGED <<roles, instances>>
    BY <1>9 DEF StartVoting, Start, SendAppendEntries, RejectStaleVoteRequest,
                RejectStaleAppend, HandleAppendSuccess, HandleAppendConflict
  <1>. QED
    BY ZenonT(60), <1>1, <1>2, <1>3, <1>4, <1>5, <1>6, <1>7, <1>8, <1>9, RestartCases
    DEF Next, RejectAppend, AcceptAppend

\* Every step keeps the type of the counters and of the calls of RequestVote.
LEMMA VoteTypeStep == ASSUME IndexInv, Next PROVE VoteType'
  <1>. TypeOK /\ VoteType /\ StableType /\ RoleType
    BY DEF IndexInv, TypeOK
  <1>. MaxRounds \in Nat
    BY BoundAssumption
  <1>1. ASSUME NEW s \in Server, ElectionTimeout(s) PROVE VoteType'
    BY <1>1 DEF ElectionTimeout, ConvertToCandidate, VoteType, voteNet
  <1>2. ASSUME NEW s \in Server, StartVoting(s) PROVE VoteType'
    <2>1. LastLogTerm(log[s]) \in Int /\ Len(log[s]) \in Nat
      <3>1. log[s] \in Seq(Entry)
        BY DEF StableType
      <3>2. log[s] # <<>> => log[s][Len(log[s])] \in Entry
        BY <3>1
      <3>. QED  BY <3>1, <3>2 DEF LastLogTerm, Last, Entry
    <2>2. /\ votingRound' = [votingRound EXCEPT ![s] = @ + 1]
          /\ voteReqs' = voteReqs \cup
               {[src |-> s, dst |-> p, inst |-> inst[s], round |-> votingRound'[s],
                 term |-> currentTerm[s], lastLogIndex |-> Len(log[s]),
                 lastLogTerm |-> LastLogTerm(log[s])] : p \in Server \ {s}}
          /\ UNCHANGED <<votesGranted, voteReps>>
      BY <1>2 DEF StartVoting
    <2>3. /\ votingRound[s] \in 0..MaxRounds /\ votingRound[s] < MaxRounds
          /\ votingRound[s] + 1 \in Round /\ votingRound[s] + 1 \in 0..MaxRounds
      <3>1. votingRound[s] \in 0..MaxRounds /\ votingRound[s] < MaxRounds
        BY <1>2 DEF StartVoting, VoteType
      <3>. QED  BY <3>1 DEF Round
    <2>5. /\ votingRound' \in [Server -> 0..MaxRounds]
          /\ votingRound'[s] \in Round /\ inst[s] \in Nat
          /\ currentTerm[s] \in Nat
      BY <2>2, <2>3 DEF VoteType, RoleType, StableType
    <2>4. voteReqs' \subseteq RequestVoteArgs
      BY <2>1, <2>2, <2>5 DEF VoteType, RequestVoteArgs
    <2>. QED  BY <2>2, <2>4, <2>5 DEF VoteType
  <1>3. ASSUME NEW s \in Server, NEW m \in voteReqs, NEW term \in Nat,
               NEW granted \in BOOLEAN,
               voteReps' = voteReps \cup {VoteReply(m, term, granted)},
               UNCHANGED <<votes, voteReqs>>
        PROVE  VoteType'
    <2>1. VoteReply(m, term, granted) \in RequestVoteReply
      BY VoteArgsType DEF VoteReply, RequestVoteReply
    <2>. QED  BY <1>3, <2>1 DEF VoteType, votes
  <1>4. ASSUME NEW s \in Server, NEW m \in voteReqs, RejectStaleVoteRequest(s, m)
        PROVE  VoteType'
    BY <1>3, <1>4 DEF RejectStaleVoteRequest, StableType
  <1>5. ASSUME NEW s \in Server, NEW m \in voteReqs, RequestVote(s, m)
        PROVE  VoteType'
    BY <1>3, <1>5, VoteArgsType DEF RequestVote
  <1>6. ASSUME NEW s \in Server, NEW r \in voteReps, CountVote(s, r)
        PROVE  VoteType'
    <2>1. /\ votesGranted' = [votesGranted EXCEPT ![s][r.round] = Tally(s, r)]
          /\ UNCHANGED <<votingRound, voteReqs, voteReps>>
      BY <1>6 DEF CountVote, voteNet
    <2>2. Tally(s, r) \in SUBSET Server
      BY VoteReplyType DEF Tally, VoteType
    <2>3. votesGranted' \in [Server -> [Round -> SUBSET Server]]
      BY <2>1, <2>2, VoteReplyType DEF VoteType
    <2>. QED  BY <2>1, <2>3 DEF VoteType
  <1>7. ASSUME NEW s \in Server, NEW p, RestartFrom(s, p)
        PROVE  VoteType'
    BY <1>7 DEF RestartFrom, VoteType, voteNet
  <1>8. ASSUME UNCHANGED <<votes, voteNet>> PROVE VoteType'
    BY <1>8 DEF votes, voteNet, VoteType
  <1>9. ASSUME NEW s \in Server,
               \/ StartLeader(s)
               \/ \E c \in Command : Start(s, c)
               \/ \E p \in Server \ {s} : SendAppendEntries(s, p)
               \/ \E r \in voteReps \cup appendReps : StepDown(s, r)
               \/ \E m \in appendReqs : RejectStaleAppend(s, m)
               \/ \E m \in appendReqs : RejectAppend(s, m)
               \/ \E m \in appendReqs : AcceptAppend(s, m)
               \/ \E r \in appendReps : HandleAppendSuccess(s, r)
               \/ \E r \in appendReps : HandleAppendConflict(s, r)
        PROVE  UNCHANGED <<votes, voteNet>>
    BY <1>9 DEF StartLeader, Start, SendAppendEntries, StepDown,
                RejectStaleAppend, RejectAppend, AcceptAppend, RecogniseLeader,
                HandleAppendSuccess, HandleAppendConflict
  <1>. QED
    BY <1>1, <1>2, <1>4, <1>5, <1>6, <1>7, <1>8, <1>9, RestartCases DEF Next

\* Every step keeps the type of the two histories.
LEMMA HistoryTypeStep == ASSUME IndexInv, Next PROVE HistoryType'
  <1>. TypeOK /\ HistoryType /\ StableType
    BY DEF IndexInv, TypeOK
  <1>1. ASSUME NEW s \in Server, NEW c \in Command, Start(s, c) PROVE HistoryType'
    <2>. DEFINE l == Append(log[s], [term |-> currentTerm[s], command |-> c])
    <2>1. [term |-> currentTerm[s], command |-> c] \in Entry
      BY DEF Entry, StableType
    <2>2. log[s] \in Seq(Entry)
      BY DEF StableType
    <2>3. Len(l) \in Nat
      BY <2>1, <2>2, AppendProperties
    <2>4. started' = started \cup
             {[index |-> Len(l), term |-> currentTerm[s], command |-> c]}
          /\ elected' = elected
      BY <1>1 DEF Start
    <2>. HIDE DEF l
    <2>. QED  BY <2>3, <2>4 DEF HistoryType, StableType
  <1>2. ASSUME NEW s \in Server, NEW r \in voteReps, CountVote(s, r)
        PROVE  HistoryType'
    BY <1>2 DEF CountVote, ConvertToLeader, HistoryType, StableType
  <1>3. ASSUME UNCHANGED history PROVE HistoryType'
    BY <1>3 DEF history, HistoryType
  <1>4. ASSUME NEW s \in Server,
               \/ ElectionTimeout(s)
               \/ StartLeader(s)
               \/ StartVoting(s)
               \/ \E p \in Server \ {s} : SendAppendEntries(s, p)
               \/ \E m \in voteReqs : RejectStaleVoteRequest(s, m)
               \/ \E m \in voteReqs : RequestVote(s, m)
               \/ \E r \in voteReps \cup appendReps : StepDown(s, r)
               \/ \E m \in appendReqs : RejectStaleAppend(s, m)
               \/ \E m \in appendReqs : RejectAppend(s, m)
               \/ \E m \in appendReqs : AcceptAppend(s, m)
               \/ \E r \in appendReps : HandleAppendSuccess(s, r)
               \/ \E r \in appendReps : HandleAppendConflict(s, r)
               \/ \E p : RestartFrom(s, p)
        PROVE  UNCHANGED history
    BY <1>4 DEF ElectionTimeout, StartLeader, StartVoting, SendAppendEntries,
                RejectStaleVoteRequest, RequestVote, StepDown, RejectStaleAppend,
                RejectAppend, AcceptAppend, RecogniseLeader, HandleAppendSuccess,
                HandleAppendConflict, RestartFrom
  <1>. QED  BY <1>1, <1>2, <1>3, <1>4, RestartCases DEF Next

\* No critical section ends with memory and Persister apart.
LEMMA PersistedStep == ASSUME IndexInv, Next PROVE PersistedIsCurrent'
  <1>. TypeOK /\ StableType /\ PersistedIsCurrent
    BY DEF IndexInv, TypeOK
  <1>1. ASSUME NEW s \in Server, NEW term, NEW vote, NEW l,
               currentTerm' = [currentTerm EXCEPT ![s] = term],
               votedFor' = [votedFor EXCEPT ![s] = vote],
               log' = [log EXCEPT ![s] = l],
               Persist(s, term, vote, l)
        PROVE  PersistedIsCurrent'
    BY <1>1 DEF Persist, PersistedIsCurrent, StableType
  <1>2. ASSUME UNCHANGED stable PROVE PersistedIsCurrent'
    BY <1>2 DEF stable, PersistedIsCurrent
  <1>3. \A s \in Server : /\ log = [log EXCEPT ![s] = log[s]]
                          /\ currentTerm = [currentTerm EXCEPT ![s] = currentTerm[s]]
                          /\ votedFor = [votedFor EXCEPT ![s] = votedFor[s]]
    BY DEF StableType
  <1>4. ASSUME NEW s \in Server, ElectionTimeout(s) PROVE PersistedIsCurrent'
    BY <1>1, <1>3, <1>4 DEF ElectionTimeout, ConvertToCandidate
  <1>5. ASSUME NEW s \in Server, NEW c \in Command, Start(s, c)
        PROVE  PersistedIsCurrent'
    <2>1. PICK l : /\ log' = [log EXCEPT ![s] = l]
                   /\ Persist(s, currentTerm[s], votedFor[s], l)
                   /\ currentTerm' = currentTerm /\ votedFor' = votedFor
      BY <1>5 DEF Start
    <2>. QED  BY <1>1, <1>3, <2>1
  <1>6. ASSUME NEW s \in Server, NEW m \in voteReqs, RequestVote(s, m)
        PROVE  PersistedIsCurrent'
    <2>. DEFINE newer == m.term > currentTerm[s]
                vote  == IF newer THEN Nil ELSE votedFor[s]
                grant == vote \in {Nil, m.src} /\ UpToDate(m, log[s])
                final == IF grant THEN m.src ELSE vote
    <2>1. /\ m.term >= currentTerm[s]
          /\ currentTerm' = [currentTerm EXCEPT ![s] = m.term]
          /\ votedFor' = [votedFor EXCEPT ![s] = final]
          /\ log' = log
          /\ IF newer \/ grant
             THEN Persist(s, m.term, final, log[s]) ELSE UNCHANGED persisted
      BY <1>6 DEF RequestVote
    <2>2. CASE newer \/ grant
      <3>. HIDE DEF final, newer, grant
      <3>. QED  BY <1>1, <1>3, <2>1, <2>2
    <2>3. CASE ~ (newer \/ grant)
      <3>1. m.term = currentTerm[s]
        BY <2>1, <2>3, VoteArgsType DEF StableType
      <3>2. UNCHANGED stable
        BY <1>3, <2>1, <2>3, <3>1 DEF stable
      <3>. QED  BY <1>2, <3>2
    <2>. QED  BY <2>2, <2>3
  <1>7. ASSUME NEW s \in Server, NEW r \in voteReps \cup appendReps, StepDown(s, r)
        PROVE  PersistedIsCurrent'
    BY <1>1, <1>3, <1>7 DEF StepDown, ConvertToFollower
  <1>8. ASSUME NEW s \in Server, NEW r \in voteReps, CountVote(s, r)
        PROVE  PersistedIsCurrent'
    BY <1>1, <1>2, <1>3, <1>8 DEF CountVote, ConvertToLeader
  <1>9. ASSUME NEW s \in Server, NEW m \in appendReqs, RejectAppend(s, m)
        PROVE  PersistedIsCurrent'
    <2>1. /\ m.term >= currentTerm[s]
          /\ currentTerm' = [currentTerm EXCEPT ![s] = m.term]
          /\ votedFor' = [votedFor EXCEPT ![s] = VoteAfter(s, m)]
          /\ log' = log
          /\ IF Recognises(s, m)
             THEN Persist(s, m.term, VoteAfter(s, m), log[s])
             ELSE UNCHANGED persisted
      BY <1>9 DEF RejectAppend, RecogniseLeader
    <2>2. CASE Recognises(s, m)
      BY <1>1, <1>3, <2>1, <2>2
    <2>3. CASE ~ Recognises(s, m)
      <3>1. m.term = currentTerm[s] /\ VoteAfter(s, m) = votedFor[s]
        BY <2>1, <2>3, AppendArgsType DEF StableType, Recognises, VoteAfter
      <3>2. UNCHANGED stable
        BY <1>3, <2>1, <2>3, <3>1 DEF stable
      <3>. QED  BY <1>2, <3>2
    <2>. QED  BY <2>2, <2>3
  <1>10. ASSUME NEW s \in Server, NEW m \in appendReqs, AcceptAppend(s, m)
         PROVE  PersistedIsCurrent'
    BY <1>1, <1>10 DEF AcceptAppend, RecogniseLeader
  <1>11. ASSUME NEW s \in Server, NEW p \in PersistentState, RestartFrom(s, p)
         PROVE  PersistedIsCurrent'
    <2>1. p = [currentTerm |-> p.currentTerm, votedFor |-> p.votedFor,
               log |-> p.log]
      BY DEF PersistentState
    <2>2. /\ currentTerm' = [currentTerm EXCEPT ![s] = p.currentTerm]
          /\ votedFor' = [votedFor EXCEPT ![s] = p.votedFor]
          /\ log' = [log EXCEPT ![s] = p.log]
          /\ Persist(s, p.currentTerm, p.votedFor, p.log)
      BY <1>11, <2>1 DEF RestartFrom, Persist
    <2>. QED  BY <1>1, <2>2
  <1>12. ASSUME NEW s \in Server,
                \/ StartLeader(s)
                \/ StartVoting(s)
                \/ \E p \in Server \ {s} : SendAppendEntries(s, p)
                \/ \E m \in voteReqs : RejectStaleVoteRequest(s, m)
                \/ \E m \in appendReqs : RejectStaleAppend(s, m)
                \/ \E r \in appendReps : HandleAppendSuccess(s, r)
                \/ \E r \in appendReps : HandleAppendConflict(s, r)
         PROVE  UNCHANGED stable
    BY <1>12 DEF StartLeader, StartVoting, SendAppendEntries,
                 RejectStaleVoteRequest, RejectStaleAppend, HandleAppendSuccess,
                 HandleAppendConflict
  <1>. QED
    BY <1>2, <1>4, <1>5, <1>6, <1>7, <1>8, <1>9, <1>10, <1>11, <1>12, RestartCases
    DEF Next

-----------------------------------------------------------------------------
(* Both together. *)

Inv == IndexInv /\ ElectionInv

-----------------------------------------------------------------------------
(* Elections. *)

\* Any two majorities share a server.
LEMMA MajoritiesMeet ==
    ASSUME NEW P \in SUBSET Server, NEW Q \in SUBSET Server,
           Majority(Cardinality(P)), Majority(Cardinality(Q))
    PROVE  P \cap Q # {}
  <1>1. IsFiniteSet(Server) /\ Cardinality(Server) \in Nat
    BY ServerAssumption, FS_CardinalityType
  <1>2. /\ IsFiniteSet(P) /\ IsFiniteSet(Q)
        /\ Cardinality(P) \in Nat /\ Cardinality(Q) \in Nat
    BY <1>1, FS_Subset, FS_CardinalityType
  <1>3. Cardinality(P) + Cardinality(Q) > Cardinality(Server)
    BY <1>1, <1>2 DEF Majority
  <1>. QED  BY <1>1, <1>3, FS_MajoritiesIntersect

\* The recorded election history admits one winner for each term.
LEMMA ElectionInvSafe == ASSUME TypeOK, ElectionInv PROVE ElectionSafety
  <1>. SUFFICES ASSUME NEW a \in elected, NEW b \in elected, a.term = b.term,
                       a.server # b.server
                PROVE  FALSE
    BY DEF ElectionSafety
  <1>1. a.server \in Server /\ b.server \in Server
    BY DEF TypeOK, HistoryType
  <1>2. PICK P \in SUBSET Server :
            /\ Majority(Cardinality(P))
            /\ \A v \in P \ {a.server} : Voted(v, a.term, a.server)
    BY DEF ElectionInv, ElectedInv
  <1>3. PICK Q \in SUBSET Server :
            /\ Majority(Cardinality(Q))
            /\ \A v \in Q \ {b.server} : Voted(v, b.term, b.server)
    BY DEF ElectionInv, ElectedInv
  <1>4. PICK v \in P \cap Q : TRUE
    BY <1>2, <1>3, MajoritiesMeet
  <1>5. CASE v = a.server
    BY <1>1, <1>3, <1>4, <1>5 DEF ElectionInv, ElectedInv
  <1>6. CASE v = b.server
    BY <1>1, <1>2, <1>4, <1>6 DEF ElectionInv, ElectedInv
  <1>7. CASE v # a.server /\ v # b.server
    <2>1. Voted(v, a.term, a.server) /\ Voted(v, a.term, b.server)
      BY <1>2, <1>3, <1>4, <1>7
    <2>. QED  BY <2>1 DEF Voted, ElectionInv, GrantUnique
  <1>. QED  BY <1>5, <1>6, <1>7

\* What one step may do to the term, the vote and the role of peer x, and to the
\* votes it has counted when it becomes candidate.
PeerStep(x) ==
    \/ /\ currentTerm'[x] > currentTerm[x]
       /\ \/ myRole'[x] = Follower
          \/ /\ myRole'[x] = Candidate /\ votedFor'[x] = x
             /\ votesGranted'[x] = [k \in Round |-> {}]
    \/ /\ currentTerm'[x] = currentTerm[x]
       /\ \/ votedFor'[x] = votedFor[x] /\ myRole'[x] = myRole[x]
          \/ votedFor[x] = Nil /\ myRole[x] = Follower /\ myRole'[x] = Follower
          \/ myRole[x] = Candidate /\ myRole'[x] = Follower
          \/ /\ myRole[x] = Candidate /\ myRole'[x] = Leader
             /\ votedFor'[x] = votedFor[x]
             /\ [term |-> currentTerm[x], server |-> x] \in elected'
          \/ /\ myRole[x] = Leader /\ myRole'[x] = Follower
             /\ votedFor'[x] = votedFor[x]

\* A restarted peer reads back at least the term it had, and in that term the
\* vote it had, unless it was a candidate that had just recognised the leader.
LEMMA RestartVote ==
    ASSUME Inv, NEW s \in Server,
           \/ Restart(s)
           \/ \E m \in voteReqs : CrashInRequestVote(s, m)
           \/ \E m \in appendReqs : CrashInAppendEntries(s, m)
    PROVE  \E p \in PersistentState :
              /\ RestartFrom(s, p)
              /\ \/ p.currentTerm > currentTerm[s]
                 \/ /\ p.currentTerm = currentTerm[s]
                    /\ p.votedFor = votedFor[s] \/ myRole[s] = Candidate
  <1>. TypeOK /\ IndexInv
    BY DEF IndexInv, Inv
  <1>. /\ log[s] \in Seq(Entry) /\ currentTerm[s] \in Nat
       /\ votedFor[s] \in Server \cup {Nil} /\ persisted[s] \in PersistentState
    BY DEF TypeOK, StableType
  <1>1. CASE Restart(s)
    <2>1. persisted[s] = [currentTerm |-> currentTerm[s],
                          votedFor |-> votedFor[s], log |-> log[s]]
      BY DEF IndexInv, PersistedIsCurrent
    <2>. QED  BY <1>1, <2>1 DEF Restart
  <1>2. ASSUME NEW m \in voteReqs, CrashInRequestVote(s, m)
        PROVE  \E p \in PersistentState :
                  RestartFrom(s, p) /\ p.currentTerm > currentTerm[s]
    <2>. DEFINE p == [currentTerm |-> m.term, votedFor |-> Nil, log |-> log[s]]
    <2>1. m.term \in Nat /\ p \in PersistentState
      BY VoteArgsType DEF PersistentState
    <2>. QED  BY <1>2, <2>1 DEF CrashInRequestVote
  <1>3. ASSUME NEW m \in appendReqs, CrashInAppendEntries(s, m)
        PROVE  \E p \in PersistentState :
                  /\ RestartFrom(s, p)
                  /\ \/ p.currentTerm > currentTerm[s]
                     \/ /\ p.currentTerm = currentTerm[s]
                        /\ p.votedFor = votedFor[s] \/ myRole[s] = Candidate
    <2>. DEFINE before == [currentTerm |-> m.term, votedFor |-> m.src,
                           log |-> log[s]]
                after == [currentTerm |-> m.term, votedFor |-> VoteAfter(s, m),
                          log |-> MergeLog(log[s], m.prevLogIndex, m.entries)]
    <2>1. m.term \in Nat /\ before \in PersistentState
      BY AppendArgsType DEF PersistentState
    <2>2. PrevMatches(s, m) => after \in PersistentState
      BY <2>1, AppendArgsType, MergedLogType DEF PersistentState, VoteAfter
    <2>3. m.term > currentTerm[s] \/ m.term = currentTerm[s]
      BY <1>3, <2>1 DEF CrashInAppendEntries
    <2>4. CASE Recognises(s, m) /\ RestartFrom(s, before)
      BY <2>1, <2>3, <2>4 DEF Recognises
    <2>5. CASE PrevMatches(s, m) /\ RestartFrom(s, after)
      <3>1. after.votedFor = votedFor[s] \/ Recognises(s, m)
        BY DEF VoteAfter
      <3>. QED  BY <2>2, <2>3, <2>5, <3>1 DEF Recognises
    <2>. QED  BY <1>3, <2>4, <2>5 DEF CrashInAppendEntries
  <1>. QED  BY <1>1, <1>2, <1>3

\* Every step is a PeerStep of every peer.
LEMMA PeerSteps == ASSUME Inv, Next PROVE \A x \in Server : PeerStep(x)
  <1>. TypeOK /\ StableType /\ RoleType /\ VoteType /\ SelfVote /\ IndexInv
    BY DEF IndexInv, TypeOK, Inv, ElectionInv
  <1>. \A x \in Server : currentTerm[x] \in Nat
    BY DEF StableType
  <1>1. ASSUME UNCHANGED <<currentTerm, votedFor, myRole>>
        PROVE  \A x \in Server : PeerStep(x)
    BY <1>1 DEF PeerStep
  <1>2. ASSUME NEW s \in Server, NEW term, NEW vote, NEW role,
               currentTerm' = [currentTerm EXCEPT ![s] = term],
               votedFor' = [votedFor EXCEPT ![s] = vote],
               myRole' = [myRole EXCEPT ![s] = role]
        PROVE  /\ currentTerm'[s] = term /\ votedFor'[s] = vote
               /\ myRole'[s] = role
               /\ \A x \in Server \ {s} : PeerStep(x)
    BY <1>2 DEF PeerStep, StableType, RoleType
  <1>3. ASSUME NEW s \in Server, ElectionTimeout(s)
        PROVE  \A x \in Server : PeerStep(x)
    <2>1. \A x \in Server \ {s} : PeerStep(x)
      BY <1>2, <1>3 DEF ElectionTimeout, ConvertToCandidate
    <2>2. PeerStep(s)
      BY <1>3 DEF ElectionTimeout, ConvertToCandidate, PeerStep, StableType,
                  RoleType, VoteType
    <2>. QED  BY <2>1, <2>2
  <1>4. ASSUME NEW s \in Server, NEW m \in voteReqs, RequestVote(s, m)
        PROVE  \A x \in Server : PeerStep(x)
    <2>. DEFINE newer == m.term > currentTerm[s]
                vote  == IF newer THEN Nil ELSE votedFor[s]
                grant == vote \in {Nil, m.src} /\ UpToDate(m, log[s])
                final == IF grant THEN m.src ELSE vote
                role  == IF newer THEN Follower ELSE myRole[s]
    <2>1. /\ m.dst = s /\ m.term >= currentTerm[s] /\ m.term \in Nat
          /\ currentTerm' = [currentTerm EXCEPT ![s] = m.term]
          /\ votedFor' = [votedFor EXCEPT ![s] = final]
          /\ myRole' = [myRole EXCEPT ![s] = role]
      BY <1>4, VoteArgsType DEF RequestVote
    <2>2. /\ currentTerm'[s] = m.term /\ votedFor'[s] = final
          /\ myRole'[s] = role
          /\ \A x \in Server \ {s} : PeerStep(x)
      <3>. HIDE DEF final, role
      <3>. QED  BY <1>2, <2>1
    <2>3. m.src # m.dst /\ m.src \in Server
      BY VoteArgsType DEF Inv, ElectionInv, LeadersInv
    <2>4. PeerStep(s)
      <3>1. CASE newer
        BY <2>1, <2>2, <3>1 DEF PeerStep
      <3>2. CASE ~ newer
        <4>1. m.term = currentTerm[s] /\ myRole'[s] = myRole[s]
          BY <2>1, <2>2, <3>2
        <4>2. \/ final = votedFor[s]
              \/ votedFor[s] = Nil /\ final = m.src
          BY <3>2
        <4>3. votedFor[s] = Nil => myRole[s] = Follower
          BY NilAssumption DEF SelfVote
        <4>. QED  BY <2>2, <4>1, <4>2, <4>3 DEF PeerStep
      <3>. QED  BY <3>1, <3>2
    <2>. QED  BY <2>2, <2>4
  <1>5. ASSUME NEW s \in Server, NEW r \in voteReps \cup appendReps, StepDown(s, r)
        PROVE  \A x \in Server : PeerStep(x)
    <2>1. \A x \in Server \ {s} : PeerStep(x)
      BY <1>2, <1>5 DEF StepDown, ConvertToFollower
    <2>2. PeerStep(s)
      BY <1>5 DEF StepDown, ConvertToFollower, PeerStep, StableType, RoleType
    <2>. QED  BY <2>1, <2>2
  <1>6. ASSUME NEW s \in Server, NEW r \in voteReps, CountVote(s, r)
        PROVE  \A x \in Server : PeerStep(x)
    <2>1. CASE UNCHANGED <<stable, myRole>>
      BY <1>1, <2>1 DEF stable
    <2>2. CASE ConvertToLeader(s) /\ UNCHANGED <<currentTerm, votedFor>>
      BY <1>6, <2>2 DEF CountVote, ConvertToLeader, PeerStep, RoleType
    <2>. QED  BY <1>6, <2>1, <2>2 DEF CountVote
  <1>7. ASSUME NEW s \in Server, NEW m \in appendReqs, RecogniseLeader(s, m)
        PROVE  \A x \in Server : PeerStep(x)
    <2>. DEFINE role == IF Recognises(s, m) THEN Follower ELSE myRole[s]
    <2>1. /\ m.term >= currentTerm[s] /\ m.term \in Nat
          /\ currentTerm' = [currentTerm EXCEPT ![s] = m.term]
          /\ votedFor' = [votedFor EXCEPT ![s] = VoteAfter(s, m)]
          /\ myRole' = [myRole EXCEPT ![s] = role]
      BY <1>7, AppendArgsType DEF RecogniseLeader
    <2>2. /\ currentTerm'[s] = m.term /\ votedFor'[s] = VoteAfter(s, m)
          /\ myRole'[s] = role
          /\ \A x \in Server \ {s} : PeerStep(x)
      <3>. HIDE DEF role
      <3>. QED  BY <1>2, <2>1
    <2>3. PeerStep(s)
      BY <2>1, <2>2 DEF Recognises, VoteAfter, PeerStep
    <2>. QED  BY <2>2, <2>3
  <1>8. ASSUME NEW s \in Server, NEW p \in PersistentState, RestartFrom(s, p),
               \/ p.currentTerm > currentTerm[s]
               \/ /\ p.currentTerm = currentTerm[s]
                  /\ p.votedFor = votedFor[s] \/ myRole[s] = Candidate
        PROVE  \A x \in Server : PeerStep(x)
    <2>1. /\ currentTerm' = [currentTerm EXCEPT ![s] = p.currentTerm]
          /\ votedFor' = [votedFor EXCEPT ![s] = p.votedFor]
          /\ myRole' = [myRole EXCEPT ![s] = Follower]
      BY <1>8 DEF RestartFrom
    <2>2. /\ currentTerm'[s] = p.currentTerm /\ votedFor'[s] = p.votedFor
          /\ myRole'[s] = Follower
          /\ \A x \in Server \ {s} : PeerStep(x)
      BY <1>2, <2>1
    <2>3. myRole[s] \in {Leader, Follower, Candidate}
      BY DEF RoleType
    <2>4. PeerStep(s)
      BY <1>8, <2>2, <2>3 DEF PeerStep
    <2>. QED  BY <2>2, <2>4
  <1>9. ASSUME NEW s \in Server,
               \/ StartLeader(s)
               \/ StartVoting(s)
               \/ \E c \in Command : Start(s, c)
               \/ \E p \in Server \ {s} : SendAppendEntries(s, p)
               \/ \E m \in voteReqs : RejectStaleVoteRequest(s, m)
               \/ \E m \in appendReqs : RejectStaleAppend(s, m)
               \/ \E r \in appendReps : HandleAppendSuccess(s, r)
               \/ \E r \in appendReps : HandleAppendConflict(s, r)
        PROVE  UNCHANGED <<currentTerm, votedFor, myRole>>
    BY <1>9 DEF StartLeader, StartVoting, Start, SendAppendEntries,
                RejectStaleVoteRequest, RejectStaleAppend, HandleAppendSuccess,
                HandleAppendConflict, stable, roles
  <1>. QED
    BY ZenonT(60), <1>1, <1>3, <1>4, <1>5, <1>6, <1>7, <1>8, <1>9, RestartVote
    DEF Next, RejectAppend, AcceptAppend

\* Only the handler of RequestVote replies to candidates.
LEMMA VoteReplyCases ==
    ASSUME Inv, Next, voteReps' # voteReps
    PROVE  \E s \in Server, m \in voteReqs :
              RejectStaleVoteRequest(s, m) \/ RequestVote(s, m)
  <1>1. ASSUME NEW s \in Server,
             \/ ElectionTimeout(s)
             \/ StartLeader(s)
             \/ StartVoting(s)
             \/ \E c \in Command : Start(s, c)
             \/ \E p \in Server \ {s} : SendAppendEntries(s, p)
             \/ \E q \in voteReps \cup appendReps : StepDown(s, q)
             \/ \E q \in voteReps : CountVote(s, q)
             \/ \E m \in appendReqs : RejectStaleAppend(s, m)
             \/ \E m \in appendReqs : RejectAppend(s, m)
             \/ \E m \in appendReqs : AcceptAppend(s, m)
             \/ \E q \in appendReps : HandleAppendSuccess(s, q)
             \/ \E q \in appendReps : HandleAppendConflict(s, q)
             \/ \E p : RestartFrom(s, p)
        PROVE  UNCHANGED voteReps
    BY <1>1 DEF ElectionTimeout, StartLeader, StartVoting, Start,
                SendAppendEntries, StepDown, CountVote, RejectStaleAppend,
                RejectAppend, AcceptAppend, RecogniseLeader,
                HandleAppendSuccess, HandleAppendConflict, RestartFrom, voteNet
  <1>. QED  BY <1>1, RestartVote DEF Next

\* A vote that is granted now: the voter is a follower of the request's term, it
\* keeps the vote, and it had granted nothing else in that term.
LEMMA NewGrant ==
    ASSUME Inv, Next, NEW r \in voteReps', r \notin voteReps, r.granted
    PROVE  /\ r.src \in Server /\ r.dst \in Server /\ r.reqTerm \in Nat
           /\ r.src # r.dst
           /\ r.reqTerm = currentTerm'[r.src]
           /\ votedFor'[r.src] = r.dst
           /\ myRole'[r.src] = Follower
           /\ \/ currentTerm[r.src] < r.reqTerm
              \/ currentTerm[r.src] = r.reqTerm /\ votedFor[r.src] \in {Nil, r.dst}
           /\ voteReps' = voteReps \cup {r}
           /\ elected' = elected
  <1>. TypeOK /\ StableType /\ RoleType /\ SelfVote /\ IndexInv
    BY DEF IndexInv, TypeOK, Inv, ElectionInv
  <1>1. PICK s \in Server, m \in voteReqs :
            RejectStaleVoteRequest(s, m) \/ RequestVote(s, m)
    BY VoteReplyCases
  <1>2. CASE RejectStaleVoteRequest(s, m)
    BY <1>2 DEF RejectStaleVoteRequest, VoteReply
  <1>3. CASE RequestVote(s, m)
    <2>. DEFINE newer == m.term > currentTerm[s]
                vote  == IF newer THEN Nil ELSE votedFor[s]
                grant == vote \in {Nil, m.src} /\ UpToDate(m, log[s])
                final == IF grant THEN m.src ELSE vote
                role  == IF newer THEN Follower ELSE myRole[s]
    <2>1. /\ m.dst = s /\ m.term >= currentTerm[s] /\ m.term \in Nat
          /\ currentTerm' = [currentTerm EXCEPT ![s] = m.term]
          /\ votedFor' = [votedFor EXCEPT ![s] = final]
          /\ myRole' = [myRole EXCEPT ![s] = role]
          /\ voteReps' = voteReps \cup {VoteReply(m, m.term, grant)}
          /\ elected' = elected
      BY <1>3, VoteArgsType DEF RequestVote, history
    <2>2. r = VoteReply(m, m.term, grant)
      BY <2>1
    <2>3. r.granted = grant /\ r.src = s /\ r.dst = m.src /\ r.reqTerm = m.term
      BY <2>1, <2>2 DEF VoteReply
    <2>4. m.src # m.dst /\ m.src \in Server
      BY VoteArgsType DEF Inv, ElectionInv, LeadersInv
    <2>5. final = m.src
      BY <2>3
    <2>6. currentTerm'[s] = m.term /\ votedFor'[s] = final /\ myRole'[s] = role
      <3>. HIDE DEF final, role
      <3>. QED  BY <2>1 DEF StableType, RoleType
    <2>7. \/ currentTerm[s] < m.term
          \/ currentTerm[s] = m.term /\ votedFor[s] \in {Nil, m.src}
      <3>1. vote \in {Nil, m.src}
        BY <2>3
      <3>2. currentTerm[s] \in Nat
        BY DEF StableType
      <3>. HIDE DEF final, role
      <3>. QED  BY <2>1, <3>1, <3>2
    <2>8. role = Follower
      <3>1. votedFor[s] \in {Nil, m.src} => myRole[s] = Follower
        BY <2>1, <2>4, NilAssumption DEF SelfVote
      <3>. QED  BY <2>3, <3>1
    <2>. HIDE DEF newer, vote, grant, final, role
    <2>. QED  BY <2>1, <2>2, <2>3, <2>4, <2>5, <2>6, <2>7, <2>8
  <1>. QED  BY <1>1, <1>2, <1>3

\* Nothing is ever taken out of the network or of the election history.
LEMMA SetsGrow ==
    ASSUME Inv, Next
    PROVE  voteReps \subseteq voteReps' /\ elected \subseteq elected'
  <1>1. ASSUME NEW s \in Server, NEW m \in voteReqs, RejectStaleVoteRequest(s, m)
        PROVE  voteReps \subseteq voteReps' /\ elected \subseteq elected'
    BY <1>1 DEF RejectStaleVoteRequest, history
  <1>2. ASSUME NEW s \in Server, NEW m \in voteReqs, RequestVote(s, m)
        PROVE  voteReps \subseteq voteReps' /\ elected \subseteq elected'
    BY <1>2 DEF RequestVote, history
  <1>3. ASSUME NEW s \in Server, NEW r \in voteReps, CountVote(s, r)
        PROVE  voteReps \subseteq voteReps' /\ elected \subseteq elected'
    BY <1>3 DEF CountVote, ConvertToLeader, voteNet
  <1>4. ASSUME NEW s \in Server,
               \/ ElectionTimeout(s)
               \/ StartLeader(s)
               \/ StartVoting(s)
               \/ \E c \in Command : Start(s, c)
               \/ \E p \in Server \ {s} : SendAppendEntries(s, p)
               \/ \E q \in voteReps \cup appendReps : StepDown(s, q)
               \/ \E m \in appendReqs : RejectStaleAppend(s, m)
               \/ \E m \in appendReqs : RejectAppend(s, m)
               \/ \E m \in appendReqs : AcceptAppend(s, m)
               \/ \E q \in appendReps : HandleAppendSuccess(s, q)
               \/ \E q \in appendReps : HandleAppendConflict(s, q)
               \/ \E p : RestartFrom(s, p)
        PROVE  UNCHANGED <<voteReps, elected>>
    BY <1>4 DEF ElectionTimeout, StartLeader, StartVoting, Start,
                SendAppendEntries, StepDown, RejectStaleAppend, RejectAppend,
                AcceptAppend, RecogniseLeader, HandleAppendSuccess,
                HandleAppendConflict, RestartFrom, voteNet, history
  <1>. QED  BY <1>1, <1>2, <1>3, <1>4, RestartVote DEF Next

\* So a vote, once granted, stays granted.
LEMMA VotedStays ==
    ASSUME Inv, Next, NEW v, NEW term, NEW c, Voted(v, term, c)
    PROVE  Voted(v, term, c)'
  BY SetsGrow DEF Voted

\* A vote is kept, and is granted to one candidate of a term, by every step.
LEMMA GrantStep == ASSUME Inv, Next PROVE GrantInv' /\ GrantUnique'
  <1>. GrantInv /\ GrantUnique /\ TypeOK /\ IndexInv
    BY DEF Inv, IndexInv, ElectionInv
  <1>1. ASSUME NEW r \in voteReps', r.granted
        PROVE  /\ r.src # r.dst
               /\ r.reqTerm <= currentTerm'[r.src]
               /\ r.reqTerm = currentTerm'[r.src] =>
                     votedFor'[r.src] = r.dst /\ myRole'[r.src] = Follower
    <2>1. CASE r \in voteReps
      <3>1. /\ r.src # r.dst /\ r.src \in Server /\ r.dst \in Server
            /\ r.reqTerm <= currentTerm[r.src] /\ r.reqTerm \in Nat
            /\ currentTerm[r.src] \in Nat /\ currentTerm'[r.src] \in Nat
            /\ r.reqTerm = currentTerm[r.src] =>
                  votedFor[r.src] = r.dst /\ myRole[r.src] = Follower
        BY <1>1, <2>1, VoteReplyType, StableTypeStep DEF GrantInv, TypeOK, StableType
      <3>2. PeerStep(r.src)
        BY <3>1, PeerSteps
      <3>. QED
        BY <3>1, <3>2, NilAssumption DEF PeerStep, Leader, Follower, Candidate
    <2>2. CASE r \notin voteReps
      <3>1. /\ r.src # r.dst /\ r.reqTerm = currentTerm'[r.src]
            /\ r.reqTerm \in Nat /\ votedFor'[r.src] = r.dst
            /\ myRole'[r.src] = Follower
        BY <1>1, <2>2, NewGrant
      <3>. QED  BY <3>1
    <2>. QED  BY <2>1, <2>2
  <1>2. ASSUME NEW a \in voteReps', NEW b \in voteReps', a.granted, b.granted,
               a.src = b.src, a.reqTerm = b.reqTerm, a \notin voteReps
        PROVE  a.dst = b.dst
    <2>1. /\ a.src \in Server /\ a.dst \in Server
          /\ \/ currentTerm[a.src] < a.reqTerm
             \/ currentTerm[a.src] = a.reqTerm /\ votedFor[a.src] \in {Nil, a.dst}
          /\ voteReps' = voteReps \cup {a}
      BY <1>2, NewGrant
    <2>2. CASE b \in voteReps
      <3>1. /\ b.dst \in Server /\ b.reqTerm \in Nat
            /\ b.reqTerm <= currentTerm[b.src]
            /\ b.reqTerm = currentTerm[b.src] => votedFor[b.src] = b.dst
        BY <1>2, <2>2, VoteReplyType DEF GrantInv
      <3>2. currentTerm[a.src] \in Nat
        BY <2>1 DEF TypeOK, StableType
      <3>. QED  BY <1>2, <2>1, <3>1, <3>2, NilAssumption
    <2>. QED  BY <1>2, <2>1, <2>2
  <1>3. GrantInv'
    BY <1>1 DEF GrantInv
  <1>4. ASSUME NEW a \in voteReps', NEW b \in voteReps', a.granted, b.granted,
               a.src = b.src, a.reqTerm = b.reqTerm
        PROVE  a.dst = b.dst
    BY <1>2, <1>4 DEF GrantUnique
  <1>. QED  BY <1>3, <1>4 DEF GrantUnique

\* Only followers change their vote to another peer.
LEMMA SelfVoteStep == ASSUME Inv, Next PROVE SelfVote'
  <1>. SelfVote /\ RoleType
    BY DEF Inv, ElectionInv, IndexInv, TypeOK
  <1>. SUFFICES ASSUME NEW s \in Server, myRole'[s] # Follower
                PROVE  votedFor'[s] = s
    BY DEF SelfVote
  <1>. QED
    BY PeerSteps DEF PeerStep, SelfVote, RoleType, Leader, Follower, Candidate

\* The history and the tallies change in these ways only.
LEMMA ElectedCases ==
    ASSUME Inv, Next
    PROVE  \/ UNCHANGED elected
           \/ \E s \in Server, r \in voteReps :
                 /\ CountVote(s, r)
                 /\ Majority(1 + Cardinality(Tally(s, r)))
                 /\ elected' = elected \cup
                       {[term |-> currentTerm[s], server |-> s]}
                 /\ myRole' = [myRole EXCEPT ![s] = Leader]
                 /\ UNCHANGED <<currentTerm, votedFor, voteReps>>
  <1>1. ASSUME NEW s \in Server, NEW r \in voteReps, CountVote(s, r)
        PROVE  \/ UNCHANGED elected
               \/ /\ Majority(1 + Cardinality(Tally(s, r)))
                  /\ elected' = elected \cup
                        {[term |-> currentTerm[s], server |-> s]}
                  /\ myRole' = [myRole EXCEPT ![s] = Leader]
                  /\ UNCHANGED <<currentTerm, votedFor, voteReps>>
    BY <1>1 DEF CountVote, ConvertToLeader, voteNet
  <1>2. ASSUME NEW s \in Server,
               \/ ElectionTimeout(s)
               \/ StartLeader(s)
               \/ StartVoting(s)
               \/ \E c \in Command : Start(s, c)
               \/ \E p \in Server \ {s} : SendAppendEntries(s, p)
               \/ \E m \in voteReqs : RejectStaleVoteRequest(s, m)
               \/ \E m \in voteReqs : RequestVote(s, m)
               \/ \E q \in voteReps \cup appendReps : StepDown(s, q)
               \/ \E m \in appendReqs : RejectStaleAppend(s, m)
               \/ \E m \in appendReqs : RejectAppend(s, m)
               \/ \E m \in appendReqs : AcceptAppend(s, m)
               \/ \E q \in appendReps : HandleAppendSuccess(s, q)
               \/ \E q \in appendReps : HandleAppendConflict(s, q)
               \/ \E p : RestartFrom(s, p)
        PROVE  UNCHANGED elected
    BY <1>2 DEF ElectionTimeout, StartLeader, StartVoting, Start,
                SendAppendEntries, RejectStaleVoteRequest, RequestVote, StepDown,
                RejectStaleAppend, RejectAppend, AcceptAppend, RecogniseLeader,
                HandleAppendSuccess, HandleAppendConflict, RestartFrom, history
  <1>. QED  BY <1>1, <1>2, RestartVote DEF Next

\* The majority a server has counted when it becomes leader.
LEMMA WinnerHasMajority ==
    ASSUME Inv, NEW s \in Server, NEW r \in voteReps, CountVote(s, r),
           Majority(1 + Cardinality(Tally(s, r)))
    PROVE  \E Q \in SUBSET Server :
              /\ s \in Q
              /\ Majority(Cardinality(Q))
              /\ \A v \in Q \ {s} : Voted(v, currentTerm[s], s)
  <1>. DEFINE V == Tally(s, r)
  <1>. TypeOK /\ VoteType /\ TallyInv /\ GrantInv
    BY DEF Inv, IndexInv, TypeOK, ElectionInv
  <1>1. /\ r.dst = s /\ r.reqTerm = currentTerm[s] /\ myRole[s] = Candidate
        /\ r.src \in Server /\ r.round \in Round
    BY VoteReplyType DEF CountVote
  <1>2. V \in SUBSET Server
    BY <1>1 DEF Tally, VoteType
  <1>3. \A v \in V : v # s /\ Voted(v, currentTerm[s], s)
    BY <1>1 DEF Tally, TallyInv, GrantInv, Voted
  <1>4. IsFiniteSet(V)
    BY <1>2, ServerAssumption, FS_Subset
  <1>5. Cardinality(V \cup {s}) = Cardinality(V) + 1 /\ Cardinality(V) \in Nat
    BY <1>3, <1>4, FS_AddElement, FS_CardinalityType
  <1>6. Majority(Cardinality(V \cup {s}))
    BY <1>5 DEF Majority
  <1>7. V \cup {s} \in SUBSET Server
    BY <1>2
  <1>. HIDE DEF V
  <1>. QED  BY <1>3, <1>6, <1>7

\* A new entry of the election history has a majority, and the majority of an
\* old one never votes for another in that term.
LEMMA ElectedStep == ASSUME Inv, Next PROVE ElectedInv'
  <1>. /\ TypeOK /\ StableType /\ RoleType /\ HistoryType
       /\ GrantInv /\ ElectedInv /\ SelfVote
    BY DEF Inv, IndexInv, TypeOK, ElectionInv
  <1>1. ASSUME NEW e \in elected
        PROVE  /\ e.term <= currentTerm'[e.server]
               /\ e.term = currentTerm'[e.server] =>
                     /\ votedFor'[e.server] = e.server
                     /\ myRole'[e.server] # Candidate
               /\ \A c \in Server : ~ Voted(e.server, e.term, c)'
               /\ \E Q \in SUBSET Server :
                     /\ e.server \in Q
                     /\ Majority(Cardinality(Q))
                     /\ \A v \in Q \ {e.server} : Voted(v, e.term, e.server)'
    <2>1. /\ e.server \in Server /\ e.term \in Nat
          /\ currentTerm[e.server] \in Nat /\ currentTerm'[e.server] \in Nat
          /\ e.term <= currentTerm[e.server]
          /\ e.term = currentTerm[e.server] =>
                votedFor[e.server] = e.server /\ myRole[e.server] # Candidate
      BY StableTypeStep DEF Inv, HistoryType, StableType, ElectedInv
    <2>2. PeerStep(e.server)
      BY <2>1, PeerSteps
    <2>3. /\ e.term <= currentTerm'[e.server]
          /\ e.term = currentTerm'[e.server] =>
                votedFor'[e.server] = e.server /\ myRole'[e.server] # Candidate
      BY <2>1, <2>2, NilAssumption DEF PeerStep, Leader, Follower, Candidate
    <2>4. ASSUME NEW c \in Server, NEW r \in voteReps', r.granted,
                 r.src = e.server, r.reqTerm = e.term, r.dst = c
          PROVE  FALSE
      <3>1. CASE r \in voteReps
        BY <2>4, <3>1 DEF ElectedInv, Voted
      <3>2. CASE r \notin voteReps
        <4>1. /\ r.src # r.dst
              /\ \/ currentTerm[r.src] < r.reqTerm
                 \/ currentTerm[r.src] = r.reqTerm /\ votedFor[r.src] \in {Nil, r.dst}
          BY <2>4, <3>2, NewGrant
        <4>. QED  BY <2>1, <2>4, <4>1, NilAssumption
      <3>. QED  BY <3>1, <3>2
    <2>5. \A c \in Server : ~ Voted(e.server, e.term, c)'
      BY <2>4 DEF Voted
    <2>6. PICK Q \in SUBSET Server :
              /\ e.server \in Q
              /\ Majority(Cardinality(Q))
              /\ \A v \in Q \ {e.server} : Voted(v, e.term, e.server)
      BY DEF ElectedInv
    <2>7. \A v \in Q \ {e.server} : Voted(v, e.term, e.server)'
      BY <2>6, VotedStays
    <2>. QED  BY <2>3, <2>5, <2>6, <2>7
  <1>2. ASSUME NEW s \in Server, NEW r \in voteReps, CountVote(s, r),
               Majority(1 + Cardinality(Tally(s, r))),
               myRole' = [myRole EXCEPT ![s] = Leader],
               UNCHANGED <<currentTerm, votedFor, voteReps>>
        PROVE  /\ currentTerm[s] <= currentTerm'[s]
               /\ votedFor'[s] = s /\ myRole'[s] # Candidate
               /\ \A q \in voteReps' : q.granted /\ q.src = s =>
                                             q.reqTerm # currentTerm[s]
               /\ \E Q \in SUBSET Server :
                     /\ s \in Q
                     /\ Majority(Cardinality(Q))
                     /\ \A v \in Q \ {s} : Voted(v, currentTerm[s], s)'
    <2>1. myRole[s] = Candidate
      BY <1>2 DEF CountVote
    <2>2. currentTerm[s] <= currentTerm'[s] /\ votedFor'[s] = s
      BY <1>2, <2>1 DEF SelfVote, Follower, Candidate, StableType
    <2>3. myRole'[s] # Candidate
      BY <1>2 DEF RoleType, Leader, Candidate
    <2>5. \A q \in voteReps' : q.granted /\ q.src = s =>
                                    q.reqTerm # currentTerm[s]
      BY <1>2, <2>1 DEF GrantInv, Follower, Candidate
    <2>6. PICK Q \in SUBSET Server :
              /\ s \in Q
              /\ Majority(Cardinality(Q))
              /\ \A v \in Q \ {s} : Voted(v, currentTerm[s], s)
      BY <1>2, WinnerHasMajority
    <2>7. \A v \in Q \ {s} : Voted(v, currentTerm[s], s)'
      BY <1>2, <2>6 DEF Voted
    <2>. QED  BY <2>2, <2>3, <2>5, <2>6, <2>7
  <1>3. CASE UNCHANGED elected
    BY <1>1, <1>3 DEF ElectedInv
  <1>4. ASSUME NEW s \in Server, NEW r \in voteReps, CountVote(s, r),
               Majority(1 + Cardinality(Tally(s, r))),
               elected' = elected \cup {[term |-> currentTerm[s], server |-> s]},
               myRole' = [myRole EXCEPT ![s] = Leader],
               UNCHANGED <<currentTerm, votedFor, voteReps>>
        PROVE  ElectedInv'
    <2>. DEFINE e0 == [term |-> currentTerm[s], server |-> s]
    <2>1. /\ e0.term = currentTerm[s] /\ e0.server = s
          /\ elected' = elected \cup {e0}
      BY <1>4
    <2>. HIDE DEF e0
    <2>. SUFFICES ASSUME NEW e \in elected'
                  PROVE  /\ e.term <= currentTerm'[e.server]
                         /\ e.term = currentTerm'[e.server] =>
                               /\ votedFor'[e.server] = e.server
                               /\ myRole'[e.server] # Candidate
                         /\ \A c \in Server : ~ Voted(e.server, e.term, c)'
                         /\ \E Q \in SUBSET Server :
                               /\ e.server \in Q
                               /\ Majority(Cardinality(Q))
                               /\ \A v \in Q \ {e.server} :
                                     Voted(v, e.term, e.server)'
      BY DEF ElectedInv
    <2>2. CASE e \in elected
      BY <1>1, <2>2
    <2>3. CASE e = e0
      <3>1. e.term = currentTerm[s] /\ e.server = s
        BY <2>1, <2>3
      <3>2. /\ e.term <= currentTerm'[e.server]
            /\ votedFor'[e.server] = e.server /\ myRole'[e.server] # Candidate
        BY <1>2, <1>4, <3>1
      <3>3. \A c \in Server : ~ Voted(e.server, e.term, c)'
        <4>1. \A q \in voteReps' : q.granted /\ q.src = s =>
                                        q.reqTerm # currentTerm[s]
          BY <1>2, <1>4
        <4>. SUFFICES ASSUME NEW c \in Server, NEW q \in voteReps', q.granted,
                             q.src = e.server, q.reqTerm = e.term, q.dst = c
                      PROVE  FALSE
          BY DEF Voted
        <4>. QED  BY <3>1, <4>1
      <3>4. PICK Q \in SUBSET Server :
                /\ s \in Q
                /\ Majority(Cardinality(Q))
                /\ \A v \in Q \ {s} : Voted(v, currentTerm[s], s)'
        BY <1>2, <1>4
      <3>5. \A v \in Q \ {e.server} : Voted(v, e.term, e.server)'
        BY <1>4, <3>1, <3>4 DEF Voted
      <3>. QED  BY <3>1, <3>2, <3>3, <3>4, <3>5
    <2>. QED  BY <2>1, <2>2, <2>3
  <1>. QED  BY <1>3, <1>4, ElectedCases

\* Votes are counted by CountVote and forgotten by a new candidacy or a restart.
LEMMA TallyCases ==
    ASSUME Inv, Next, NEW c \in Server
    PROVE  \/ votesGranted'[c] = votesGranted[c]
           \/ votesGranted'[c] = [k \in Round |-> {}]
           \/ \E r \in voteReps : CountVote(c, r)
  <1>. VoteType
    BY DEF Inv, IndexInv, TypeOK
  <1>1. ASSUME NEW s \in Server, ElectionTimeout(s) \/ \E p : RestartFrom(s, p)
        PROVE  votesGranted'[c] \in {votesGranted[c], [k \in Round |-> {}]}
    BY <1>1 DEF ElectionTimeout, ConvertToCandidate, RestartFrom, VoteType
  <1>2. ASSUME NEW s \in Server, NEW r \in voteReps, CountVote(s, r), c # s
        PROVE  votesGranted'[c] = votesGranted[c]
    BY <1>2 DEF CountVote, VoteType
  <1>3. ASSUME NEW s \in Server,
               \/ StartLeader(s)
               \/ StartVoting(s)
               \/ \E d \in Command : Start(s, d)
               \/ \E p \in Server \ {s} : SendAppendEntries(s, p)
               \/ \E m \in voteReqs : RejectStaleVoteRequest(s, m)
               \/ \E m \in voteReqs : RequestVote(s, m)
               \/ \E q \in voteReps \cup appendReps : StepDown(s, q)
               \/ \E m \in appendReqs : RejectStaleAppend(s, m)
               \/ \E m \in appendReqs : RejectAppend(s, m)
               \/ \E m \in appendReqs : AcceptAppend(s, m)
               \/ \E q \in appendReps : HandleAppendSuccess(s, q)
               \/ \E q \in appendReps : HandleAppendConflict(s, q)
        PROVE  UNCHANGED votesGranted
    BY <1>3 DEF StartLeader, StartVoting, Start, SendAppendEntries,
                RejectStaleVoteRequest, RequestVote, StepDown, RejectStaleAppend,
                RejectAppend, AcceptAppend, RecogniseLeader, HandleAppendSuccess,
                HandleAppendConflict, votes
  <1>. QED  BY <1>1, <1>2, <1>3, RestartVote DEF Next

\* A candidate counts only votes of its current term, whatever round of
\* startVoting the reply belongs to.
LEMMA TallyStep == ASSUME Inv, Next PROVE TallyInv'
  <1>. TypeOK /\ StableType /\ RoleType /\ VoteType /\ TallyInv /\ GrantInv
    BY DEF Inv, IndexInv, TypeOK, ElectionInv
  <1>1. ASSUME NEW c \in Server, myRole[c] = Candidate,
               UNCHANGED <<votesGranted[c], currentTerm[c]>>
        PROVE  \A k \in Round : \A v \in votesGranted'[c][k] :
                  v # c /\ Voted(v, currentTerm[c], c)'
    BY <1>1, SetsGrow DEF TallyInv, Voted
  <1>2. ASSUME NEW c \in Server, NEW r \in voteReps, CountVote(c, r),
               currentTerm'[c] = currentTerm[c]
        PROVE  \A k \in Round : \A v \in votesGranted'[c][k] :
                  v # c /\ Voted(v, currentTerm[c], c)'
    <2>1. /\ r.dst = c /\ r.reqTerm = currentTerm[c] /\ myRole[c] = Candidate
          /\ r.src \in Server /\ r.round \in Round
          /\ votesGranted' = [votesGranted EXCEPT ![c][r.round] = Tally(c, r)]
          /\ voteReps' = voteReps
      BY <1>2, VoteReplyType DEF CountVote, voteNet
    <2>2. \A k \in Round : votesGranted'[c][k] =
              IF k = r.round THEN Tally(c, r) ELSE votesGranted[c][k]
      BY <2>1 DEF VoteType
    <2>3. \A v \in Tally(c, r) : v # c /\ Voted(v, currentTerm[c], c)
      BY <2>1 DEF Tally, TallyInv, GrantInv, Voted
    <2>4. \A k \in Round : \A v \in votesGranted'[c][k] :
              v # c /\ Voted(v, currentTerm[c], c)
      BY <2>1, <2>2, <2>3 DEF TallyInv
    <2>. QED  BY <1>2, <2>1, <2>4 DEF Voted
  <1>3. ASSUME NEW c \in Server, votesGranted'[c] = [k \in Round |-> {}]
        PROVE  \A k \in Round : \A v \in votesGranted'[c][k] :
                  v # c /\ Voted(v, currentTerm[c], c)'
    BY <1>3
  <1>4. ASSUME NEW c \in Server, myRole'[c] = Candidate
        PROVE  \/ /\ myRole[c] = Candidate /\ currentTerm'[c] = currentTerm[c]
               \/ votesGranted'[c] = [k \in Round |-> {}]
    BY <1>4, PeerSteps DEF PeerStep, RoleType, Leader, Follower, Candidate
  <1>. SUFFICES ASSUME NEW c \in Server, myRole'[c] = Candidate
                PROVE  \A k \in Round : \A v \in votesGranted'[c][k] :
                          v # c /\ Voted(v, currentTerm[c], c)'
    BY DEF TallyInv
  <1>. QED  BY <1>1, <1>2, <1>3, <1>4, TallyCases

\* Leaders and senders were elected.
LEMMA LeadersStep == ASSUME Inv, Next PROVE LeadersInv'
  <1>. TypeOK /\ StableType /\ RoleType /\ LeadersInv
    BY DEF Inv, IndexInv, TypeOK, ElectionInv
  <1>1. ASSUME NEW s \in Server, myRole'[s] = Leader
        PROVE  [term |-> currentTerm'[s], server |-> s] \in elected'
    BY <1>1, PeerSteps, SetsGrow
    DEF PeerStep, LeadersInv, Leader, Follower, Candidate
  <1>2. ASSUME NEW s \in Server, NEW p \in Server \ {s}, SendAppendEntries(s, p)
        PROVE  /\ \A m \in appendReqs' :
                     [term |-> m.term, server |-> m.src] \in elected'
               /\ voteReqs' = voteReqs
    <2>1. [term |-> currentTerm[s], server |-> s] \in elected
      BY <1>2 DEF SendAppendEntries, LeadersInv
    <2>2. \A m \in appendReqs' \ appendReqs : m.term = currentTerm[s] /\ m.src = s
      BY <1>2 DEF SendAppendEntries
    <2>3. UNCHANGED <<elected, voteReqs>>
      BY <1>2 DEF SendAppendEntries, history, voteNet
    <2>. QED  BY <2>1, <2>2, <2>3 DEF LeadersInv
  <1>3. ASSUME NEW s \in Server, StartVoting(s)
        PROVE  /\ \A m \in voteReqs' : m.src # m.dst
               /\ appendReqs' = appendReqs
    BY <1>3 DEF StartVoting, LeadersInv, appendNet
  <1>4. ASSUME NEW s \in Server,
               \/ ElectionTimeout(s)
               \/ StartLeader(s)
               \/ \E d \in Command : Start(s, d)
               \/ \E m \in voteReqs : RejectStaleVoteRequest(s, m)
               \/ \E m \in voteReqs : RequestVote(s, m)
               \/ \E q \in voteReps \cup appendReps : StepDown(s, q)
               \/ \E q \in voteReps : CountVote(s, q)
               \/ \E m \in appendReqs : RejectStaleAppend(s, m)
               \/ \E m \in appendReqs : RejectAppend(s, m)
               \/ \E m \in appendReqs : AcceptAppend(s, m)
               \/ \E q \in appendReps : HandleAppendSuccess(s, q)
               \/ \E q \in appendReps : HandleAppendConflict(s, q)
               \/ \E p : RestartFrom(s, p)
        PROVE  UNCHANGED <<voteReqs, appendReqs>>
    BY <1>4 DEF ElectionTimeout, StartLeader, Start, RejectStaleVoteRequest,
                RequestVote, StepDown, CountVote, RejectStaleAppend, RejectAppend,
                AcceptAppend, RecogniseLeader, HandleAppendSuccess,
                HandleAppendConflict, RestartFrom, voteNet, appendNet
  <1>5. CASE UNCHANGED <<voteReqs, appendReqs>>
    BY <1>1, <1>5, SetsGrow DEF LeadersInv
  <1>6. ASSUME NEW s \in Server, NEW p \in Server \ {s}, SendAppendEntries(s, p)
        PROVE  LeadersInv'
    BY <1>1, <1>2, <1>6 DEF LeadersInv
  <1>7. ASSUME NEW s \in Server, StartVoting(s) PROVE LeadersInv'
    BY <1>1, <1>3, <1>7, SetsGrow DEF LeadersInv
  <1>. QED  BY <1>4, <1>5, <1>6, <1>7, RestartVote DEF Next

-----------------------------------------------------------------------------
(* The indices of leaders and of messages. *)

\* The sender of AppendEntries in a term is the only leader of the term.
LEMMA OneLeader ==
    ASSUME Inv, NEW s \in Server, myRole[s] = Leader, NEW m \in appendReqs,
           m.term = currentTerm[s]
    PROVE  m.src = s
  <1>1. ElectionSafety
    BY ElectionInvSafe DEF Inv, IndexInv
  <1>2. /\ [term |-> currentTerm[s], server |-> s] \in elected
        /\ [term |-> m.term, server |-> m.src] \in elected
    BY DEF Inv, ElectionInv, LeadersInv
  <1>. QED  BY <1>1, <1>2 DEF ElectionSafety

\* So a leader never follows: the log of a server that stays leader only grows.
LEMMA LeaderKeepsLog ==
    ASSUME Inv, Next, NEW x \in Server, myRole[x] = Leader, myRole'[x] = Leader
    PROVE  Len(log'[x]) \in Nat /\ Len(log[x]) <= Len(log'[x])
  <1>. TypeOK /\ StableType /\ RoleType /\ IndexInv
    BY DEF Inv, IndexInv, TypeOK
  <1>1. /\ log[x] \in Seq(Entry) /\ Len(log[x]) \in Nat
        /\ log'[x] \in Seq(Entry) /\ Len(log'[x]) \in Nat
    BY StableTypeStep DEF StableType
  <1>2. ASSUME NEW s \in Server, NEW c \in Command, Start(s, c)
        PROVE  Len(log[x]) <= Len(log'[x])
    <2>. DEFINE e == [term |-> currentTerm[s], command |-> c]
                l == Append(log[s], e)
    <2>1. log' = [log EXCEPT ![s] = l]
      BY <1>2 DEF Start
    <2>2. e \in Entry /\ log[s] \in Seq(Entry)
      BY DEF Entry, StableType
    <2>3. Len(l) = Len(log[s]) + 1
      BY <2>2, AppendProperties
    <2>. HIDE DEF l
    <2>4. CASE x = s
      BY <1>1, <2>1, <2>3, <2>4 DEF StableType
    <2>5. CASE x # s
      BY <1>1, <2>1, <2>5 DEF StableType
    <2>. QED  BY <2>4, <2>5
  <1>3. ASSUME NEW s \in Server, NEW m \in appendReqs, AcceptAppend(s, m)
        PROVE  log'[x] = log[x]
    <2>1. CASE x # s
      BY <1>3, <2>1 DEF AcceptAppend, StableType
    <2>2. CASE x = s
      <3>1. m.dst = s /\ m.term >= currentTerm[s] /\ m.term \in Nat
            /\ myRole'[s] = (IF Recognises(s, m) THEN Follower ELSE myRole[s])
        BY <1>3, AppendArgsType DEF AcceptAppend, RecogniseLeader, RoleType
      <3>2. ~ Recognises(s, m)
        BY <2>2, <3>1 DEF Leader, Follower
      <3>3. m.term = currentTerm[s]
        BY <3>1, <3>2 DEF Recognises, StableType
      <3>4. m.src = s
        BY <2>2, <3>3, OneLeader
      <3>5. m.src # m.dst
        BY DEF IndexInv, AppendReqInv
      <3>. QED  BY <3>1, <3>4, <3>5
    <2>. QED  BY <2>1, <2>2
  <1>4. ASSUME NEW s \in Server, NEW p, RestartFrom(s, p)
        PROVE  log'[x] = log[x]
    BY <1>4 DEF RestartFrom, StableType, RoleType, Leader, Follower
  <1>5. ASSUME NEW s \in Server,
               \/ ElectionTimeout(s)
               \/ StartLeader(s)
               \/ StartVoting(s)
               \/ \E p \in Server \ {s} : SendAppendEntries(s, p)
               \/ \E m \in voteReqs : RejectStaleVoteRequest(s, m)
               \/ \E m \in voteReqs : RequestVote(s, m)
               \/ \E q \in voteReps \cup appendReps : StepDown(s, q)
               \/ \E q \in voteReps : CountVote(s, q)
               \/ \E m \in appendReqs : RejectStaleAppend(s, m)
               \/ \E m \in appendReqs : RejectAppend(s, m)
               \/ \E q \in appendReps : HandleAppendSuccess(s, q)
               \/ \E q \in appendReps : HandleAppendConflict(s, q)
        PROVE  UNCHANGED log
    BY <1>5 DEF ElectionTimeout, StartLeader, StartVoting, SendAppendEntries,
                RejectStaleVoteRequest, RequestVote, StepDown, CountVote,
                RejectStaleAppend, RejectAppend, HandleAppendSuccess,
                HandleAppendConflict, stable
  <1>. QED  BY <1>1, <1>2, <1>3, <1>4, <1>5, RestartVote DEF Next

\* What WithinSender says of a message stays true.
LEMMA WithinStep ==
    ASSUME Inv, Next, NEW x \in Server, NEW term \in Nat, NEW reach \in Nat,
           WithinSender(x, term, reach)
    PROVE  WithinSender(x, term, reach)'
  <1>. StableType /\ RoleType
    BY DEF Inv, IndexInv, TypeOK
  <1>1. /\ currentTerm[x] \in Nat /\ currentTerm'[x] \in Nat
        /\ Len(log[x]) \in Nat
    BY StableTypeStep DEF StableType, Inv
  <1>2. PeerStep(x)
    BY PeerSteps
  <1>3. term <= currentTerm'[x]
    BY <1>1, <1>2 DEF PeerStep, WithinSender
  <1>4. ASSUME term = currentTerm'[x]
        PROVE  /\ term = currentTerm[x]
               /\ myRole[x] # Candidate /\ myRole'[x] # Candidate
               /\ myRole'[x] = Leader => myRole[x] = Leader
    <2>1. term = currentTerm[x]
      BY <1>1, <1>2, <1>4 DEF PeerStep, WithinSender
    <2>. QED
      BY <1>1, <1>2, <1>4, <2>1
      DEF PeerStep, WithinSender, Leader, Follower, Candidate
  <1>5. ASSUME term = currentTerm'[x], myRole'[x] = Leader
        PROVE  reach <= Len(log'[x])
    <2>1. reach <= Len(log[x]) /\ myRole[x] = Leader
      BY <1>4, <1>5 DEF WithinSender
    <2>. QED  BY <1>1, <1>5, <2>1, LeaderKeepsLog
  <1>. QED  BY <1>3, <1>4, <1>5 DEF WithinSender

-----------------------------------------------------------------------------
(* The indices of a leader. *)

\* Where the leader goes back to after a conflict is within its log.
LEMMA BacktrackInRange ==
    ASSUME Inv, NEW s \in Server, NEW r \in appendReps, CurrentReply(s, r),
           ~ r.success
    PROVE  BacktrackTo(s, r) \in 1..(Len(log[s]) + 1)
  <1>. DEFINE above == {i \in 1..Len(log[s]) : log[s][i].term > r.conflictTerm}
  <1>. TypeOK
    BY DEF Inv, IndexInv
  <1>1. /\ r.dst = s /\ r.reqTerm = currentTerm[s] /\ r.term <= currentTerm[s]
        /\ myRole[s] = Leader
        /\ r.reqTerm <= r.term
        /\ r.src \in Server /\ r.reqTerm \in Nat /\ r.term \in Nat
        /\ r.prevLogIndex \in Nat /\ r.sent \in Nat /\ r.conflictIndex \in Nat
        /\ r.conflictTerm \in Int
    BY AppendReplyType DEF CurrentReply, Inv, IndexInv, AppendRepInv
  <1>2. Len(log[s]) \in Nat /\ currentTerm[s] \in Nat
    BY DEF TypeOK, StableType
  <1>3. r.prevLogIndex + r.sent <= Len(log[s])
    BY <1>1 DEF Inv, IndexInv, AppendRepInv, WithinSender
  <1>4. r.conflictIndex \in 1..r.prevLogIndex
    BY <1>1, <1>2 DEF Inv, IndexInv, AppendRepInv
  <1>5. r.conflictIndex \in 1..(Len(log[s]) + 1)
    BY <1>1, <1>2, <1>3, <1>4
  <1>6. nextIndex[s][r.src] \in 1..(Len(log[s]) + 1)
    BY <1>1 DEF Inv, IndexInv, NextIndexInRange
  <1>7. above # {} => Min(above) \in 1..(Len(log[s]) + 1)
    <2>. SUFFICES ASSUME above # {} PROVE Min(above) \in 1..(Len(log[s]) + 1)
      OBVIOUS
    <2>1. above \in SUBSET Nat
      OBVIOUS
    <2>2. Min(above) \in above
      BY <2>1, NatMinimum
    <2>. QED  BY <1>2, <2>2
  <1>. QED  BY <1>5, <1>6, <1>7 DEF BacktrackTo

\* The arrays of every peer stay arrays of indices, and those of a leader stay
\* within its log.
LEMMA LeadingStep ==
    ASSUME Inv, Next
    PROVE  /\ nextIndex' \in [Server -> [Server -> Nat]]
           /\ matchIndex' \in [Server -> [Server -> Nat]]
           /\ NextIndexInRange'
  <1>. DEFINE Goal == /\ nextIndex' \in [Server -> [Server -> Nat]]
                      /\ matchIndex' \in [Server -> [Server -> Nat]]
                      /\ NextIndexInRange'
  <1>. TypeOK /\ StableType /\ RoleType /\ AppendType /\ NextIndexInRange /\ IndexInv
    BY DEF Inv, IndexInv, TypeOK
  <1>0. \A x \in Server : /\ Len(log[x]) \in Nat /\ Len(log'[x]) \in Nat
                          /\ myRole'[x] \in {Leader, Follower, Candidate}
    BY StableTypeStep, RoleTypeStep DEF StableType, RoleType
  <1>1. ASSUME NEW x \in Server, myRole[x] = Leader, myRole'[x] = Leader,
               NEW n \in 1..(Len(log[x]) + 1)
        PROVE  n \in 1..(Len(log'[x]) + 1)
    BY <1>0, <1>1, LeaderKeepsLog
  <1>2. ASSUME UNCHANGED leading,
               \A x \in Server : myRole'[x] = Leader => myRole[x] = Leader
        PROVE  Goal
    BY <1>1, <1>2 DEF leading, NextIndexInRange, AppendType
  <1>3. ASSUME NEW s \in Server,
               \/ ElectionTimeout(s)
               \/ StartLeader(s)
               \/ StartVoting(s)
               \/ \E c \in Command : Start(s, c)
               \/ \E p \in Server \ {s} : SendAppendEntries(s, p)
               \/ \E m \in voteReqs : RejectStaleVoteRequest(s, m)
               \/ \E m \in voteReqs : RequestVote(s, m)
               \/ \E q \in voteReps \cup appendReps : StepDown(s, q)
               \/ \E m \in appendReqs : RejectStaleAppend(s, m)
               \/ \E m \in appendReqs : RejectAppend(s, m)
               \/ \E m \in appendReqs : AcceptAppend(s, m)
        PROVE  /\ UNCHANGED leading
               /\ \A x \in Server : myRole'[x] = Leader => myRole[x] = Leader
    BY <1>3 DEF ElectionTimeout, ConvertToCandidate, StartLeader, StartVoting,
                Start, SendAppendEntries, RejectStaleVoteRequest, RequestVote,
                StepDown, ConvertToFollower, RejectStaleAppend, RejectAppend,
                AcceptAppend, RecogniseLeader, RoleType, roles, Leader, Follower,
                Candidate
  <1>4. ASSUME NEW s \in Server, NEW r \in voteReps, CountVote(s, r) PROVE Goal
    <2>1. CASE UNCHANGED <<stable, myRole, leading, elected>>
      BY <1>2, <2>1
    <2>2. CASE ConvertToLeader(s) /\ UNCHANGED <<currentTerm, votedFor, log>>
      <3>. DEFINE next  == [p \in Server |-> Len(log[s]) + 1]
                  match == [p \in Server |-> IF p = s THEN Len(log[s]) ELSE 0]
      <3>1. next \in [Server -> Nat] /\ match \in [Server -> Nat]
            /\ \A p \in Server : next[p] = Len(log[s]) + 1
        BY <1>0
      <3>2. /\ nextIndex' = [nextIndex EXCEPT ![s] = next]
            /\ matchIndex' = [matchIndex EXCEPT ![s] = match]
            /\ myRole' = [myRole EXCEPT ![s] = Leader]
            /\ log' = log
        BY <2>2 DEF ConvertToLeader
      <3>. HIDE DEF next, match
      <3>3. /\ nextIndex' \in [Server -> [Server -> Nat]]
            /\ matchIndex' \in [Server -> [Server -> Nat]]
        BY <3>1, <3>2 DEF AppendType
      <3>4. ASSUME NEW x \in Server, NEW p \in Server, myRole'[x] = Leader
            PROVE  nextIndex'[x][p] \in 1..(Len(log'[x]) + 1)
        <4>1. CASE x = s
          BY <1>0, <3>1, <3>2, <4>1 DEF AppendType
        <4>2. CASE x # s
          BY <3>2, <3>4, <4>2 DEF AppendType, RoleType, NextIndexInRange
        <4>. QED  BY <4>1, <4>2
      <3>. QED  BY <3>3, <3>4 DEF NextIndexInRange
    <2>. QED  BY <1>4, <2>1, <2>2 DEF CountVote
  <1>5. ASSUME NEW s \in Server, NEW p \in Server, myRole[s] = Leader,
               UNCHANGED <<log, myRole>>,
               NEW n \in 1..(Len(log[s]) + 1), NEW k \in Nat,
               nextIndex' = [nextIndex EXCEPT ![s][p] = n],
               \/ matchIndex' = matchIndex
               \/ matchIndex' = [matchIndex EXCEPT ![s] = [@ EXCEPT ![p] = k]]
        PROVE  Goal
    <2>1. n \in Nat
      BY <1>0
    <2>2. /\ nextIndex' \in [Server -> [Server -> Nat]]
          /\ matchIndex' \in [Server -> [Server -> Nat]]
      <3>1. nextIndex' \in [Server -> [Server -> Nat]]
        BY <1>5, <2>1 DEF AppendType
      <3>2. [matchIndex[s] EXCEPT ![p] = k] \in [Server -> Nat]
        BY DEF AppendType
      <3>3. matchIndex' \in [Server -> [Server -> Nat]]
        BY <1>5, <3>2 DEF AppendType
      <3>. QED  BY <3>1, <3>3
    <2>3. NextIndexInRange'
      BY <1>5 DEF AppendType, NextIndexInRange
    <2>. QED  BY <2>2, <2>3
  <1>6. ASSUME NEW s \in Server, NEW r \in appendReps, HandleAppendSuccess(s, r)
        PROVE  Goal
    <2>. DEFINE k == r.prevLogIndex + r.sent
    <2>1. /\ r.dst = s /\ r.reqTerm = currentTerm[s] /\ myRole[s] = Leader
          /\ nextIndex' = [nextIndex EXCEPT ![s][r.src] = k + 1]
          /\ matchIndex' = [matchIndex EXCEPT ![s] = [@ EXCEPT ![r.src] = k]]
          /\ UNCHANGED <<log, myRole>>
      BY <1>6 DEF HandleAppendSuccess, CurrentReply, stable, roles
    <2>2. k \in Nat /\ r.src \in Server
      BY AppendReplyType
    <2>3. k <= Len(log[s])
      BY <2>1 DEF IndexInv, AppendRepInv, WithinSender
    <2>4. k + 1 \in 1..(Len(log[s]) + 1)
      BY <1>0, <2>2, <2>3
    <2>. HIDE DEF k
    <2>. QED  BY <1>5, <2>1, <2>2, <2>4
  <1>7. ASSUME NEW s \in Server, NEW r \in appendReps, HandleAppendConflict(s, r)
        PROVE  Goal
    <2>1. /\ CurrentReply(s, r) /\ ~ r.success /\ myRole[s] = Leader
          /\ nextIndex' = [nextIndex EXCEPT ![s][r.src] = BacktrackTo(s, r)]
          /\ UNCHANGED <<log, myRole, matchIndex>>
      BY <1>7 DEF HandleAppendConflict, CurrentReply, stable, roles
    <2>2. r.src \in Server
      BY AppendReplyType
    <2>3. BacktrackTo(s, r) \in 1..(Len(log[s]) + 1)
      BY <2>1, BacktrackInRange
    <2>. QED  BY <1>5, <2>1, <2>2, <2>3
  <1>8. ASSUME NEW s \in Server, NEW p, RestartFrom(s, p) PROVE Goal
    <2>. DEFINE ones  == [p2 \in Server |-> 1]
                zeros == [p2 \in Server |-> 0]
    <2>1. ones \in [Server -> Nat] /\ zeros \in [Server -> Nat]
      OBVIOUS
    <2>2. /\ nextIndex' = [nextIndex EXCEPT ![s] = ones]
          /\ matchIndex' = [matchIndex EXCEPT ![s] = zeros]
          /\ myRole' = [myRole EXCEPT ![s] = Follower]
          /\ log' = [log EXCEPT ![s] = p.log]
      BY <1>8 DEF RestartFrom
    <2>. HIDE DEF ones, zeros
    <2>3. /\ nextIndex' \in [Server -> [Server -> Nat]]
          /\ matchIndex' \in [Server -> [Server -> Nat]]
      BY <2>1, <2>2 DEF AppendType
    <2>4. ASSUME NEW x \in Server, myRole'[x] = Leader
          PROVE  /\ x # s /\ myRole[x] = Leader
                 /\ nextIndex'[x] = nextIndex[x] /\ log'[x] = log[x]
      BY <2>2, <2>4 DEF AppendType, RoleType, StableType, Leader, Follower
    <2>. QED  BY <2>3, <2>4 DEF NextIndexInRange
  <1>. HIDE DEF Goal
  <1>9. Goal
    BY <1>2, <1>3, <1>4, <1>6, <1>7, <1>8, RestartVote DEF Next
  <1>. QED  BY <1>9 DEF Goal

-----------------------------------------------------------------------------
(* The requests and the replies of AppendEntries. *)

\* A request that is sent now carries a suffix of its leader's log.
LEMMA SentRequest ==
    ASSUME Inv, NEW s \in Server, NEW p \in Server \ {s},
           SendAppendEntries(s, p), NEW m \in appendReqs', m \notin appendReqs
    PROVE  /\ m \in AppendEntriesArgs
           /\ m.src # m.dst
           /\ WithinSender(m.src, m.term, m.prevLogIndex + Len(m.entries))
  <1>. DEFINE prev == nextIndex[s][p] - 1
              n    == Len(log[s])
              e    == SubSeq(log[s], prev + 1, n)
              t    == IF prev > 0 THEN log[s][prev].term ELSE 0
  <1>. TypeOK /\ StableType /\ RoleType /\ ProgressType
    BY DEF Inv, IndexInv, TypeOK
  <1>1. /\ myRole[s] = Leader
        /\ m = [src |-> s, dst |-> p, inst |-> inst[s], term |-> currentTerm[s],
                prevLogIndex |-> prev, prevLogTerm |-> t, entries |-> e,
                leaderCommit |-> commitIndex[s]]
    BY DEF SendAppendEntries
  <1>2. log[s] \in Seq(Entry) /\ n \in Nat
    BY DEF StableType
  <1>3. prev \in 0..n
    <2>1. nextIndex[s][p] \in 1..(n + 1)
      BY <1>1 DEF Inv, IndexInv, NextIndexInRange
    <2>. QED  BY <1>2, <2>1
  <1>4. t \in Nat
    <2>1. prev > 0 => log[s][prev] \in Entry
      BY <1>2, <1>3, ElementOfSeq
    <2>. HIDE DEF prev
    <2>. QED  BY <2>1 DEF Entry
  <1>. HIDE DEF prev, t
  <1>5. e \in Seq(Entry) /\ Len(e) = n - prev
    BY <1>2, <1>3, SubSeqProperties
  <1>. HIDE DEF e, n
  <1>6. prev + Len(e) = n /\ prev \in Nat
    BY <1>2, <1>3, <1>5
  <1>7. /\ inst[s] \in Nat /\ currentTerm[s] \in Nat /\ commitIndex[s] \in Nat
    BY DEF RoleType, StableType, ProgressType
  <1>8. m \in AppendEntriesArgs
    BY <1>1, <1>4, <1>5, <1>6, <1>7 DEF AppendEntriesArgs
  <1>9. WithinSender(s, currentTerm[s], n)
    BY <1>1, <1>2, <1>7 DEF WithinSender, Leader, Candidate, n
  <1>. QED  BY <1>1, <1>6, <1>8, <1>9

\* So every request in the network keeps within the log of its leader.
LEMMA RequestStep ==
    ASSUME Inv, Next
    PROVE  appendReqs' \subseteq AppendEntriesArgs /\ AppendReqInv'
  <1>. TypeOK /\ AppendType /\ AppendReqInv
    BY DEF Inv, IndexInv, TypeOK
  <1>1. ASSUME NEW m \in appendReqs
        PROVE  /\ m \in AppendEntriesArgs
               /\ m.src # m.dst
               /\ WithinSender(m.src, m.term, m.prevLogIndex + Len(m.entries))'
    <2>1. /\ m.src \in Server /\ m.term \in Nat
          /\ m.prevLogIndex + Len(m.entries) \in Nat
      BY AppendArgsType
    <2>2. WithinSender(m.src, m.term, m.prevLogIndex + Len(m.entries))
      BY DEF AppendReqInv
    <2>3. WithinSender(m.src, m.term, m.prevLogIndex + Len(m.entries))'
      BY <2>1, <2>2, WithinStep
    <2>. QED  BY <2>3 DEF AppendReqInv, AppendType
  <1>2. ASSUME NEW s \in Server, NEW p \in Server \ {s}, SendAppendEntries(s, p),
               NEW m \in appendReqs', m \notin appendReqs
        PROVE  /\ m \in AppendEntriesArgs
               /\ m.src # m.dst
               /\ WithinSender(m.src, m.term, m.prevLogIndex + Len(m.entries))'
    <2>1. /\ m \in AppendEntriesArgs /\ m.src # m.dst
          /\ WithinSender(m.src, m.term, m.prevLogIndex + Len(m.entries))
      BY <1>2, SentRequest
    <2>2. /\ m.src \in Server /\ m.term \in Nat
          /\ m.prevLogIndex + Len(m.entries) \in Nat
      BY <2>1 DEF AppendEntriesArgs
    <2>. QED  BY <2>1, <2>2, WithinStep
  <1>3. ASSUME NEW s \in Server,
               \/ ElectionTimeout(s)
               \/ StartLeader(s)
               \/ StartVoting(s)
               \/ \E c \in Command : Start(s, c)
               \/ \E m \in voteReqs : RejectStaleVoteRequest(s, m)
               \/ \E m \in voteReqs : RequestVote(s, m)
               \/ \E q \in voteReps \cup appendReps : StepDown(s, q)
               \/ \E q \in voteReps : CountVote(s, q)
               \/ \E m \in appendReqs : RejectStaleAppend(s, m)
               \/ \E m \in appendReqs : RejectAppend(s, m)
               \/ \E m \in appendReqs : AcceptAppend(s, m)
               \/ \E q \in appendReps : HandleAppendSuccess(s, q)
               \/ \E q \in appendReps : HandleAppendConflict(s, q)
               \/ \E p : RestartFrom(s, p)
        PROVE  UNCHANGED appendReqs
    BY <1>3 DEF ElectionTimeout, StartLeader, StartVoting, Start,
                RejectStaleVoteRequest, RequestVote, StepDown, CountVote,
                RejectStaleAppend, RejectAppend, AcceptAppend, RecogniseLeader,
                HandleAppendSuccess, HandleAppendConflict, RestartFrom, appendNet
  <1>4. CASE UNCHANGED appendReqs
    BY <1>1, <1>4 DEF AppendReqInv
  <1>5. ASSUME NEW s \in Server, NEW p \in Server \ {s}, SendAppendEntries(s, p)
        PROVE  appendReqs' \subseteq AppendEntriesArgs /\ AppendReqInv'
    BY <1>1, <1>2, <1>5 DEF AppendReqInv
  <1>. QED  BY <1>3, <1>4, <1>5, RestartVote DEF Next

\* Reply r answers request m: with a term no lower than the request's and, when it
\* refuses the request in its own term, with an index at or before prevLogIndex.
Answers(r, m) ==
    /\ r \in AppendEntriesReply
    /\ r.dst = m.src
    /\ r.reqTerm = m.term
    /\ r.prevLogIndex = m.prevLogIndex
    /\ r.sent = Len(m.entries)
    /\ m.term <= r.term
    /\ (~ r.success /\ r.term = m.term) => r.conflictIndex \in 1..m.prevLogIndex

\* Every handler of AppendEntries answers the request it was handed.
LEMMA NewReply ==
    ASSUME Inv, Next, NEW r \in appendReps', r \notin appendReps
    PROVE  \E m \in appendReqs : Answers(r, m)
  <1>. TypeOK /\ StableType
    BY DEF Inv, IndexInv, TypeOK
  <1>0. \A m \in appendReqs : /\ m.term \in Nat /\ m.prevLogIndex \in Nat
                               /\ Len(m.entries) \in Nat
    BY AppendArgsType
  <1>1. ASSUME NEW s \in Server, NEW m \in appendReqs, RejectStaleAppend(s, m)
        PROVE  Answers(r, m)
    <2>1. r = AppendReply(m, currentTerm[s], FALSE, 0, 0)
      BY <1>1 DEF RejectStaleAppend
    <2>2. m.term < currentTerm[s] /\ currentTerm[s] \in Nat
      BY <1>1 DEF RejectStaleAppend, StableType
    <2>3. m.term <= currentTerm[s] /\ currentTerm[s] # m.term
      BY <1>0, <2>2
    <2>. QED  BY <1>0, <2>1, <2>2, <2>3, AppendArgsType
          DEF Answers, AppendReply, AppendEntriesReply
  <1>2. ASSUME NEW s \in Server, NEW m \in appendReqs, RejectAppend(s, m)
        PROVE  Answers(r, m)
    <2>0. /\ m.prevLogIndex \in Nat /\ Len(log[s]) \in Nat
          /\ log[s] \in Seq(Entry) /\ m.term \in Nat
      BY <1>0 DEF StableType
    <2>1. CASE /\ m.prevLogIndex > Len(log[s])
               /\ appendReps' = appendReps \cup
                     {AppendReply(m, m.term, FALSE, -1, Len(log[s]) + 1)}
      <3>1. Len(log[s]) + 1 \in 1..m.prevLogIndex /\ Len(log[s]) + 1 \in Nat
        BY <2>0, <2>1
      <3>2. r = AppendReply(m, m.term, FALSE, -1, Len(log[s]) + 1)
        BY <2>1
      <3>. QED  BY <1>0, <2>0, <3>1, <3>2, AppendArgsType
          DEF Answers, AppendReply, AppendEntriesReply
    <2>2. ASSUME NEW t, NEW first, m.prevLogIndex \in 1..Len(log[s]),
                 t = log[s][m.prevLogIndex].term,
                 first = Min({i \in 1..Len(log[s]) : log[s][i].term = t}),
                 appendReps' = appendReps \cup
                     {AppendReply(m, m.term, FALSE, t, first)}
          PROVE  Answers(r, m)
      <3>. DEFINE T == {i \in 1..Len(log[s]) : log[s][i].term = t}
      <3>1. m.prevLogIndex \in T /\ T \in SUBSET Nat
        BY <2>0, <2>2
      <3>2. first \in T /\ first <= m.prevLogIndex
        BY <2>2, <3>1, NatMinimum
      <3>3. first \in 1..m.prevLogIndex /\ first \in Nat
        BY <2>0, <3>2
      <3>4. t \in Int
        <4>1. log[s][m.prevLogIndex] \in Entry
          BY <2>0, <2>2, ElementOfSeq
        <4>. QED  BY <2>2, <4>1 DEF Entry
      <3>5. r = AppendReply(m, m.term, FALSE, t, first)
        BY <2>2
      <3>. QED  BY <1>0, <2>0, <3>3, <3>4, <3>5, AppendArgsType
          DEF Answers, AppendReply, AppendEntriesReply
    <2>. QED  BY <1>2, <2>1, <2>2 DEF RejectAppend
  <1>3. ASSUME NEW s \in Server, NEW m \in appendReqs, AcceptAppend(s, m)
        PROVE  Answers(r, m)
    <2>1. r = AppendReply(m, m.term, TRUE, 0, 0)
      BY <1>3 DEF AcceptAppend
    <2>. QED  BY <1>0, <2>1, AppendArgsType
          DEF Answers, AppendReply, AppendEntriesReply
  <1>4. ASSUME NEW s \in Server,
               \/ ElectionTimeout(s)
               \/ StartLeader(s)
               \/ StartVoting(s)
               \/ \E c \in Command : Start(s, c)
               \/ \E p \in Server \ {s} : SendAppendEntries(s, p)
               \/ \E m \in voteReqs : RejectStaleVoteRequest(s, m)
               \/ \E m \in voteReqs : RequestVote(s, m)
               \/ \E q \in voteReps \cup appendReps : StepDown(s, q)
               \/ \E q \in voteReps : CountVote(s, q)
               \/ \E q \in appendReps : HandleAppendSuccess(s, q)
               \/ \E q \in appendReps : HandleAppendConflict(s, q)
               \/ \E p : RestartFrom(s, p)
        PROVE  UNCHANGED appendReps
    BY <1>4 DEF ElectionTimeout, StartLeader, StartVoting, Start,
                SendAppendEntries, RejectStaleVoteRequest, RequestVote, StepDown,
                CountVote, HandleAppendSuccess, HandleAppendConflict, RestartFrom,
                appendNet
  <1>. QED  BY <1>1, <1>2, <1>3, <1>4, RestartVote DEF Next

\* And every reply keeps within the log of the leader it goes to.
LEMMA ReplyStep ==
    ASSUME Inv, Next
    PROVE  appendReps' \subseteq AppendEntriesReply /\ AppendRepInv'
  <1>. TypeOK /\ AppendType /\ AppendRepInv /\ AppendReqInv
    BY DEF Inv, IndexInv, TypeOK
  <1>1. ASSUME NEW r \in appendReps', r \in appendReps
        PROVE  /\ r \in AppendEntriesReply
               /\ r.reqTerm <= r.term
               /\ WithinSender(r.dst, r.reqTerm, r.prevLogIndex + r.sent)'
               /\ (~ r.success /\ r.term = r.reqTerm) =>
                      r.conflictIndex \in 1..r.prevLogIndex
    <2>1. /\ r.dst \in Server /\ r.reqTerm \in Nat
          /\ r.prevLogIndex + r.sent \in Nat
      BY <1>1, AppendReplyType
    <2>2. WithinSender(r.dst, r.reqTerm, r.prevLogIndex + r.sent)
      BY <1>1 DEF AppendRepInv
    <2>3. WithinSender(r.dst, r.reqTerm, r.prevLogIndex + r.sent)'
      BY <2>1, <2>2, WithinStep
    <2>. QED  BY <1>1, <2>3 DEF AppendRepInv, AppendType
  <1>2. ASSUME NEW r \in appendReps', r \notin appendReps
        PROVE  /\ r \in AppendEntriesReply
               /\ r.reqTerm <= r.term
               /\ WithinSender(r.dst, r.reqTerm, r.prevLogIndex + r.sent)'
               /\ (~ r.success /\ r.term = r.reqTerm) =>
                      r.conflictIndex \in 1..r.prevLogIndex
    <2>1. PICK m \in appendReqs : Answers(r, m)
      BY <1>2, NewReply
    <2>2. /\ m.src \in Server /\ m.term \in Nat
          /\ m.prevLogIndex + Len(m.entries) \in Nat
      BY AppendArgsType
    <2>3. WithinSender(r.dst, r.reqTerm, r.prevLogIndex + r.sent)
      BY <2>1 DEF AppendReqInv, Answers
    <2>4. WithinSender(r.dst, r.reqTerm, r.prevLogIndex + r.sent)'
      BY <2>1, <2>2, <2>3, WithinStep DEF Answers
    <2>. QED  BY <2>1, <2>4 DEF Answers
  <1>3. appendReps' \subseteq AppendEntriesReply
    BY <1>1, <1>2
  <1>. QED  BY <1>1, <1>2, <1>3 DEF AppendRepInv

-----------------------------------------------------------------------------
(* The induction and its consequences. *)

\* Inv holds at the start.
LEMMA InitInv == Init => Inv
  <1>1. Init => ElectionInv
    BY DEF Init, ElectionInv, GrantInv, GrantUnique, SelfVote, TallyInv,
           ElectedInv, LeadersInv, Leader, Follower, Candidate
  <1>. QED  BY <1>1, InitIndexInv DEF Inv

\* Every step keeps it, and so does a step that changes nothing.
LEMMA NextInv == Inv /\ [Next]_vars => Inv'
  <1>1. ASSUME Inv, Next PROVE Inv'
    <2>1. IndexInv
      BY <1>1 DEF Inv
    <2>2. StableType' /\ ProgressType' /\ RoleType' /\ VoteType' /\ HistoryType'
      BY <1>1, <2>1, StableTypeStep, ProgressTypeStep, RoleTypeStep,
         VoteTypeStep, HistoryTypeStep
    <2>3. AppendType' /\ NextIndexInRange'
      BY <1>1, LeadingStep, RequestStep, ReplyStep DEF AppendType
    <2>4. TypeOK'
      BY <2>2, <2>3 DEF TypeOK
    <2>5. PersistedIsCurrent' /\ DeliveredInv'
      BY <1>1, <2>1, PersistedStep, ProgressTypeStep
    <2>6. AppendReqInv' /\ AppendRepInv'
      BY <1>1, RequestStep, ReplyStep
    <2>7. ElectionInv'
      BY <1>1, GrantStep, SelfVoteStep, TallyStep, ElectedStep, LeadersStep
      DEF ElectionInv
    <2>. QED  BY <2>3, <2>4, <2>5, <2>6, <2>7 DEF Inv, IndexInv
  <1>2. ASSUME Inv, UNCHANGED vars PROVE Inv'
    <2>1. /\ UNCHANGED <<currentTerm, votedFor, log, persisted>>
          /\ UNCHANGED <<commitIndex, lastApplied, applied>>
          /\ UNCHANGED <<myRole, inStartLeader, restarts, inst>>
          /\ UNCHANGED <<votingRound, votesGranted, voteReqs, voteReps>>
          /\ UNCHANGED <<nextIndex, matchIndex, appendReqs, appendReps>>
          /\ UNCHANGED <<elected, started>>
      BY <1>2 DEF vars, stable, progress, roles, votes, leading, instances,
                  voteNet, appendNet, history
    <2>2. TypeOK'
      BY <1>2, <2>1 DEF Inv, IndexInv, TypeOK, StableType, ProgressType, RoleType,
                        VoteType, AppendType, HistoryType
    <2>3. PersistedIsCurrent' /\ DeliveredInv' /\ NextIndexInRange'
      BY <1>2, <2>1 DEF Inv, IndexInv, PersistedIsCurrent, DeliveredInv,
                        NextIndexInRange
    <2>4. AppendReqInv' /\ AppendRepInv'
      BY <1>2, <2>1 DEF Inv, IndexInv, AppendReqInv, AppendRepInv, WithinSender
    <2>5. ElectionInv'
      BY <1>2, <2>1 DEF Inv, ElectionInv, GrantInv, GrantUnique, SelfVote,
                        TallyInv, ElectedInv, LeadersInv, Voted
    <2>. QED  BY <2>2, <2>3, <2>4, <2>5 DEF Inv, IndexInv
  <1>. QED  BY <1>1, <1>2

\* Every reachable state of the peers, whatever the number of peers and of
\* terms, satisfies the invariant.
THEOREM Invariance == Spec => []Inv
  BY InitInv, NextInv, PTL DEF Spec

\* The variables keep the types of their Go declarations; in particular no index
\* that sendAppendEntriesToOnePeer computes is negative, and no slice of the log
\* it takes is out of range.
THEOREM TypeCorrect == Spec => []TypeOK
  <1>1. Inv => TypeOK
    BY DEF Inv, IndexInv
  <1>. QED  BY <1>1, Invariance, PTL

\* At most one server is elected in a term (5.2).
THEOREM ElectionSafe == Spec => []ElectionSafety
  <1>1. Inv => ElectionSafety
    BY ElectionInvSafe DEF Inv, IndexInv
  <1>. QED  BY <1>1, Invariance, PTL

\* nextIndex of a leader never leaves its log, although the code checks neither
\* bound: the conflict index of a reply makes the missing check needless.
THEOREM NextIndexSafe == Spec => []NextIndexInRange
  <1>1. Inv => NextIndexInRange
    BY DEF Inv, IndexInv
  <1>. QED  BY <1>1, Invariance, PTL

\* What a peer holds in memory between two critical sections is on its Persister.
THEOREM Persisted == Spec => []PersistedIsCurrent
  <1>1. Inv => PersistedIsCurrent
    BY DEF Inv, IndexInv
  <1>. QED  BY <1>1, Invariance, PTL
=============================================================================
