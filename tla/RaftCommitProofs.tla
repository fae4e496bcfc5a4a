-------------------------- MODULE RaftCommitProofs --------------------------
(***************************************************************************)
(* What was committed stays.  A call x of Start is chosen once a majority  *)
(* has acknowledged it, dead once a majority of later terms has not; it is *)
(* never both.  Leaders of later terms hold whatever is not dead, and only *)
(* what is chosen is ever committed, announced or delivered.               *)
(***************************************************************************)
EXTENDS RaftLogProofs

-----------------------------------------------------------------------------
(* Chosen and dead calls. *)

\* Facts about the order of numbers, for terms and indices that are fields of
\* records.
LEMMA NatTrans == \A a, b, c \in Nat : a <= b /\ b <= c => a <= c
  OBVIOUS
LEMMA NatTotal == \A a, b \in Nat : a <= b \/ b <= a
  OBVIOUS

\* What Start has returned are an index and a term.
LEMMA StartedType ==
    ASSUME Inv, NEW L \in [Nat -> Seq(Entry)], LogInv(L), NEW x \in started
    PROVE  /\ x.term \in Nat /\ x.index \in Nat /\ x.index >= 1
           /\ x.index <= Len(L[x.term]) /\ x.index \in 1..Len(L[x.term])
           /\ L[x.term] \in Seq(Entry)
           /\ L[x.term][x.index].term = x.term
           /\ \E e \in elected : e.term = x.term
  <1>1. x.term \in Nat /\ x.index \in Nat
    BY DEF Inv, IndexInv, TypeOK, HistoryType
  <1>2. L[x.term] \in Seq(Entry) /\ Len(L[x.term]) \in Nat
    BY <1>1, LenProperties
  <1>3. /\ x.index \in 1..Len(L[x.term])
        /\ L[x.term][x.index] = [term |-> x.term, command |-> x.command]
    BY DEF LogInv, LeaderLogInv
  <1>4. L[x.term][x.index].term = x.term
    BY <1>3
  <1>5. x.index >= 1 /\ x.index <= Len(L[x.term])
    BY SMTT(40), <1>1, <1>2, <1>3
  <1>6. \E e \in elected : e.term = x.term
    <2>1. L[x.term] # <<>>
      <3>. SUFFICES ASSUME L[x.term] = <<>> PROVE FALSE
        OBVIOUS
      <3>1. Len(L[x.term]) = 0
        BY EmptySeq
      <3>. QED  BY <1>3, <3>1
    <2>. QED  BY <1>1, <2>1 DEF LogInv, LeaderLogInv
  <1>. QED  BY <1>1, <1>2, <1>3, <1>4, <1>5, <1>6

\* An acknowledgement stays.
LEMMA AckStays ==
    ASSUME Inv, Next, NEW q, NEW x, Acked(q, x)
    PROVE  Acked(q, x)'
  <1>1. elected \subseteq elected' /\ appendReps \subseteq appendReps'
    BY SetsGrow, RepliesGrow
  <1>. QED  BY <1>1 DEF Acked, RepReach

\* Servers acknowledge by accepting a request of that term.
LEMMA NewAck ==
    ASSUME Inv, Next, NEW L \in [Nat -> Seq(Entry)], LogInv(L),
           NEW q \in Server, NEW x \in started, Acked(q, x)', ~ Acked(q, x)
    PROVE  \E m \in appendReqs :
              AcceptAppend(q, m) /\ m.term = x.term /\ x.index <= Reach(m)
  <1>1. [term |-> x.term, server |-> q] \in elected'
        => [term |-> x.term, server |-> q] \in elected
    <2>. SUFFICES ASSUME [term |-> x.term, server |-> q] \in elected',
                         [term |-> x.term, server |-> q] \notin elected
                  PROVE  FALSE
      OBVIOUS
    <2>1. PICK s \in Server : Elects(s)
      BY ElectedCases DEF Elects
    <2>2. elected' = elected \cup {[term |-> currentTerm[s], server |-> s]}
      BY <2>1, ElectEffect
    <2>3. [term |-> x.term, server |-> q] = [term |-> currentTerm[s], server |-> s]
      BY <2>2
    <2>4. x.term = currentTerm[s]
      BY <2>3
    <2>5. PICK e \in elected : e.term = x.term
      BY StartedType
    <2>. QED  BY <2>1, <2>4, <2>5, FreshTerm
  <1>2. PICK r \in appendReps' : /\ r.success /\ r.src = q /\ r.reqTerm = x.term
                                 /\ x.index <= RepReach(r)
    BY <1>1 DEF Acked, RepReach
  <1>3. r \notin appendReps
    BY <1>2 DEF Acked
  <1>4. PICK s \in Server, m \in appendReqs :
            /\ AcceptAppend(s, m) /\ r.src = s /\ r.reqTerm = m.term
            /\ RepReach(r) = Reach(m)
    BY <1>2, <1>3, NewSuccess
  <1>. QED  BY <1>2, <1>4

\* So a server of a later term acknowledges nothing new.
LEMMA NoLateAck ==
    ASSUME Inv, Next, NEW L \in [Nat -> Seq(Entry)], LogInv(L),
           NEW q \in Server, NEW x \in started, currentTerm[q] > x.term, ~ Acked(q, x)
    PROVE  ~ Acked(q, x)'
  <1>. SUFFICES ASSUME Acked(q, x)' PROVE FALSE
    OBVIOUS
  <1>1. PICK m \in appendReqs : AcceptAppend(q, m) /\ m.term = x.term
    BY NewAck
  <1>2. m.term >= currentTerm[q]
    BY <1>1 DEF AcceptAppend, RecogniseLeader
  <1>3. currentTerm[q] \in Nat /\ x.term \in Nat
    BY StartedType, TermsGrow
  <1>. QED  BY <1>1, <1>2, <1>3

\* What is dead stays dead, what is chosen stays chosen.
LEMMA DeadStays ==
    ASSUME Inv, Next, NEW L \in [Nat -> Seq(Entry)], LogInv(L), NEW x \in started,
           Dead(x)
    PROVE  Dead(x)'
  <1>1. PICK Q \in SUBSET Server :
            /\ Majority(Cardinality(Q))
            /\ \A q \in Q : currentTerm[q] > x.term /\ ~ Acked(q, x)
    BY DEF Dead
  <1>2. x.term \in Nat
    BY StartedType
  <1>3. ASSUME NEW q \in Q PROVE currentTerm'[q] > x.term /\ ~ Acked(q, x)'
    <2>1. /\ currentTerm[q] \in Nat /\ currentTerm'[q] \in Nat
          /\ currentTerm[q] <= currentTerm'[q]
      BY TermsGrow
    <2>2. currentTerm[q] > x.term /\ ~ Acked(q, x)
      BY <1>1
    <2>3. currentTerm'[q] > x.term
      BY SMTT(40), <1>2, <2>1, <2>2
    <2>. QED  BY <2>2, <2>3, NoLateAck
  <1>. QED  BY <1>1, <1>3 DEF Dead

LEMMA ChosenStays ==
    ASSUME Inv, Next, NEW x, Chosen(x)
    PROVE  Chosen(x)'
  <1>1. PICK Q \in SUBSET Server :
            Majority(Cardinality(Q)) /\ \A q \in Q : Acked(q, x)
    BY DEF Chosen
  <1>2. \A q \in Q : Acked(q, x)'
    BY <1>1, AckStays
  <1>. QED  BY <1>1, <1>2 DEF Chosen

\* Any two majorities share a server, so nothing is both.
LEMMA ChosenIsNotDead ==
    ASSUME NEW x, Chosen(x)
    PROVE  ~ Dead(x)
  <1>. SUFFICES ASSUME Dead(x) PROVE FALSE
    OBVIOUS
  <1>1. PICK P \in SUBSET Server :
            Majority(Cardinality(P)) /\ \A q \in P : Acked(q, x)
    BY DEF Chosen
  <1>2. PICK Q \in SUBSET Server :
            Majority(Cardinality(Q)) /\ \A q \in Q : ~ Acked(q, x)
    BY DEF Dead
  <1>. QED  BY <1>1, <1>2, MajoritiesMeet

-----------------------------------------------------------------------------
(* How the history of leaders' logs advances. *)

\* K is the history after a step from a state with history L.
Advances(L, K) ==
    \/ \E s \in Server : Elects(s) /\ SetLog(L, K, currentTerm[s], log[s])
    \/ \E s \in Server, c \in Command :
          Start(s, c) /\ SetLog(L, K, currentTerm[s], log'[s])
    \/ Ordinary /\ K = L

\* Every step has one.
LEMMA AdvanceExists ==
    ASSUME Inv, Next, NEW L \in [Nat -> Seq(Entry)]
    PROVE  \E K \in [Nat -> Seq(Entry)] : Advances(L, K)
  <1>1. ASSUME NEW s \in Server, Elects(s)
        PROVE  \E K \in [Nat -> Seq(Entry)] : SetLog(L, K, currentTerm[s], log[s])
    <2>1. currentTerm[s] \in Nat /\ log[s] \in Seq(Entry)
      BY DEF Inv, IndexInv, TypeOK, StableType
    <2>. QED  BY <2>1 DEF SetLog
  <1>2. ASSUME NEW s \in Server, NEW c \in Command, Start(s, c)
        PROVE  \E K \in [Nat -> Seq(Entry)] : SetLog(L, K, currentTerm[s], log'[s])
    <2>1. currentTerm[s] \in Nat /\ log'[s] \in Seq(Entry)
      BY <1>2, StartEffect
    <2>. QED  BY <2>1 DEF SetLog
  <1>. QED  BY <1>1, <1>2, StepCases DEF Advances

\* It extends the old one, and explains the new state.
LEMMA AdvanceLog ==
    ASSUME Inv, Next, NEW L \in [Nat -> Seq(Entry)], LogInv(L),
           NEW K \in [Nat -> Seq(Entry)], Advances(L, K)
    PROVE  LogInv(K)' /\ Grows(L, K)
  <1>1. ASSUME NEW s \in Server, Elects(s), SetLog(L, K, currentTerm[s], log[s])
        PROVE  LogInv(K)' /\ Grows(L, K)
    BY <1>1, ElectLog, ElectHistory
  <1>2. ASSUME NEW s \in Server, NEW c \in Command, Start(s, c),
               SetLog(L, K, currentTerm[s], log'[s])
        PROVE  LogInv(K)' /\ Grows(L, K)
    BY <1>2, StartLog, StartHistory
  <1>3. ASSUME Ordinary, K = L
        PROVE  LogInv(K)' /\ Grows(L, K)
    <2>1. \A t \in Nat : SamePrefix(L[t], L[t], Len(L[t]))
      <3>. SUFFICES ASSUME NEW t \in Nat PROVE SamePrefix(L[t], L[t], Len(L[t]))
        OBVIOUS
      <3>1. L[t] \in Seq(Entry) /\ Len(L[t]) \in 0..Len(L[t])
        BY LenProperties
      <3>. QED  BY <3>1, SamePrefixRefl
    <2>2. LogInv(L)'
      BY <1>3, OrdinaryLog
    <2>. QED  BY <1>3, <2>1, <2>2 DEF Grows
  <1>. QED  BY <1>1, <1>2, <1>3 DEF Advances

\* A log that holds an entry still does when it is extended.
LEMMA HoldsGrows ==
    ASSUME NEW l \in Seq(Entry), NEW k \in Seq(Entry), SamePrefix(l, k, Len(l)),
           NEW x, x.index \in Nat, x.index >= 1, Holds(l, x)
    PROVE  Holds(k, x)
  <1>. DEFINE i == x.index
  <1>1. i \in Nat /\ i >= 1 /\ i <= Len(l) /\ l[i].term = x.term
    BY DEF Holds
  <1>2. Len(l) <= Len(k) /\ \A j \in 1..Len(l) : l[j] = k[j]
    BY DEF SamePrefix
  <1>3. Len(l) \in Nat /\ Len(k) \in Nat
    BY LenProperties
  <1>. HIDE DEF i
  <1>4. i \in 1..Len(l) /\ i <= Len(k)
    BY <1>1, <1>2, <1>3
  <1>5. k[i].term = x.term
    BY <1>1, <1>2, <1>4
  <1>. QED  BY <1>4, <1>5 DEF Holds, i

\* The servers that elected e are in its term or a later one.
LEMMA ElectorsMovedOn ==
    ASSUME Inv, NEW e \in elected
    PROVE  \E Q \in SUBSET Server :
              /\ Majority(Cardinality(Q))
              /\ \A v \in Q : e.term <= currentTerm[v]
  <1>1. PICK Q \in SUBSET Server :
            /\ e.server \in Q
            /\ Majority(Cardinality(Q))
            /\ \A v \in Q \ {e.server} : Voted(v, e.term, e.server)
    BY DEF Inv, ElectionInv, ElectedInv
  <1>2. e.term <= currentTerm[e.server]
    BY DEF Inv, ElectionInv, ElectedInv
  <1>3. ASSUME NEW v \in Q \ {e.server} PROVE e.term <= currentTerm[v]
    <2>1. PICK r \in voteReps : r.granted /\ r.src = v /\ r.reqTerm = e.term
      BY <1>1 DEF Voted
    <2>. QED  BY <2>1 DEF Inv, ElectionInv, GrantInv
  <1>. QED  BY <1>1, <1>2, <1>3

\* Nobody but the leader has acknowledged what Start returns now.
LEMMA NewCallUnacked ==
    ASSUME Inv, NEW L \in [Nat -> Seq(Entry)], LogInv(L),
           NEW s \in Server, NEW c \in Command, Start(s, c),
           NEW x, x.term = currentTerm[s], x.index = Len(log[s]) + 1,
           NEW q \in Server, Acked(q, x)
    PROVE  q = s
  <1>. SUFFICES ASSUME q # s PROVE FALSE
    OBVIOUS
  <1>. DEFINE T == currentTerm[s]
  <1>0. myRole[s] = Leader /\ Len(log[s]) \in Nat
    BY StartEffect
  <1>1. L[T] = log[s]
    BY <1>0 DEF LogInv, ServerLogInv
  <1>2. [term |-> T, server |-> q] \notin elected
    <2>1. [term |-> T, server |-> s] \in elected
      BY <1>0 DEF Inv, ElectionInv, LeadersInv
    <2>2. ElectionSafety
      BY ElectionInvSafe DEF Inv, IndexInv
    <2>. QED  BY <2>1, <2>2 DEF ElectionSafety
  <1>3. PICK r \in appendReps : r.success /\ r.reqTerm = T /\ Len(log[s]) + 1 <= RepReach(r)
    BY <1>2 DEF Acked
  <1>4. RepReach(r) <= Len(L[r.reqTerm])
    BY <1>3 DEF LogInv, ReplyLogInv
  <1>5. RepReach(r) \in Nat
    BY RepReachType DEF Inv, IndexInv
  <1>6. RepReach(r) <= Len(log[s])
    BY <1>1, <1>3, <1>4
  <1>. QED  BY SMTT(40), <1>0, <1>3, <1>5, <1>6

-----------------------------------------------------------------------------
(* Leaders of later terms hold what may still be chosen. *)

\* The winner of an election holds what is not dead: a majority has voted for it,
\* and either no voter has acknowledged x, and none ever will, or one has, and
\* compared its log with the winner's.
LEMMA WinnerIsSafe ==
    ASSUME Inv, NEW L \in [Nat -> Seq(Entry)], LogInv(L), SafetyInv(L),
           NEW s \in Server, Elects(s), NEW x \in started, x.term < currentTerm[s]
    PROVE  Dead(x) \/ Holds(log[s], x)
  <1>. DEFINE T == currentTerm[s]
  <1>1. myRole[s] = Candidate
    BY ElectEffect
  <1>2. PICK Q \in SUBSET Server :
            /\ s \in Q
            /\ Majority(Cardinality(Q))
            /\ \A v \in Q \ {s} : Voted(v, T, s)
    BY WinnerHasMajority DEF Elects
  <1>3. CASE \E q \in Q : Acked(q, x)
    <2>1. PICK q \in Q : Acked(q, x)
      BY <1>3
    <2>2. CASE q = s
      BY <2>1, <2>2 DEF SafetyInv, AckInv
    <2>3. CASE q # s
      <3>1. PICK r \in voteReps : r.granted /\ r.src = q /\ r.reqTerm = T /\ r.dst = s
        BY <1>2, <2>3 DEF Voted
      <3>2. r.reqTerm = currentTerm[r.dst] /\ myRole[r.dst] = Candidate
        BY <1>1, <3>1
      <3>3. Dead(x) \/ Holds(log[r.dst], x)
        BY <2>1, <3>1, <3>2 DEF SafetyInv, GrantLogInv
      <3>. QED  BY <3>1, <3>3
    <2>. QED  BY <2>2, <2>3
  <1>4. CASE \A q \in Q : ~ Acked(q, x)
    <2>1. x.term \in Nat /\ T \in Nat
      BY StartedType DEF Inv, IndexInv, TypeOK, StableType
    <2>2. ASSUME NEW q \in Q PROVE currentTerm[q] > x.term
      <3>1. CASE q = s
        BY <2>1, <3>1
      <3>2. CASE q # s
        <4>1. PICK r \in voteReps : r.granted /\ r.src = q /\ r.reqTerm = T
          BY <1>2, <3>2 DEF Voted
        <4>2. r.reqTerm <= currentTerm[r.src]
          BY <4>1 DEF Inv, ElectionInv, GrantInv
        <4>3. currentTerm[q] \in Nat /\ T <= currentTerm[q]
          BY <4>1, <4>2 DEF Inv, IndexInv, TypeOK, StableType
        <4>. HIDE DEF T
        <4>4. x.term < T
          BY DEF T
        <4>. QED  BY SMTT(40), <2>1, <4>3, <4>4
      <3>. QED  BY <3>1, <3>2
    <2>. QED  BY <1>2, <1>4, <2>2 DEF Dead
  <1>. QED  BY <1>3, <1>4

\* When a leader takes a command in a term that is already over, that command is
\* dead at once.
LEMMA LateCallIsDead ==
    ASSUME Inv, NEW L \in [Nat -> Seq(Entry)], LogInv(L),
           NEW s \in Server, NEW c \in Command, Start(s, c),
           NEW x, x.term = currentTerm[s], x.index = Len(log[s]) + 1,
           NEW e \in elected, x.term < e.term
    PROVE  Dead(x)'
  <1>1. PICK Q \in SUBSET Server :
            Majority(Cardinality(Q)) /\ \A v \in Q : e.term <= currentTerm[v]
    BY ElectorsMovedOn
  <1>2. currentTerm[s] \in Nat /\ e.term \in Nat
    BY DEF Inv, IndexInv, TypeOK, StableType, HistoryType
  <1>3. ASSUME NEW v \in Q PROVE currentTerm[v] > x.term /\ ~ Acked(v, x)
    <2>1. currentTerm[v] \in Nat /\ e.term <= currentTerm[v]
      BY <1>1 DEF Inv, IndexInv, TypeOK, StableType
    <2>2. currentTerm[v] > x.term
      <3>1. currentTerm[s] < e.term
        OBVIOUS
      <3>2. currentTerm[v] > currentTerm[s]
        BY SMTT(40), <1>2, <2>1, <3>1
      <3>. QED  BY <3>2
    <2>3. v # s
      BY <1>2, <2>2
    <2>. QED  BY <2>2, <2>3, NewCallUnacked
  <1>4. UNCHANGED <<currentTerm, appendReps, elected>>
    BY StartEffect
  <1>. QED  BY <1>1, <1>3, <1>4 DEF Dead, Acked, RepReach

\* Every step keeps it.
LEMMA LeaderSafeStep ==
    ASSUME Inv, Next, NEW L \in [Nat -> Seq(Entry)], LogInv(L), SafetyInv(L),
           NEW K \in [Nat -> Seq(Entry)], Advances(L, K)
    PROVE  LeaderSafe(K)'
  <1>. SUFFICES ASSUME NEW x \in started', NEW e \in elected', x.term < e.term
                PROVE  Dead(x)' \/ Holds(K[e.term], x)
    BY DEF LeaderSafe, Holds
  <1>0. Grows(L, K)
    BY AdvanceLog
  <1>1. ASSUME x \in started, e \in elected
        PROVE  Dead(x)' \/ Holds(K[e.term], x)
    <2>1. e.term \in Nat
      BY <1>1 DEF Inv, IndexInv, TypeOK, HistoryType
    <2>2. L[e.term] \in Seq(Entry) /\ K[e.term] \in Seq(Entry)
      BY <2>1
    <2>3. SamePrefix(L[e.term], K[e.term], Len(L[e.term]))
      BY <1>0, <2>1 DEF Grows
    <2>4. Dead(x) \/ Holds(L[e.term], x)
      BY <1>1 DEF SafetyInv, LeaderSafe
    <2>5. x.index \in Nat /\ x.index >= 1
      BY <1>1, StartedType
    <2>. QED  BY <1>1, <2>2, <2>3, <2>4, <2>5, DeadStays, HoldsGrows
  <1>2. ASSUME NEW s \in Server, Elects(s), SetLog(L, K, currentTerm[s], log[s]),
               e \notin elected
        PROVE  Dead(x)' \/ Holds(K[e.term], x)
    <2>1. x \in started /\ e = [term |-> currentTerm[s], server |-> s]
      BY <1>2, ElectEffect
    <2>2. e.term = currentTerm[s]
      BY <2>1
    <2>3. K[currentTerm[s]] = log[s]
      <3>1. currentTerm[s] \in Nat
        BY DEF Inv, IndexInv, TypeOK, StableType
      <3>. QED  BY <1>2, <3>1 DEF SetLog
    <2>4. Dead(x) \/ Holds(log[s], x)
      BY <1>2, <2>1, <2>2, WinnerIsSafe
    <2>. QED  BY <2>1, <2>2, <2>3, <2>4, DeadStays
  <1>3. ASSUME NEW s \in Server, NEW c \in Command, Start(s, c)
        PROVE  Dead(x)' \/ Holds(K[e.term], x)
    <2>1. elected' = elected /\ started' = started \cup
              {[index |-> Len(log[s]) + 1, term |-> currentTerm[s], command |-> c]}
      BY <1>3, StartEffect
    <2>2. CASE x \notin started
      <3>1. x = [index |-> Len(log[s]) + 1, term |-> currentTerm[s], command |-> c]
        BY <2>1, <2>2
      <3>2. x.term = currentTerm[s] /\ x.index = Len(log[s]) + 1
        BY <3>1
      <3>. QED  BY <1>3, <2>1, <3>2, LateCallIsDead
    <2>. QED  BY <1>1, <2>1, <2>2
  <1>4. CASE Ordinary
    BY <1>1, <1>4 DEF Ordinary
  <1>5. ASSUME NEW s \in Server, Elects(s)
        PROVE  x \in started
    BY <1>5, ElectEffect
  <1>. QED  BY <1>1, <1>2, <1>3, <1>4, <1>5 DEF Advances

-----------------------------------------------------------------------------
(* Servers hold what they have acknowledged. *)

\* A merge loses nothing that may still be chosen: the leader of a later term
\* holds it within the reach of its request, the leader of its own term holds it
\* in the same place.
LEMMA MergeKeeps ==
    ASSUME Inv, NEW L \in [Nat -> Seq(Entry)], LogInv(L), SafetyInv(L),
           NEW q \in Server, NEW m \in appendReqs, Merges(q, m),
           NEW x \in started, x.term <= currentTerm[q], Holds(log[q], x)
    PROVE  Dead(x) \/ Holds(log'[q], x)
  <1>. DEFINE T == m.term
              n == Reach(m)
              i == x.index
              X == x.term
              l == log[q]
              l2 == log'[q]
  <1>. TypeOK
    BY DEF Inv, IndexInv
  <1>1. /\ T \in Nat /\ n \in Nat /\ Aligned(L, l, L[T], l2, n)
    BY Merged
  <1>2. /\ X \in Nat /\ i \in Nat /\ i >= 1
        /\ L[X] \in Seq(Entry) /\ L[X][i].term = X
    BY StartedType
  <1>3. currentTerm[q] \in Nat /\ l \in Seq(Entry) /\ Len(l) \in Nat
    BY LenProperties DEF TypeOK, StableType
  <1>4. X <= T
    <2>. DEFINE c == currentTerm[q]
    <2>1. c <= T /\ X <= c
      <3>1. T >= c
        BY DEF Merges
      <3>. QED  BY <1>1, <1>3, <3>1
    <2>2. c \in Nat /\ T \in Nat /\ X \in Nat
      BY <1>1, <1>2, <1>3
    <2>. HIDE DEF T, X, c
    <2>. QED  BY <2>1, <2>2
  <1>5. i <= Len(l) /\ l[i].term = X /\ i \in 1..Len(l) /\ i \in 0..Len(l)
    <2>1. i <= Len(l) /\ l[i].term = X
      BY DEF Holds
    <2>. HIDE DEF i, l, X
    <2>. QED  BY <1>2, <1>3, <2>1
  <1>6. CASE X = T
    <2>1. SamePrefix(l, L[T], i)
      <3>1. Recorded(L, l)
        BY DEF LogInv, ServerLogInv
      <3>. QED  BY <1>5, <1>6, <3>1 DEF Recorded
    <2>. HIDE DEF T, n, i, X, l, l2
    <2>2. \A j \in 1..i : j <= n => l[j].term = L[T][j].term
      BY <2>1 DEF SamePrefix
    <2>3. SamePrefix(l2, l, i)
      BY <1>1, <1>5, <2>2 DEF Aligned
    <2>4. i <= Len(l2) /\ l2[i] = l[i]
      BY <1>2, <2>3 DEF SamePrefix
    <2>5. l2[i].term = X
      BY <1>5, <2>4
    <2>. QED  BY <2>4, <2>5 DEF Holds, l2, i, X
  <1>7. CASE X < T
    <2>1. [term |-> T, server |-> m.src] \in elected
      BY DEF Inv, ElectionInv, LeadersInv
    <2>2. Dead(x) \/ Holds(L[T], x)
      <3>. DEFINE e == [term |-> T, server |-> m.src]
      <3>1. e.term = T
        OBVIOUS
      <3>2. e \in elected
        BY <2>1
      <3>. HIDE DEF e
      <3>3. x.term < e.term
        BY <1>7, <3>1
      <3>4. Dead(x) \/ Holds(L[e.term], x)
        BY <3>2, <3>3 DEF SafetyInv, LeaderSafe
      <3>. QED  BY <3>1, <3>4
    <2>3. ASSUME Holds(L[T], x) PROVE Holds(log'[q], x)
      <3>1. i <= Len(L[T]) /\ L[T][i].term = X
        BY <2>3 DEF Holds
      <3>2. L[T] \in Seq(Entry) /\ Len(L[T]) \in Nat
        BY <1>1, LenProperties
      <3>3. \A j \in 1..Len(L[T]) : L[T][j].term < T => j <= n
        BY DEF LogInv, RequestLogInv
      <3>. HIDE DEF T, n, i, X, l, l2
      <3>4. i \in 1..Len(L[T])
        BY <1>2, <3>1, <3>2
      <3>5. i <= n
        BY <1>7, <3>1, <3>3, <3>4
      <3>6. SamePrefix(l2, L[T], n) /\ l2 \in Seq(Entry)
        BY <1>1 DEF Aligned
      <3>7. n <= Len(l2) /\ \A j \in 1..n : l2[j] = L[T][j]
        BY <3>6 DEF SamePrefix
      <3>8. i \in 1..n /\ i <= Len(l2)
        <4>1. Len(l2) \in Nat
          BY <3>6, LenProperties
        <4>. QED  BY <1>1, <1>2, <3>5, <3>7, <4>1
      <3>9. l2[i].term = X
        BY <3>1, <3>7, <3>8
      <3>. QED  BY <3>8, <3>9 DEF Holds, l2, i, X
    <2>. QED  BY <2>2, <2>3
  <1>8. X = T \/ X < T
    <2>. HIDE DEF X, T
    <2>. QED  BY <1>1, <1>2, <1>4
  <1>. QED  BY <1>6, <1>7, <1>8

\* How the log of a server changes.
LEMMA LogCases ==
    ASSUME Inv, Next, NEW q \in Server
    PROVE  \/ log'[q] = log[q]
           \/ \E m \in appendReqs : Merges(q, m)
           \/ \E c \in Command : Start(q, c)
  <1>1. ASSUME NEW s \in Server, Elects(s) PROVE log'[q] = log[q]
    BY <1>1, ElectEffect
  <1>2. ASSUME NEW s \in Server, NEW c \in Command, Start(s, c)
        PROVE  log'[q] = log[q] \/ Start(q, c)
    <2>1. \A y \in Server \ {s} : log'[y] = log[y]
      BY <1>2, StartEffect
    <2>. QED  BY <1>2, <2>1
  <1>. QED  BY <1>1, <1>2, StepCases DEF Ordinary

\* The new entry is put at the end.
LEMMA StartExtends ==
    ASSUME Inv, NEW s \in Server, NEW c \in Command, Start(s, c)
    PROVE  SamePrefix(log[s], log'[s], Len(log[s]))
  <1>. DEFINE l == log[s]
              l2 == log'[s]
  <1>1. /\ Len(l) \in Nat /\ Len(l2) = Len(l) + 1
        /\ \A i \in 1..Len(l) : l2[i] = l[i]
    BY StartEffect
  <1>. HIDE DEF l, l2
  <1>2. Len(l) <= Len(l) /\ Len(l) <= Len(l2)
    BY <1>1
  <1>3. SamePrefix(l, l2, Len(l))
    BY <1>1, <1>2 DEF SamePrefix
  <1>. QED  BY <1>3 DEF l, l2

\* What a server has acknowledged it keeps.
LEMMA AckedIsHeld ==
    ASSUME Inv, Next, NEW L \in [Nat -> Seq(Entry)], LogInv(L), SafetyInv(L),
           NEW q \in Server, NEW x \in started, Acked(q, x)'
    PROVE  /\ x.term <= currentTerm'[q]
           /\ Dead(x)' \/ Holds(log'[q], x)
  <1>1. /\ currentTerm[q] \in Nat /\ currentTerm'[q] \in Nat
        /\ currentTerm[q] <= currentTerm'[q]
    BY TermsGrow
  <1>2. /\ x.term \in Nat /\ x.index \in Nat /\ x.index >= 1
        /\ x.index <= Len(L[x.term]) /\ L[x.term][x.index].term = x.term
    BY StartedType
  <1>3. CASE Acked(q, x)
    <2>1. x.term <= currentTerm[q] /\ (Dead(x) \/ Holds(log[q], x))
      BY <1>3 DEF SafetyInv, AckInv
    <2>2. x.term <= currentTerm'[q]
      <3>1. x.term <= currentTerm[q] /\ x.term \in Nat
        BY <1>2, <2>1
      <3>. QED  BY <1>1, <3>1, NatTrans
    <2>3. ASSUME Holds(log[q], x) PROVE Dead(x) \/ Holds(log'[q], x)
      <3>1. ASSUME NEW m \in appendReqs, Merges(q, m)
            PROVE  Dead(x) \/ Holds(log'[q], x)
        BY <2>1, <2>3, <3>1, MergeKeeps
      <3>2. ASSUME NEW c \in Command, Start(q, c)
            PROVE  Holds(log'[q], x)
        <4>1. log[q] \in Seq(Entry) /\ log'[q] \in Seq(Entry)
          BY <3>2, StartEffect
        <4>2. SamePrefix(log[q], log'[q], Len(log[q]))
          BY <3>2, StartExtends
        <4>. QED  BY <1>2, <2>3, <4>1, <4>2, HoldsGrows
      <3>. QED  BY <2>3, <3>1, <3>2, LogCases
    <2>. QED  BY <2>1, <2>2, <2>3, DeadStays
  <1>4. CASE ~ Acked(q, x)
    <2>1. PICK m \in appendReqs :
              AcceptAppend(q, m) /\ m.term = x.term /\ x.index <= Reach(m)
      BY <1>4, NewAck
    <2>2. Merges(q, m)
      BY <2>1, AcceptMerges
    <2>3. /\ Aligned(L, log[q], L[x.term], log'[q], Reach(m)) /\ Reach(m) \in Nat
      BY <2>1, <2>2, Merged
    <2>4. currentTerm'[q] = x.term
      BY <2>1, <2>2 DEF Merges
    <2>5. Holds(log'[q], x)
      <3>. DEFINE i == x.index
                  n == Reach(m)
                  l2 == log'[q]
                  k == L[x.term]
      <3>1. SamePrefix(l2, k, n) /\ l2 \in Seq(Entry)
        BY <2>3 DEF Aligned
      <3>2. i \in Nat /\ i >= 1 /\ i <= n /\ n \in Nat /\ k[i].term = x.term
        BY <1>2, <2>1, <2>3
      <3>. HIDE DEF i, n, l2, k
      <3>3. n <= Len(l2) /\ Len(l2) \in Nat /\ \A j \in 1..n : l2[j] = k[j]
        BY <3>1, LenProperties DEF SamePrefix
      <3>4. i \in 1..n /\ i <= Len(l2)
        BY <3>2, <3>3
      <3>5. l2[i].term = x.term
        BY <3>2, <3>3, <3>4
      <3>. QED  BY <3>4, <3>5 DEF Holds, i, l2
    <2>. QED  BY <1>1, <2>4, <2>5
  <1>. QED  BY <1>3, <1>4

\* Every step keeps it.
LEMMA AckStep ==
    ASSUME Inv, Next, NEW L \in [Nat -> Seq(Entry)], LogInv(L), SafetyInv(L)
    PROVE  AckInv'
  <1>. SUFFICES ASSUME NEW x \in started', NEW q \in Server, Acked(q, x)'
                PROVE  x.term <= currentTerm'[q] /\ (Dead(x)' \/ Holds(log'[q], x))
    BY DEF AckInv, Holds
  <1>1. CASE x \in started
    BY <1>1, AckedIsHeld
  <1>2. ASSUME NEW s \in Server, NEW c \in Command, Start(s, c), x \notin started
        PROVE  x.term <= currentTerm'[q] /\ Holds(log'[q], x)
    <2>1. /\ UNCHANGED <<currentTerm, appendReps, elected>>
          /\ currentTerm[s] \in Nat /\ Len(log[s]) \in Nat
      BY <1>2, StartEffect
    <2>2. x.term = currentTerm[s] /\ x.index = Len(log[s]) + 1
      <3>1. started' = started \cup {[index |-> Len(log[s]) + 1,
                                      term |-> currentTerm[s], command |-> c]}
        BY <1>2, StartEffect
      <3>2. x = [index |-> Len(log[s]) + 1, term |-> currentTerm[s], command |-> c]
        BY <1>2, <3>1
      <3>. QED  BY <3>2
    <2>3. Acked(q, x)
      BY <2>1 DEF Acked, RepReach
    <2>4. q = s
      BY <1>2, <2>2, <2>3, NewCallUnacked
    <2>5. /\ Len(log'[s]) = Len(log[s]) + 1
          /\ log'[s][Len(log[s]) + 1] = [term |-> currentTerm[s], command |-> c]
      BY <1>2, StartEffect
    <2>6. log'[s][Len(log[s]) + 1].term = currentTerm[s]
      BY <2>5
    <2>7. Len(log[s]) + 1 <= Len(log'[s]) /\ currentTerm[s] <= currentTerm[s]
      BY SMTT(40), <2>1, <2>5
    <2>. QED  BY <2>1, <2>2, <2>4, <2>6, <2>7 DEF Holds
  <1>3. x \notin started => \E s \in Server, c \in Command : Start(s, c)
    BY StepCases, ElectEffect DEF Ordinary
  <1>. QED  BY <1>1, <1>2, <1>3

-----------------------------------------------------------------------------
(* Candidates hold what their voters have acknowledged. *)

\* A candidate of the same term as before has the log it had.
LEMMA CandidateStays ==
    ASSUME Inv, Next, NEW x \in Server,
           myRole'[x] = Candidate, currentTerm'[x] = currentTerm[x]
    PROVE  myRole[x] = Candidate /\ log'[x] = log[x]
  <1>1. PeerStep(x)
    BY PeerSteps
  <1>2. currentTerm[x] \in Nat
    BY TermsGrow
  <1>3. myRole[x] = Candidate
    BY <1>1, <1>2 DEF PeerStep, Leader, Follower, Candidate
  <1>4. \A m \in appendReqs : ~ Merges(x, m)
    BY DEF Merges, Follower, Candidate
  <1>5. \A c \in Command : ~ Start(x, c)
    BY <1>3 DEF Start, Leader, Candidate
  <1>. QED  BY <1>3, <1>4, <1>5, LogCases

\* A new request for votes describes the log of the candidate that sends it.
LEMMA NewVoteRequest ==
    ASSUME Inv, Next, NEW m \in voteReqs', m \notin voteReqs
    PROVE  \E s \in Server :
              /\ m.src = s
              /\ m.term = currentTerm[s]
              /\ m.lastLogIndex = Len(log[s])
              /\ m.lastLogTerm = LastLogTerm(log[s])
              /\ UNCHANGED <<currentTerm, log, voteReps>>
  <1>1. ASSUME NEW s \in Server,
               \/ ElectionTimeout(s)
               \/ StartLeader(s)
               \/ \E c \in Command : Start(s, c)
               \/ \E p \in Server \ {s} : SendAppendEntries(s, p)
               \/ \E q \in voteReqs : RejectStaleVoteRequest(s, q)
               \/ \E q \in voteReqs : RequestVote(s, q)
               \/ \E q \in voteReps \cup appendReps : StepDown(s, q)
               \/ \E q \in voteReps : CountVote(s, q)
               \/ \E q \in appendReqs : RejectStaleAppend(s, q)
               \/ \E q \in appendReqs : RejectAppend(s, q)
               \/ \E q \in appendReqs : AcceptAppend(s, q)
               \/ \E q \in appendReps : HandleAppendSuccess(s, q)
               \/ \E q \in appendReps : HandleAppendConflict(s, q)
               \/ \E p : RestartFrom(s, p)
        PROVE  UNCHANGED voteReqs
    BY <1>1 DEF ElectionTimeout, StartLeader, Start, SendAppendEntries,
                RejectStaleVoteRequest, RequestVote, StepDown, CountVote,
                RejectStaleAppend, RejectAppend, AcceptAppend, RecogniseLeader,
                HandleAppendSuccess, HandleAppendConflict, RestartFrom, voteNet
  <1>2. PICK s \in Server : StartVoting(s)
    BY <1>1, RestartVote DEF Next
  <1>3. PICK p \in Server \ {s} :
            m = [src |-> s, dst |-> p, inst |-> inst[s], round |-> votingRound'[s],
                 term |-> currentTerm[s], lastLogIndex |-> Len(log[s]),
                 lastLogTerm |-> LastLogTerm(log[s])]
    BY <1>2 DEF StartVoting
  <1>4. UNCHANGED <<currentTerm, log, voteReps>>
    BY <1>2 DEF StartVoting, stable
  <1>5. /\ m.src = s /\ m.term = currentTerm[s] /\ m.lastLogIndex = Len(log[s])
        /\ m.lastLogTerm = LastLogTerm(log[s])
    BY <1>3
  <1>. QED  BY <1>4, <1>5

\* A vote is granted to a log that is at least as up-to-date as the voter's.
LEMMA GrantIsUpToDate ==
    ASSUME Inv, Next, NEW r \in voteReps', r \notin voteReps, r.granted
    PROVE  \E m \in voteReqs :
              /\ r.src = m.dst /\ r.dst = m.src /\ r.reqTerm = m.term
              /\ UpToDate(m, log[r.src])
              /\ currentTerm'[r.dst] = currentTerm[r.dst]
              /\ UNCHANGED <<log, appendReps, elected, started>>
  <1>. StableType
    BY DEF Inv, IndexInv, TypeOK
  <1>1. PICK s \in Server, m \in voteReqs :
            RejectStaleVoteRequest(s, m) \/ RequestVote(s, m)
    BY VoteReplyCases
  <1>2. CASE RejectStaleVoteRequest(s, m)
    BY <1>2 DEF RejectStaleVoteRequest, VoteReply
  <1>3. CASE RequestVote(s, m)
    <2>. DEFINE newer == m.term > currentTerm[s]
                vote  == IF newer THEN Nil ELSE votedFor[s]
                grant == vote \in {Nil, m.src} /\ UpToDate(m, log[s])
    <2>1. /\ m.dst = s
          /\ currentTerm' = [currentTerm EXCEPT ![s] = m.term]
          /\ voteReps' = voteReps \cup {VoteReply(m, m.term, grant)}
          /\ UNCHANGED <<log, appendReps, elected, started>>
      BY <1>3 DEF RequestVote, appendNet, history
    <2>2. r = VoteReply(m, m.term, grant)
      BY <2>1
    <2>3. r.granted = grant /\ r.src = s /\ r.dst = m.src /\ r.reqTerm = m.term
      BY <2>1, <2>2 DEF VoteReply
    <2>4. UpToDate(m, log[s])
      BY <2>3
    <2>5. m.src # m.dst /\ m.src \in Server
      BY VoteArgsType DEF Inv, IndexInv, ElectionInv, LeadersInv
    <2>6. currentTerm'[m.src] = currentTerm[m.src]
      BY <2>1, <2>5 DEF StableType
    <2>. HIDE DEF newer, vote, grant
    <2>. QED  BY <2>1, <2>3, <2>4, <2>6
  <1>. QED  BY <1>1, <1>2, <1>3

\* Every step keeps what is said of requests for votes.
LEMMA VoteReqStep ==
    ASSUME Inv, Next, NEW L \in [Nat -> Seq(Entry)], SafetyInv(L)
    PROVE  VoteReqInv'
  <1>. TypeOK /\ VoteReqInv
    BY DEF Inv, IndexInv, SafetyInv
  <1>0. \A a, b, c \in Nat : a <= b /\ b <= c => a <= c /\ (a = c => a = b /\ b = c)
    OBVIOUS
  <1>1. ASSUME NEW m \in voteReqs'
        PROVE  /\ m.term <= currentTerm'[m.src]
               /\ (m.term = currentTerm'[m.src] /\ myRole'[m.src] = Candidate) =>
                     /\ m.lastLogIndex = Len(log'[m.src])
                     /\ m.lastLogTerm = LastLogTerm(log'[m.src])
    <2>1. CASE m \in voteReqs
      <3>. DEFINE x == m.src
                  t == m.term
      <3>1. x \in Server /\ t \in Nat
        BY <2>1, VoteArgsType
      <3>2. /\ t <= currentTerm[x]
            /\ (t = currentTerm[x] /\ myRole[x] = Candidate) =>
                  m.lastLogIndex = Len(log[x]) /\ m.lastLogTerm = LastLogTerm(log[x])
        BY <2>1 DEF VoteReqInv
      <3>. HIDE DEF x, t
      <3>3. /\ currentTerm[x] \in Nat /\ currentTerm'[x] \in Nat
            /\ currentTerm[x] <= currentTerm'[x]
        BY <3>1, TermsGrow
      <3>4. t <= currentTerm'[x]
            /\ (t = currentTerm'[x] => t = currentTerm[x] /\ currentTerm[x] = currentTerm'[x])
        BY <1>0, <3>1, <3>2, <3>3
      <3>5. ASSUME t = currentTerm'[x], myRole'[x] = Candidate
            PROVE  myRole[x] = Candidate /\ log'[x] = log[x]
        BY <3>1, <3>4, <3>5, CandidateStays
      <3>6. /\ t <= currentTerm'[x]
            /\ (t = currentTerm'[x] /\ myRole'[x] = Candidate) =>
                  m.lastLogIndex = Len(log'[x]) /\ m.lastLogTerm = LastLogTerm(log'[x])
        BY <3>2, <3>4, <3>5
      <3>. QED  BY <3>6 DEF x, t
    <2>2. CASE m \notin voteReqs
      <3>1. PICK s \in Server :
              /\ m.src = s
              /\ m.term = currentTerm[s]
              /\ m.lastLogIndex = Len(log[s])
              /\ m.lastLogTerm = LastLogTerm(log[s])
              /\ UNCHANGED <<currentTerm, log, voteReps>>
        BY <2>2, NewVoteRequest
      <3>2. currentTerm[s] <= currentTerm[s]
        BY TermsGrow
      <3>. QED  BY <3>1, <3>2
    <2>. QED  BY <2>1, <2>2
  <1>2. ASSUME NEW r \in voteReps', r.granted PROVE r.reqTerm <= currentTerm'[r.dst]
    <2>1. CASE r \in voteReps
      <3>1. r.reqTerm <= currentTerm[r.dst]
        BY <1>2, <2>1 DEF VoteReqInv
      <3>2. r.reqTerm \in Nat /\ r.dst \in Server
        BY <2>1, VoteReplyType
      <3>3. /\ currentTerm[r.dst] \in Nat /\ currentTerm'[r.dst] \in Nat
            /\ currentTerm[r.dst] <= currentTerm'[r.dst]
        BY <3>2, TermsGrow
      <3>. QED  BY SMTT(40), <1>0, <3>1, <3>2, <3>3
    <2>2. CASE r \notin voteReps
      <3>1. PICK m \in voteReqs : /\ r.dst = m.src /\ r.reqTerm = m.term
                                  /\ currentTerm'[r.dst] = currentTerm[r.dst]
        BY <1>2, <2>2, GrantIsUpToDate
      <3>2. m.term <= currentTerm[m.src]
        BY DEF VoteReqInv
      <3>. QED  BY <3>1, <3>2
    <2>. QED  BY <2>1, <2>2
  <1>. QED  BY <1>1, <1>2 DEF VoteReqInv

\* The term of the last entry, where there is one.
LEMMA LastTermOf ==
    ASSUME NEW l \in Seq(Entry)
    PROVE  /\ Len(l) \in Nat
           /\ Len(l) = 0 => LastLogTerm(l) = -1
           /\ Len(l) # 0 => /\ Len(l) \in 1..Len(l)
                            /\ LastLogTerm(l) = l[Len(l)].term
                            /\ LastLogTerm(l) \in Nat
  <1>1. Len(l) \in Nat /\ (l = <<>> <=> Len(l) = 0)
    BY LenProperties, EmptySeq
  <1>2. ASSUME Len(l) # 0
        PROVE  /\ Len(l) \in 1..Len(l)
               /\ LastLogTerm(l) = l[Len(l)].term
               /\ LastLogTerm(l) \in Nat
    <2>1. Len(l) \in 1..Len(l)
      BY <1>1, <1>2
    <2>2. LastLogTerm(l) = l[Len(l)].term
      BY <1>1, <1>2 DEF LastLogTerm, Last
    <2>. QED  BY <2>1, <2>2, EntryOf
  <1>. QED  BY <1>1, <1>2 DEF LastLogTerm

\* A log that is at least as up-to-date as one that holds x holds it too, unless x
\* is dead.
LEMMA UpToDateHolds ==
    ASSUME Inv, NEW L \in [Nat -> Seq(Entry)], LogInv(L), SafetyInv(L),
           NEW l \in Seq(Entry), NEW k \in Seq(Entry), Recorded(L, l), Recorded(L, k),
           \/ LastLogTerm(k) > LastLogTerm(l)
           \/ LastLogTerm(k) = LastLogTerm(l) /\ Len(k) >= Len(l),
           NEW x \in started, Holds(l, x)
    PROVE  Dead(x) \/ Holds(k, x)
  <1>. DEFINE a == LastLogTerm(l)
              b == LastLogTerm(k)
              n == Len(l)
              z == Len(k)
              i == x.index
              X == x.term
  <1>1. X \in Nat /\ i \in Nat /\ i >= 1
    BY StartedType
  <1>2. i <= n /\ l[i].term = X
    BY DEF Holds
  <1>3. n \in Nat /\ z \in Nat /\ (z = 0 => b = -1)
    BY LastTermOf
  <1>4. i \in 1..n /\ n # 0
    <2>. HIDE DEF i, n
    <2>. QED  BY <1>1, <1>2, <1>3
  <1>5. n \in 1..n /\ a = l[n].term /\ a \in Nat
    BY <1>4, LastTermOf
  <1>6. X <= a
    <2>1. LeaderLogInv(L)
      BY DEF LogInv
    <2>2. l[i].term <= l[n].term
      BY <1>4, <1>5, <2>1, RecordedMonotone
    <2>. QED  BY <1>2, <1>5, <2>2
  <1>7. b > a \/ (b = a /\ z >= n)
    OBVIOUS
  <1>8. z # 0
    <2>1. a \in Nat
      BY <1>5
    <2>. HIDE DEF a, b, n, z
    <2>2. b = -1 => ~ (b > a) /\ b # a
      BY <2>1
    <2>. QED  BY <1>3, <1>7, <2>2
  <1>9. z \in 1..z /\ b = k[z].term /\ b \in Nat
    BY <1>8, LastTermOf
  <1>10. L[b] \in Seq(Entry) /\ SamePrefix(k, L[b], z)
    BY <1>9 DEF Recorded
  <1>11. CASE b = a /\ z >= n
    <2>1. SamePrefix(l, L[b], n)
      BY <1>5, <1>11 DEF Recorded
    <2>. HIDE DEF a, b, n, z, i, X
    <2>2. \A j \in 1..n : l[j] = L[b][j]
      BY <2>1 DEF SamePrefix
    <2>3. \A j \in 1..z : k[j] = L[b][j]
      BY <1>10 DEF SamePrefix
    <2>4. i \in 1..z /\ i <= z
      BY <1>1, <1>3, <1>4, <1>11
    <2>5. k[i].term = X
      BY <1>2, <1>4, <2>2, <2>3, <2>4
    <2>. QED  BY <2>4, <2>5 DEF Holds, z, i, X
  <1>12. CASE b > a
    <2>1. X < b
      <3>1. a \in Nat /\ b \in Nat /\ X \in Nat
        BY <1>1, <1>5, <1>9
      <3>. HIDE DEF a, b, X
      <3>. QED  BY <1>6, <1>12, <3>1
    <2>2. z <= Len(L[b]) /\ \A j \in 1..z : k[j] = L[b][j]
      BY <1>10 DEF SamePrefix
    <2>3. Len(L[b]) \in Nat
      BY <1>10, LenProperties
    <2>4. PICK e \in elected : e.term = b
      <3>1. L[b] # <<>>
        <4>. SUFFICES ASSUME L[b] = <<>> PROVE FALSE
          OBVIOUS
        <4>1. Len(L[b]) = 0
          BY EmptySeq
        <4>. HIDE DEF z, b
        <4>. QED  BY <1>3, <1>8, <2>2, <4>1
      <3>. HIDE DEF b
      <3>. QED  BY <1>9, <3>1 DEF LogInv, LeaderLogInv
    <2>5. Dead(x) \/ Holds(L[b], x)
      <3>1. x.term < e.term
        BY <2>1, <2>4
      <3>2. Dead(x) \/ Holds(L[e.term], x)
        BY <3>1 DEF SafetyInv, LeaderSafe
      <3>. QED  BY <2>4, <3>2
    <2>6. ASSUME Holds(L[b], x) PROVE Holds(k, x)
      <3>1. i <= Len(L[b]) /\ L[b][i].term = X
        BY <2>6 DEF Holds
      <3>2. i <= z
        <4>. SUFFICES ASSUME z < i PROVE FALSE
          <5>. HIDE DEF i, z
          <5>. QED  BY <1>1, <1>3
        <4>1. i \in 1..Len(L[b]) /\ z \in 1..i
          <5>. HIDE DEF i, z, b
          <5>. QED  BY <1>1, <1>3, <1>9, <2>3, <3>1
        <4>2. LeaderLogInv(L) /\ Recorded(L, L[b])
          <5>. HIDE DEF b
          <5>. QED  BY <1>9 DEF LogInv, LeaderLogInv
        <4>3. L[b][z].term <= L[b][i].term
          BY <1>10, <4>1, <4>2, RecordedMonotone
        <4>4. L[b][z].term = b
          <5>1. k[z] = L[b][z]
            BY <1>9, <2>2
          <5>. HIDE DEF b
          <5>. QED  BY <1>9, <5>1
        <4>5. b <= X
          <5>. HIDE DEF b, X, i, z
          <5>. QED  BY <3>1, <4>3, <4>4
        <4>6. b \in Nat /\ X \in Nat
          BY <1>1, <1>9
        <4>. HIDE DEF b, X
        <4>. QED  BY <2>1, <4>5, <4>6
      <3>. HIDE DEF a, b, n, z, i, X
      <3>3. i \in 1..z
        BY <1>1, <1>3, <3>2
      <3>4. k[i].term = X
        BY <2>2, <3>1, <3>3
      <3>. QED  BY <3>2, <3>4 DEF Holds, i, z, X
    <2>. QED  BY <2>5, <2>6
  <1>. QED  BY <1>7, <1>11, <1>12

\* Every step keeps what is said of votes.
LEMMA GrantLogStep ==
    ASSUME Inv, Next, NEW L \in [Nat -> Seq(Entry)], LogInv(L), SafetyInv(L)
    PROVE  GrantLogInv'
  <1>. TypeOK /\ VoteReqInv
    BY DEF Inv, IndexInv, SafetyInv
  <1>. SUFFICES ASSUME NEW r \in voteReps', r.granted,
                       r.reqTerm = currentTerm'[r.dst], myRole'[r.dst] = Candidate,
                       NEW x \in started', x.term < r.reqTerm, Acked(r.src, x)'
                PROVE  Dead(x)' \/ Holds(log'[r.dst], x)
    BY DEF GrantLogInv, Holds
  <1>. DEFINE v == r.src
              d == r.dst
              t == r.reqTerm
  <1>1. v \in Server /\ d \in Server /\ t \in Nat
    BY VoteTypeStep DEF Inv, VoteType, RequestVoteReply
  <1>2. Acked(v, x)' /\ x.term < t /\ t = currentTerm'[d] /\ myRole'[d] = Candidate
    OBVIOUS
  <1>3. /\ currentTerm[v] \in Nat /\ currentTerm[d] \in Nat
        /\ currentTerm[d] <= currentTerm'[d]
    BY <1>1, TermsGrow
  <1>4. CASE r \in voteReps
    <2>1. t <= currentTerm[d] /\ t <= currentTerm[v]
      BY <1>4 DEF VoteReqInv, Inv, ElectionInv, GrantInv
    <2>2. ASSUME x \in started PROVE Acked(v, x)
      <3>. SUFFICES ASSUME ~ Acked(v, x) PROVE FALSE
        OBVIOUS
      <3>1. x.term \in Nat
        BY <2>2, StartedType
      <3>2. currentTerm[v] > x.term
        <4>1. \A a, b, c \in Nat : a < b /\ b <= c => c > a
          OBVIOUS
        <4>. HIDE DEF v, t, d
        <4>. QED  BY <1>1, <1>2, <1>3, <2>1, <3>1, <4>1
      <3>. HIDE DEF v
      <3>. QED  BY <1>1, <1>2, <2>2, <3>2, NoLateAck
    <2>3. ASSUME NEW s \in Server, NEW c \in Command, Start(s, c), x \notin started
          PROVE  FALSE
      <3>1. UNCHANGED <<currentTerm, appendReps, elected>> /\ currentTerm[s] \in Nat
        BY <2>3, StartEffect
      <3>2. x.term = currentTerm[s] /\ x.index = Len(log[s]) + 1
        <4>1. started' = started \cup {[index |-> Len(log[s]) + 1,
                                        term |-> currentTerm[s], command |-> c]}
          BY <2>3, StartEffect
        <4>2. x = [index |-> Len(log[s]) + 1, term |-> currentTerm[s], command |-> c]
          BY <2>3, <4>1
        <4>. QED  BY <4>2
      <3>. HIDE DEF v, t, d
      <3>3. Acked(v, x)
        BY <1>2, <3>1 DEF Acked, RepReach
      <3>4. v = s
        BY <1>1, <2>3, <3>2, <3>3, NewCallUnacked
      <3>5. currentTerm[s] < t
        BY <1>2, <3>2
      <3>. QED  BY <1>1, <1>3, <2>1, <3>4, <3>5
    <2>4. x \in started
      <3>1. x \notin started => \E s \in Server, c \in Command : Start(s, c)
        BY StepCases, ElectEffect DEF Ordinary
      <3>. QED  BY <2>3, <3>1
    <2>5. t = currentTerm[d] /\ currentTerm'[d] = currentTerm[d]
      <3>. HIDE DEF t, d, v
      <3>. QED  BY SMTT(40), <1>1, <1>2, <1>3, <2>1
    <2>6. myRole[d] = Candidate /\ log'[d] = log[d]
      <3>. HIDE DEF t, d, v
      <3>. QED  BY <1>1, <1>2, <2>5, CandidateStays
    <2>7. Dead(x) \/ Holds(log[d], x)
      BY <1>2, <1>4, <2>2, <2>4, <2>5, <2>6 DEF SafetyInv, GrantLogInv
    <2>. QED  BY <2>4, <2>6, <2>7, DeadStays
  <1>5. CASE r \notin voteReps
    <2>1. PICK m \in voteReqs :
              /\ v = m.dst /\ d = m.src /\ t = m.term
              /\ UpToDate(m, log[v])
              /\ currentTerm'[d] = currentTerm[d]
              /\ UNCHANGED <<log, appendReps, elected, started>>
      BY <1>5, GrantIsUpToDate
    <2>. HIDE DEF v, d, t
    <2>2. myRole[d] = Candidate
      BY <1>1, <1>2, <2>1, CandidateStays
    <2>3. m.lastLogIndex = Len(log[d]) /\ m.lastLogTerm = LastLogTerm(log[d])
      <3>1. m.term = currentTerm[m.src] /\ myRole[m.src] = Candidate
        BY <1>2, <2>1, <2>2
      <3>2. m.lastLogIndex = Len(log[m.src]) /\ m.lastLogTerm = LastLogTerm(log[m.src])
        BY <3>1 DEF VoteReqInv
      <3>. QED  BY <2>1, <3>2
    <2>4. \/ LastLogTerm(log[d]) > LastLogTerm(log[v])
          \/ LastLogTerm(log[d]) = LastLogTerm(log[v]) /\ Len(log[d]) >= Len(log[v])
      BY <2>1, <2>3 DEF UpToDate
    <2>5. x \in started /\ Acked(v, x)
      BY <1>2, <2>1 DEF Acked, RepReach
    <2>6. Dead(x) \/ Holds(log[v], x)
      BY <1>1, <2>5 DEF SafetyInv, AckInv
    <2>7. /\ log[d] \in Seq(Entry) /\ log[v] \in Seq(Entry)
          /\ Recorded(L, log[d]) /\ Recorded(L, log[v])
      BY <1>1 DEF TypeOK, StableType, LogInv, ServerLogInv
    <2>8. Dead(x) \/ Holds(log[d], x)
      BY <2>4, <2>5, <2>6, <2>7, UpToDateHolds
    <2>. QED  BY <2>1, <2>5, <2>8, DeadStays DEF d
  <1>. QED  BY <1>4, <1>5

-----------------------------------------------------------------------------
(* What is chosen is the same everywhere. *)

\* A leader of the same or a later term has the log of x up to x.
LEMMA ChosenInLeader ==
    ASSUME Inv, NEW L \in [Nat -> Seq(Entry)], LogInv(L), LeaderSafe(L),
           NEW x \in started, Chosen(x), NEW e \in elected, x.term <= e.term
    PROVE  SamePrefix(L[x.term], L[e.term], x.index)
  <1>. DEFINE X == x.term
              T == e.term
              i == x.index
  <1>1. /\ X \in Nat /\ i \in Nat /\ i \in 1..Len(L[X])
        /\ L[X] \in Seq(Entry) /\ L[X][i].term = X
    BY StartedType
  <1>2. T \in Nat
    BY DEF Inv, IndexInv, TypeOK, HistoryType
  <1>3. CASE X = T
    <2>1. i \in 0..Len(L[X])
      <3>. HIDE DEF i, X
      <3>. QED  BY <1>1, LenProperties
    <2>. QED  BY <1>1, <1>3, <2>1, SamePrefixRefl
  <1>4. CASE X # T
    <2>1. X < T
      <3>1. X <= T
        OBVIOUS
      <3>. HIDE DEF X, T
      <3>. QED  BY <1>1, <1>2, <1>4, <3>1
    <2>2. Holds(L[T], x)
      BY <2>1, ChosenIsNotDead DEF LeaderSafe
    <2>3. i <= Len(L[T]) /\ L[T][i].term = X
      BY <2>2 DEF Holds
    <2>4. Recorded(L, L[X]) /\ Recorded(L, L[T]) /\ L[T] \in Seq(Entry)
      BY <1>1, <1>2 DEF LogInv, LeaderLogInv
    <2>. HIDE DEF i, X, T
    <2>5. SamePrefix(L[X], L[T], i)
      BY <1>1, <2>3, <2>4, RecordedAgree
    <2>. QED  BY <2>5 DEF i, X, T
  <1>. QED  BY <1>3, <1>4

\* Of two chosen calls the earlier is in the log of the later.
LEMMA ChosenAgree ==
    ASSUME Inv, NEW L \in [Nat -> Seq(Entry)], LogInv(L), LeaderSafe(L),
           NEW x \in started, Chosen(x), NEW y \in started, Chosen(y),
           NEW n \in Nat, n <= x.index, n <= y.index
    PROVE  SamePrefix(L[x.term], L[y.term], n)
  <1>1. /\ x.term \in Nat /\ x.index \in Nat /\ L[x.term] \in Seq(Entry)
        /\ \E e \in elected : e.term = x.term
    BY StartedType
  <1>2. /\ y.term \in Nat /\ y.index \in Nat /\ L[y.term] \in Seq(Entry)
        /\ \E e \in elected : e.term = y.term
    BY StartedType
  <1>3. n \in 0..x.index /\ n \in 0..y.index
    BY <1>1, <1>2
  <1>4. CASE x.term <= y.term
    <2>1. SamePrefix(L[x.term], L[y.term], x.index)
      BY <1>2, <1>4, ChosenInLeader
    <2>. QED  BY <1>1, <1>2, <1>3, <2>1, ShorterPrefix
  <1>5. CASE y.term <= x.term
    <2>1. SamePrefix(L[y.term], L[x.term], y.index)
      BY <1>1, <1>5, ChosenInLeader
    <2>2. SamePrefix(L[y.term], L[x.term], n)
      BY <1>1, <1>2, <1>3, <2>1, ShorterPrefix
    <2>. QED  BY <2>2 DEF SamePrefix
  <1>6. x.term <= y.term \/ y.term <= x.term
    BY <1>1, <1>2, NatTotal
  <1>. QED  BY <1>4, <1>5, <1>6

\* So the shorter of two logs of chosen entries is a prefix of the longer.
LEMMA ChosenLogsAgree ==
    ASSUME Inv, NEW L \in [Nat -> Seq(Entry)], LogInv(L), LeaderSafe(L),
           NEW l \in Seq(Entry), NEW k \in Seq(Entry),
           NEW n \in Nat, NEW z \in Nat, n <= z, NEW t, NEW u,
           ChosenUpTo(L, l, n, t), ChosenUpTo(L, k, z, u)
    PROVE  SamePrefix(l, k, n)
  <1>1. CASE n = 0
    <2>1. Len(l) \in Nat /\ Len(k) \in Nat
      BY LenProperties
    <2>. QED  BY <1>1, <2>1 DEF SamePrefix
  <1>2. CASE n # 0
    <2>1. PICK x \in started :
              Chosen(x) /\ n <= x.index /\ SamePrefix(l, L[x.term], n)
      BY <1>2 DEF ChosenUpTo
    <2>2. PICK y \in started :
              Chosen(y) /\ z <= y.index /\ SamePrefix(k, L[y.term], z)
      BY <1>2 DEF ChosenUpTo
    <2>3. /\ L[x.term] \in Seq(Entry) /\ L[y.term] \in Seq(Entry)
          /\ x.index \in Nat /\ y.index \in Nat
      BY StartedType
    <2>4. n <= y.index /\ n \in 0..z
      <3>1. z <= y.index /\ y.index \in Nat
        BY <2>2, <2>3
      <3>2. n <= y.index
        BY <3>1, NatTrans
      <3>. QED  BY <3>2
    <2>5. SamePrefix(L[x.term], L[y.term], n)
      BY <2>1, <2>2, <2>4, ChosenAgree
    <2>6. SamePrefix(k, L[y.term], n)
      BY <2>2, <2>3, <2>4, ShorterPrefix
    <2>7. SamePrefix(l, L[y.term], n) /\ SamePrefix(L[y.term], k, n)
      BY <2>1, <2>3, <2>5, <2>6, SamePrefixTrans DEF SamePrefix
    <2>. QED  BY <2>3, <2>7, SamePrefixTrans
  <1>. QED  BY <1>1, <1>2

\* A copy of chosen entries consists of chosen entries, in later terms too.
LEMMA ChosenCopy ==
    ASSUME Inv, NEW L \in [Nat -> Seq(Entry)], LogInv(L),
           NEW l \in Seq(Entry), NEW k \in Seq(Entry), NEW n \in Nat,
           NEW t \in Nat, NEW u \in Nat, t <= u,
           SamePrefix(l, k, n), ChosenUpTo(L, k, n, t)
    PROVE  ChosenUpTo(L, l, n, u)
  <1>. SUFFICES ASSUME n # 0 PROVE ChosenUpTo(L, l, n, u)
    BY DEF ChosenUpTo
  <1>1. PICK x \in started : /\ Chosen(x) /\ x.term <= t /\ n <= x.index
                             /\ SamePrefix(k, L[x.term], n)
    BY DEF ChosenUpTo
  <1>2. x.term \in Nat /\ L[x.term] \in Seq(Entry)
    BY StartedType
  <1>3. SamePrefix(l, L[x.term], n)
    BY <1>1, <1>2, SamePrefixTrans
  <1>4. x.term <= u
    BY <1>1, <1>2, NatTrans
  <1>. QED  BY <1>1, <1>3, <1>4 DEF ChosenUpTo

\* Chosen entries lie within the log.
LEMMA ChosenWithin ==
    ASSUME NEW L, NEW l \in Seq(Entry), NEW n \in Nat, NEW t, ChosenUpTo(L, l, n, t)
    PROVE  n <= Len(l)
  <1>1. Len(l) \in Nat
    BY LenProperties
  <1>. QED  BY <1>1 DEF ChosenUpTo, SamePrefix

\* A merge loses none of them.
LEMMA MergeKeepsChosen ==
    ASSUME Inv, NEW L \in [Nat -> Seq(Entry)], LogInv(L), LeaderSafe(L),
           NEW s \in Server, NEW m \in appendReqs, Merges(s, m),
           NEW n \in Nat, ChosenUpTo(L, log[s], n, currentTerm[s])
    PROVE  SamePrefix(log'[s], log[s], n)
  <1>. DEFINE l == log[s]
              l2 == log'[s]
              T == m.term
              z == Reach(m)
  <1>0. l \in Seq(Entry) /\ currentTerm[s] \in Nat
    BY DEF Inv, IndexInv, TypeOK, StableType
  <1>1. T \in Nat /\ z \in Nat /\ Aligned(L, l, L[T], l2, z)
    BY Merged
  <1>2. n <= Len(l) /\ Len(l) \in Nat
    BY <1>0, ChosenWithin, LenProperties
  <1>3. n \in 0..Len(l)
    <2>. HIDE DEF l
    <2>. QED  BY <1>2
  <1>4. \A j \in 1..n : l[j].term = L[T][j].term
    <2>1. CASE n = 0
      BY <2>1
    <2>2. CASE n # 0
      <3>1. PICK x \in started : /\ Chosen(x) /\ x.term <= currentTerm[s]
                                 /\ n <= x.index /\ SamePrefix(l, L[x.term], n)
        BY <2>2 DEF ChosenUpTo
      <3>2. x.term \in Nat /\ x.index \in Nat
        BY StartedType
      <3>. DEFINE e == [term |-> T, server |-> m.src]
      <3>3. e \in elected /\ e.term = T
        BY DEF Inv, ElectionInv, LeadersInv
      <3>4. x.term <= T
        <4>1. currentTerm[s] <= T
          <5>1. T >= currentTerm[s]
            BY DEF Merges
          <5>. QED  BY <1>0, <1>1, <5>1
        <4>. HIDE DEF T
        <4>. QED  BY <1>0, <1>1, <3>1, <3>2, <4>1, NatTrans
      <3>. HIDE DEF e
      <3>5. SamePrefix(L[x.term], L[T], x.index)
        BY <3>1, <3>3, <3>4, ChosenInLeader
      <3>6. \A j \in 1..x.index : L[x.term][j] = L[T][j]
        BY <3>5 DEF SamePrefix
      <3>7. \A j \in 1..n : l[j] = L[x.term][j]
        BY <3>1 DEF SamePrefix
      <3>8. \A j \in 1..n : j \in 1..x.index
        BY <3>1, <3>2
      <3>. QED  BY <3>6, <3>7, <3>8
    <2>. QED  BY <2>1, <2>2
  <1>. HIDE DEF l, l2, T, z
  <1>5. SamePrefix(l2, l, n)
    BY <1>1, <1>3, <1>4 DEF Aligned
  <1>. QED  BY <1>5 DEF l, l2

-----------------------------------------------------------------------------
(* What a step commits and delivers. *)

\* The apply loop of s has run: it has delivered the entries of its log between
\* lastApplied and commitIndex.
Delivers(s) ==
    /\ Len(applied'[s]) = Max({Len(applied[s]), commitIndex'[s]})
    /\ \A i \in 1..Len(applied'[s]) :
          applied'[s][i] = IF i > lastApplied[s] /\ i <= commitIndex'[s]
                           THEN log'[s][i] ELSE applied[s][i]
    /\ lastApplied'[s] = Max({lastApplied[s], commitIndex'[s]})

\* It does so in Apply.
LEMMA ApplyDelivers ==
    ASSUME Inv, NEW s \in Server, NEW l, NEW c \in Nat, Apply(s, l, c),
           log'[s] = l, commitIndex'[s] = c
    PROVE  /\ Delivers(s)
           /\ \A x \in Server \ {s} :
                 applied'[x] = applied[x] /\ lastApplied'[x] = lastApplied[x]
  <1>. DEFINE n == Max({Len(applied[s]), c})
              d == [i \in 1..n |-> IF i > lastApplied[s] /\ i <= c
                                   THEN l[i] ELSE applied[s][i]]
              k == Max({lastApplied[s], c})
  <1>1. /\ applied \in [Server -> Seq(Entry)] /\ lastApplied \in [Server -> Nat]
        /\ Len(applied[s]) \in Nat
    BY LenProperties DEF Inv, IndexInv, TypeOK, ProgressType
  <1>2. n \in Nat
    BY <1>1, MaxOfTwo
  <1>3. applied' = [applied EXCEPT ![s] = d] /\ lastApplied' = [lastApplied EXCEPT ![s] = k]
    BY DEF Apply
  <1>. HIDE DEF n, k
  <1>4. Len(d) = n /\ \A i \in 1..n : d[i] = IF i > lastApplied[s] /\ i <= c
                                             THEN l[i] ELSE applied[s][i]
    <2>1. DOMAIN d = 1..n
      OBVIOUS
    <2>. QED  BY <1>2, <2>1
  <1>. HIDE DEF d
  <1>5. applied'[s] = d /\ lastApplied'[s] = k
    BY <1>1, <1>3
  <1>6. \A x \in Server \ {s} :
            applied'[x] = applied[x] /\ lastApplied'[x] = lastApplied[x]
    BY <1>1, <1>3
  <1>. QED  BY <1>4, <1>5, <1>6 DEF Delivers, n, k

\* What AppendEntries commits and delivers.
LEMMA AcceptProgress ==
    ASSUME Inv, NEW s \in Server, NEW m \in appendReqs, AcceptAppend(s, m)
    PROVE  /\ commitIndex'[s] \in Nat
           /\ commitIndex'[s] = FollowerCommit(s, m, log'[s])
           /\ Delivers(s)
           /\ UNCHANGED inst
           /\ \A x \in Server \ {s} : /\ commitIndex'[x] = commitIndex[x]
                                      /\ applied'[x] = applied[x]
                                      /\ lastApplied'[x] = lastApplied[x]
  <1>. DEFINE l == MergeLog(log[s], m.prevLogIndex, m.entries)
              c == FollowerCommit(s, m, l)
  <1>. TypeOK
    BY DEF Inv, IndexInv
  <1>1. l \in Seq(Entry)
    BY MergedLogType DEF AcceptAppend
  <1>2. c \in Nat
    BY <1>1, FollowerCommitType
  <1>3. /\ log' = [log EXCEPT ![s] = l] /\ commitIndex' = [commitIndex EXCEPT ![s] = c]
        /\ Apply(s, l, c)
    BY DEF AcceptAppend
  <1>4. UNCHANGED inst
    BY DEF AcceptAppend, RecogniseLeader, instances
  <1>. HIDE DEF l, c
  <1>5. log'[s] = l /\ commitIndex'[s] = c
    BY <1>3 DEF TypeOK, StableType, ProgressType
  <1>6. \A x \in Server \ {s} : commitIndex'[x] = commitIndex[x]
    BY <1>3 DEF TypeOK, ProgressType
  <1>. QED  BY <1>2, <1>3, <1>4, <1>5, <1>6, ApplyDelivers DEF c

\* What a leader commits and delivers.
LEMMA SuccessProgress ==
    ASSUME Inv, NEW s \in Server, NEW r \in appendReps, HandleAppendSuccess(s, r)
    PROVE  /\ commitIndex'[s] \in Nat
           /\ commitIndex'[s] =
                 LeaderCommit(s, [matchIndex[s] EXCEPT ![r.src] = RepReach(r)])
           /\ Delivers(s)
           /\ UNCHANGED <<currentTerm, log, inst>>
           /\ \A x \in Server \ {s} : /\ commitIndex'[x] = commitIndex[x]
                                      /\ applied'[x] = applied[x]
                                      /\ lastApplied'[x] = lastApplied[x]
  <1>. DEFINE c == LeaderCommit(s, [matchIndex[s] EXCEPT ![r.src] = RepReach(r)])
  <1>. TypeOK
    BY DEF Inv, IndexInv
  <1>1. c \in Nat
    BY LeaderCommitType
  <1>2. /\ commitIndex' = [commitIndex EXCEPT ![s] = c]
        /\ Apply(s, log[s], c)
    BY DEF HandleAppendSuccess, RepReach
  <1>3. UNCHANGED <<currentTerm, log, inst>>
    BY DEF HandleAppendSuccess, stable, instances
  <1>. HIDE DEF c
  <1>4. log'[s] = log[s] /\ commitIndex'[s] = c
    BY <1>2, <1>3 DEF TypeOK, ProgressType
  <1>5. \A x \in Server \ {s} : commitIndex'[x] = commitIndex[x]
    BY <1>2 DEF TypeOK, ProgressType
  <1>. QED  BY <1>1, <1>2, <1>3, <1>4, <1>5, ApplyDelivers DEF c

\* How the indices of progress of a server change.
LEMMA ProgressCases ==
    ASSUME Inv, Next, NEW x \in Server
    PROVE  \/ /\ commitIndex'[x] = commitIndex[x]
              /\ lastApplied'[x] = lastApplied[x]
              /\ applied'[x] = applied[x]
           \/ /\ commitIndex'[x] = 0 /\ lastApplied'[x] = 0
              /\ applied'[x] = applied[x]
              /\ inst'[x] = restarts + 1
           \/ \E m \in appendReqs : AcceptAppend(x, m)
           \/ \E r \in appendReps : HandleAppendSuccess(x, r)
  <1>. TypeOK
    BY DEF Inv, IndexInv
  <1>1. ASSUME NEW s \in Server, NEW m \in appendReqs, AcceptAppend(s, m), s # x
        PROVE  /\ commitIndex'[x] = commitIndex[x] /\ applied'[x] = applied[x]
               /\ lastApplied'[x] = lastApplied[x]
    BY <1>1, AcceptProgress
  <1>2. ASSUME NEW s \in Server, NEW r \in appendReps, HandleAppendSuccess(s, r), s # x
        PROVE  /\ commitIndex'[x] = commitIndex[x] /\ applied'[x] = applied[x]
               /\ lastApplied'[x] = lastApplied[x]
    BY <1>2, SuccessProgress
  <1>3. ASSUME NEW s \in Server, NEW p, RestartFrom(s, p)
        PROVE  \/ /\ commitIndex'[x] = commitIndex[x]
                  /\ lastApplied'[x] = lastApplied[x]
                  /\ applied'[x] = applied[x]
               \/ /\ commitIndex'[x] = 0 /\ lastApplied'[x] = 0
                  /\ applied'[x] = applied[x]
                  /\ inst'[x] = restarts + 1
    BY <1>3 DEF RestartFrom, TypeOK, ProgressType, RoleType
  <1>4. ASSUME NEW s \in Server,
               \/ ElectionTimeout(s)
               \/ StartLeader(s)
               \/ StartVoting(s)
               \/ \E c \in Command : Start(s, c)
               \/ \E p \in Server \ {s} : SendAppendEntries(s, p)
               \/ \E m \in voteReqs : RejectStaleVoteRequest(s, m)
               \/ \E m \in voteReqs : RequestVote(s, m)
               \/ \E q \in voteReps \cup appendReps : StepDown(s, q)
               \/ \E q \in voteReps : CountVote(s, q)
               \/ \E m \in appendReqs : RejectStaleAppend(s, m)
               \/ \E m \in appendReqs : RejectAppend(s, m)
               \/ \E q \in appendReps : HandleAppendConflict(s, q)
        PROVE  UNCHANGED <<commitIndex, lastApplied, applied>>
    BY <1>4 DEF ElectionTimeout, StartLeader, StartVoting, Start, SendAppendEntries,
                RejectStaleVoteRequest, RequestVote, StepDown, CountVote,
                RejectStaleAppend, RejectAppend, HandleAppendConflict, progress
  <1>. QED  BY <1>1, <1>2, <1>3, <1>4, RestartVote DEF Next

\* The leader's commitIndex stays, or moves to an entry of its term that enough
\* peers have.
LEMMA LeaderCommitCases ==
    ASSUME TypeOK, NEW s \in Server, NEW match, NEW n, n = LeaderCommit(s, match),
           n # commitIndex[s]
    PROVE  /\ n \in 1..Len(log[s]) /\ n \in Nat /\ n > commitIndex[s]
           /\ log[s][n].term = currentTerm[s]
           /\ Majority(1 + Cardinality({i \in Server : match[i] >= n}))
  <1>. DEFINE T == {commitIndex[s]} \cup
                   {k \in (commitIndex[s] + 1)..Len(log[s]) :
                      /\ log[s][k].term = currentTerm[s]
                      /\ Majority(1 + Cardinality({i \in Server : match[i] >= k}))}
  <1>1. commitIndex[s] \in Nat /\ Len(log[s]) \in Nat
    BY LenProperties DEF TypeOK, ProgressType, StableType
  <1>2. T \in SUBSET (0..(commitIndex[s] + Len(log[s]))) /\ T # {}
    BY <1>1
  <1>3. n = Max(T)
    BY DEF LeaderCommit
  <1>4. n \in T
    <2>1. commitIndex[s] + Len(log[s]) \in Nat
      BY <1>1
    <2>. HIDE DEF T
    <2>. QED  BY <1>2, <1>3, <2>1, NatMaximum
  <1>5. /\ n \in (commitIndex[s] + 1)..Len(log[s])
        /\ log[s][n].term = currentTerm[s]
        /\ Majority(1 + Cardinality({i \in Server : match[i] >= n}))
    BY <1>4
  <1>6. n \in 1..Len(log[s]) /\ n \in Nat /\ n > commitIndex[s]
    BY <1>1, <1>5
  <1>. QED  BY <1>5, <1>6

\* It commits what is chosen: the peers it counts have acknowledged the entry, and
\* it does not count itself twice since its own matchIndex entry is below.
LEMMA LeaderCommitsChosen ==
    ASSUME Inv, NEW L \in [Nat -> Seq(Entry)], LogInv(L),
           NEW s \in Server, NEW r \in appendReps, HandleAppendSuccess(s, r),
           commitIndex'[s] # commitIndex[s]
    PROVE  ChosenUpTo(L, log[s], commitIndex'[s], currentTerm[s])
  <1>. DEFINE n == commitIndex'[s]
              match == [matchIndex[s] EXCEPT ![r.src] = RepReach(r)]
              T == currentTerm[s]
              V == {i \in Server : match[i] >= n}
  <1>. TypeOK
    BY DEF Inv, IndexInv
  <1>1. /\ r.success /\ r.dst = s /\ r.reqTerm = T /\ myRole[s] = Leader
        /\ r.src \in Server
    BY AppendReplyType DEF HandleAppendSuccess, CurrentReply
  <1>2. n = LeaderCommit(s, match)
    BY SuccessProgress
  <1>3. /\ n \in 1..Len(log[s]) /\ n \in Nat
        /\ log[s][n].term = T
        /\ Majority(1 + Cardinality(V))
    <2>. HIDE DEF match, n
    <2>1. n # commitIndex[s]
      BY DEF n
    <2>. QED  BY <1>2, <2>1, LeaderCommitCases
  <1>4. /\ T \in Nat /\ log[s] \in Seq(Entry) /\ log[s] = L[T] /\ Len(log[s]) \in Nat
    BY <1>1, LenProperties DEF TypeOK, StableType, LogInv, ServerLogInv
  <1>5. r.src # s
    BY <1>1 DEF LogInv, ReplyLogInv
  <1>6. /\ match[r.src] = RepReach(r)
        /\ \A p \in Server \ {r.src} : match[p] = matchIndex[s][p]
    BY <1>1 DEF TypeOK, AppendType
  <1>. DEFINE x == [index |-> n, term |-> T, command |-> L[T][n].command]
  <1>7. x \in started
    BY <1>3, <1>4 DEF LogInv, LeaderLogInv
  <1>8. x.index = n /\ x.term = T
    OBVIOUS
  <1>. HIDE DEF x, match, n
  <1>9. s \notin V
    <2>1. matchIndex[s][s] < n
      BY <1>1, <1>3 DEF LogInv, MatchInv
    <2>2. matchIndex[s][s] \in Nat /\ match[s] = matchIndex[s][s]
      BY <1>5, <1>6 DEF TypeOK, AppendType
    <2>. QED  BY <1>3, <2>1, <2>2
  <1>10. ASSUME NEW p \in V PROVE Acked(p, x)
    <2>1. p # s /\ p \in Server
      BY <1>9
    <2>2. CASE p = r.src
      <3>1. RepReach(r) >= n
        BY <1>6, <2>2
      <3>2. n <= RepReach(r)
        BY <1>3, <3>1, RepReachType
      <3>. QED  BY <1>1, <1>8, <2>2, <3>2 DEF Acked
    <2>3. CASE p # r.src
      <3>1. match[p] = matchIndex[s][p]
        BY <1>6, <2>1, <2>3
      <3>2. matchIndex[s][p] = 0 \/ Answered(p, T, matchIndex[s][p])
        BY <1>1, <2>1 DEF LogInv, MatchInv
      <3>3. matchIndex[s][p] \in Nat /\ matchIndex[s][p] >= n
        BY <2>1, <3>1 DEF TypeOK, AppendType
      <3>4. matchIndex[s][p] # 0 /\ n <= matchIndex[s][p]
        <4>1. n \in Nat /\ n # 0
          BY <1>3, <1>4
        <4>2. \A a \in Nat : a >= n => a # 0 /\ n <= a
          BY <4>1
        <4>. QED  BY <3>3, <4>2
      <3>5. PICK q \in appendReps : q.success /\ q.src = p /\ q.reqTerm = T
                                    /\ RepReach(q) = matchIndex[s][p]
        BY <3>2, <3>4 DEF Answered
      <3>. QED  BY <1>8, <3>4, <3>5 DEF Acked
    <2>. QED  BY <2>2, <2>3
  <1>11. Acked(s, x)
    <2>1. [term |-> T, server |-> s] \in elected
      BY <1>1 DEF Inv, ElectionInv, LeadersInv
    <2>. QED  BY <1>8, <2>1 DEF Acked
  <1>12. Chosen(x)
    <2>1. V \in SUBSET Server /\ IsFiniteSet(V)
      BY ServerAssumption, FS_Subset
    <2>. HIDE DEF V
    <2>2. Cardinality(V \cup {s}) = Cardinality(V) + 1 /\ Cardinality(V) \in Nat
      BY <1>9, <2>1, FS_AddElement, FS_CardinalityType
    <2>3. Majority(Cardinality(V \cup {s}))
      BY <1>3, <2>2 DEF Majority
    <2>4. V \cup {s} \in SUBSET Server
      BY <2>1
    <2>. QED  BY <1>10, <1>11, <2>3, <2>4 DEF Chosen
  <1>13. SamePrefix(log[s], L[T], n)
    <2>1. n \in 0..Len(log[s])
      BY <1>3, <1>4
    <2>. QED  BY <1>4, <2>1, SamePrefixRefl
  <1>14. x.term <= T /\ n <= x.index
    BY <1>3, <1>4, <1>8
  <1>. QED  BY <1>7, <1>8, <1>12, <1>13, <1>14 DEF ChosenUpTo, n

\* A follower commits what is chosen: what the leader announces lies within the
\* reach of its request.
LEMMA FollowerCommits ==
    ASSUME Inv, NEW L \in [Nat -> Seq(Entry)], LogInv(L), SafetyInv(L),
           NEW s \in Server, NEW m \in appendReqs, AcceptAppend(s, m),
           commitIndex'[s] # commitIndex[s]
    PROVE  /\ commitIndex'[s] = m.leaderCommit /\ m.leaderCommit > commitIndex[s]
           /\ ChosenUpTo(L, log'[s], commitIndex'[s], currentTerm'[s])
  <1>. DEFINE l == log'[s]
              T == m.term
              n == m.leaderCommit
              z == Reach(m)
  <1>. TypeOK
    BY DEF Inv, IndexInv
  <1>1. Merges(s, m)
    BY AcceptMerges
  <1>2. T \in Nat /\ z \in Nat /\ Aligned(L, log[s], L[T], l, z)
    BY <1>1, Merged
  <1>3. l \in Seq(Entry) /\ SamePrefix(l, L[T], z) /\ L[T] \in Seq(Entry)
    BY <1>2 DEF Aligned
  <1>4. n \in Nat /\ n <= z /\ ChosenUpTo(L, L[T], n, T)
    BY AppendArgsType DEF SafetyInv, CommitInv
  <1>5. commitIndex'[s] = FollowerCommit(s, m, l) /\ currentTerm'[s] = T
    BY <1>1, AcceptProgress DEF Merges
  <1>. HIDE DEF l, T, z
  <1>6. z <= Len(l) /\ Len(l) \in Nat
    BY <1>3, LenProperties DEF SamePrefix
  <1>7. Min({n, Len(l)}) = n
    <2>1. n <= Len(l)
      BY <1>2, <1>4, <1>6, NatTrans
    <2>. QED  BY <1>4, <1>6, <2>1, MinOfTwo
  <1>8. commitIndex'[s] = n /\ n > commitIndex[s]
    BY <1>5, <1>7 DEF FollowerCommit
  <1>. HIDE DEF n
  <1>9. SamePrefix(l, L[T], n)
    <2>1. n \in 0..z
      BY <1>2, <1>4
    <2>. QED  BY <1>2, <1>3, <2>1, ShorterPrefix
  <1>10. T <= T
    BY <1>2
  <1>11. ChosenUpTo(L, l, n, T)
    BY <1>2, <1>3, <1>4, <1>9, <1>10, ChosenCopy
  <1>. QED  BY <1>5, <1>8, <1>11 DEF l, n

\* Whatever a server has committed after a step is chosen.
LEMMA CommitIsChosen ==
    ASSUME Inv, Next, NEW L \in [Nat -> Seq(Entry)], LogInv(L), SafetyInv(L),
           NEW s \in Server
    PROVE  /\ commitIndex'[s] \in Nat
           /\ ChosenUpTo(L, log'[s], commitIndex'[s], currentTerm'[s])
  <1>. DEFINE n == commitIndex[s]
  <1>. TypeOK /\ LeaderSafe(L)
    BY DEF Inv, IndexInv, SafetyInv
  <1>0. commitIndex'[s] \in Nat
    BY ProgressTypeStep DEF ProgressType, Inv
  <1>1. /\ currentTerm[s] \in Nat /\ currentTerm'[s] \in Nat
        /\ currentTerm[s] <= currentTerm'[s]
    BY TermsGrow
  <1>2. n \in Nat /\ log[s] \in Seq(Entry) /\ log'[s] \in Seq(Entry)
    BY StableTypeStep DEF Inv, TypeOK, ProgressType, StableType
  <1>3. ChosenUpTo(L, log[s], n, currentTerm[s])
    BY DEF SafetyInv, CommitInv
  <1>. HIDE DEF n
  <1>4. n \in 0..Len(log[s])
    <2>1. n <= Len(log[s]) /\ Len(log[s]) \in Nat
      BY <1>2, <1>3, ChosenWithin, LenProperties
    <2>. QED  BY <1>2, <2>1
  <1>5. SamePrefix(log'[s], log[s], n)
    <2>1. CASE log'[s] = log[s]
      BY <1>2, <1>4, <2>1, SamePrefixRefl
    <2>2. ASSUME NEW m \in appendReqs, Merges(s, m)
          PROVE  SamePrefix(log'[s], log[s], n)
      BY <1>2, <1>3, <2>2, MergeKeepsChosen
    <2>3. ASSUME NEW c \in Command, Start(s, c)
          PROVE  SamePrefix(log'[s], log[s], n)
      <3>1. SamePrefix(log[s], log'[s], Len(log[s])) /\ Len(log[s]) \in Nat
        BY <1>2, <2>3, StartExtends, LenProperties
      <3>2. SamePrefix(log[s], log'[s], n)
        BY <1>2, <1>4, <3>1, ShorterPrefix
      <3>. QED  BY <3>2 DEF SamePrefix
    <2>. QED  BY <2>1, <2>2, <2>3, LogCases
  <1>6. CASE commitIndex'[s] = commitIndex[s]
    <2>1. ChosenUpTo(L, log'[s], n, currentTerm'[s])
      BY <1>1, <1>2, <1>3, <1>5, ChosenCopy
    <2>. QED  BY <1>0, <1>6, <2>1 DEF n
  <1>7. CASE commitIndex'[s] = 0
    BY <1>7 DEF ChosenUpTo
  <1>8. ASSUME NEW m \in appendReqs, AcceptAppend(s, m),
               commitIndex'[s] # commitIndex[s]
        PROVE  ChosenUpTo(L, log'[s], commitIndex'[s], currentTerm'[s])
    BY <1>8, FollowerCommits
  <1>9. ASSUME NEW r \in appendReps, HandleAppendSuccess(s, r),
               commitIndex'[s] # commitIndex[s]
        PROVE  ChosenUpTo(L, log'[s], commitIndex'[s], currentTerm'[s])
    <2>1. log' = log /\ currentTerm' = currentTerm
      BY <1>9, SuccessProgress
    <2>2. ChosenUpTo(L, log[s], commitIndex'[s], currentTerm[s])
      BY <1>9, LeaderCommitsChosen
    <2>. QED  BY <2>1, <2>2
  <1>. QED  BY <1>0, <1>6, <1>7, <1>8, <1>9, ProgressCases

\* What a server has delivered after a step extends what it had delivered, and is
\* chosen.
LEMMA AppliedIsChosen ==
    ASSUME Inv, Next, NEW L \in [Nat -> Seq(Entry)], LogInv(L), SafetyInv(L),
           NEW s \in Server
    PROVE  /\ applied'[s] \in Seq(Entry)
           /\ SamePrefix(applied[s], applied'[s], Len(applied[s]))
           /\ \E t \in Nat : ChosenUpTo(L, applied'[s], Len(applied'[s]), t)
  <1>. DEFINE a == applied[s]
              b == applied'[s]
              c == commitIndex'[s]
              l == log'[s]
              k == lastApplied[s]
  <1>. TypeOK /\ LeaderSafe(L)
    BY DEF Inv, IndexInv, SafetyInv
  <1>1. a \in Seq(Entry) /\ b \in Seq(Entry) /\ Len(a) \in Nat /\ Len(b) \in Nat
    BY ProgressTypeStep, LenProperties DEF Inv, TypeOK, ProgressType
  <1>2. PICK t \in Nat : ChosenUpTo(L, a, Len(a), t)
    BY DEF SafetyInv, CommitInv
  <1>3. CASE b = a
    <2>1. Len(a) \in 0..Len(a)
      BY <1>1
    <2>. QED  BY <1>1, <1>2, <1>3, <2>1, SamePrefixRefl
  <1>4. CASE Delivers(s)
    <2>1. c \in Nat /\ ChosenUpTo(L, l, c, currentTerm'[s])
      BY CommitIsChosen
    <2>2. l \in Seq(Entry) /\ currentTerm'[s] \in Nat /\ Len(l) \in Nat
      BY StableTypeStep, TermsGrow, LenProperties DEF Inv, StableType
    <2>3. k \in Nat /\ k <= Len(a)
      BY DEF TypeOK, ProgressType, Inv, IndexInv, DeliveredInv
    <2>4. /\ Len(b) = Max({Len(a), c})
          /\ \A i \in 1..Len(b) : b[i] = IF i > k /\ i <= c THEN l[i] ELSE a[i]
      BY <1>4 DEF Delivers
    <2>. HIDE DEF a, b, c, l, k
    <2>5. Len(b) = IF Len(a) >= c THEN Len(a) ELSE c
      BY <1>1, <2>1, <2>4, MaxOfTwo
    <2>6. CASE c <= Len(a)
      <3>1. SamePrefix(l, a, c)
        BY <1>1, <1>2, <2>1, <2>2, <2>6, ChosenLogsAgree
      <3>2. Len(b) = Len(a)
        BY <1>1, <2>1, <2>5, <2>6
      <3>3. ASSUME NEW i \in 1..Len(a) PROVE b[i] = a[i]
        <4>1. i > k /\ i <= c => i \in 1..c
          BY <1>1, <2>1, <2>3
        <4>2. \A j \in 1..c : l[j] = a[j]
          BY <3>1 DEF SamePrefix
        <4>. QED  BY <2>4, <3>2, <4>1, <4>2
      <3>4. b = a
        BY <1>1, <3>2, <3>3, SeqEqual
      <3>5. Len(a) \in 0..Len(a)
        BY <1>1
      <3>. QED  BY <1>1, <1>2, <3>4, <3>5, SamePrefixRefl DEF a, b
    <2>7. CASE Len(a) <= c
      <3>1. SamePrefix(a, l, Len(a))
        BY <1>1, <1>2, <2>1, <2>2, <2>7, ChosenLogsAgree
      <3>2. Len(b) = c
        BY <1>1, <2>1, <2>5, <2>7
      <3>3. \A j \in 1..Len(a) : a[j] = l[j]
        BY <3>1 DEF SamePrefix
      <3>4. ASSUME NEW i \in 1..c PROVE b[i] = l[i]
        <4>1. (i > k /\ i <= c) \/ i \in 1..Len(a)
          BY <1>1, <2>1, <2>3
        <4>. QED  BY <2>4, <3>2, <3>3, <4>1
      <3>5. c <= Len(l)
        BY <2>1, <2>2, ChosenWithin
      <3>6. SamePrefix(b, l, c)
        <4>1. c <= Len(b)
          BY <2>1, <3>2
        <4>. QED  BY <3>4, <3>5, <4>1 DEF SamePrefix
      <3>7. \A i \in 1..Len(a) : i \in 1..c
        BY <1>1, <2>1, <2>7
      <3>8. SamePrefix(a, b, Len(a))
        <4>1. Len(a) <= Len(a) /\ Len(a) <= Len(b)
          BY <1>1, <2>7, <3>2
        <4>. QED  BY <3>3, <3>4, <3>7, <4>1 DEF SamePrefix
      <3>9. currentTerm'[s] <= currentTerm'[s]
        BY <2>2
      <3>10. ChosenUpTo(L, b, c, currentTerm'[s])
        BY <1>1, <2>1, <2>2, <3>6, <3>9, ChosenCopy
      <3>. QED  BY <1>1, <2>2, <3>2, <3>8, <3>10 DEF a, b
    <2>8. c <= Len(a) \/ Len(a) <= c
      BY <1>1, <2>1
    <2>. QED  BY <2>6, <2>7, <2>8
  <1>5. b = a \/ Delivers(s)
    BY ProgressCases, AcceptProgress, SuccessProgress
  <1>. QED  BY <1>3, <1>4, <1>5

\* What is chosen in this state is chosen in the next one.
ChosenNext(K, l, n, t) ==
    n = 0 \/ \E x \in started' :
        Chosen(x)' /\ x.term <= t /\ n <= x.index /\ SamePrefix(l, K[x.term], n)

LEMMA ChosenCarries ==
    ASSUME Inv, Next, NEW L \in [Nat -> Seq(Entry)], LogInv(L),
           NEW K \in [Nat -> Seq(Entry)], Grows(L, K),
           NEW l \in Seq(Entry), NEW n \in Nat, NEW t, ChosenUpTo(L, l, n, t)
    PROVE  ChosenNext(K, l, n, t)
  <1>. SUFFICES ASSUME n # 0 PROVE ChosenNext(K, l, n, t)
    BY DEF ChosenNext
  <1>1. PICK x \in started : /\ Chosen(x) /\ x.term <= t /\ n <= x.index
                             /\ SamePrefix(l, L[x.term], n)
    BY DEF ChosenUpTo
  <1>2. x.term \in Nat
    BY StartedType
  <1>3. SamePrefix(l, K[x.term], n)
    BY <1>1, <1>2, GrowsPrefix
  <1>4. x \in started'
    BY StepCases, ElectEffect, StartEffect DEF Ordinary
  <1>5. Chosen(x)'
    BY <1>1, ChosenStays
  <1>. QED  BY <1>1, <1>3, <1>4, <1>5 DEF ChosenNext

\* Every step keeps it that only what is chosen is committed, announced and
\* delivered.
LEMMA CommitStep ==
    ASSUME Inv, Next, NEW L \in [Nat -> Seq(Entry)], LogInv(L), SafetyInv(L),
           NEW K \in [Nat -> Seq(Entry)], Grows(L, K)
    PROVE  CommitInv(K)'
  <1>. TypeOK
    BY DEF Inv, IndexInv
  <1>1. ASSUME NEW s \in Server
        PROVE  ChosenNext(K, log'[s], commitIndex'[s], currentTerm'[s])
    <2>1. log'[s] \in Seq(Entry)
      BY StableTypeStep DEF Inv, StableType
    <2>2. /\ commitIndex'[s] \in Nat
          /\ ChosenUpTo(L, log'[s], commitIndex'[s], currentTerm'[s])
      BY CommitIsChosen
    <2>. QED  BY <2>1, <2>2, ChosenCarries
  <1>2. ASSUME NEW s \in Server
        PROVE  \E t \in Nat : ChosenNext(K, applied'[s], Len(applied'[s]), t)
    <2>1. /\ applied'[s] \in Seq(Entry)
          /\ \E t \in Nat : ChosenUpTo(L, applied'[s], Len(applied'[s]), t)
      BY AppliedIsChosen
    <2>2. Len(applied'[s]) \in Nat
      BY <2>1, LenProperties
    <2>. QED  BY <2>1, <2>2, ChosenCarries
  <1>3. ASSUME NEW m \in appendReqs'
        PROVE  /\ m.leaderCommit <= Reach(m)
               /\ ChosenNext(K, K[m.term], m.leaderCommit, m.term)
    <2>1. /\ m.term \in Nat /\ m.leaderCommit \in Nat
      BY RequestStep DEF AppendEntriesArgs
    <2>2. /\ m.leaderCommit <= Reach(m)
          /\ ChosenUpTo(L, L[m.term], m.leaderCommit, m.term)
      <3>1. CASE m \in appendReqs
        BY <3>1 DEF SafetyInv, CommitInv
      <3>2. CASE m \notin appendReqs
        <4>1. PICK s \in Server : Sends(s, m)
          BY <3>2, NewRequest
        <4>2. /\ myRole[s] = Leader /\ m.term = currentTerm[s]
              /\ m.leaderCommit = commitIndex[s]
          BY <4>1 DEF Sends
        <4>3. Reach(m) = Len(log[s])
          BY <4>1, SendsAll
        <4>4. log[s] = L[m.term] /\ log[s] \in Seq(Entry)
          BY <4>2 DEF LogInv, ServerLogInv, TypeOK, StableType
        <4>5. ChosenUpTo(L, log[s], m.leaderCommit, m.term)
          BY <4>2 DEF SafetyInv, CommitInv
        <4>6. m.leaderCommit <= Len(log[s])
          BY <2>1, <4>4, <4>5, ChosenWithin
        <4>. QED  BY <4>3, <4>4, <4>5, <4>6
      <3>. QED  BY <3>1, <3>2
    <2>3. L[m.term] \in Seq(Entry) /\ K[m.term] \in Seq(Entry)
      BY <2>1
    <2>4. m.leaderCommit \in 0..Len(L[m.term])
      <3>1. Len(L[m.term]) \in Nat /\ m.leaderCommit <= Len(L[m.term])
        BY <2>1, <2>2, <2>3, ChosenWithin, LenProperties
      <3>. QED  BY <2>1, <3>1
    <2>5. SamePrefix(K[m.term], L[m.term], m.leaderCommit)
      <3>1. SamePrefix(L[m.term], K[m.term], Len(L[m.term])) /\ Len(L[m.term]) \in Nat
        BY <2>1, <2>3, LenProperties DEF Grows
      <3>2. SamePrefix(L[m.term], K[m.term], m.leaderCommit)
        BY <2>3, <2>4, <3>1, ShorterPrefix
      <3>. QED  BY <3>2 DEF SamePrefix
    <2>6. m.term <= m.term
      BY <2>1, NatTotal
    <2>7. ChosenUpTo(L, K[m.term], m.leaderCommit, m.term)
      BY <2>1, <2>2, <2>3, <2>5, <2>6, ChosenCopy
    <2>. QED  BY <2>1, <2>2, <2>3, <2>7, ChosenCarries
  <1>. QED  BY <1>1, <1>2, <1>3 DEF CommitInv, ChosenUpTo, ChosenNext, Reach


-----------------------------------------------------------------------------
(* HistoryInv is an invariant. *)

LEMMA InitHistory == Init => HistoryInv
  <1>. SUFFICES ASSUME Init PROVE HistoryInv
    OBVIOUS
  <1>1. PICK L \in [Nat -> Seq(Entry)] : LogInv(L)
    BY InitLogHistory DEF LogHistory
  <1>2. /\ elected = {} /\ started = {} /\ voteReqs = {} /\ voteReps = {}
        /\ appendReqs = {}
    BY DEF Init
  <1>3. \A s \in Server : commitIndex[s] = 0 /\ applied[s] = <<>> /\ Len(applied[s]) = 0
    BY EmptySeq DEF Init
  <1>4. LeaderSafe(L) /\ AckInv /\ VoteReqInv /\ GrantLogInv
    BY <1>2 DEF LeaderSafe, AckInv, VoteReqInv, GrantLogInv
  <1>5. CommitInv(L)
    <2>1. 0 \in Nat
      OBVIOUS
    <2>. QED  BY <1>2, <1>3, <2>1 DEF CommitInv, ChosenUpTo
  <1>. QED  BY <1>1, <1>4, <1>5 DEF HistoryInv, SafetyInv

\* A step in which nothing changes keeps it as well.
LEMMA StutterSafety ==
    ASSUME UNCHANGED vars, NEW L \in [Nat -> Seq(Entry)], LogInv(L), SafetyInv(L)
    PROVE  LogInv(L)' /\ SafetyInv(L)'
  <1>1. UNCHANGED <<log, currentTerm, myRole, matchIndex, commitIndex, applied,
                    voteReqs, voteReps, appendReqs, appendReps, elected, started>>
    BY DEF vars, stable, progress, roles, leading, voteNet, appendNet, history
  <1>2. LeaderLogInv(L)' /\ ServerLogInv(L)' /\ RequestLogInv(L)'
    BY <1>1 DEF LogInv, LeaderLogInv, ServerLogInv, RequestLogInv
  <1>3. ReplyLogInv(L)' /\ MatchInv'
    BY <1>1 DEF LogInv, ReplyLogInv, MatchInv, Answered
  <1>4. \A q, x : Acked(q, x)' <=> Acked(q, x)
    BY <1>1 DEF Acked
  <1>5. \A x : (Dead(x)' <=> Dead(x)) /\ (Chosen(x)' <=> Chosen(x))
    BY <1>1, <1>4 DEF Dead, Chosen
  <1>6. LeaderSafe(L)'
    BY <1>1, <1>5 DEF SafetyInv, LeaderSafe
  <1>7. AckInv' /\ GrantLogInv'
    BY <1>1, <1>4, <1>5 DEF SafetyInv, AckInv, GrantLogInv
  <1>8. VoteReqInv'
    BY <1>1 DEF SafetyInv, VoteReqInv
  <1>9. CommitInv(L)'
    <2>1. ASSUME NEW l, NEW n, NEW t, ChosenUpTo(L, l, n, t)
          PROVE  ChosenNext(L, l, n, t)
      BY <1>1, <1>5, <2>1 DEF ChosenUpTo, ChosenNext
    <2>2. ASSUME NEW s \in Server
          PROVE  /\ ChosenNext(L, log'[s], commitIndex'[s], currentTerm'[s])
                 /\ \E t \in Nat : ChosenNext(L, applied'[s], Len(applied'[s]), t)
      BY <1>1, <2>1 DEF SafetyInv, CommitInv
    <2>3. ASSUME NEW m \in appendReqs'
          PROVE  /\ m.leaderCommit <= Reach(m)
                 /\ ChosenNext(L, L[m.term], m.leaderCommit, m.term)
      BY <1>1, <2>1 DEF SafetyInv, CommitInv
    <2>. QED  BY <2>2, <2>3 DEF CommitInv, ChosenUpTo, ChosenNext, Reach
  <1>. QED  BY <1>2, <1>3, <1>6, <1>7, <1>8, <1>9 DEF LogInv, SafetyInv

LEMMA NextHistory == Inv /\ HistoryInv /\ [Next]_vars => HistoryInv'
  <1>. SUFFICES ASSUME Inv, HistoryInv, [Next]_vars PROVE HistoryInv'
    OBVIOUS
  <1>1. PICK L \in [Nat -> Seq(Entry)] : LogInv(L) /\ SafetyInv(L)
    BY DEF HistoryInv
  <1>2. CASE Next
    <2>1. PICK K \in [Nat -> Seq(Entry)] : Advances(L, K)
      BY <1>2, AdvanceExists
    <2>2. LogInv(K)' /\ Grows(L, K)
      BY <1>1, <1>2, <2>1, AdvanceLog
    <2>3. LeaderSafe(K)'
      BY <1>1, <1>2, <2>1, LeaderSafeStep
    <2>4. AckInv' /\ GrantLogInv'
      BY <1>1, <1>2, AckStep, GrantLogStep
    <2>5. VoteReqInv'
      BY <1>1, <1>2, VoteReqStep
    <2>6. CommitInv(K)'
      BY <1>1, <1>2, <2>2, CommitStep
    <2>. QED  BY <2>2, <2>3, <2>4, <2>5, <2>6 DEF HistoryInv, SafetyInv
  <1>3. CASE UNCHANGED vars
    <2>1. LogInv(L)' /\ SafetyInv(L)'
      BY <1>1, <1>3, StutterSafety
    <2>. QED  BY <2>1 DEF HistoryInv
  <1>. QED  BY <1>2, <1>3

\* In every reachable state some history of the leaders' logs explains the logs and
\* the messages, and what was committed, announced or delivered was acknowledged by
\* a majority and is held by every later leader.
THEOREM HistoryHolds == Spec => []HistoryInv
  <1>1. Inv /\ HistoryInv /\ [Next]_vars => HistoryInv'
    BY NextHistory
  <1>. QED  BY InitHistory, <1>1, Invariance, PTL DEF Spec


-----------------------------------------------------------------------------
(* What the peers promise. *)

\* A sequence that another agrees with to its end is a prefix of the other.
LEMMA AgreeIsPrefix ==
    ASSUME NEW l \in Seq(Entry), NEW k \in Seq(Entry), SamePrefix(l, k, Len(l))
    PROVE  IsPrefix(l, k)
  <1>1. Len(l) \in Nat /\ Len(l) <= Len(k)
    BY LenProperties DEF SamePrefix
  <1>2. SubSeq(l, 1, Len(l)) = SubSeq(k, 1, Len(l))
    BY <1>1, PrefixesEqual
  <1>. QED  BY <1>1, <1>2 DEF IsPrefix

\* Of what two servers have delivered one is a prefix of the other.
LEMMA AppliedAgree ==
    ASSUME Inv, HistoryInv, NEW s \in Server, NEW t \in Server,
           Len(applied[s]) <= Len(applied[t])
    PROVE  SamePrefix(applied[s], applied[t], Len(applied[s]))
  <1>1. PICK L \in [Nat -> Seq(Entry)] : LogInv(L) /\ SafetyInv(L)
    BY DEF HistoryInv
  <1>2. /\ applied[s] \in Seq(Entry) /\ applied[t] \in Seq(Entry)
        /\ Len(applied[s]) \in Nat /\ Len(applied[t]) \in Nat
    BY LenProperties DEF Inv, IndexInv, TypeOK, ProgressType
  <1>3. PICK u \in Nat : ChosenUpTo(L, applied[s], Len(applied[s]), u)
    BY <1>1 DEF SafetyInv, CommitInv
  <1>4. PICK v \in Nat : ChosenUpTo(L, applied[t], Len(applied[t]), v)
    BY <1>1 DEF SafetyInv, CommitInv
  <1>5. LeaderSafe(L)
    BY <1>1 DEF SafetyInv
  <1>. QED  BY <1>1, <1>2, <1>3, <1>4, <1>5, ChosenLogsAgree

\* Two servers never deliver different commands for the same index: checkLogs of
\* config.go has nothing to report.
THEOREM StateMachinesAgree == Spec => []StateMachineSafety
  <1>1. Inv /\ HistoryInv => StateMachineSafety
    <2>. SUFFICES ASSUME Inv, HistoryInv,
                         NEW s \in Server, NEW t \in Server,
                         NEW i \in (1..Len(applied[s])) \cap (1..Len(applied[t]))
                  PROVE  applied[s][i] = applied[t][i]
      BY DEF StateMachineSafety
    <2>1. Len(applied[s]) \in Nat /\ Len(applied[t]) \in Nat
      BY LenProperties DEF Inv, IndexInv, TypeOK, ProgressType
    <2>2. CASE Len(applied[s]) <= Len(applied[t])
      BY <2>2, AppliedAgree DEF SamePrefix
    <2>3. CASE Len(applied[t]) <= Len(applied[s])
      <3>1. SamePrefix(applied[t], applied[s], Len(applied[t]))
        BY <2>3, AppliedAgree
      <3>. QED  BY <3>1 DEF SamePrefix
    <2>. QED  BY <2>1, <2>2, <2>3, NatTotal
  <1>. QED  BY <1>1, Invariance, HistoryHolds, PTL

\* A leader no server has outrun holds every entry that was ever delivered (5.4):
\* a vote is granted only to a log that is as up to date as the voter's.
THEOREM LeadersAreComplete == Spec => []LeaderCompleteness
  <1>1. Inv /\ HistoryInv => LeaderCompleteness
    <2>. SUFFICES ASSUME Inv, HistoryInv, NEW s \in Server, myRole[s] = Leader,
                         \A q \in Server : currentTerm[q] <= currentTerm[s],
                         NEW t \in Server
                  PROVE  IsPrefix(applied[t], log[s])
      BY DEF LeaderCompleteness
    <2>1. PICK L \in [Nat -> Seq(Entry)] : LogInv(L) /\ SafetyInv(L)
      BY DEF HistoryInv
    <2>. DEFINE a == applied[t]
                T == currentTerm[s]
    <2>2. /\ a \in Seq(Entry) /\ log[s] \in Seq(Entry) /\ T \in Nat
          /\ Len(a) \in Nat /\ Len(log[s]) \in Nat
          /\ log[s] = L[T] /\ L[T] \in Seq(Entry)
      BY <2>1, LenProperties
         DEF LogInv, ServerLogInv, Inv, IndexInv, TypeOK, StableType, ProgressType
    <2>3. PICK u \in Nat : ChosenUpTo(L, a, Len(a), u)
      BY <2>1 DEF SafetyInv, CommitInv
    <2>4. CASE Len(a) = 0
      <3>1. SamePrefix(a, log[s], 0)
        BY <2>2, <2>4 DEF SamePrefix
      <3>. QED  BY <2>2, <2>4, <3>1, AgreeIsPrefix
    <2>5. CASE Len(a) # 0
      <3>1. PICK x \in started : /\ Chosen(x)
                                 /\ Len(a) <= x.index
                                 /\ SamePrefix(a, L[x.term], Len(a))
        BY <2>3, <2>5 DEF ChosenUpTo
      <3>2. x.term \in Nat /\ x.index \in Nat /\ L[x.term] \in Seq(Entry)
        BY <2>1, StartedType
      <3>3. x.term <= T
        <4>1. PICK Q \in SUBSET Server :
                  Majority(Cardinality(Q)) /\ \A q \in Q : Acked(q, x)
          BY <3>1 DEF Chosen
        <4>2. PICK q \in Q : TRUE
          BY <4>1, MajoritiesMeet
        <4>3. x.term <= currentTerm[q] /\ currentTerm[q] \in Nat
          BY <2>1, <4>1 DEF SafetyInv, AckInv, Inv, IndexInv, TypeOK, StableType
        <4>. QED  BY <2>2, <3>2, <4>3, NatTrans
      <3>4. [term |-> T, server |-> s] \in elected
        BY DEF Inv, ElectionInv, LeadersInv
      <3>5. SamePrefix(L[x.term], L[T], x.index)
        BY <2>1, <3>1, <3>3, <3>4, ChosenInLeader DEF SafetyInv
      <3>6. Len(a) \in 0..x.index
        BY <2>2, <3>1, <3>2
      <3>7. SamePrefix(L[x.term], L[T], Len(a))
        BY <2>2, <3>2, <3>5, <3>6, ShorterPrefix
      <3>8. SamePrefix(a, log[s], Len(a))
        BY <2>2, <3>1, <3>2, <3>7, SamePrefixTrans
      <3>. QED  BY <2>2, <3>8, AgreeIsPrefix
    <2>. QED  BY <2>4, <2>5
  <1>. QED  BY <1>1, Invariance, HistoryHolds, PTL


\* The servers that acknowledged a chosen call agree, on their Persisters, with the
\* log it was chosen in.
LEMMA ChosenIsStored ==
    ASSUME Inv, NEW L \in [Nat -> Seq(Entry)], LogInv(L), SafetyInv(L),
           NEW x \in started, Chosen(x), NEW q \in Server, Acked(q, x)
    PROVE  SamePrefix(persisted[q].log, L[x.term], x.index)
  <1>1. /\ log[q] \in Seq(Entry) /\ Recorded(L, log[q])
        /\ persisted[q].log = log[q]
    BY DEF LogInv, ServerLogInv, Inv, IndexInv, TypeOK, StableType, PersistedIsCurrent
  <1>2. x.index \in Nat /\ x.index >= 1 /\ x.term \in Nat
    BY StartedType
  <1>3. Holds(log[q], x)
    BY ChosenIsNotDead DEF SafetyInv, AckInv
  <1>4. x.index <= Len(log[q]) /\ log[q][x.index].term = x.term
    BY <1>3 DEF Holds
  <1>5. x.index \in 1..Len(log[q])
    BY SMTT(40), <1>1, <1>2, <1>4, LenProperties
  <1>6. SamePrefix(log[q], L[log[q][x.index].term], x.index)
    BY <1>1, <1>5 DEF Recorded
  <1>. QED  BY <1>1, <1>4, <1>6

\* A set that contains a majority is a majority.
LEMMA MoreIsMajority ==
    ASSUME NEW P \in SUBSET Server, NEW Q \in SUBSET Server, Q \subseteq P,
           Majority(Cardinality(Q))
    PROVE  Majority(Cardinality(P))
  <1>1. IsFiniteSet(P) /\ IsFiniteSet(Server)
    BY ServerAssumption, FS_Subset
  <1>2. /\ Cardinality(P) \in Nat /\ Cardinality(Q) \in Nat
        /\ Cardinality(Server) \in Nat /\ Cardinality(Q) <= Cardinality(P)
    BY <1>1, FS_Subset, FS_CardinalityType
  <1>. QED  BY <1>2 DEF Majority

\* What was delivered anywhere is on the Persisters of a majority: no crash loses it,
\* the leader counts itself once, and entries of older terms are not counted.
THEOREM DeliveredIsDurable == Spec => []AppliedIsDurable
  <1>1. Inv /\ HistoryInv => AppliedIsDurable
    <2>. SUFFICES ASSUME Inv, HistoryInv, NEW s \in Server, NEW i \in 1..Len(applied[s])
                  PROVE  Majority(Cardinality({t \in Server :
                             /\ i <= Len(persisted[t].log)
                             /\ persisted[t].log[i] = applied[s][i]}))
      BY DEF AppliedIsDurable
    <2>1. PICK L \in [Nat -> Seq(Entry)] : LogInv(L) /\ SafetyInv(L)
      BY DEF HistoryInv
    <2>. DEFINE a == applied[s]
                P == {t \in Server : /\ i <= Len(persisted[t].log)
                                     /\ persisted[t].log[i] = a[i]}
    <2>2. a \in Seq(Entry) /\ Len(a) \in Nat /\ i \in 1..Len(a) /\ i \in Nat
      BY LenProperties DEF Inv, IndexInv, TypeOK, ProgressType
    <2>3. PICK u \in Nat : ChosenUpTo(L, a, Len(a), u)
      BY <2>1 DEF SafetyInv, CommitInv
    <2>4. PICK x \in started : /\ Chosen(x)
                               /\ Len(a) <= x.index
                               /\ SamePrefix(a, L[x.term], Len(a))
      <3>1. Len(a) # 0
        BY <2>2
      <3>. QED  BY <2>3, <3>1 DEF ChosenUpTo
    <2>5. a[i] = L[x.term][i]
      BY <2>2, <2>4 DEF SamePrefix
    <2>6. x.index \in Nat /\ i \in 1..x.index /\ i <= x.index
      <3>1. x.index \in Nat
        BY <2>1, StartedType
      <3>. DEFINE n == Len(a)
                  j == x.index
      <3>2. j \in Nat /\ n \in Nat /\ i \in 1..n /\ n <= j
        BY <2>2, <2>4, <3>1
      <3>. HIDE DEF n, j
      <3>3. i \in 1..j /\ i <= j
        BY <3>2
      <3>. QED  BY <3>2, <3>3 DEF j
    <2>7. PICK Q \in SUBSET Server :
              Majority(Cardinality(Q)) /\ \A q \in Q : Acked(q, x)
      BY <2>4 DEF Chosen
    <2>8. ASSUME NEW q \in Q
          PROVE  q \in P
      <3>1. SamePrefix(persisted[q].log, L[x.term], x.index)
        BY <2>1, <2>4, <2>7, ChosenIsStored
      <3>2. x.index <= Len(persisted[q].log) /\ persisted[q].log[i] = L[x.term][i]
        BY <2>6, <3>1 DEF SamePrefix
      <3>3. Len(persisted[q].log) \in Nat
        <4>1. persisted[q].log \in Seq(Entry)
          BY DEF Inv, IndexInv, TypeOK, StableType, PersistedIsCurrent
        <4>. QED  BY <4>1, LenProperties
      <3>4. i <= Len(persisted[q].log)
        BY <2>2, <2>6, <3>2, <3>3, NatTrans
      <3>. QED  BY <2>5, <3>2, <3>4
    <2>. HIDE DEF P
    <2>9. Majority(Cardinality(P))
      <3>1. P \in SUBSET Server
        BY DEF P
      <3>. QED  BY <2>7, <2>8, <3>1, MoreIsMajority
    <2>. QED  BY <2>9 DEF P
  <1>. QED  BY <1>1, Invariance, HistoryHolds, PTL

\* No step of any incarnation takes back or replaces what a server has delivered.
THEOREM DeliveredIsFinal == Spec => DeliveryIsFinal
  <1>1. Inv /\ HistoryInv /\ [Next]_vars =>
            [\A s \in Server : IsPrefix(applied[s], applied'[s])]_vars
    <2>. SUFFICES ASSUME Inv, HistoryInv, Next, NEW s \in Server
                  PROVE  IsPrefix(applied[s], applied'[s])
      OBVIOUS
    <2>1. PICK L \in [Nat -> Seq(Entry)] : LogInv(L) /\ SafetyInv(L)
      BY DEF HistoryInv
    <2>2. applied[s] \in Seq(Entry)
      BY DEF Inv, IndexInv, TypeOK, ProgressType
    <2>3. applied'[s] \in Seq(Entry) /\ SamePrefix(applied[s], applied'[s], Len(applied[s]))
      BY <2>1, AppliedIsChosen
    <2>. QED  BY <2>2, <2>3, AgreeIsPrefix
  <1>. QED  BY <1>1, Invariance, HistoryHolds, PTL DEF Spec, DeliveryIsFinal


\* Incarnations are numbered in the order of the restarts.
InstInv == \A s \in Server : inst[s] <= restarts

LEMMA InstStep == Inv /\ InstInv /\ [Next]_vars => InstInv'
  <1>. SUFFICES ASSUME Inv, InstInv, [Next]_vars PROVE InstInv'
    OBVIOUS
  <1>. TypeOK /\ RoleType
    BY DEF Inv, IndexInv, TypeOK
  <1>1. ASSUME NEW s \in Server, NEW p, RestartFrom(s, p)
        PROVE  InstInv'
    <2>1. restarts' = restarts + 1 /\ inst' = [inst EXCEPT ![s] = restarts + 1]
      BY <1>1 DEF RestartFrom
    <2>2. restarts \in Nat /\ inst \in [Server -> Nat]
      BY DEF RoleType
    <2>3. ASSUME NEW x \in Server PROVE inst'[x] <= restarts'
      <3>1. inst[x] <= restarts /\ inst[x] \in Nat
        BY <2>2 DEF InstInv
      <3>2. inst'[x] = inst[x] \/ inst'[x] = restarts + 1
        BY <2>1, <2>2
      <3>. QED  BY <2>1, <2>2, <3>1, <3>2
    <2>. QED  BY <2>3 DEF InstInv
  <1>2. ASSUME NEW s \in Server,
               \/ ElectionTimeout(s)
               \/ StartLeader(s)
               \/ StartVoting(s)
               \/ \E c \in Command : Start(s, c)
               \/ \E p \in Server \ {s} : SendAppendEntries(s, p)
               \/ \E m \in voteReqs : RejectStaleVoteRequest(s, m)
               \/ \E m \in voteReqs : RequestVote(s, m)
               \/ \E q \in voteReps \cup appendReps : StepDown(s, q)
               \/ \E q \in voteReps : CountVote(s, q)
               \/ \E m \in appendReqs : RejectStaleAppend(s, m)
               \/ \E m \in appendReqs : RejectAppend(s, m)
               \/ \E m \in appendReqs : AcceptAppend(s, m)
               \/ \E q \in appendReps : HandleAppendSuccess(s, q)
               \/ \E q \in appendReps : HandleAppendConflict(s, q)
        PROVE  UNCHANGED <<restarts, inst>>
    BY <1>2 DEF ElectionTimeout, StartLeader, StartVoting, Start, SendAppendEntries,
                RejectStaleVoteRequest, RequestVote, StepDown, CountVote,
                RejectStaleAppend, RejectAppend, AcceptAppend, RecogniseLeader,
                HandleAppendSuccess, HandleAppendConflict, instances
  <1>3. ASSUME UNCHANGED <<restarts, inst>> PROVE InstInv'
    BY <1>3 DEF InstInv
  <1>4. CASE UNCHANGED vars
    BY <1>3, <1>4 DEF vars, instances
  <1>. QED  BY <1>1, <1>2, <1>3, <1>4, RestartVote DEF Next

\* What currentTerm, commitIndex and lastApplied of a server do in a step.
LEMMA MonotonicStep ==
    ASSUME Inv, HistoryInv, InstInv, Next, NEW s \in Server
    PROVE  /\ currentTerm'[s] >= currentTerm[s]
           /\ inst'[s] = inst[s] =>
                 /\ commitIndex'[s] >= commitIndex[s]
                 /\ lastApplied'[s] >= lastApplied[s]
  <1>. TypeOK
    BY DEF Inv, IndexInv
  <1>. DEFINE c == commitIndex[s]
              d == commitIndex'[s]
              a == lastApplied[s]
              b == lastApplied'[s]
  <1>1. currentTerm'[s] >= currentTerm[s]
    BY TermsGrow
  <1>2. c \in Nat /\ a \in Nat
    BY DEF TypeOK, ProgressType
  <1>3. CASE d = c /\ b = a
    BY <1>1, <1>2, <1>3
  <1>4. CASE inst'[s] = restarts + 1
    <2>1. inst[s] \in Nat /\ restarts \in Nat /\ inst[s] <= restarts
      BY DEF InstInv, TypeOK, RoleType
    <2>2. inst'[s] # inst[s]
      BY <1>4, <2>1
    <2>. QED  BY <1>1, <2>2
  <1>5. ASSUME Delivers(s), d \in Nat, d >= c
        PROVE  d >= c /\ b >= a
    <2>1. b = Max({a, d})
      BY <1>5 DEF Delivers
    <2>. HIDE DEF a, b, c, d
    <2>2. b >= a
      BY <1>2, <1>5, <2>1 DEF Max
    <2>. QED  BY <1>5, <2>2
  <1>6. ASSUME NEW m \in appendReqs, AcceptAppend(s, m)
        PROVE  d >= c /\ b >= a
    <2>1. Delivers(s) /\ d \in Nat /\ d = FollowerCommit(s, m, log'[s])
      BY <1>6, AcceptProgress
    <2>2. PICK L \in [Nat -> Seq(Entry)] : LogInv(L) /\ SafetyInv(L)
      BY DEF HistoryInv
    <2>3. d = c \/ d > c
      <3>1. d # c => d = m.leaderCommit /\ m.leaderCommit > c
        BY <1>6, <2>2, FollowerCommits
      <3>. QED  BY <3>1
    <2>4. c \in Nat /\ d \in Nat
      BY <1>2, <2>1
    <2>5. d >= c
      <3>. HIDE DEF c, d
      <3>. QED  BY <2>3, <2>4
    <2>. QED  BY <1>5, <2>1, <2>5
  <1>7. ASSUME NEW r \in appendReps, HandleAppendSuccess(s, r)
        PROVE  d >= c /\ b >= a
    <2>1. Delivers(s) /\ d \in Nat
      BY <1>7, SuccessProgress
    <2>2. d = LeaderCommit(s, [matchIndex[s] EXCEPT ![r.src] = RepReach(r)])
      BY <1>7, SuccessProgress
    <2>3. c <= d
      BY <2>2, LeaderCommitType
    <2>. QED  BY <1>2, <1>5, <2>1, <2>3
  <1>. QED  BY <1>1, <1>3, <1>4, <1>6, <1>7, ProgressCases

\* As the declarations of Raft say: terms grow, over crashes too, and commitIndex and
\* lastApplied within an incarnation.
THEOREM IndicesGrow == Spec => Monotonic
  <1>1. Init => InstInv
    BY DEF Init, InstInv
  <1>2. Inv /\ HistoryInv /\ InstInv /\ [Next]_vars =>
            [\A s \in Server :
                /\ currentTerm'[s] >= currentTerm[s]
                /\ inst'[s] = inst[s] =>
                      /\ commitIndex'[s] >= commitIndex[s]
                      /\ lastApplied'[s] >= lastApplied[s]]_vars
    BY MonotonicStep
  <1>. QED  BY <1>1, <1>2, InstStep, Invariance, HistoryHolds, PTL DEF Spec, Monotonic


-----------------------------------------------------------------------------
(* The peers implement ReplicatedLog. *)

\* Server w has delivered as much as any.
Longest(a, w) == \A t \in Server : Len(a[t]) <= Len(a[w])

\* One of finitely many sequences is the longest: the one with the fewest longer.
LEMMA LongestExists ==
    ASSUME NEW a \in [Server -> Seq(Entry)]
    PROVE  \E w \in Server : Longest(a, w)
  <1>. DEFINE Longer(s) == {t \in Server : Len(a[t]) > Len(a[s])}
              T == {Cardinality(Longer(s)) : s \in Server}
  <1>1. \A s \in Server : Len(a[s]) \in Nat
    BY LenProperties
  <1>2. \A s \in Server : IsFiniteSet(Longer(s)) /\ Cardinality(Longer(s)) \in Nat
    BY ServerAssumption, FS_Subset, FS_CardinalityType
  <1>3. T \in SUBSET Nat /\ T # {}
    <2>1. Server # {}
      BY ServerAssumption, FS_EmptySet
    <2>. QED  BY <1>2, <2>1
  <1>4. PICK w \in Server : \A s \in Server :
            Cardinality(Longer(w)) <= Cardinality(Longer(s))
    <2>1. Min(T) \in T /\ \A y \in T : Min(T) <= y
      <3>. HIDE DEF T
      <3>. QED  BY <1>3, NatMinimum
    <2>2. PICK w \in Server : Min(T) = Cardinality(Longer(w))
      BY <2>1
    <2>3. \A s \in Server : Min(T) <= Cardinality(Longer(s))
      BY <2>1
    <2>. QED  BY <2>2, <2>3
  <1>5. ASSUME NEW t \in Server, Len(a[t]) > Len(a[w])
        PROVE  FALSE
    <2>1. t \in Longer(w) /\ t \notin Longer(t)
      BY <1>1, <1>5
    <2>2. Longer(t) \subseteq Longer(w)
      <3>1. ASSUME NEW u \in Longer(t) PROVE u \in Longer(w)
        <4>1. u \in Server /\ Len(a[u]) > Len(a[t])
          OBVIOUS
        <4>. QED  BY <1>1, <1>5, <4>1
      <3>. QED  BY <3>1
    <2>3. Cardinality(Longer(t)) < Cardinality(Longer(w))
      <3>. DEFINE A == Longer(t)
                  B == Longer(w)
      <3>1. IsFiniteSet(B) /\ A \in SUBSET B /\ A # B
        BY <1>2, <2>1, <2>2
      <3>. HIDE DEF A, B
      <3>2. Cardinality(A) < Cardinality(B)
        <4>1. Cardinality(A) <= Cardinality(B) /\ Cardinality(A) # Cardinality(B)
          BY <3>1, FS_Subset
        <4>2. Cardinality(A) \in Nat /\ Cardinality(B) \in Nat
          BY <1>2 DEF A, B
        <4>. QED  BY <4>1, <4>2
      <3>. QED  BY <3>2 DEF A, B
    <2>4. /\ Cardinality(Longer(w)) <= Cardinality(Longer(t))
          /\ Cardinality(Longer(w)) \in Nat /\ Cardinality(Longer(t)) \in Nat
      BY <1>2, <1>4
    <2>. HIDE DEF Longer
    <2>. QED  BY <2>3, <2>4
  <1>6. ASSUME NEW t \in Server PROVE Len(a[t]) <= Len(a[w])
    BY <1>1, <1>5
  <1>. QED  BY <1>6 DEF Longest

\* LongestApplied is what such a server has delivered.
LEMMA LongestAppliedIs ==
    ASSUME applied \in [Server -> Seq(Entry)]
    PROVE  \E w \in Server : Longest(applied, w) /\ LongestApplied = applied[w]
  <1>1. \E w \in Server : Longest(applied, w)
    BY LongestExists
  <1>. DEFINE w == CHOOSE s \in Server : \A t \in Server : Len(applied[t]) <= Len(applied[s])
  <1>2. w \in Server /\ Longest(applied, w)
    BY <1>1 DEF Longest
  <1>3. LongestApplied = applied[w]
    BY DEF LongestApplied
  <1>. QED  BY <1>2, <1>3

LEMMA LongestAppliedNext ==
    ASSUME applied' \in [Server -> Seq(Entry)]
    PROVE  \E w \in Server : Longest(applied', w) /\ LongestApplied' = applied'[w]
  <1>1. \E w \in Server : Longest(applied', w)
    BY LongestExists
  <1>. DEFINE w == CHOOSE s \in Server :
                      \A t \in Server : Len(applied'[t]) <= Len(applied'[s])
  <1>2. w \in Server /\ Longest(applied', w)
    BY <1>1 DEF Longest
  <1>3. LongestApplied' = applied'[w]
    BY DEF LongestApplied
  <1>. QED  BY <1>2, <1>3

\* Sequences of the same length that agree are equal.
LEMMA AgreeEqual ==
    ASSUME NEW l \in Seq(Entry), NEW k \in Seq(Entry), SamePrefix(l, k, Len(l)),
           Len(l) = Len(k)
    PROVE  l = k
  BY LenProperties, SeqEqual DEF SamePrefix

\* Whatever was chosen Start has returned for, entry by entry.
LEMMA ChosenWasStarted ==
    ASSUME Inv, NEW L \in [Nat -> Seq(Entry)], LogInv(L),
           NEW l \in Seq(Entry), NEW n \in Nat, NEW t, ChosenUpTo(L, l, n, t),
           NEW i \in 1..n
    PROVE  [index |-> i, term |-> l[i].term, command |-> l[i].command] \in started
  <1>1. n # 0
    OBVIOUS
  <1>2. PICK x \in started : n <= x.index /\ SamePrefix(l, L[x.term], n)
    BY <1>1 DEF ChosenUpTo
  <1>. DEFINE k == L[x.term]
              u == k[i].term
  <1>3. x.term \in Nat /\ k \in Seq(Entry)
    BY <1>2, StartedType
  <1>4. l[i] = k[i] /\ n <= Len(k)
    BY <1>2 DEF SamePrefix
  <1>5. i \in 1..Len(k) /\ i \in Nat
    <2>1. Len(k) \in Nat
      BY <1>3, LenProperties
    <2>. HIDE DEF k
    <2>. QED  BY <1>4, <2>1
  <1>6. u \in Nat
    <2>1. k[i] \in Entry
      BY <1>3, <1>5, ElementOfSeq
    <2>. QED  BY <2>1 DEF Entry
  <1>7. SamePrefix(k, L[u], i) /\ L[u] \in Seq(Entry)
    BY <1>3, <1>5, <1>6 DEF LogInv, LeaderLogInv, Recorded
  <1>8. k[i] = L[u][i] /\ i <= Len(L[u])
    <2>1. i \in 1..i
      BY <1>5
    <2>. HIDE DEF k, u
    <2>. QED  BY <1>7, <2>1 DEF SamePrefix
  <1>9. i \in 1..Len(L[u])
    <2>1. Len(L[u]) \in Nat
      BY <1>7, LenProperties
    <2>. HIDE DEF u
    <2>. QED  BY <1>5, <1>8, <2>1
  <1>10. L[u][i].term = u
    BY <1>8
  <1>11. [index |-> i, term |-> u, command |-> L[u][i].command] \in started
    BY <1>6, <1>9, <1>10 DEF LogInv, LeaderLogInv
  <1>. QED  BY <1>4, <1>8, <1>11


\* Start adds one call, at an index and term it has never returned before.
LEMMA StartImplements ==
    ASSUME Inv, HistoryInv, NEW s \in Server, NEW c \in Command, Start(s, c)
    PROVE  Abstract!StartCommand
  <1>1. PICK L \in [Nat -> Seq(Entry)] : LogInv(L)
    BY DEF HistoryInv
  <1>. DEFINE T == currentTerm[s]
              l == Append(log[s], [term |-> T, command |-> c])
              n == Len(log[s])
              call == [index |-> Len(l), term |-> T, command |-> c]
  <1>2. /\ log[s] \in Seq(Entry) /\ T \in Nat /\ n \in Nat
        /\ log[s] = L[T]
    BY <1>1, LenProperties
       DEF Start, LogInv, ServerLogInv, Inv, IndexInv, TypeOK, StableType
  <1>3. started' = started \cup {call}
    BY DEF Start
  <1>4. Len(l) = n + 1
    <2>1. [term |-> T, command |-> c] \in Entry
      BY <1>2 DEF Entry
    <2>. QED  BY <1>2, <2>1, AppendProperties
  <1>5. UNCHANGED applied
    BY DEF Start, progress
  <1>6. ASSUME NEW other \in started
        PROVE  <<other.index, other.term>> # <<call.index, call.term>>
    <2>1. /\ other.index \in Nat /\ other.index <= Len(L[other.term])
      BY <1>1, StartedType
    <2>2. call.index = n + 1 /\ call.term = T
      BY <1>4
    <2>3. other.term = T => other.index <= n
      BY <1>2, <2>1
    <2>4. other.term = T => other.index # n + 1
      <3>. DEFINE i == other.index
      <3>1. other.term = T => i <= n
        BY <2>3
      <3>2. i \in Nat /\ n \in Nat
        BY <1>2, <2>1
      <3>. HIDE DEF i, n, T
      <3>. QED  BY <3>1, <3>2 DEF i
    <2>. QED  BY <2>2, <2>4
  <1>7. call \in started' \ started
    BY <1>3, <1>6
  <1>8. UNCHANGED <<LongestApplied, applied>>
    BY <1>5 DEF LongestApplied
  <1>. HIDE DEF call
  <1>. QED  BY <1>3, <1>6, <1>7, <1>8 DEF Abstract!StartCommand

\* A server that delivers extends what it has delivered, and the log if it is the
\* first to deliver so much.
LEMMA DeliverImplements ==
    ASSUME Inv, HistoryInv, Next, NEW x \in Server,
           applied' \in [Server -> Seq(Entry)],
           \A y \in Server \ {x} : applied'[y] = applied[y],
           applied'[x] # applied[x], UNCHANGED started
    PROVE  Abstract!Deliver(x)
  <1>1. PICK L \in [Nat -> Seq(Entry)] : LogInv(L) /\ SafetyInv(L)
    BY DEF HistoryInv
  <1>2. applied \in [Server -> Seq(Entry)]
    BY DEF Inv, IndexInv, TypeOK, ProgressType
  <1>3. ASSUME NEW s \in Server
        PROVE  /\ applied[s] \in Seq(Entry) /\ applied'[s] \in Seq(Entry)
               /\ Len(applied[s]) \in Nat /\ Len(applied'[s]) \in Nat
               /\ SamePrefix(applied[s], applied'[s], Len(applied[s]))
               /\ \E t \in Nat : ChosenUpTo(L, applied'[s], Len(applied'[s]), t)
    BY <1>1, <1>2, AppliedIsChosen, LenProperties
  <1>4. ASSUME NEW s \in Server, NEW t \in Server, Len(applied'[s]) <= Len(applied'[t])
        PROVE  SamePrefix(applied'[s], applied'[t], Len(applied'[s]))
    <2>1. PICK u \in Nat : ChosenUpTo(L, applied'[s], Len(applied'[s]), u)
      BY <1>3
    <2>2. PICK v \in Nat : ChosenUpTo(L, applied'[t], Len(applied'[t]), v)
      BY <1>3
    <2>. QED  BY <1>1, <1>3, <1>4, <2>1, <2>2, ChosenLogsAgree DEF SafetyInv
  <1>5. PICK w \in Server : Longest(applied, w) /\ LongestApplied = applied[w]
    BY <1>2, LongestAppliedIs
  <1>6. PICK z \in Server : Longest(applied', z) /\ LongestApplied' = applied'[z]
    BY LongestAppliedNext
  <1>7. applied' = [applied EXCEPT ![x] = applied'[x]]
    BY <1>2
  <1>8. IsStrictPrefix(applied[x], applied'[x])
    BY <1>3, AgreeIsPrefix DEF IsStrictPrefix
  <1>9. IsPrefix(applied'[x], LongestApplied')
    BY <1>3, <1>4, <1>6, AgreeIsPrefix DEF Longest
  <1>10. SamePrefix(applied[w], applied'[z], Len(applied[w]))
    <2>1. Len(applied'[w]) <= Len(applied'[z])
      BY <1>6 DEF Longest
    <2>2. SamePrefix(applied'[w], applied'[z], Len(applied'[w]))
      BY <1>4, <2>1
    <2>3. SamePrefix(applied[w], applied'[w], Len(applied[w]))
      BY <1>3
    <2>4. Len(applied[w]) \in 0..Len(applied'[w])
      <3>1. Len(applied[w]) <= Len(applied'[w])
        BY <2>3 DEF SamePrefix
      <3>. DEFINE m == Len(applied[w])
                  n == Len(applied'[w])
      <3>2. m \in Nat /\ n \in Nat /\ m <= n
        BY <1>3, <3>1
      <3>. HIDE DEF m, n
      <3>3. m \in 0..n
        BY <3>2
      <3>. QED  BY <3>3 DEF m, n
    <2>5. SamePrefix(applied'[w], applied'[z], Len(applied[w]))
      BY <1>3, <2>2, <2>4, ShorterPrefix
    <2>. QED  BY <1>3, <2>3, <2>5, SamePrefixTrans
  <1>11. IsPrefix(LongestApplied, LongestApplied')
    BY <1>3, <1>5, <1>6, <1>10, AgreeIsPrefix
  <1>12. LongestApplied' \in {LongestApplied, applied'[x]}
    <2>1. CASE z = x
      BY <1>6, <2>1
    <2>2. CASE z # x
      <3>1. applied'[z] = applied[z]
        BY <2>2
      <3>2. Len(applied[z]) <= Len(applied[w])
        BY <1>5 DEF Longest
      <3>3. Len(applied[w]) <= Len(applied'[z])
        BY <1>10 DEF SamePrefix
      <3>. DEFINE m == Len(applied[w])
                  n == Len(applied'[z])
      <3>4. m \in Nat /\ n \in Nat /\ n <= m /\ m <= n
        BY <1>3, <3>1, <3>2, <3>3
      <3>. HIDE DEF m, n
      <3>5. m = n
        BY <3>4
      <3>. USE DEF m, n
      <3>6. applied[w] = applied'[z]
        BY <1>3, <1>10, <3>5, AgreeEqual
      <3>. QED  BY <1>5, <1>6, <3>6
    <2>. QED  BY <2>1, <2>2
  <1>13. ASSUME NEW i \in (Len(LongestApplied) + 1)..Len(LongestApplied')
         PROVE  [index |-> i, term |-> LongestApplied'[i].term,
                 command |-> LongestApplied'[i].command] \in started
    <2>. DEFINE b == applied'[z]
    <2>1. PICK u \in Nat : ChosenUpTo(L, b, Len(b), u)
      BY <1>3
    <2>2. b \in Seq(Entry) /\ Len(b) \in Nat /\ Len(applied[w]) \in Nat
      BY <1>3
    <2>3. i \in 1..Len(b)
      <3>. DEFINE m == Len(applied[w])
                  n == Len(b)
      <3>1. i \in (m + 1)..n /\ m \in Nat /\ n \in Nat
        BY <1>5, <1>6, <2>2
      <3>. HIDE DEF m, n
      <3>2. i \in 1..n
        BY <3>1
      <3>. QED  BY <3>2 DEF n
    <2>. HIDE DEF b
    <2>4. [index |-> i, term |-> b[i].term, command |-> b[i].command] \in started
      BY <1>1, <2>1, <2>2, <2>3, ChosenWasStarted
    <2>. QED  BY <1>6, <2>4 DEF b
  <1>14. /\ Abstract!IsStrictPrefix(applied[x], applied'[x])
         /\ Abstract!IsPrefix(applied'[x], LongestApplied')
         /\ Abstract!IsPrefix(LongestApplied, LongestApplied')
    BY <1>8, <1>9, <1>11
       DEF IsStrictPrefix, IsPrefix, Abstract!IsStrictPrefix, Abstract!IsPrefix
  <1>. QED  BY <1>7, <1>12, <1>13, <1>14 DEF Abstract!Deliver


\* At the start nothing was delivered.
LEMMA InitImplements == Init => Abstract!Init
  <1>. SUFFICES ASSUME Init PROVE Abstract!Init
    OBVIOUS
  <1>1. applied = [s \in Server |-> <<>>] /\ started = {}
    BY DEF Init
  <1>2. applied \in [Server -> Seq(Entry)]
    BY <1>1, EmptySeq
  <1>3. LongestApplied = <<>>
    BY <1>1, <1>2, LongestAppliedIs
  <1>. QED  BY <1>1, <1>3 DEF Abstract!Init

\* Every step of the peers is one of the replicated log, or none.
LEMMA NextImplements ==
    Inv /\ HistoryInv /\ [Next]_vars => [Abstract!Next]_(Abstract!absVars)
  <1>. SUFFICES ASSUME Inv, HistoryInv, [Next]_vars
                PROVE  Abstract!Next \/ UNCHANGED Abstract!absVars
    OBVIOUS
  <1>1. ASSUME UNCHANGED <<applied, started>>
        PROVE  UNCHANGED Abstract!absVars
    BY <1>1 DEF Abstract!absVars, LongestApplied
  <1>2. ASSUME Next, NEW x \in Server, UNCHANGED started,
               \A y \in Server \ {x} : applied'[y] = applied[y]
        PROVE  Abstract!Next \/ UNCHANGED Abstract!absVars
    <2>1. applied \in [Server -> Seq(Entry)] /\ applied' \in [Server -> Seq(Entry)]
      BY <1>2, ProgressTypeStep DEF Inv, IndexInv, TypeOK, ProgressType
    <2>2. CASE applied'[x] = applied[x]
      <3>1. applied' = applied
        BY <1>2, <2>1, <2>2
      <3>. QED  BY <1>1, <1>2, <3>1
    <2>3. CASE applied'[x] # applied[x]
      <3>1. Abstract!Deliver(x)
        BY <1>2, <2>1, <2>3, DeliverImplements
      <3>. QED  BY <3>1 DEF Abstract!Next
    <2>. QED  BY <2>2, <2>3
  <1>3. ASSUME Next, NEW s \in Server, NEW c \in Command, Start(s, c)
        PROVE  Abstract!Next
    <2>1. Abstract!StartCommand
      BY <1>3, StartImplements
    <2>. QED  BY <2>1 DEF Abstract!Next
  <1>4. ASSUME Next, NEW s \in Server, NEW m \in appendReqs, AcceptAppend(s, m)
        PROVE  Abstract!Next \/ UNCHANGED Abstract!absVars
    <2>1. UNCHANGED started
      BY <1>4 DEF AcceptAppend, RecogniseLeader, history
    <2>2. \A y \in Server \ {s} : applied'[y] = applied[y]
      BY <1>4, AcceptProgress
    <2>. QED  BY <1>2, <1>4, <2>1, <2>2
  <1>5. ASSUME Next, NEW s \in Server, NEW r \in appendReps, HandleAppendSuccess(s, r)
        PROVE  Abstract!Next \/ UNCHANGED Abstract!absVars
    <2>1. UNCHANGED started
      BY <1>5 DEF HandleAppendSuccess, history
    <2>2. \A y \in Server \ {s} : applied'[y] = applied[y]
      BY <1>5, SuccessProgress
    <2>. QED  BY <1>2, <1>5, <2>1, <2>2
  <1>6. ASSUME NEW s \in Server,
               \/ ElectionTimeout(s)
               \/ StartLeader(s)
               \/ StartVoting(s)
               \/ \E p \in Server \ {s} : SendAppendEntries(s, p)
               \/ \E m \in voteReqs : RejectStaleVoteRequest(s, m)
               \/ \E m \in voteReqs : RequestVote(s, m)
               \/ \E q \in voteReps \cup appendReps : StepDown(s, q)
               \/ \E q \in voteReps : CountVote(s, q)
               \/ \E m \in appendReqs : RejectStaleAppend(s, m)
               \/ \E m \in appendReqs : RejectAppend(s, m)
               \/ \E q \in appendReps : HandleAppendConflict(s, q)
               \/ \E p : RestartFrom(s, p)
        PROVE  UNCHANGED <<applied, started>>
    BY <1>6 DEF ElectionTimeout, StartLeader, StartVoting, SendAppendEntries,
                RejectStaleVoteRequest, RequestVote, StepDown, CountVote,
                RejectStaleAppend, RejectAppend, RecogniseLeader,
                HandleAppendConflict, RestartFrom, progress, history
  <1>7. CASE UNCHANGED vars
    <2>1. UNCHANGED <<applied, started>>
      BY <1>7 DEF vars, progress, history
    <2>. QED  BY <1>1, <2>1
  <1>8. CASE Next
    <2>1. \/ \E s \in Server, c \in Command : Start(s, c)
          \/ \E s \in Server, m \in appendReqs : AcceptAppend(s, m)
          \/ \E s \in Server, r \in appendReps : HandleAppendSuccess(s, r)
          \/ UNCHANGED <<applied, started>>
      BY <1>6, <1>8, RestartVote DEF Next
    <2>. QED  BY <1>1, <1>3, <1>4, <1>5, <1>8, <2>1
  <1>. QED  BY <1>7, <1>8

\* The peers together are one replicated log, for every number of peers, over
\* elections, lost, late and repeated calls, and crashes between any two saves.
THEOREM RaftImplementsLog == Spec => ImplementsReplicatedLog
  <1>. QED  BY InitImplements, NextImplements, Invariance, HistoryHolds, PTL
            DEF Spec, ImplementsReplicatedLog, Abstract!Spec
=============================================================================
