---------------------------- MODULE RaftLogProofs ----------------------------
(***************************************************************************)
(* Logs that hold the same entry are equal up to it.  Every log, on a      *)
(* server or in the network, is compared with the logs L of the leaders    *)
(* (RaftInvariants), never with another log: two logs that hold an entry   *)
(* of term t agree since both agree with L[t].                             *)
(***************************************************************************)
EXTENDS RaftProofs

-----------------------------------------------------------------------------
(* Prefixes of logs. *)

\* Any prefix of a common prefix is common.
LEMMA ShorterPrefix ==
    ASSUME NEW l \in Seq(Entry), NEW k \in Seq(Entry), NEW n \in Nat,
           SamePrefix(l, k, n), NEW i \in 0..n
    PROVE  SamePrefix(l, k, i)
  BY LenProperties DEF SamePrefix

\* To agree is transitive.
LEMMA SamePrefixTrans ==
    ASSUME NEW l \in Seq(Entry), NEW k \in Seq(Entry), NEW j \in Seq(Entry),
           NEW n \in Nat, SamePrefix(l, k, n), SamePrefix(k, j, n)
    PROVE  SamePrefix(l, j, n) /\ SamePrefix(j, l, n)
  BY DEF SamePrefix

\* A log agrees with itself.
LEMMA SamePrefixRefl ==
    ASSUME NEW l \in Seq(Entry), NEW n \in 0..Len(l)
    PROVE  SamePrefix(l, l, n)
  BY LenProperties DEF SamePrefix

\* The index a message reaches is a number.
LEMMA ReachType ==
    ASSUME TypeOK, NEW m \in appendReqs
    PROVE  Reach(m) \in Nat
  <1>1. m.prevLogIndex \in Nat /\ m.entries \in Seq(Entry)
    BY AppendArgsType
  <1>2. Len(m.entries) \in Nat
    BY <1>1, LenProperties
  <1>. QED  BY <1>1, <1>2 DEF Reach

LEMMA RepReachType ==
    ASSUME TypeOK, NEW r \in appendReps
    PROVE  RepReach(r) \in Nat
  <1>1. r.prevLogIndex \in Nat /\ r.sent \in Nat
    BY AppendReplyType
  <1>. QED  BY <1>1 DEF RepReach

\* The entries of a log are entries.
LEMMA EntryOf ==
    ASSUME NEW l \in Seq(Entry), NEW i \in 1..Len(l)
    PROVE  l[i] \in Entry /\ l[i].term \in Nat /\ l[i].command \in Command
  <1>1. l[i] \in Entry
    BY ElementOfSeq
  <1>. QED  BY <1>1 DEF Entry

\* The first n entries of a log, and those after the first n.
LEMMA FirstEntries ==
    ASSUME NEW l \in Seq(Entry), NEW n \in Nat, n <= Len(l)
    PROVE  /\ SubSeq(l, 1, n) \in Seq(Entry)
           /\ Len(SubSeq(l, 1, n)) = n
           /\ \A i \in 1..n : SubSeq(l, 1, n)[i] = l[i]
  <1>1. \A i \in 1..n : l[i] \in Entry
    <2>1. Len(l) \in Nat
      BY LenProperties
    <2>2. \A i \in 1..n : i \in 1..Len(l)
      BY <2>1
    <2>. QED  BY <2>2, ElementOfSeq
  <1>2. /\ SubSeq(l, 1, n) \in Seq(Entry)
        /\ Len(SubSeq(l, 1, n)) = IF 1 <= n THEN n - 1 + 1 ELSE 0
        /\ \A i \in 1..(n - 1 + 1) : SubSeq(l, 1, n)[i] = l[1 + i - 1]
    BY <1>1, SubSeqProperties
  <1>3. n - 1 + 1 = n /\ (~ (1 <= n) => n = 0) /\ \A i \in 1..n : 1 + i - 1 = i
    OBVIOUS
  <1>. QED  BY <1>2, <1>3

LEMMA LastEntries ==
    ASSUME NEW l \in Seq(Entry), NEW n \in 0..Len(l)
    PROVE  /\ SubSeq(l, n + 1, Len(l)) \in Seq(Entry)
           /\ Len(SubSeq(l, n + 1, Len(l))) = Len(l) - n
           /\ \A i \in 1..(Len(l) - n) : SubSeq(l, n + 1, Len(l))[i] = l[n + i]
  <1>. DEFINE z == Len(l)
  <1>0. z \in Nat
    BY LenProperties
  <1>1. \A i \in (n + 1)..z : l[i] \in Entry
    <2>2. \A i \in (n + 1)..z : i \in 1..Len(l)
      BY <1>0
    <2>. QED  BY <2>2, ElementOfSeq
  <1>. HIDE DEF z
  <1>2. n \in Nat /\ n <= z
    BY <1>0 DEF z
  <1>3. /\ SubSeq(l, n + 1, z) \in Seq(Entry)
        /\ Len(SubSeq(l, n + 1, z)) = IF n + 1 <= z THEN z - (n + 1) + 1 ELSE 0
        /\ \A i \in 1..(z - (n + 1) + 1) : SubSeq(l, n + 1, z)[i] = l[(n + 1) + i - 1]
    <2>1. n + 1 \in Int /\ z \in Int
      BY <1>0, <1>2
    <2>. QED  BY <1>1, <2>1, SubSeqProperties
  <1>4. /\ z - (n + 1) + 1 = z - n
        /\ ~ (n + 1 <= z) => z - n = 0
        /\ \A i \in 1..(z - n) : (n + 1) + i - 1 = n + i
    BY <1>0, <1>2
  <1>5. /\ SubSeq(l, n + 1, z) \in Seq(Entry)
        /\ Len(SubSeq(l, n + 1, z)) = z - n
        /\ \A i \in 1..(z - n) : SubSeq(l, n + 1, z)[i] = l[n + i]
    BY <1>3, <1>4
  <1>. QED  BY <1>5 DEF z

\* Log matching: two recorded logs with entries of one term at one index are equal
\* up to it.
LEMMA RecordedAgree ==
    ASSUME NEW L \in [Nat -> Seq(Entry)], NEW l \in Seq(Entry), NEW k \in Seq(Entry),
           Recorded(L, l), Recorded(L, k),
           NEW i \in 1..Len(l), i <= Len(k), l[i].term = k[i].term
    PROVE  SamePrefix(l, k, i)
  <1>1. i \in 1..Len(k) /\ i \in Nat
    BY LenProperties
  <1>2. l[i].term \in Nat /\ L[l[i].term] \in Seq(Entry)
    BY EntryOf
  <1>3. SamePrefix(l, L[l[i].term], i) /\ SamePrefix(k, L[l[i].term], i)
    BY <1>1 DEF Recorded
  <1>. QED  BY <1>1, <1>2, <1>3 DEF SamePrefix

\* The leaders' logs of a later state extend those of an earlier one.
Grows(L, K) == \A t \in Nat : SamePrefix(L[t], K[t], Len(L[t]))

\* The leaders' logs K are those of L, but that of term t is l.
SetLog(L, K, t, l) == K = [L EXCEPT ![t] = l]

\* What agrees with a leader's log agrees with its extension.
LEMMA GrowsPrefix ==
    ASSUME NEW L \in [Nat -> Seq(Entry)], NEW K \in [Nat -> Seq(Entry)], Grows(L, K),
           NEW l \in Seq(Entry), NEW t \in Nat, NEW n \in Nat, SamePrefix(l, L[t], n)
    PROVE  SamePrefix(l, K[t], n)
  <1>1. L[t] \in Seq(Entry) /\ K[t] \in Seq(Entry) /\ Len(L[t]) \in Nat
    BY LenProperties
  <1>2. SamePrefix(L[t], K[t], Len(L[t])) /\ n \in 0..Len(L[t])
    BY <1>1 DEF Grows, SamePrefix
  <1>3. SamePrefix(L[t], K[t], n)
    BY <1>1, <1>2, ShorterPrefix
  <1>. QED  BY <1>1, <1>3, SamePrefixTrans

\* The entries of a leader's log stay in their places.
LEMMA GrowsEntries ==
    ASSUME NEW L \in [Nat -> Seq(Entry)], NEW K \in [Nat -> Seq(Entry)], Grows(L, K),
           NEW t \in Nat
    PROVE  /\ Len(L[t]) \in Nat /\ Len(K[t]) \in Nat /\ Len(L[t]) <= Len(K[t])
           /\ \A i \in 1..Len(L[t]) : K[t][i] = L[t][i]
  <1>1. Len(L[t]) \in Nat /\ Len(K[t]) \in Nat
    BY LenProperties
  <1>. QED  BY <1>1 DEF Grows, SamePrefix

\* So a recorded log stays recorded.
LEMMA GrowsRecorded ==
    ASSUME NEW L \in [Nat -> Seq(Entry)], NEW K \in [Nat -> Seq(Entry)], Grows(L, K),
           NEW l \in Seq(Entry), Recorded(L, l)
    PROVE  Recorded(K, l)
  <1>. SUFFICES ASSUME NEW i \in 1..Len(l)
                PROVE  SamePrefix(l, K[l[i].term], i)
    BY DEF Recorded
  <1>1. l[i].term \in Nat
    BY EntryOf
  <1>2. SamePrefix(l, L[l[i].term], i)
    BY DEF Recorded
  <1>3. i \in Nat
    <2>1. Len(l) \in Nat
      BY LenProperties
    <2>. QED  BY <2>1
  <1>. QED  BY <1>1, <1>2, <1>3, GrowsPrefix

\* The terms of a recorded log do not decrease.
LEMMA RecordedMonotone ==
    ASSUME NEW L \in [Nat -> Seq(Entry)], LeaderLogInv(L), NEW l \in Seq(Entry),
           Recorded(L, l), NEW i \in 1..Len(l), NEW j \in 1..i
    PROVE  l[j].term <= l[i].term
  <1>. DEFINE t == l[i].term
  <1>1. t \in Nat /\ L[t] \in Seq(Entry) /\ i \in Nat
    BY SMTT(40), EntryOf, LenProperties
  <1>2. SamePrefix(l, L[t], i)
    BY DEF Recorded
  <1>3. l[j] = L[t][j] /\ j \in 1..Len(L[t])
    <2>1. i <= Len(L[t]) /\ \A j1 \in 1..i : l[j1] = L[t][j1]
      BY <1>2 DEF SamePrefix
    <2>. HIDE DEF t
    <2>2. Len(L[t]) \in Nat
      BY <1>1, LenProperties
    <2>3. j \in 1..Len(L[t])
      BY <1>1, <2>1, <2>2
    <2>. QED  BY <2>1, <2>3
  <1>. HIDE DEF t
  <1>4. L[t][j].term <= t
    BY <1>1, <1>3 DEF LeaderLogInv
  <1>. QED  BY <1>3, <1>4 DEF t

-----------------------------------------------------------------------------
(* The merge of AppendEntries. *)

\* The loop of AppendEntries stops at the first new entry the log does not hold.
LEMMA MatchingIsMaximal ==
    ASSUME NEW l \in Seq(Entry), NEW prev \in Nat, NEW entries \in Seq(Entry),
           prev <= Len(l), NEW k, k = MatchingEntries(l, prev, entries),
           k # Len(entries), prev + k + 1 <= Len(l)
    PROVE  l[prev + (k + 1)].term # entries[k + 1].term
  <1>. DEFINE T == {i \in 0..Len(entries) :
            /\ prev + i <= Len(l)
            /\ \A j \in 1..i : l[prev + j].term = entries[j].term}
  <1>1. Len(entries) \in Nat /\ Len(l) \in Nat
    BY LenProperties
  <1>2. 0 \in T /\ T \in SUBSET (0..Len(entries))
    BY <1>1
  <1>3. \A y \in T : y <= Max(T)
    BY <1>1, <1>2, NatMaximum
  <1>4. k = Max(T)
    BY DEF MatchingEntries
  <1>5. k \in T
    BY <1>1, <1>2, <1>4, NatMaximum
  <1>6. k + 1 \notin T
    BY SMTT(40), <1>1, <1>3, <1>4, <1>5
  <1>7. /\ k \in Nat /\ k + 1 \in 0..Len(entries) /\ prev + (k + 1) <= Len(l)
        /\ \A j \in 1..k : l[prev + j].term = entries[j].term
    BY <1>1, <1>5
  <1>8. \A j \in 1..(k + 1) : j \in 1..k \/ j = k + 1
    BY <1>7
  <1>. QED  BY <1>6, <1>7, <1>8

\* What a request hands over is a piece of the leader's log k, and the log l
\* passes its consistency check.
Fits(l, k, prev, entries) ==
    /\ prev <= Len(l)
    /\ prev + Len(entries) <= Len(k)
    /\ prev > 0 => l[prev].term = k[prev].term
    /\ \A j \in 1..Len(entries) : entries[j] = k[prev + j]

\* The log l2 is l brought into line with k up to n: it agrees with k so far, each
\* entry is an old or a new one, and as far as l agreed already nothing is lost.
Aligned(L, l, k, l2, n) ==
    /\ l2 \in Seq(Entry)
    /\ SamePrefix(l2, k, n)
    /\ Recorded(L, l2)
    /\ \A i \in 1..Len(l2) : \/ i <= n /\ l2[i] = k[i]
                             \/ i <= Len(l) /\ l2[i] = l[i]
    /\ \A i \in 0..Len(l) : (\A j \in 1..i : j <= n => l[j].term = k[j].term)
                            => SamePrefix(l2, l, i)

\* AppendEntries (6), (7) aligns the log l with the leader's log k as far as the
\* request reaches.
LEMMA MergeAgrees ==
    ASSUME NEW L \in [Nat -> Seq(Entry)], NEW l \in Seq(Entry), NEW k \in Seq(Entry),
           Recorded(L, l), Recorded(L, k),
           NEW prev \in Nat, NEW entries \in Seq(Entry), Fits(l, k, prev, entries)
    PROVE  Aligned(L, l, k, MergeLog(l, prev, entries), prev + Len(entries))
  <1>. DEFINE l2 == MergeLog(l, prev, entries)
              n  == prev + Len(entries)
              c  == MatchingEntries(l, prev, entries)
  <1>0. /\ prev > 0 => l[prev].term = k[prev].term
        /\ \A j \in 1..Len(entries) : entries[j] = k[prev + j]
    BY DEF Fits
  <1>1. /\ Len(entries) \in Nat /\ Len(l) \in Nat /\ Len(k) \in Nat
        /\ prev <= Len(l) /\ n <= Len(k) /\ n \in Nat
    BY LenProperties DEF Fits
  <1>2. \A j \in 1..c : l[prev + j].term = entries[j].term
    BY <1>1, MatchingEntriesType
  <1>3. c \in 0..Len(entries) /\ prev + c <= Len(l)
    BY <1>1, MatchingEntriesType
  <1>4. l2 \in Seq(Entry)
    BY <1>1, MergeLogType
  <1>5. IF c = Len(entries)
        THEN l2 = l
        ELSE l2 = SubSeq(l, 1, prev + c) \o SubSeq(entries, c + 1, Len(entries))
    BY DEF MergeLog
  <1>6. (c # Len(entries) /\ prev + c + 1 <= Len(l))
        => l[prev + (c + 1)].term # entries[c + 1].term
    BY <1>1, MatchingIsMaximal
  <1>. HIDE DEF c, l2
  <1>7. c \in Nat /\ prev + c <= n /\ prev + c \in Nat /\ prev + c <= Len(k)
    BY <1>1, <1>3
  <1>8. SamePrefix(l, k, prev + c)
    <2>1. CASE prev + c = 0
      BY <1>1, <2>1 DEF SamePrefix
    <2>2. CASE prev + c # 0
      <3>1. prev + c \in 1..Len(l)
        BY <1>1, <1>3, <1>7, <2>2
      <3>2. l[prev + c].term = k[prev + c].term
        <4>1. CASE c = 0
          <5>1. prev > 0 /\ prev + c = prev
            BY <1>1, <2>2, <4>1
          <5>. QED  BY <1>0, <5>1
        <4>2. CASE c # 0
          <5>1. c \in 1..c /\ c \in 1..Len(entries)
            BY <1>1, <1>3, <1>7, <4>2
          <5>. QED  BY <1>0, <1>2, <5>1
        <4>. QED  BY <4>1, <4>2
      <3>. QED  BY <1>7, <3>1, <3>2, RecordedAgree
    <2>. QED  BY <2>1, <2>2
  <1>9. CASE c = Len(entries)
    <2>1. l2 = l
      BY <1>5, <1>9
    <2>2. SamePrefix(l2, k, n)
      BY <1>8, <1>9, <2>1
    <2>3. \A i \in 0..Len(l) : SamePrefix(l2, l, i)
      BY <2>1, SamePrefixRefl
    <2>4. Recorded(L, l2)
      BY <2>1
    <2>5. \A i \in 1..Len(l2) : i <= Len(l) /\ l2[i] = l[i]
      BY <1>1, <2>1
    <2>. HIDE DEF n
    <2>. QED  BY <1>4, <2>2, <2>3, <2>4, <2>5 DEF Aligned, l2, n
  <1>10. CASE c # Len(entries)
    <2>. DEFINE a == SubSeq(l, 1, prev + c)
                b == SubSeq(entries, c + 1, Len(entries))
                d == Len(entries) - c
    <2>1. l2 = a \o b
      BY <1>5, <1>10
    <2>2. a \in Seq(Entry) /\ Len(a) = prev + c
      BY <1>3, <1>7, FirstEntries
    <2>3. \A i \in 1..(prev + c) : a[i] = l[i]
      BY <1>3, <1>7, FirstEntries
    <2>4. b \in Seq(Entry) /\ Len(b) = d
      BY <1>3, LastEntries
    <2>5. \A i \in 1..d : b[i] = entries[c + i]
      BY <1>3, LastEntries
    <2>6. d \in Nat /\ (prev + c) + d = n
      BY <1>1, <1>3, <1>7
    <2>. HIDE DEF a, b, d, n
    <2>7. /\ Len(l2) = n
          /\ \A i \in 1..n : l2[i] = IF i <= prev + c THEN a[i] ELSE b[i - (prev + c)]
      <3>1. /\ Len(a \o b) = Len(a) + Len(b)
            /\ \A i \in 1..(Len(a) + Len(b)) :
                  (a \o b)[i] = IF i <= Len(a) THEN a[i] ELSE b[i - Len(a)]
        BY <2>2, <2>4, ConcatProperties
      <3>2. Len(a) = prev + c /\ Len(a) + Len(b) = n
        BY <2>2, <2>4, <2>6
      <3>. QED  BY <2>1, <3>1, <3>2
    <2>8. ASSUME NEW i \in 1..n, i <= prev + c
          PROVE  l2[i] = l[i] /\ l2[i] = k[i]
      <3>1. i \in 1..(prev + c)
        BY <1>1, <1>7, <2>8
      <3>2. l2[i] = l[i]
        BY <2>3, <2>7, <2>8, <3>1
      <3>. QED  BY <1>8, <3>1, <3>2 DEF SamePrefix
    <2>9. ASSUME NEW i \in 1..n, ~ (i <= prev + c)
          PROVE  l2[i] = k[i]
      <3>1. /\ i - (prev + c) \in 1..d /\ i - prev \in 1..Len(entries)
            /\ c + (i - (prev + c)) = i - prev /\ prev + (i - prev) = i
        BY <1>1, <1>3, <1>7, <2>6, <2>9 DEF n
      <3>2. l2[i] = entries[i - prev]
        BY <2>5, <2>7, <2>9, <3>1
      <3>. QED  BY <1>0, <3>1, <3>2
    <2>10. \A i \in 1..n : l2[i] = k[i]
      BY <2>8, <2>9
    <2>11. SamePrefix(l2, k, n)
      <3>1. n <= Len(l2) /\ n <= Len(k)
        BY <1>1, <2>7
      <3>. QED  BY <2>10, <3>1 DEF SamePrefix
    <2>12. Recorded(L, l2)
      <3>. SUFFICES ASSUME NEW i \in 1..Len(l2)
                    PROVE  SamePrefix(l2, L[l2[i].term], i)
        BY DEF Recorded
      <3>1. i \in 1..Len(k) /\ i \in 0..n /\ i \in Nat /\ i \in 1..n
        BY <1>1, <2>7
      <3>2. SamePrefix(l2, k, i)
        BY <1>1, <1>4, <2>11, <3>1, ShorterPrefix
      <3>3. k[i].term \in Nat
        BY <3>1, EntryOf
      <3>4. SamePrefix(k, L[k[i].term], i)
        BY <3>1 DEF Recorded
      <3>5. SamePrefix(l2, L[k[i].term], i)
        <4>1. L[k[i].term] \in Seq(Entry)
          BY <3>3
        <4>. QED  BY <4>1, <1>4, <3>1, <3>2, <3>3, <3>4, SamePrefixTrans
      <3>. QED  BY <2>10, <3>1, <3>5
    <2>13. ASSUME NEW i \in 0..Len(l),
                 \A j \in 1..i : j <= n => l[j].term = k[j].term
          PROVE  SamePrefix(l2, l, i)
      <3>0. i \in Nat /\ i <= Len(l)
        BY <1>1
      <3>1. i <= prev + c
        <4>. SUFFICES ASSUME prev + c + 1 <= i PROVE FALSE
          BY <1>1, <1>7, <3>0
        <4>1. /\ prev + c + 1 <= Len(l) /\ c + 1 \in 1..Len(entries)
              /\ prev + (c + 1) \in 1..i /\ prev + (c + 1) <= n
          <5>1. c + 1 <= Len(entries) /\ prev + (c + 1) <= n
            BY <1>1, <1>3, <1>7, <1>10 DEF n
          <5>2. prev + c + 1 <= Len(l) /\ prev + (c + 1) \in 1..i
            BY <1>1, <1>7, <3>0
          <5>. QED  BY <1>1, <1>7, <5>1, <5>2
        <4>2. l[prev + (c + 1)].term # entries[c + 1].term
          BY <1>6, <1>10, <4>1
        <4>. QED  BY <1>0, <2>13, <4>1, <4>2
      <3>2. i <= n
        BY <1>1, <1>7, <3>1, <3>0
      <3>5. \A j \in 1..i : j \in 1..n /\ j <= prev + c
        BY <1>1, <1>7, <3>0, <3>1, <3>2
      <3>3. i <= Len(l2) /\ i <= Len(l)
        BY <1>1, <2>7, <3>2
      <3>4. \A j \in 1..i : l2[j] = l[j]
        BY <2>8, <3>5
      <3>. QED  BY <3>3, <3>4 DEF SamePrefix
    <2>14. \A i \in 1..Len(l2) : i <= n /\ l2[i] = k[i]
      <3>. SUFFICES ASSUME NEW i \in 1..n PROVE i <= n /\ l2[i] = k[i]
        BY <2>7
      <3>1. i <= n
        BY <1>1
      <3>. QED  BY <2>10, <3>1
    <2>. QED  BY <1>4, <2>11, <2>12, <2>13, <2>14 DEF Aligned, l2, n
  <1>. QED  BY <1>9, <1>10

-----------------------------------------------------------------------------
(* What a step does to the logs. *)

\* No term decreases.
LEMMA TermsGrow ==
    ASSUME Inv, Next
    PROVE  \A x \in Server : /\ currentTerm[x] \in Nat /\ currentTerm'[x] \in Nat
                             /\ currentTerm[x] <= currentTerm'[x]
  <1>. SUFFICES ASSUME NEW x \in Server
                PROVE  /\ currentTerm[x] \in Nat /\ currentTerm'[x] \in Nat
                       /\ currentTerm[x] <= currentTerm'[x]
    OBVIOUS
  <1>1. currentTerm[x] \in Nat /\ currentTerm'[x] \in Nat
    BY StableTypeStep DEF StableType, Inv, IndexInv, TypeOK
  <1>2. PeerStep(x)
    BY PeerSteps
  <1>. QED  BY <1>1, <1>2 DEF PeerStep

\* Server s wins the election of its term.
Elects(s) ==
    \E r \in voteReps : CountVote(s, r) /\ Majority(1 + Cardinality(Tally(s, r)))

\* Server x merges the entries of request m into its log, and lives on or crashes.
Merges(x, m) ==
    /\ m.dst = x
    /\ m.term >= currentTerm[x]
    /\ PrevMatches(x, m)
    /\ log'[x] = MergeLog(log[x], m.prevLogIndex, m.entries)
    /\ currentTerm'[x] = m.term
    /\ myRole'[x] = Follower

\* Neither an election nor a call of Start.
Ordinary ==
    /\ UNCHANGED <<elected, started>>
    /\ \A x \in Server :
          /\ log'[x] = log[x] \/ \E m \in appendReqs : Merges(x, m)
          /\ myRole'[x] = Leader => myRole[x] = Leader

\* AppendEntries merges; a leader is never the one to do so.
LEMMA AcceptMerges ==
    ASSUME Inv, NEW s \in Server, NEW m \in appendReqs, AcceptAppend(s, m)
    PROVE  Merges(s, m) /\ \A x \in Server \ {s} : log'[x] = log[x]
  <1>. TypeOK /\ StableType /\ RoleType /\ IndexInv
    BY DEF Inv, IndexInv, TypeOK
  <1>. DEFINE l == MergeLog(log[s], m.prevLogIndex, m.entries)
  <1>1. /\ m.dst = s /\ m.term >= currentTerm[s] /\ PrevMatches(s, m)
        /\ log' = [log EXCEPT ![s] = l]
        /\ currentTerm' = [currentTerm EXCEPT ![s] = m.term]
        /\ myRole' = [myRole EXCEPT ![s] = IF Recognises(s, m) THEN Follower ELSE @]
    BY DEF AcceptAppend, RecogniseLeader
  <1>. HIDE DEF l
  <1>2. /\ log'[s] = l /\ currentTerm'[s] = m.term
        /\ \A x \in Server \ {s} : log'[x] = log[x]
    BY <1>1 DEF StableType
  <1>3. myRole'[s] = Follower
    <2>. SUFFICES ASSUME ~ Recognises(s, m), myRole[s] = Leader PROVE FALSE
      BY <1>1 DEF RoleType, Recognises, Leader, Follower, Candidate
    <2>1. ~ Recognises(s, m) /\ myRole[s] = Leader
      OBVIOUS
    <2>2. m.term = currentTerm[s]
      BY <1>1, <2>1, AppendArgsType DEF Recognises, StableType
    <2>3. m.src = s
      BY <2>1, <2>2, OneLeader
    <2>. QED  BY <1>1, <2>3 DEF IndexInv, AppendReqInv
  <1>. QED  BY <1>1, <1>2, <1>3 DEF Merges, l

\* A server that crashes reads back its log, or the merge it had saved.
LEMMA CrashMerges ==
    ASSUME Inv, NEW s \in Server,
           \/ Restart(s)
           \/ \E m \in voteReqs : CrashInRequestVote(s, m)
           \/ \E m \in appendReqs : CrashInAppendEntries(s, m)
    PROVE  /\ log'[s] = log[s] \/ \E m \in appendReqs : Merges(s, m)
           /\ \A x \in Server \ {s} : log'[x] = log[x]
           /\ UNCHANGED <<elected, started>>
           /\ \A x \in Server : myRole'[x] = Leader => myRole[x] = Leader
  <1>. TypeOK /\ StableType /\ RoleType /\ IndexInv
    BY DEF Inv, IndexInv, TypeOK
  <1>1. ASSUME NEW p, RestartFrom(s, p)
        PROVE  /\ log'[s] = p.log /\ currentTerm'[s] = p.currentTerm
               /\ myRole'[s] = Follower
               /\ \A x \in Server \ {s} : log'[x] = log[x]
               /\ UNCHANGED <<elected, started>>
               /\ \A x \in Server : myRole'[x] = Leader => myRole[x] = Leader
    BY <1>1 DEF RestartFrom, StableType, RoleType, history, Leader, Follower
  <1>2. CASE Restart(s)
    <2>. DEFINE p == [currentTerm |-> currentTerm[s], votedFor |-> votedFor[s],
                      log |-> log[s]]
    <2>1. persisted[s] = p /\ p.log = log[s]
      BY DEF IndexInv, PersistedIsCurrent
    <2>. HIDE DEF p
    <2>. QED  BY <1>1, <1>2, <2>1 DEF Restart
  <1>3. ASSUME NEW m \in voteReqs, CrashInRequestVote(s, m)
        PROVE  /\ \A x \in Server : log'[x] = log[x]
               /\ UNCHANGED <<elected, started>>
               /\ \A x \in Server : myRole'[x] = Leader => myRole[x] = Leader
    <2>. DEFINE p == [currentTerm |-> m.term, votedFor |-> Nil, log |-> log[s]]
    <2>1. RestartFrom(s, p) /\ p.log = log[s]
      BY <1>3 DEF CrashInRequestVote
    <2>. HIDE DEF p
    <2>. QED  BY <1>1, <2>1
  <1>4. ASSUME NEW m \in appendReqs, CrashInAppendEntries(s, m)
        PROVE  /\ log'[s] = log[s] \/ Merges(s, m)
               /\ \A x \in Server \ {s} : log'[x] = log[x]
               /\ UNCHANGED <<elected, started>>
               /\ \A x \in Server : myRole'[x] = Leader => myRole[x] = Leader
    <2>. DEFINE l == MergeLog(log[s], m.prevLogIndex, m.entries)
                before == [currentTerm |-> m.term, votedFor |-> m.src, log |-> log[s]]
                after == [currentTerm |-> m.term, votedFor |-> VoteAfter(s, m), log |-> l]
    <2>1. CASE RestartFrom(s, before)
      <3>1. before.log = log[s]
        OBVIOUS
      <3>. HIDE DEF before
      <3>. QED  BY <1>1, <2>1, <3>1
    <2>2. CASE PrevMatches(s, m) /\ RestartFrom(s, after)
      <3>1. after.log = l /\ after.currentTerm = m.term
        OBVIOUS
      <3>2. m.dst = s /\ m.term >= currentTerm[s]
        BY <1>4 DEF CrashInAppendEntries
      <3>. HIDE DEF after
      <3>3. Merges(s, m)
        BY <1>1, <2>2, <3>1, <3>2 DEF Merges, Leader, Follower
      <3>. QED  BY <1>1, <2>2, <3>3
    <2>. QED  BY <1>4, <2>1, <2>2 DEF CrashInAppendEntries
  <1>. QED  BY <1>1, <1>2, <1>3, <1>4

\* So a step is an election, a call of Start, or ordinary.
LEMMA StepCases ==
    ASSUME Inv, Next
    PROVE  \/ \E s \in Server : Elects(s)
           \/ \E s \in Server, c \in Command : Start(s, c)
           \/ Ordinary
  <1>. TypeOK /\ StableType /\ RoleType /\ IndexInv
    BY DEF Inv, IndexInv, TypeOK
  <1>1. ASSUME NEW s \in Server, NEW m \in appendReqs, AcceptAppend(s, m)
        PROVE  Ordinary
    <2>1. /\ UNCHANGED <<elected, started>>
          /\ \A x \in Server : myRole'[x] = Leader => myRole[x] = Leader
      BY <1>1 DEF AcceptAppend, RecogniseLeader, history, RoleType, Leader, Follower
    <2>. QED  BY <1>1, <2>1, AcceptMerges DEF Ordinary
  <1>2. ASSUME NEW s \in Server,
               \/ ElectionTimeout(s)
               \/ StartLeader(s)
               \/ StartVoting(s)
               \/ \E p \in Server \ {s} : SendAppendEntries(s, p)
               \/ \E m \in voteReqs : RejectStaleVoteRequest(s, m)
               \/ \E m \in voteReqs : RequestVote(s, m)
               \/ \E q \in voteReps \cup appendReps : StepDown(s, q)
               \/ \E m \in appendReqs : RejectStaleAppend(s, m)
               \/ \E m \in appendReqs : RejectAppend(s, m)
               \/ \E q \in appendReps : HandleAppendSuccess(s, q)
               \/ \E q \in appendReps : HandleAppendConflict(s, q)
        PROVE  /\ UNCHANGED <<log, elected, started>>
               /\ \A x \in Server : myRole'[x] = Leader => myRole[x] = Leader
    BY <1>2 DEF ElectionTimeout, ConvertToCandidate, StartLeader, StartVoting,
                SendAppendEntries, RejectStaleVoteRequest, RequestVote, StepDown,
                ConvertToFollower, RejectStaleAppend, RejectAppend, RecogniseLeader,
                HandleAppendSuccess, HandleAppendConflict, stable, roles, history,
                RoleType, Leader, Follower, Candidate
  <1>3. ASSUME NEW s \in Server, NEW q \in voteReps, CountVote(s, q)
        PROVE  Elects(s) \/ Ordinary
    BY <1>3 DEF CountVote, Elects, Ordinary, stable
  <1>4. ASSUME NEW s \in Server,
           \/ Restart(s)
           \/ \E m \in voteReqs : CrashInRequestVote(s, m)
           \/ \E m \in appendReqs : CrashInAppendEntries(s, m)
        PROVE  Ordinary
    BY <1>4, CrashMerges DEF Ordinary
  <1>5. ASSUME UNCHANGED <<log, elected, started>>,
               \A x \in Server : myRole'[x] = Leader => myRole[x] = Leader
        PROVE  Ordinary
    BY <1>5 DEF Ordinary
  <1>. QED  BY <1>1, <1>2, <1>3, <1>4, <1>5 DEF Next

-----------------------------------------------------------------------------
(* An election. *)

\* What convertToLeader leaves as it was, and what not.
LEMMA ElectEffect ==
    ASSUME Inv, NEW s \in Server, Elects(s)
    PROVE  /\ myRole[s] = Candidate
           /\ myRole' = [myRole EXCEPT ![s] = Leader]
           /\ elected' = elected \cup {[term |-> currentTerm[s], server |-> s]}
           /\ matchIndex' = [matchIndex EXCEPT ![s] =
                 [p \in Server |-> IF p = s THEN Len(log[s]) ELSE 0]]
           /\ UNCHANGED <<currentTerm, log, commitIndex, lastApplied, applied,
                          voteReqs, voteReps, appendReqs, appendReps, started>>
  BY DEF Elects, CountVote, ConvertToLeader, progress, voteNet, appendNet

\* Nobody was elected in the term before.
LEMMA FreshTerm ==
    ASSUME Inv, Next, NEW s \in Server, Elects(s)
    PROVE  \A e \in elected : e.term # currentTerm[s]
  <1>. SUFFICES ASSUME NEW e \in elected, e.term = currentTerm[s] PROVE FALSE
    OBVIOUS
  <1>1. Inv'
    BY NextInv
  <1>2. ElectionSafety'
    BY <1>1, ElectionInvSafe, PTL DEF Inv, IndexInv
  <1>3. e \in elected' /\ [term |-> currentTerm[s], server |-> s] \in elected'
    BY ElectEffect
  <1>4. e.server = s
    BY <1>2, <1>3 DEF ElectionSafety
  <1>5. myRole[s] = Candidate
    BY ElectEffect
  <1>. QED  BY <1>4, <1>5 DEF Inv, ElectionInv, ElectedInv

\* Two leaders are leaders of different terms.
LEMMA LeadersDiffer ==
    ASSUME Inv, NEW x \in Server, NEW y \in Server,
           myRole[x] = Leader, myRole[y] = Leader, currentTerm[x] = currentTerm[y]
    PROVE  x = y
  <1>1. ElectionSafety
    BY ElectionInvSafe DEF Inv, IndexInv
  <1>2. /\ [term |-> currentTerm[x], server |-> x] \in elected
        /\ [term |-> currentTerm[y], server |-> y] \in elected
    BY DEF Inv, ElectionInv, LeadersInv
  <1>. QED  BY <1>1, <1>2 DEF ElectionSafety

\* The log of the new leader becomes the log of its term, which had none.
LEMMA ElectHistory ==
    ASSUME Inv, Next, NEW L \in [Nat -> Seq(Entry)], LogInv(L),
           NEW s \in Server, Elects(s),
           NEW K \in [Nat -> Seq(Entry)], SetLog(L, K, currentTerm[s], log[s])
    PROVE  /\ currentTerm[s] \in Nat /\ log[s] \in Seq(Entry)
           /\ L[currentTerm[s]] = <<>>
           /\ K[currentTerm[s]] = log[s]
           /\ \A t \in Nat : t # currentTerm[s] => K[t] = L[t]
           /\ Grows(L, K)
           /\ \A i \in 1..Len(log[s]) : /\ log[s][i].term <= currentTerm[s]
                                         /\ log[s][i].term # currentTerm[s]
  <1>. DEFINE T == currentTerm[s]
  <1>1. T \in Nat /\ log[s] \in Seq(Entry) /\ Len(log[s]) \in Nat
    BY DEF Inv, IndexInv, TypeOK, StableType
  <1>2. L[T] = <<>>
    <2>1. \A e \in elected : e.term # T
      BY FreshTerm
    <2>. QED  BY <1>1, <2>1 DEF LogInv, LeaderLogInv
  <1>3. K[T] = log[s] /\ \A t \in Nat : t # T => K[t] = L[t]
    BY <1>1 DEF SetLog
  <1>4. Grows(L, K)
    <2>. SUFFICES ASSUME NEW t \in Nat PROVE SamePrefix(L[t], K[t], Len(L[t]))
      BY DEF Grows
    <2>1. CASE t = T
      <3>1. Len(L[t]) = 0
        BY <1>2, <2>1, EmptySeq
      <3>2. K[t] \in Seq(Entry) /\ Len(K[t]) \in Nat
        BY LenProperties
      <3>. QED  BY <3>1, <3>2 DEF SamePrefix
    <2>2. CASE t # T
      <3>1. L[t] \in Seq(Entry) /\ Len(L[t]) \in 0..Len(L[t])
        BY LenProperties
      <3>. QED  BY <1>3, <2>2, <3>1, SamePrefixRefl
    <2>. QED  BY <2>1, <2>2
  <1>5. ASSUME NEW i \in 1..Len(log[s])
        PROVE  log[s][i].term <= T /\ log[s][i].term # T
    <2>1. log[s][i].term <= T /\ Recorded(L, log[s])
      BY DEF LogInv, ServerLogInv
    <2>2. log[s][i].term # T
      <3>. SUFFICES ASSUME log[s][i].term = T PROVE FALSE
        OBVIOUS
      <3>1. SamePrefix(log[s], L[T], i)
        BY <2>1 DEF Recorded
      <3>2. i <= Len(L[T])
        BY <3>1 DEF SamePrefix
      <3>3. Len(L[T]) = 0
        BY <1>2, EmptySeq
      <3>4. i \in Nat /\ i > 0
        BY <1>1
      <3>. HIDE DEF T
      <3>. QED  BY <3>2, <3>3, <3>4
    <2>. QED  BY <2>1, <2>2
  <1>. QED  BY <1>1, <1>2, <1>3, <1>4, <1>5

\* What is said of a message in terms of L holds of any extension K.
LEMMA ReachGrows ==
    ASSUME NEW L \in [Nat -> Seq(Entry)], NEW K \in [Nat -> Seq(Entry)], Grows(L, K),
           NEW t \in Nat, NEW n \in Nat, n <= Len(L[t])
    PROVE  /\ n <= Len(K[t])
           /\ \A l \in Seq(Entry) : SamePrefix(l, L[t], n) => SamePrefix(l, K[t], n)
  <1>1. Len(L[t]) \in Nat /\ Len(K[t]) \in Nat /\ Len(L[t]) <= Len(K[t])
    BY GrowsEntries
  <1>2. n <= Len(K[t])
    BY <1>1
  <1>. QED  BY <1>2, GrowsPrefix

\* The history of the logs after an election.
LEMMA ElectLog ==
    ASSUME Inv, Next, NEW L \in [Nat -> Seq(Entry)], LogInv(L),
           NEW s \in Server, Elects(s),
           NEW K \in [Nat -> Seq(Entry)], SetLog(L, K, currentTerm[s], log[s])
    PROVE  LogInv(K)'
  <1>. DEFINE T == currentTerm[s]
  <1>. TypeOK /\ StableType /\ RoleType /\ AppendType
    BY DEF Inv, IndexInv, TypeOK
  <1>0. /\ T \in Nat /\ log[s] \in Seq(Entry)
        /\ L[T] = <<>>
        /\ K[T] = log[s]
        /\ \A t \in Nat : t # T => K[t] = L[t]
        /\ Grows(L, K)
        /\ \A i \in 1..Len(log[s]) : log[s][i].term <= T /\ log[s][i].term # T
    BY ElectHistory
  <1>1. /\ T \in Nat /\ log[s] \in Seq(Entry) /\ Len(log[s]) \in Nat
        /\ L[T] = <<>> /\ K[T] = log[s]
    BY <1>0, LenProperties
  <1>2. \A t \in Nat : t # T => K[t] = L[t]
    BY <1>0
  <1>3. Grows(L, K)
    BY <1>0
  <1>4. \A i \in 1..Len(log[s]) : log[s][i].term <= T /\ log[s][i].term # T
    BY <1>0
  <1>5. \A e \in elected : e.term # T
    BY FreshTerm
  <1>6. /\ elected' = elected \cup {[term |-> T, server |-> s]}
        /\ myRole' = [myRole EXCEPT ![s] = Leader]
        /\ matchIndex' = [matchIndex EXCEPT ![s] =
              [p \in Server |-> IF p = s THEN Len(log[s]) ELSE 0]]
        /\ UNCHANGED <<currentTerm, log, appendReqs, appendReps, started>>
    BY ElectEffect
  <1>. HIDE DEF T
  <1>7. LeaderLogInv(K)'
    <2>1. ASSUME NEW t \in Nat
          PROVE  /\ K[t] # <<>> => \E e \in elected' : e.term = t
                 /\ Recorded(K, K[t])
                 /\ \A i \in 1..Len(K[t]) :
                       /\ K[t][i].term <= t
                       /\ K[t][i].term = t =>
                             [index |-> i, term |-> t,
                              command |-> K[t][i].command] \in started'
      <3>1. CASE t = T
        <4>1. \E e \in elected' : e.term = t
          <5>1. [term |-> T, server |-> s] \in elected'
            BY <1>6
          <5>. QED  BY <3>1, <5>1
        <4>2. Recorded(K, K[t])
          <5>1. Recorded(L, log[s])
            BY DEF LogInv, ServerLogInv
          <5>. QED  BY <1>1, <1>3, <3>1, <5>1, GrowsRecorded
        <4>3. \A i \in 1..Len(K[t]) : K[t][i].term <= t /\ K[t][i].term # t
          BY <1>1, <1>4, <3>1
        <4>. QED  BY <4>1, <4>2, <4>3
      <3>2. CASE t # T
        <4>1. Recorded(L, L[t]) /\ L[t] \in Seq(Entry) /\ K[t] = L[t]
          BY <1>2, <3>2 DEF LogInv, LeaderLogInv
        <4>2. Recorded(K, K[t])
          BY <1>3, <4>1, GrowsRecorded
        <4>3. L[t] # <<>> => \E e \in elected : e.term = t
          BY DEF LogInv, LeaderLogInv
        <4>4. \A i \in 1..Len(L[t]) :
                 /\ L[t][i].term <= t
                 /\ L[t][i].term = t =>
                       [index |-> i, term |-> t, command |-> L[t][i].command] \in started
          BY DEF LogInv, LeaderLogInv
        <4>. QED  BY <1>6, <4>1, <4>2, <4>3, <4>4
      <3>. QED  BY <3>1, <3>2
    <2>2. ASSUME NEW x \in started
          PROVE  /\ x.index \in 1..Len(K[x.term])
                 /\ K[x.term][x.index] = [term |-> x.term, command |-> x.command]
      <3>1. /\ x.index \in 1..Len(L[x.term]) /\ x.term \in Nat
            /\ L[x.term][x.index] = [term |-> x.term, command |-> x.command]
        BY DEF LogInv, LeaderLogInv, TypeOK, HistoryType
      <3>2. x.term # T
        <4>1. Len(L[T]) = 0
          BY <1>1, EmptySeq
        <4>2. x.index \in 1..Len(L[x.term])
          BY <3>1
        <4>3. x.term = T => x.index \in 1..0
          BY <4>1, <4>2
        <4>. QED  BY <4>3
      <3>. QED  BY <1>2, <3>1, <3>2
    <2>. QED  BY <1>6, <2>1, <2>2 DEF LeaderLogInv
  <1>8. ServerLogInv(K)'
    <2>. SUFFICES ASSUME NEW x \in Server
                  PROVE  /\ Recorded(K, log'[x])
                         /\ \A i \in 1..Len(log'[x]) : log'[x][i].term <= currentTerm'[x]
                         /\ myRole'[x] = Leader => log'[x] = K[currentTerm'[x]]
      BY DEF ServerLogInv
    <2>1. log[x] \in Seq(Entry) /\ currentTerm[x] \in Nat
      BY DEF StableType
    <2>2. /\ Recorded(L, log[x])
          /\ \A i \in 1..Len(log[x]) : log[x][i].term <= currentTerm[x]
          /\ myRole[x] = Leader => log[x] = L[currentTerm[x]]
      BY DEF LogInv, ServerLogInv
    <2>3. Recorded(K, log[x])
      BY <1>3, <2>1, <2>2, GrowsRecorded
    <2>4. ASSUME myRole'[x] = Leader PROVE log[x] = K[currentTerm[x]]
      <3>1. CASE x = s
        BY <1>1, <3>1 DEF T
      <3>2. CASE x # s
        <4>1. myRole[x] = Leader
          BY <1>6, <2>4, <3>2 DEF RoleType
        <4>2. [term |-> currentTerm[x], server |-> x] \in elected
          BY <4>1 DEF Inv, ElectionInv, LeadersInv
        <4>3. currentTerm[x] # T
          BY <1>5, <4>2
        <4>. QED  BY <1>2, <2>1, <2>2, <4>1, <4>3
      <3>. QED  BY <3>1, <3>2
    <2>. QED  BY <1>6, <2>2, <2>3, <2>4
  <1>9. RequestLogInv(K)'
    <2>1. ASSUME NEW m \in appendReqs PROVE K[m.term] = L[m.term]
      <3>1. [term |-> m.term, server |-> m.src] \in elected
        BY DEF Inv, ElectionInv, LeadersInv
      <3>2. m.term \in Nat
        BY AppendArgsType
      <3>. QED  BY <1>2, <1>5, <3>1, <3>2
    <2>. QED  BY <1>6, <2>1 DEF LogInv, RequestLogInv, Reach
  <1>10. ReplyLogInv(K)'
    <2>. SUFFICES ASSUME NEW r \in appendReps, r.success
                  PROVE  /\ r.src # r.dst
                         /\ r.reqTerm <= currentTerm[r.src]
                         /\ RepReach(r) <= Len(K[r.reqTerm])
                         /\ r.reqTerm = currentTerm[r.src] =>
                               SamePrefix(log[r.src], K[r.reqTerm], RepReach(r))
      BY <1>6 DEF ReplyLogInv, SamePrefix, RepReach
    <2>1. /\ r.src # r.dst
          /\ r.reqTerm <= currentTerm[r.src]
          /\ RepReach(r) <= Len(L[r.reqTerm])
          /\ r.reqTerm = currentTerm[r.src] =>
                SamePrefix(log[r.src], L[r.reqTerm], RepReach(r))
      BY DEF LogInv, ReplyLogInv
    <2>2. r.src \in Server /\ r.reqTerm \in Nat /\ RepReach(r) \in Nat
      BY AppendReplyType, RepReachType
    <2>3. log[r.src] \in Seq(Entry)
      BY <2>2 DEF StableType
    <2>. QED  BY <1>3, <2>1, <2>2, <2>3, ReachGrows
  <1>11. MatchInv'
    <2>. SUFFICES ASSUME NEW x \in Server, myRole'[x] = Leader
                  PROVE  /\ \A p \in Server \ {x} :
                               \/ matchIndex'[x][p] = 0
                               \/ \E r \in appendReps' :
                                     r.success /\ r.src = p /\ r.reqTerm = currentTerm'[x]
                                     /\ RepReach(r) = matchIndex'[x][p]
                         /\ matchIndex'[x][x] <= Len(log'[x])
                         /\ \A i \in 1..Len(log'[x]) :
                               log'[x][i].term = currentTerm'[x] => matchIndex'[x][x] < i
      BY DEF MatchInv, Answered
    <2>1. CASE x = s
      <3>. DEFINE match == [p \in Server |-> IF p = s THEN Len(log[s]) ELSE 0]
      <3>1. matchIndex'[s] = match
        <4>. HIDE DEF match
        <4>. QED  BY <1>6 DEF AppendType, match
      <3>2. /\ \A p \in Server \ {s} : matchIndex'[s][p] = 0
            /\ matchIndex'[s][s] = Len(log[s])
        BY <3>1
      <3>3. \A i \in 1..Len(log[s]) : log[s][i].term # T
        BY <1>4
      <3>4. matchIndex'[s][s] <= Len(log[s])
        BY <1>1, <3>2
      <3>. QED  BY <1>6, <2>1, <3>2, <3>3, <3>4 DEF T
    <2>2. CASE x # s
      <3>1. myRole[x] = Leader /\ matchIndex'[x] = matchIndex[x]
        BY <1>6, <2>2 DEF RoleType, AppendType
      <3>2. /\ \A p \in Server \ {x} :
                  \/ matchIndex[x][p] = 0
                  \/ Answered(p, currentTerm[x], matchIndex[x][p])
            /\ matchIndex[x][x] <= Len(log[x])
            /\ \A i \in 1..Len(log[x]) :
                  log[x][i].term = currentTerm[x] => matchIndex[x][x] < i
        BY <3>1 DEF LogInv, MatchInv
      <3>3. appendReps' = appendReps /\ log' = log /\ currentTerm' = currentTerm
        BY <1>6
      <3>4. ASSUME NEW p \in Server \ {x}
            PROVE  \/ matchIndex'[x][p] = 0
                   \/ \E r \in appendReps' :
                         r.success /\ r.src = p /\ r.reqTerm = currentTerm'[x]
                         /\ RepReach(r) = matchIndex'[x][p]
        BY <3>1, <3>2, <3>3 DEF Answered
      <3>. QED  BY <3>1, <3>2, <3>3, <3>4
    <2>. QED  BY <2>1, <2>2
  <1>. QED  BY <1>7, <1>8, <1>9, <1>10, <1>11 DEF LogInv

-----------------------------------------------------------------------------
(* A call of Start. *)

\* What Start leaves as it was, and what not.
LEMMA StartEffect ==
    ASSUME Inv, NEW s \in Server, NEW c \in Command, Start(s, c)
    PROVE  /\ myRole[s] = Leader
           /\ currentTerm[s] \in Nat
           /\ log[s] \in Seq(Entry) /\ Len(log[s]) \in Nat
           /\ log'[s] \in Seq(Entry) /\ Len(log'[s]) = Len(log[s]) + 1
           /\ \A i \in 1..Len(log[s]) : log'[s][i] = log[s][i]
           /\ log'[s][Len(log[s]) + 1] = [term |-> currentTerm[s], command |-> c]
           /\ \A x \in Server \ {s} : log'[x] = log[x]
           /\ started' = started \cup {[index |-> Len(log[s]) + 1,
                                        term |-> currentTerm[s], command |-> c]}
           /\ UNCHANGED <<currentTerm, myRole, matchIndex, commitIndex, lastApplied,
                          applied, voteReqs, voteReps, appendReqs, appendReps, elected>>
  <1>. StableType
    BY DEF Inv, IndexInv, TypeOK
  <1>. DEFINE e == [term |-> currentTerm[s], command |-> c]
              l == Append(log[s], e)
  <1>1. /\ myRole[s] = Leader
        /\ log' = [log EXCEPT ![s] = l]
        /\ started' = started \cup
              {[index |-> Len(l), term |-> currentTerm[s], command |-> c]}
    BY DEF Start
  <1>2. UNCHANGED <<currentTerm, myRole, matchIndex, commitIndex, lastApplied,
                    applied, voteReqs, voteReps, appendReqs, appendReps, elected>>
    BY DEF Start, progress, roles, leading, voteNet, appendNet
  <1>3. e \in Entry /\ log[s] \in Seq(Entry) /\ currentTerm[s] \in Nat
    BY DEF Entry, StableType
  <1>. HIDE DEF e
  <1>4. /\ l \in Seq(Entry) /\ Len(l) = Len(log[s]) + 1
        /\ \A i \in 1..Len(log[s]) : l[i] = log[s][i]
        /\ l[Len(log[s]) + 1] = e
    BY <1>3, AppendProperties
  <1>. HIDE DEF l
  <1>5. log'[s] = l /\ \A x \in Server \ {s} : log'[x] = log[x]
    BY <1>1 DEF StableType
  <1>6. Len(log[s]) \in Nat
    BY <1>3, LenProperties
  <1>. QED  BY <1>1, <1>2, <1>3, <1>4, <1>5, <1>6 DEF e

\* The log of the leader's term grows by the new entry.
LEMMA StartHistory ==
    ASSUME Inv, NEW L \in [Nat -> Seq(Entry)], LogInv(L),
           NEW s \in Server, NEW c \in Command, Start(s, c),
           NEW K \in [Nat -> Seq(Entry)], SetLog(L, K, currentTerm[s], log'[s])
    PROVE  /\ L[currentTerm[s]] = log[s]
           /\ K[currentTerm[s]] = log'[s]
           /\ \A t \in Nat : t # currentTerm[s] => K[t] = L[t]
           /\ Grows(L, K)
           /\ Recorded(K, log'[s])
  <1>. DEFINE T == currentTerm[s]
              n == Len(log[s])
              l == log'[s]
  <1>0. /\ myRole[s] = Leader /\ T \in Nat /\ log[s] \in Seq(Entry) /\ l \in Seq(Entry)
    BY StartEffect
  <1>1. n \in Nat /\ Len(l) = n + 1 /\ Len(log[s]) = n
    BY StartEffect
  <1>2. \A i \in 1..n : l[i] = log[s][i]
    BY StartEffect
  <1>3. l[n + 1].term = T
    <2>1. l[n + 1] = [term |-> T, command |-> c]
      BY StartEffect
    <2>. QED  BY <2>1
  <1>4. L[T] = log[s] /\ Recorded(L, log[s])
    BY <1>0 DEF LogInv, ServerLogInv
  <1>5. K[T] = l /\ \A t \in Nat : t # T => K[t] = L[t]
    BY <1>0 DEF SetLog
  <1>. HIDE DEF T, n, l
  <1>6. \A i \in 0..n : SamePrefix(l, log[s], i) /\ SamePrefix(log[s], l, i)
    <2>. SUFFICES ASSUME NEW i \in 0..n
                  PROVE  SamePrefix(l, log[s], i) /\ SamePrefix(log[s], l, i)
      OBVIOUS
    <2>1. i <= Len(l) /\ i <= Len(log[s]) /\ \A j \in 1..i : j \in 1..n
      BY <1>1
    <2>. QED  BY <1>2, <2>1 DEF SamePrefix
  <1>7. Grows(L, K)
    <2>. SUFFICES ASSUME NEW t \in Nat PROVE SamePrefix(L[t], K[t], Len(L[t]))
      BY DEF Grows
    <2>1. CASE t = T
      <3>1. n \in 0..n
        BY <1>1
      <3>. QED  BY <1>1, <1>4, <1>5, <1>6, <2>1, <3>1
    <2>2. CASE t # T
      <3>1. L[t] \in Seq(Entry) /\ Len(L[t]) \in 0..Len(L[t])
        BY LenProperties
      <3>. QED  BY <1>5, <2>2, <3>1, SamePrefixRefl
    <2>. QED  BY <2>1, <2>2
  <1>8. Recorded(K, l)
    <2>. SUFFICES ASSUME NEW i \in 1..Len(l) PROVE SamePrefix(l, K[l[i].term], i)
      BY DEF Recorded
    <2>1. i \in Nat /\ i \in 0..Len(l)
      BY <1>1
    <2>2. CASE i = n + 1
      BY <1>0, <1>3, <1>5, <2>1, <2>2, SamePrefixRefl
    <2>3. CASE i # n + 1
      <3>1. i \in 1..n /\ i \in 0..n /\ i \in 1..Len(log[s])
        BY <1>1, <2>1, <2>3
      <3>2. l[i] = log[s][i] /\ log[s][i].term \in Nat
        BY <1>0, <1>2, <3>1, EntryOf
      <3>3. SamePrefix(log[s], L[log[s][i].term], i)
        BY <1>4, <3>1 DEF Recorded
      <3>4. SamePrefix(log[s], K[log[s][i].term], i)
        BY <1>0, <1>7, <2>1, <3>2, <3>3, GrowsPrefix
      <3>5. K[log[s][i].term] \in Seq(Entry)
        BY <3>2
      <3>6. SamePrefix(l, K[log[s][i].term], i)
        BY <1>0, <1>6, <2>1, <3>1, <3>4, <3>5, SamePrefixTrans
      <3>. QED  BY <3>2, <3>6
    <2>. QED  BY <2>2, <2>3
  <1>. QED  BY <1>4, <1>5, <1>7, <1>8 DEF T, l

\* The history of the logs after a call of Start.
LEMMA StartLog ==
    ASSUME Inv, NEW L \in [Nat -> Seq(Entry)], LogInv(L),
           NEW s \in Server, NEW c \in Command, Start(s, c),
           NEW K \in [Nat -> Seq(Entry)], SetLog(L, K, currentTerm[s], log'[s])
    PROVE  LogInv(K)'
  <1>. DEFINE T == currentTerm[s]
              n == Len(log[s])
              l == log'[s]
              new == [index |-> n + 1, term |-> T, command |-> c]
  <1>. TypeOK /\ StableType /\ RoleType /\ AppendType
    BY DEF Inv, IndexInv, TypeOK
  <1>0. /\ myRole[s] = Leader /\ T \in Nat /\ log[s] \in Seq(Entry) /\ l \in Seq(Entry)
    BY StartEffect
  <1>1. n \in Nat /\ Len(l) = n + 1 /\ Len(log[s]) = n
    BY StartEffect
  <1>2. \A i \in 1..n : l[i] = log[s][i]
    BY StartEffect
  <1>3. l[n + 1] = [term |-> T, command |-> c]
    BY StartEffect
  <1>4. UNCHANGED <<currentTerm, myRole, matchIndex, appendReqs, appendReps, elected>>
    BY StartEffect
  <1>5. started' = started \cup {new}
    BY StartEffect
  <1>6. \A x \in Server \ {s} : log'[x] = log[x]
    BY StartEffect
  <1>7. L[T] = log[s] /\ K[T] = l /\ \A t \in Nat : t # T => K[t] = L[t]
    BY StartHistory
  <1>8. Grows(L, K) /\ Recorded(K, l)
    BY StartHistory
  <1>9. [term |-> T, server |-> s] \in elected
    BY <1>0 DEF Inv, ElectionInv, LeadersInv
  <1>10. \A x \in Server \ {s} : myRole[x] = Leader => currentTerm[x] # T
    BY <1>0, LeadersDiffer
  <1>3a. l[n + 1].term = T /\ l[n + 1].command = c
    BY <1>3
  <1>. HIDE DEF T, n, l
  <1>11. \A i \in 1..(n + 1) : i \in 1..n \/ i = n + 1
    BY <1>1
  <1>12. LeaderLogInv(K)'
    <2>1. ASSUME NEW t \in Nat
          PROVE  /\ K[t] # <<>> => \E e \in elected' : e.term = t
                 /\ Recorded(K, K[t])
                 /\ \A i \in 1..Len(K[t]) :
                       /\ K[t][i].term <= t
                       /\ K[t][i].term = t =>
                             [index |-> i, term |-> t,
                              command |-> K[t][i].command] \in started'
      <3>0. /\ L[t] # <<>> => \E e \in elected : e.term = t
            /\ Recorded(L, L[t]) /\ L[t] \in Seq(Entry)
        BY DEF LogInv, LeaderLogInv
      <3>1. \A i \in 1..Len(L[t]) :
               /\ L[t][i].term <= t
               /\ L[t][i].term = t =>
                     [index |-> i, term |-> t, command |-> L[t][i].command] \in started
        BY DEF LogInv, LeaderLogInv
      <3>2. CASE t = T
        <4>1. \E e \in elected' : e.term = t
          BY <1>4, <1>9, <3>2
        <4>2. ASSUME NEW i \in 1..Len(K[t])
              PROVE  /\ K[t][i].term <= t
                     /\ K[t][i].term = t =>
                           [index |-> i, term |-> t,
                            command |-> K[t][i].command] \in started'
          <5>1. K[t] = l /\ L[t] = log[s] /\ i \in 1..(n + 1)
            BY <1>1, <1>7, <3>2
          <5>2. CASE i \in 1..n
            <6>1. K[t][i] = L[t][i] /\ i \in 1..Len(L[t])
              BY <1>1, <1>2, <5>1, <5>2
            <6>. QED  BY <1>5, <3>1, <6>1
          <5>3. CASE i = n + 1
            <6>1. K[t][i].term = T /\ K[t][i].command = c
              BY <1>3a, <5>1, <5>3
            <6>2. T <= t
              BY <1>0, <3>2
            <6>3. new \in started'
              BY <1>5
            <6>. QED  BY <3>2, <5>3, <6>1, <6>2, <6>3
          <5>. QED  BY <1>11, <5>1, <5>2, <5>3
        <4>. QED  BY <1>7, <1>8, <3>2, <4>1, <4>2
      <3>3. CASE t # T
        <4>1. K[t] = L[t] /\ Recorded(K, L[t])
          BY <1>7, <1>8, <3>0, <3>3, GrowsRecorded
        <4>. QED  BY <1>4, <1>5, <3>0, <3>1, <4>1
      <3>. QED  BY <3>2, <3>3
    <2>2. ASSUME NEW x \in started'
          PROVE  /\ x.index \in 1..Len(K[x.term])
                 /\ K[x.term][x.index] = [term |-> x.term, command |-> x.command]
      <3>1. CASE x = new
        <4>1. x.index = n + 1 /\ x.term = T /\ x.command = c
          BY <3>1
        <4>2. n + 1 \in 1..(n + 1)
          BY <1>1
        <4>. QED  BY <1>1, <1>3, <1>7, <4>1, <4>2
      <3>2. CASE x \in started
        <4>1. /\ x.index \in 1..Len(L[x.term]) /\ x.term \in Nat
              /\ L[x.term][x.index] = [term |-> x.term, command |-> x.command]
          BY <3>2 DEF LogInv, LeaderLogInv, TypeOK, HistoryType
        <4>2. /\ Len(L[x.term]) \in Nat /\ Len(K[x.term]) \in Nat
              /\ Len(L[x.term]) <= Len(K[x.term])
              /\ \A i \in 1..Len(L[x.term]) : K[x.term][i] = L[x.term][i]
          BY <1>8, <4>1, GrowsEntries
        <4>3. \A i \in 1..Len(L[x.term]) : i \in 1..Len(K[x.term])
          BY <4>2
        <4>. QED  BY <4>1, <4>2, <4>3
      <3>. QED  BY <1>5, <3>1, <3>2
    <2>. QED  BY <2>1, <2>2 DEF LeaderLogInv
  <1>13. ServerLogInv(K)'
    <2>. SUFFICES ASSUME NEW x \in Server
                  PROVE  /\ Recorded(K, log'[x])
                         /\ \A i \in 1..Len(log'[x]) : log'[x][i].term <= currentTerm'[x]
                         /\ myRole'[x] = Leader => log'[x] = K[currentTerm'[x]]
      BY DEF ServerLogInv
    <2>1. log[x] \in Seq(Entry) /\ currentTerm[x] \in Nat
      BY DEF StableType
    <2>2. /\ Recorded(L, log[x])
          /\ \A i \in 1..Len(log[x]) : log[x][i].term <= currentTerm[x]
          /\ myRole[x] = Leader => log[x] = L[currentTerm[x]]
      BY DEF LogInv, ServerLogInv
    <2>3. CASE x = s
      <3>1. log'[x] = l /\ currentTerm'[x] = T
        BY <1>4, <2>3 DEF l, T
      <3>2. ASSUME NEW i \in 1..Len(l) PROVE l[i].term <= T
        <4>1. CASE i \in 1..n
          <5>1. l[i] = log[s][i] /\ i \in 1..Len(log[s])
            BY <1>1, <1>2, <4>1
          <5>. QED  BY <2>2, <2>3, <5>1 DEF T
        <4>2. CASE i = n + 1
          <5>1. l[i].term = T
            BY <1>3a, <4>2
          <5>. QED  BY <1>0, <5>1
        <4>. QED  BY <1>1, <1>11, <4>1, <4>2
      <3>. QED  BY <1>7, <1>8, <3>1, <3>2
    <2>4. CASE x # s
      <3>1. log'[x] = log[x] /\ currentTerm'[x] = currentTerm[x] /\ myRole'[x] = myRole[x]
        BY <1>4, <1>6, <2>4
      <3>2. Recorded(K, log[x])
        BY <1>8, <2>1, <2>2, GrowsRecorded
      <3>3. myRole[x] = Leader => K[currentTerm[x]] = L[currentTerm[x]]
        BY <1>7, <1>10, <2>1, <2>4
      <3>. QED  BY <2>2, <3>1, <3>2, <3>3
    <2>. QED  BY <2>3, <2>4
  <1>14. RequestLogInv(K)'
    <2>. SUFFICES ASSUME NEW m \in appendReqs
                  PROVE  /\ Reach(m) <= Len(K[m.term])
                         /\ m.prevLogIndex > 0 =>
                               K[m.term][m.prevLogIndex].term = m.prevLogTerm
                         /\ \A k \in 1..Len(m.entries) :
                               m.entries[k] = K[m.term][m.prevLogIndex + k]
                         /\ \A i \in 1..Len(K[m.term]) :
                               K[m.term][i].term < m.term => i <= Reach(m)
      BY <1>4 DEF RequestLogInv, Reach
    <2>1. /\ Reach(m) <= Len(L[m.term])
          /\ m.prevLogIndex > 0 => L[m.term][m.prevLogIndex].term = m.prevLogTerm
      BY DEF LogInv, RequestLogInv
    <2>2. \A k \in 1..Len(m.entries) : m.entries[k] = L[m.term][m.prevLogIndex + k]
      BY DEF LogInv, RequestLogInv
    <2>3. \A i \in 1..Len(L[m.term]) : L[m.term][i].term < m.term => i <= Reach(m)
      BY DEF LogInv, RequestLogInv
    <2>4. CASE m.term # T
      <3>1. K[m.term] = L[m.term]
        BY <1>7, <2>4, AppendArgsType
      <3>. QED  BY <2>1, <2>2, <2>3, <3>1
    <2>5. CASE m.term = T
      <3>1. K[m.term] = l /\ L[m.term] = log[s]
        BY <1>7, <2>5
      <3>2. /\ Reach(m) \in Nat /\ m.prevLogIndex \in Nat /\ Len(m.entries) \in Nat
            /\ Reach(m) = m.prevLogIndex + Len(m.entries)
        <4>1. m.prevLogIndex \in Nat /\ m.entries \in Seq(Entry)
          BY AppendArgsType
        <4>. QED  BY <4>1, ReachType, LenProperties DEF Reach
      <3>3. Reach(m) <= n
        BY <1>1, <2>1, <3>1
      <3>4. Reach(m) <= Len(l)
        BY <1>1, <3>2, <3>3
      <3>5. m.prevLogIndex > 0 => m.prevLogIndex \in 1..n
        <4>. DEFINE a == m.prevLogIndex
                    b == Len(m.entries)
        <4>1. a \in Nat /\ b \in Nat /\ a + b <= n /\ n \in Nat
          BY <1>1, <3>2, <3>3
        <4>. HIDE DEF a, b
        <4>2. a > 0 => a \in 1..n
          BY <4>1
        <4>. QED  BY <4>2 DEF a
      <3>6. \A k \in 1..Len(m.entries) : m.prevLogIndex + k \in 1..n
        <4>. DEFINE a == m.prevLogIndex
                    b == Len(m.entries)
        <4>1. a \in Nat /\ b \in Nat /\ a + b <= n /\ n \in Nat
          BY <1>1, <3>2, <3>3
        <4>. HIDE DEF a, b
        <4>2. \A k \in 1..b : a + k \in 1..n
          BY <4>1
        <4>. QED  BY <4>2 DEF a, b
      <3>7. ASSUME NEW i \in 1..Len(l), l[i].term < T PROVE i <= Reach(m)
        <4>1. i = n + 1 => T < T
          BY <1>3a, <3>7
        <4>2. i # n + 1
          BY <1>0, <4>1
        <4>3. i \in 1..n
          BY <1>1, <1>11, <4>2
        <4>. QED  BY <1>1, <1>2, <2>3, <2>5, <3>1, <3>7, <4>3
      <3>. QED  BY <1>2, <2>1, <2>2, <2>5, <3>1, <3>4, <3>5, <3>6, <3>7
    <2>. QED  BY <2>4, <2>5
  <1>15. ReplyLogInv(K)'
    <2>. SUFFICES ASSUME NEW r \in appendReps, r.success
                  PROVE  /\ r.src # r.dst
                         /\ r.reqTerm <= currentTerm[r.src]
                         /\ RepReach(r) <= Len(K[r.reqTerm])
                         /\ r.reqTerm = currentTerm[r.src] =>
                               SamePrefix(log'[r.src], K[r.reqTerm], RepReach(r))
      BY <1>4 DEF ReplyLogInv, RepReach
    <2>1. /\ r.src # r.dst
          /\ r.reqTerm <= currentTerm[r.src]
          /\ RepReach(r) <= Len(L[r.reqTerm])
          /\ r.reqTerm = currentTerm[r.src] =>
                SamePrefix(log[r.src], L[r.reqTerm], RepReach(r))
      BY DEF LogInv, ReplyLogInv
    <2>2. r.src \in Server /\ r.reqTerm \in Nat /\ RepReach(r) \in Nat
      BY AppendReplyType, RepReachType
    <2>3. log[r.src] \in Seq(Entry)
      BY <2>2 DEF StableType
    <2>4. /\ RepReach(r) <= Len(K[r.reqTerm])
          /\ r.reqTerm = currentTerm[r.src] =>
                SamePrefix(log[r.src], K[r.reqTerm], RepReach(r))
      BY <1>8, <2>1, <2>2, <2>3, ReachGrows
    <2>5. CASE r.src # s
      BY <1>6, <2>1, <2>2, <2>4, <2>5
    <2>6. CASE r.src = s
      <3>. SUFFICES ASSUME r.reqTerm = T
                    PROVE  SamePrefix(l, K[r.reqTerm], RepReach(r))
        BY <2>1, <2>4, <2>6 DEF T, l
      <3>1. K[r.reqTerm] = l /\ RepReach(r) \in 0..Len(l)
        <4>1. K[r.reqTerm] = l
          BY <1>7
        <4>2. RepReach(r) <= Len(l)
          BY <2>4, <4>1
        <4>. QED  BY <1>1, <2>2, <4>1, <4>2
      <3>. QED  BY <1>0, <3>1, SamePrefixRefl
    <2>. QED  BY <2>5, <2>6
  <1>16. MatchInv'
    <2>0. /\ myRole' = myRole /\ matchIndex' = matchIndex
          /\ currentTerm' = currentTerm /\ appendReps' = appendReps
      BY <1>4
    <2>. SUFFICES ASSUME NEW x \in Server, myRole'[x] = Leader
                  PROVE  /\ \A p \in Server \ {x} :
                               \/ matchIndex'[x][p] = 0
                               \/ \E r \in appendReps' :
                                     r.success /\ r.src = p /\ r.reqTerm = currentTerm'[x]
                                     /\ RepReach(r) = matchIndex'[x][p]
                         /\ matchIndex'[x][x] <= Len(log'[x])
                         /\ \A i \in 1..Len(log'[x]) :
                               log'[x][i].term = currentTerm'[x] => matchIndex'[x][x] < i
      BY DEF MatchInv, Answered
    <2>1. myRole[x] = Leader
      BY <2>0
    <2>2. \A p \in Server \ {x} :
              matchIndex[x][p] = 0 \/ Answered(p, currentTerm[x], matchIndex[x][p])
      BY <2>1 DEF LogInv, MatchInv
    <2>3. /\ matchIndex[x][x] <= Len(log[x])
          /\ \A i \in 1..Len(log[x]) :
                log[x][i].term = currentTerm[x] => matchIndex[x][x] < i
      BY <2>1 DEF LogInv, MatchInv
    <2>4. /\ matchIndex[x][x] <= Len(log'[x])
          /\ \A i \in 1..Len(log'[x]) :
                log'[x][i].term = currentTerm[x] => matchIndex[x][x] < i
      <3>1. CASE x = s
        <4>. DEFINE own == matchIndex[s][s]
        <4>1. own \in Nat /\ own <= n
          BY ZenonT(40), <1>1, <2>3, <3>1 DEF AppendType
        <4>2. n \in Nat
          BY <1>1
        <4>. HIDE DEF own
        <4>3. own <= n + 1 /\ own < n + 1
          BY <4>1, <4>2
        <4>4. ASSUME NEW i \in 1..Len(l), l[i].term = T PROVE own < i
          <5>1. CASE i \in 1..n
            BY <1>1, <1>2, <2>3, <3>1, <4>4, <5>1 DEF T, own
          <5>2. CASE i = n + 1
            BY <4>3, <5>2
          <5>. QED  BY <1>1, <1>11, <5>1, <5>2
        <4>5. own <= Len(l)
          BY <1>1, <4>3
        <4>. QED  BY <3>1, <4>4, <4>5 DEF own, l, T
      <3>2. CASE x # s
        BY <1>6, <2>3, <3>2
      <3>. QED  BY <3>1, <3>2
    <2>5. ASSUME NEW p \in Server \ {x}
          PROVE  \/ matchIndex'[x][p] = 0
                 \/ \E r \in appendReps' :
                       r.success /\ r.src = p /\ r.reqTerm = currentTerm'[x]
                       /\ RepReach(r) = matchIndex'[x][p]
      BY <2>0, <2>2 DEF Answered
    <2>. QED  BY <2>0, <2>4, <2>5
  <1>. QED  BY <1>12, <1>13, <1>14, <1>15, <1>16 DEF LogInv

-----------------------------------------------------------------------------
(* An ordinary step. *)

\* Request m is what leader s sends now: the end of its log and its commitIndex.
Sends(s, m) ==
    /\ myRole[s] = Leader
    /\ m.src = s
    /\ m.term = currentTerm[s]
    /\ m.prevLogIndex \in 0..Len(log[s])
    /\ m.prevLogIndex > 0 => m.prevLogTerm = log[s][m.prevLogIndex].term
    /\ m.entries = SubSeq(log[s], m.prevLogIndex + 1, Len(log[s]))
    /\ m.leaderCommit = commitIndex[s]

\* Requests are only sent by sendAppendEntriesToOnePeer.
LEMMA NewRequest ==
    ASSUME Inv, Next, NEW m \in appendReqs', m \notin appendReqs
    PROVE  \E s \in Server : Sends(s, m)
  <1>1. ASSUME NEW s \in Server,
               \/ ElectionTimeout(s)
               \/ StartLeader(s)
               \/ StartVoting(s)
               \/ \E c \in Command : Start(s, c)
               \/ \E q \in voteReqs : RejectStaleVoteRequest(s, q)
               \/ \E q \in voteReqs : RequestVote(s, q)
               \/ \E q \in voteReps \cup appendReps : StepDown(s, q)
               \/ \E q \in voteReps : CountVote(s, q)
               \/ \E q \in appendReqs : RejectStaleAppend(s, q)
               \/ \E q \in appendReqs : RejectAppend(s, q)
               \/ \E q \in appendReqs : AcceptAppend(s, q)
               \/ \E q \in appendReps : HandleAppendSuccess(s, q)
               \/ \E q \in appendReps : HandleAppendConflict(s, q)
               \/ \E p : RestartFrom(s, p)
        PROVE  UNCHANGED appendReqs
    BY <1>1 DEF ElectionTimeout, StartLeader, StartVoting, Start,
                RejectStaleVoteRequest, RequestVote, StepDown, CountVote,
                RejectStaleAppend, RejectAppend, AcceptAppend, RecogniseLeader,
                HandleAppendSuccess, HandleAppendConflict, RestartFrom, appendNet
  <1>2. PICK s \in Server : \E p \in Server \ {s} : SendAppendEntries(s, p)
    BY <1>1, RestartVote DEF Next
  <1>2a. PICK p \in Server \ {s} : SendAppendEntries(s, p)
    BY <1>2
  <1>. DEFINE prev == nextIndex[s][p] - 1
              n    == Len(log[s])
              e    == SubSeq(log[s], prev + 1, n)
              t    == IF prev > 0 THEN log[s][prev].term ELSE 0
  <1>3. /\ myRole[s] = Leader
        /\ m = [src |-> s, dst |-> p, inst |-> inst[s], term |-> currentTerm[s],
                prevLogIndex |-> prev, prevLogTerm |-> t, entries |-> e,
                leaderCommit |-> commitIndex[s]]
    BY <1>2a DEF SendAppendEntries
  <1>4. prev \in 0..n
    <2>1. nextIndex[s][p] \in 1..(n + 1)
      BY <1>3 DEF Inv, IndexInv, NextIndexInRange
    <2>2. n \in Nat
      BY LenProperties DEF Inv, IndexInv, TypeOK, StableType
    <2>. QED  BY <2>1, <2>2
  <1>5. prev > 0 => t = log[s][prev].term
    OBVIOUS
  <1>. HIDE DEF prev, t
  <1>6. /\ m.src = s /\ m.term = currentTerm[s] /\ m.prevLogIndex = prev
        /\ m.prevLogTerm = t /\ m.entries = e /\ m.leaderCommit = commitIndex[s]
    BY <1>3
  <1>. QED  BY <1>3, <1>4, <1>5, <1>6 DEF Sends

\* Such a request reaches to the end of the leader's log.
LEMMA SendsAll ==
    ASSUME Inv, NEW s \in Server, NEW m, Sends(s, m)
    PROVE  /\ Reach(m) = Len(log[s])
           /\ \A k \in 1..Len(m.entries) : m.entries[k] = log[s][m.prevLogIndex + k]
  <1>1. log[s] \in Seq(Entry) /\ Len(log[s]) \in Nat
    BY LenProperties DEF Inv, IndexInv, TypeOK, StableType
  <1>. DEFINE prev == m.prevLogIndex
              n    == Len(log[s])
  <1>2. prev \in 0..Len(log[s]) /\ m.entries = SubSeq(log[s], prev + 1, Len(log[s]))
    BY DEF Sends
  <1>. HIDE DEF prev
  <1>3. /\ Len(m.entries) = Len(log[s]) - prev
        /\ \A i \in 1..(Len(log[s]) - prev) : m.entries[i] = log[s][prev + i]
    BY <1>1, <1>2, LastEntries
  <1>4. prev + (Len(log[s]) - prev) = Len(log[s])
    BY <1>1, <1>2
  <1>. QED  BY <1>3, <1>4 DEF Reach, prev

\* Only AppendEntries reports success, for the request it was handed.
LEMMA NewSuccess ==
    ASSUME Inv, Next, NEW r \in appendReps', r \notin appendReps, r.success
    PROVE  \E s \in Server, m \in appendReqs :
              /\ AcceptAppend(s, m)
              /\ r.src = s /\ r.dst = m.src /\ r.reqTerm = m.term
              /\ RepReach(r) = Reach(m)
  <1>1. ASSUME NEW s \in Server,
               \/ ElectionTimeout(s)
               \/ StartLeader(s)
               \/ StartVoting(s)
               \/ \E c \in Command : Start(s, c)
               \/ \E p \in Server \ {s} : SendAppendEntries(s, p)
               \/ \E m \in voteReqs : RejectStaleVoteRequest(s, m)
               \/ \E m \in voteReqs : RequestVote(s, m)
               \/ \E q \in voteReps \cup appendReps : StepDown(s, q)
               \/ \E q \in voteReps : CountVote(s, q)
               \/ \E q \in appendReps : HandleAppendSuccess(s, q)
               \/ \E q \in appendReps : HandleAppendConflict(s, q)
               \/ \E p : RestartFrom(s, p)
        PROVE  UNCHANGED appendReps
    BY <1>1 DEF ElectionTimeout, StartLeader, StartVoting, Start,
                SendAppendEntries, RejectStaleVoteRequest, RequestVote, StepDown,
                CountVote, HandleAppendSuccess, HandleAppendConflict, RestartFrom,
                appendNet
  <1>2. PICK s \in Server, m \in appendReqs :
            RejectStaleAppend(s, m) \/ RejectAppend(s, m) \/ AcceptAppend(s, m)
    BY <1>1, RestartVote DEF Next
  <1>3. ~ RejectStaleAppend(s, m)
    BY DEF RejectStaleAppend, AppendReply
  <1>4. ~ RejectAppend(s, m)
    <2>. SUFFICES ASSUME RejectAppend(s, m) PROVE FALSE
      OBVIOUS
    <2>1. ASSUME NEW t, NEW first,
                 appendReps' = appendReps \cup {AppendReply(m, m.term, FALSE, t, first)}
          PROVE  FALSE
      <3>1. r = AppendReply(m, m.term, FALSE, t, first)
        BY <2>1
      <3>2. r.success = FALSE
        BY <3>1 DEF AppendReply
      <3>. QED  BY <3>2
    <2>. QED  BY <2>1 DEF RejectAppend
  <1>5. AcceptAppend(s, m)
    BY <1>2, <1>3, <1>4
  <1>6. r = AppendReply(m, m.term, TRUE, 0, 0) /\ m.dst = s
    BY <1>5 DEF AcceptAppend, RecogniseLeader
  <1>7. /\ r.src = s /\ r.dst = m.src /\ r.reqTerm = m.term
        /\ r.prevLogIndex = m.prevLogIndex /\ r.sent = Len(m.entries)
    BY <1>6 DEF AppendReply
  <1>. QED  BY <1>5, <1>7 DEF Reach, RepReach

\* What a leader that stays leader knows of its peers changes by their answers.
LEMMA MatchCases ==
    ASSUME Inv, Next, NEW x \in Server, myRole[x] = Leader, myRole'[x] = Leader
    PROVE  \/ matchIndex'[x] = matchIndex[x]
           \/ \E r \in appendReps : HandleAppendSuccess(x, r)
  <1>. TypeOK /\ RoleType /\ AppendType
    BY DEF Inv, IndexInv, TypeOK
  <1>1. ASSUME NEW s \in Server,
               \/ ElectionTimeout(s)
               \/ StartLeader(s)
               \/ StartVoting(s)
               \/ \E c \in Command : Start(s, c)
               \/ \E p \in Server \ {s} : SendAppendEntries(s, p)
               \/ \E m \in voteReqs : RejectStaleVoteRequest(s, m)
               \/ \E m \in voteReqs : RequestVote(s, m)
               \/ \E q \in voteReps \cup appendReps : StepDown(s, q)
               \/ \E m \in appendReqs : RejectStaleAppend(s, m)
               \/ \E m \in appendReqs : RejectAppend(s, m)
               \/ \E m \in appendReqs : AcceptAppend(s, m)
               \/ \E q \in appendReps : HandleAppendConflict(s, q)
        PROVE  UNCHANGED matchIndex
    BY <1>1 DEF ElectionTimeout, StartLeader, StartVoting, Start, SendAppendEntries,
                RejectStaleVoteRequest, RequestVote, StepDown, RejectStaleAppend,
                RejectAppend, AcceptAppend, RecogniseLeader, HandleAppendConflict,
                leading
  <1>2. ASSUME NEW s \in Server, NEW q \in voteReps, CountVote(s, q)
        PROVE  matchIndex'[x] = matchIndex[x]
    <2>1. s # x
      BY <1>2 DEF CountVote, Leader, Candidate
    <2>. QED  BY <1>2, <2>1 DEF CountVote, ConvertToLeader, leading, AppendType
  <1>3. ASSUME NEW s \in Server, NEW p, RestartFrom(s, p)
        PROVE  matchIndex'[x] = matchIndex[x]
    <2>1. s # x
      BY <1>3 DEF RestartFrom, Leader, Follower, RoleType
    <2>. QED  BY <1>3, <2>1 DEF RestartFrom, AppendType
  <1>4. ASSUME NEW s \in Server, NEW q \in appendReps, HandleAppendSuccess(s, q)
        PROVE  s = x \/ matchIndex'[x] = matchIndex[x]
    BY <1>4 DEF HandleAppendSuccess, AppendType
  <1>. QED  BY <1>1, <1>2, <1>3, <1>4, RestartVote DEF Next

\* What a merge makes of the log of a follower.
LEMMA Merged ==
    ASSUME Inv, NEW L \in [Nat -> Seq(Entry)], LogInv(L), NEW x \in Server,
           NEW m \in appendReqs, Merges(x, m)
    PROVE  /\ m.term \in Nat /\ Reach(m) \in Nat
           /\ Aligned(L, log[x], L[m.term], log'[x], Reach(m))
  <1>. TypeOK
    BY DEF Inv, IndexInv
  <1>. DEFINE l == log[x]
              k == L[m.term]
  <1>1. /\ m.term \in Nat /\ m.prevLogIndex \in Nat /\ m.entries \in Seq(Entry)
        /\ Reach(m) \in Nat
    BY AppendArgsType, ReachType
  <1>2. l \in Seq(Entry) /\ k \in Seq(Entry)
    BY <1>1 DEF TypeOK, StableType
  <1>3. Recorded(L, l) /\ Recorded(L, k)
    BY <1>1 DEF LogInv, LeaderLogInv, ServerLogInv
  <1>4. Fits(l, k, m.prevLogIndex, m.entries)
    <2>1. /\ m.prevLogIndex <= Len(l)
          /\ m.prevLogIndex > 0 => l[m.prevLogIndex].term = m.prevLogTerm
      BY DEF Merges, PrevMatches
    <2>2. /\ Reach(m) <= Len(k)
          /\ m.prevLogIndex > 0 => k[m.prevLogIndex].term = m.prevLogTerm
      BY DEF LogInv, RequestLogInv
    <2>3. \A j \in 1..Len(m.entries) : m.entries[j] = k[m.prevLogIndex + j]
      BY DEF LogInv, RequestLogInv
    <2>. HIDE DEF l, k
    <2>. QED  BY <2>1, <2>2, <2>3 DEF Fits, Reach
  <1>5. log'[x] = MergeLog(l, m.prevLogIndex, m.entries)
    BY DEF Merges
  <1>. HIDE DEF l, k
  <1>6. Aligned(L, l, k, MergeLog(l, m.prevLogIndex, m.entries),
                m.prevLogIndex + Len(m.entries))
    BY <1>1, <1>2, <1>3, <1>4, MergeAgrees
  <1>. QED  BY <1>1, <1>5, <1>6 DEF Reach, l, k

\* The logs of the servers after an ordinary step.
LEMMA OrdinaryServers ==
    ASSUME Inv, Next, NEW L \in [Nat -> Seq(Entry)], LogInv(L), Ordinary
    PROVE  ServerLogInv(L)'
  <1>. TypeOK /\ StableType /\ RoleType /\ IndexInv
    BY DEF Inv, IndexInv, TypeOK
  <1>. SUFFICES ASSUME NEW x \in Server
                PROVE  /\ Recorded(L, log'[x])
                       /\ \A i \in 1..Len(log'[x]) : log'[x][i].term <= currentTerm'[x]
                       /\ myRole'[x] = Leader => log'[x] = L[currentTerm'[x]]
    BY DEF ServerLogInv
  <1>1. /\ log[x] \in Seq(Entry) /\ currentTerm[x] \in Nat /\ currentTerm'[x] \in Nat
    BY StableTypeStep DEF StableType
  <1>2. /\ Recorded(L, log[x])
        /\ \A i \in 1..Len(log[x]) : log[x][i].term <= currentTerm[x]
        /\ myRole[x] = Leader => log[x] = L[currentTerm[x]]
    BY DEF LogInv, ServerLogInv
  <1>3. PeerStep(x)
    BY PeerSteps
  <1>4. currentTerm[x] <= currentTerm'[x]
    BY TermsGrow
  <1>5. \A t \in Nat : t <= currentTerm[x] => t <= currentTerm'[x]
    BY SMTT(40), <1>1, <1>4
  <1>6. CASE log'[x] = log[x]
    <2>1. \A i \in 1..Len(log[x]) : log[x][i].term \in Nat
      BY <1>1, EntryOf
    <2>2. \A i \in 1..Len(log[x]) : log[x][i].term <= currentTerm'[x]
      BY <1>2, <1>5, <2>1
    <2>3. myRole'[x] = Leader => /\ currentTerm'[x] = currentTerm[x]
                                 /\ myRole[x] = Leader
      BY <1>3 DEF PeerStep, Ordinary, Leader, Follower, Candidate
    <2>. QED  BY <1>2, <1>6, <2>2, <2>3
  <1>7. ASSUME NEW m \in appendReqs, Merges(x, m)
        PROVE  /\ Recorded(L, log'[x])
               /\ \A i \in 1..Len(log'[x]) : log'[x][i].term <= currentTerm'[x]
               /\ myRole'[x] # Leader
    <2>1. currentTerm'[x] = m.term /\ myRole'[x] # Leader
      BY <1>7 DEF Merges, Leader, Follower
    <2>2. /\ m.term \in Nat /\ Reach(m) \in Nat /\ log'[x] \in Seq(Entry)
          /\ Recorded(L, log'[x]) /\ SamePrefix(log'[x], L[m.term], Reach(m))
      BY <1>7, Merged DEF Aligned
    <2>3. ASSUME NEW i \in 1..Len(log'[x])
          PROVE  log'[x][i].term <= m.term
      <3>0. i \in Nat /\ i >= 1 /\ Len(log[x]) \in Nat /\ Len(L[m.term]) \in Nat
        <4>1. /\ Len(log[x]) \in Nat /\ Len(L[m.term]) \in Nat
              /\ Len(log'[x]) \in Nat
          BY <1>1, <2>2, LenProperties
        <4>. QED  BY <4>1
      <3>1. CASE i <= Reach(m) /\ log'[x][i] = L[m.term][i]
        <4>1. Reach(m) <= Len(L[m.term])
          BY <2>2 DEF SamePrefix
        <4>2. i \in 1..Len(L[m.term])
          BY SMTT(40), <2>2, <3>0, <3>1, <4>1
        <4>. QED  BY <2>2, <3>1, <4>2 DEF LogInv, LeaderLogInv
      <3>2. CASE i <= Len(log[x]) /\ log'[x][i] = log[x][i]
        <4>1. i \in 1..Len(log[x])
          BY <3>0, <3>2
        <4>2. log[x][i].term \in Nat /\ log[x][i].term <= currentTerm[x]
          BY <1>1, <1>2, <4>1, EntryOf
        <4>. QED  BY <1>5, <2>1, <3>2, <4>2
      <3>. QED  BY <1>7, <3>1, <3>2, Merged DEF Aligned
    <2>. QED  BY <2>1, <2>2, <2>3
  <1>. QED  BY <1>6, <1>7 DEF Ordinary

\* The requests after an ordinary step.
LEMMA OrdinaryRequests ==
    ASSUME Inv, Next, NEW L \in [Nat -> Seq(Entry)], LogInv(L), Ordinary
    PROVE  RequestLogInv(L)'
  <1>. TypeOK /\ StableType
    BY DEF Inv, IndexInv, TypeOK
  <1>. SUFFICES ASSUME NEW m \in appendReqs'
                PROVE  /\ Reach(m) <= Len(L[m.term])
                       /\ m.prevLogIndex > 0 =>
                             L[m.term][m.prevLogIndex].term = m.prevLogTerm
                       /\ \A k \in 1..Len(m.entries) :
                             m.entries[k] = L[m.term][m.prevLogIndex + k]
                       /\ \A i \in 1..Len(L[m.term]) :
                             L[m.term][i].term < m.term => i <= Reach(m)
    BY DEF RequestLogInv, Reach
  <1>1. CASE m \in appendReqs
    BY <1>1 DEF LogInv, RequestLogInv
  <1>2. CASE m \notin appendReqs
    <2>1. PICK s \in Server : Sends(s, m)
      BY <1>2, NewRequest
    <2>2. log[s] = L[m.term] /\ log[s] \in Seq(Entry) /\ Len(log[s]) \in Nat
      BY <2>1, LenProperties DEF Sends, LogInv, ServerLogInv, StableType
    <2>3. /\ Reach(m) = Len(log[s])
          /\ \A k \in 1..Len(m.entries) : m.entries[k] = log[s][m.prevLogIndex + k]
      BY <2>1, SendsAll
    <2>4. /\ Reach(m) <= Len(log[s])
          /\ \A i \in 1..Len(log[s]) : i <= Reach(m)
      BY <2>2, <2>3
    <2>5. m.prevLogIndex > 0 => log[s][m.prevLogIndex].term = m.prevLogTerm
      BY <2>1 DEF Sends
    <2>. QED  BY <2>2, <2>3, <2>4, <2>5
  <1>. QED  BY <1>1, <1>2

\* The replies after an ordinary step: a follower of the leader's term that merges
\* an older, shorter request keeps what it has acknowledged.
LEMMA OrdinaryReplies ==
    ASSUME Inv, Next, NEW L \in [Nat -> Seq(Entry)], LogInv(L), Ordinary
    PROVE  ReplyLogInv(L)'
  <1>. TypeOK /\ StableType /\ IndexInv
    BY DEF Inv, IndexInv, TypeOK
  <1>. SUFFICES ASSUME NEW r \in appendReps', r.success
                PROVE  /\ r.src # r.dst
                       /\ r.reqTerm <= currentTerm'[r.src]
                       /\ RepReach(r) <= Len(L[r.reqTerm])
                       /\ r.reqTerm = currentTerm'[r.src] =>
                             SamePrefix(log'[r.src], L[r.reqTerm], RepReach(r))
    BY DEF ReplyLogInv, RepReach
  <1>1. CASE r \in appendReps
    <2>. DEFINE x == r.src
                t == r.reqTerm
                n == RepReach(r)
    <2>1. /\ r.src # r.dst
          /\ t <= currentTerm[x]
          /\ n <= Len(L[t])
          /\ t = currentTerm[x] => SamePrefix(log[x], L[t], n)
      BY <1>1 DEF LogInv, ReplyLogInv
    <2>2. x \in Server /\ t \in Nat /\ n \in Nat
      BY <1>1, AppendReplyType, RepReachType
    <2>. HIDE DEF x, t, n
    <2>3. currentTerm[x] \in Nat /\ currentTerm'[x] \in Nat /\ log[x] \in Seq(Entry)
      BY <2>2, StableTypeStep DEF StableType
    <2>4. currentTerm[x] <= currentTerm'[x]
      BY <2>2, TermsGrow
    <2>5. t <= currentTerm'[x] /\ (t = currentTerm'[x] => t = currentTerm[x])
      <3>1. \A a, b, c \in Nat : a <= b /\ b <= c => a <= c /\ (a = c => a = b)
        OBVIOUS
      <3>2. t <= currentTerm[x]
        BY <2>1
      <3>. QED  BY <2>2, <2>3, <2>4, <3>1, <3>2
    <2>6. ASSUME t = currentTerm'[x] PROVE SamePrefix(log'[x], L[t], n)
      <3>1. SamePrefix(log[x], L[t], n) /\ L[t] \in Seq(Entry)
        BY <2>1, <2>2, <2>5, <2>6
      <3>2. CASE log'[x] = log[x]
        BY <3>1, <3>2
      <3>3. ASSUME NEW m \in appendReqs, Merges(x, m)
            PROVE  SamePrefix(log'[x], L[t], n)
        <4>1. m.term = t
          BY <2>6, <3>3 DEF Merges
        <4>2. Aligned(L, log[x], L[t], log'[x], Reach(m))
          BY <2>2, <3>3, <4>1, Merged
        <4>3. log'[x] \in Seq(Entry)
          BY <4>2 DEF Aligned
        <4>4. n \in 0..Len(log[x])
          <5>1. n <= Len(log[x]) /\ Len(log[x]) \in Nat
            BY <2>3, <3>1, LenProperties DEF SamePrefix
          <5>. QED  BY <2>2, <5>1
        <4>5. \A j \in 1..n : log[x][j].term = L[t][j].term
          BY <3>1 DEF SamePrefix
        <4>6. SamePrefix(log'[x], log[x], n)
          BY <4>2, <4>4, <4>5 DEF Aligned
        <4>. QED  BY <2>2, <2>3, <3>1, <4>3, <4>6, SamePrefixTrans
      <3>. QED  BY <2>2, <3>2, <3>3 DEF Ordinary
    <2>. QED  BY <2>1, <2>5, <2>6 DEF x, t, n
  <1>2. CASE r \notin appendReps
    <2>1. PICK s \in Server, m \in appendReqs :
              /\ AcceptAppend(s, m)
              /\ r.src = s /\ r.dst = m.src /\ r.reqTerm = m.term
              /\ RepReach(r) = Reach(m)
      BY <1>2, NewSuccess
    <2>2. Merges(s, m)
      BY <2>1, AcceptMerges
    <2>3. m.dst = s /\ currentTerm'[s] = m.term /\ m.src # m.dst
      BY <2>2 DEF Merges, IndexInv, AppendReqInv
    <2>4. SamePrefix(log'[s], L[m.term], Reach(m)) /\ m.term \in Nat
      BY <2>2, Merged DEF Aligned
    <2>5. Reach(m) <= Len(L[m.term]) /\ m.term <= m.term
      BY <2>4 DEF SamePrefix
    <2>. QED  BY <2>1, <2>3, <2>4, <2>5
  <1>. QED  BY <1>1, <1>2

\* Replies stay in the network.
LEMMA RepliesGrow ==
    ASSUME Inv, Next
    PROVE  appendReps \subseteq appendReps'
  <1>1. ASSUME NEW s \in Server,
               \/ ElectionTimeout(s)
               \/ StartLeader(s)
               \/ StartVoting(s)
               \/ \E c \in Command : Start(s, c)
               \/ \E p \in Server \ {s} : SendAppendEntries(s, p)
               \/ \E m \in voteReqs : RejectStaleVoteRequest(s, m)
               \/ \E m \in voteReqs : RequestVote(s, m)
               \/ \E q \in voteReps \cup appendReps : StepDown(s, q)
               \/ \E q \in voteReps : CountVote(s, q)
               \/ \E q \in appendReps : HandleAppendSuccess(s, q)
               \/ \E q \in appendReps : HandleAppendConflict(s, q)
               \/ \E p : RestartFrom(s, p)
        PROVE  UNCHANGED appendReps
    BY <1>1 DEF ElectionTimeout, StartLeader, StartVoting, Start,
                SendAppendEntries, RejectStaleVoteRequest, RequestVote, StepDown,
                CountVote, HandleAppendSuccess, HandleAppendConflict, RestartFrom,
                appendNet
  <1>2. ASSUME NEW s \in Server, NEW m \in appendReqs,
               RejectStaleAppend(s, m) \/ RejectAppend(s, m) \/ AcceptAppend(s, m)
        PROVE  appendReps \subseteq appendReps'
    BY <1>2 DEF RejectStaleAppend, RejectAppend, AcceptAppend
  <1>. QED  BY <1>1, <1>2, RestartVote DEF Next

\* What leaders know of their peers after an ordinary step.
LEMMA OrdinaryMatch ==
    ASSUME Inv, Next, NEW L \in [Nat -> Seq(Entry)], LogInv(L), Ordinary
    PROVE  MatchInv'
  <1>. TypeOK /\ StableType /\ AppendType
    BY DEF Inv, IndexInv, TypeOK
  <1>. SUFFICES ASSUME NEW x \in Server, myRole'[x] = Leader
                PROVE  /\ \A p \in Server \ {x} :
                             \/ matchIndex'[x][p] = 0
                             \/ \E r \in appendReps' :
                                   r.success /\ r.src = p /\ r.reqTerm = currentTerm'[x]
                                   /\ RepReach(r) = matchIndex'[x][p]
                       /\ matchIndex'[x][x] <= Len(log'[x])
                       /\ \A i \in 1..Len(log'[x]) :
                             log'[x][i].term = currentTerm'[x] => matchIndex'[x][x] < i
    BY DEF MatchInv, Answered
  <1>1. myRole[x] = Leader /\ log'[x] = log[x]
    BY DEF Ordinary, Merges, Leader, Follower
  <1>2. currentTerm'[x] = currentTerm[x]
    BY <1>1, PeerSteps DEF PeerStep, Leader, Follower, Candidate
  <1>3. \A p \in Server \ {x} :
            matchIndex[x][p] = 0 \/ Answered(p, currentTerm[x], matchIndex[x][p])
    BY <1>1 DEF LogInv, MatchInv
  <1>4. /\ matchIndex[x][x] <= Len(log[x])
        /\ \A i \in 1..Len(log[x]) :
              log[x][i].term = currentTerm[x] => matchIndex[x][x] < i
    BY <1>1 DEF LogInv, MatchInv
  <1>5. appendReps \subseteq appendReps'
    BY RepliesGrow
  <1>6. ASSUME NEW p \in Server \ {x}, matchIndex'[x][p] = matchIndex[x][p]
        PROVE  \/ matchIndex'[x][p] = 0
               \/ \E r \in appendReps' :
                     r.success /\ r.src = p /\ r.reqTerm = currentTerm'[x]
                     /\ RepReach(r) = matchIndex'[x][p]
    BY <1>2, <1>3, <1>5, <1>6 DEF Answered
  <1>7. CASE matchIndex'[x] = matchIndex[x]
    BY <1>1, <1>2, <1>4, <1>6, <1>7
  <1>8. ASSUME NEW r \in appendReps, HandleAppendSuccess(x, r)
        PROVE  /\ \A p \in Server \ {x} :
                     \/ matchIndex'[x][p] = 0
                     \/ \E q \in appendReps' :
                           q.success /\ q.src = p /\ q.reqTerm = currentTerm'[x]
                           /\ RepReach(q) = matchIndex'[x][p]
               /\ matchIndex'[x][x] = matchIndex[x][x]
    <2>1. r.success /\ r.dst = x /\ r.reqTerm = currentTerm[x] /\ r.src \in Server
      BY <1>8, AppendReplyType DEF HandleAppendSuccess, CurrentReply
    <2>2. matchIndex' = [matchIndex EXCEPT ![x] = [matchIndex[x] EXCEPT ![r.src] = RepReach(r)]]
      BY <1>8 DEF HandleAppendSuccess, RepReach
    <2>3. r.src # x
      BY <2>1 DEF LogInv, ReplyLogInv
    <2>4. /\ matchIndex'[x][r.src] = RepReach(r)
          /\ \A p \in Server \ {r.src} : matchIndex'[x][p] = matchIndex[x][p]
      BY <2>1, <2>2 DEF AppendType
    <2>5. /\ r \in appendReps' /\ r.success /\ r.reqTerm = currentTerm'[x]
      BY <1>2, <1>5, <2>1
    <2>. QED  BY <1>6, <2>3, <2>4, <2>5
  <1>9. CASE \E r \in appendReps : HandleAppendSuccess(x, r)
    BY <1>1, <1>2, <1>4, <1>8, <1>9
  <1>. QED  BY <1>1, <1>7, <1>9, MatchCases

-----------------------------------------------------------------------------
(* The history of the logs is an invariant. *)

\* An ordinary step leaves the leaders' logs as they are.
LEMMA OrdinaryLog ==
    ASSUME Inv, Next, NEW L \in [Nat -> Seq(Entry)], LogInv(L), Ordinary
    PROVE  LogInv(L)'
  <1>1. LeaderLogInv(L)'
    <2>1. elected' = elected /\ started' = started
      BY DEF Ordinary
    <2>2. LeaderLogInv(L)
      BY DEF LogInv
    <2>. QED  BY <2>1, <2>2 DEF LeaderLogInv
  <1>. QED  BY <1>1, OrdinaryServers, OrdinaryRequests, OrdinaryReplies,
               OrdinaryMatch DEF LogInv

\* Some history of leaders' logs explains every log and every message.
LogHistory == \E L \in [Nat -> Seq(Entry)] : LogInv(L)

\* So it is at the start, when nobody has led.
LEMMA InitLogHistory == Init => LogHistory
  <1>. SUFFICES ASSUME Init PROVE LogHistory
    OBVIOUS
  <1>. DEFINE L == [t \in Nat |-> <<>>]
  <1>1. L \in [Nat -> Seq(Entry)] /\ \A t \in Nat : L[t] = <<>> /\ Len(L[t]) = 0
    BY EmptySeq
  <1>. HIDE DEF L
  <1>2. elected = {} /\ started = {} /\ appendReqs = {} /\ appendReps = {}
    BY DEF Init
  <1>3. \A s \in Server : log[s] = <<>> /\ Len(log[s]) = 0 /\ myRole[s] # Leader
    BY EmptySeq DEF Init, Leader, Follower
  <1>4. LeaderLogInv(L)
    BY <1>1, <1>2 DEF LeaderLogInv, Recorded
  <1>5. ServerLogInv(L)
    BY <1>3 DEF ServerLogInv, Recorded
  <1>6. RequestLogInv(L) /\ ReplyLogInv(L) /\ MatchInv
    BY <1>2, <1>3 DEF RequestLogInv, ReplyLogInv, MatchInv
  <1>. QED  BY <1>1, <1>4, <1>5, <1>6 DEF LogHistory, LogInv

\* A step extends the history.
LEMMA LogStep ==
    ASSUME Inv, Next, NEW L \in [Nat -> Seq(Entry)], LogInv(L)
    PROVE  \E K \in [Nat -> Seq(Entry)] : LogInv(K)'
  <1>1. ASSUME NEW s \in Server, Elects(s)
        PROVE  \E K \in [Nat -> Seq(Entry)] : LogInv(K)'
    <2>1. currentTerm[s] \in Nat /\ log[s] \in Seq(Entry)
      BY DEF Inv, IndexInv, TypeOK, StableType
    <2>2. PICK K \in [Nat -> Seq(Entry)] : SetLog(L, K, currentTerm[s], log[s])
      BY <2>1 DEF SetLog
    <2>. QED  BY <1>1, <2>2, ElectLog
  <1>2. ASSUME NEW s \in Server, NEW c \in Command, Start(s, c)
        PROVE  \E K \in [Nat -> Seq(Entry)] : LogInv(K)'
    <2>1. currentTerm[s] \in Nat /\ log'[s] \in Seq(Entry)
      BY <1>2, StartEffect
    <2>2. PICK K \in [Nat -> Seq(Entry)] : SetLog(L, K, currentTerm[s], log'[s])
      BY <2>1 DEF SetLog
    <2>. QED  BY <1>2, <2>2, StartLog
  <1>3. CASE Ordinary
    BY <1>3, OrdinaryLog
  <1>. QED  BY <1>1, <1>2, <1>3, StepCases

\* Every step, and a step in which nothing changes, keeps a history.
LEMMA NextLogHistory == Inv /\ LogHistory /\ [Next]_vars => LogHistory'
  <1>. SUFFICES ASSUME Inv, LogHistory, [Next]_vars PROVE LogHistory'
    OBVIOUS
  <1>1. PICK L \in [Nat -> Seq(Entry)] : LogInv(L)
    BY DEF LogHistory
  <1>2. CASE Next
    <2>1. \E K \in [Nat -> Seq(Entry)] : LogInv(K)'
      BY <1>1, <1>2, LogStep
    <2>. QED  BY <2>1 DEF LogHistory
  <1>3. CASE UNCHANGED vars
    <2>1. UNCHANGED <<log, currentTerm, myRole, matchIndex, appendReqs, appendReps,
                      elected, started>>
      BY <1>3 DEF vars, stable, roles, leading, appendNet, history
    <2>2. LeaderLogInv(L)' /\ ServerLogInv(L)' /\ RequestLogInv(L)'
      BY <1>1, <2>1 DEF LogInv, LeaderLogInv, ServerLogInv, RequestLogInv
    <2>3. ReplyLogInv(L)' /\ MatchInv'
      BY SMTT(40), <1>1, <2>1 DEF LogInv, ReplyLogInv, MatchInv, Answered
    <2>. QED  BY <2>2, <2>3 DEF LogHistory, LogInv
  <1>. QED  BY <1>2, <1>3

\* Some history of leaders' logs explains every log, request and reply of every
\* reachable state: logs are only ever copied from the leaders.
THEOREM HistoryOfLogs == Spec => []LogHistory
  <1>1. Inv /\ LogHistory /\ [Next]_vars => LogHistory'
    BY NextLogHistory
  <1>. QED  BY InitLogHistory, <1>1, Invariance, PTL DEF Spec

\* Equal prefixes are equal sequences.
LEMMA PrefixesEqual ==
    ASSUME NEW l \in Seq(Entry), NEW k \in Seq(Entry), NEW n \in Nat,
           SamePrefix(l, k, n)
    PROVE  SubSeq(l, 1, n) = SubSeq(k, 1, n)
  <1>. DEFINE a == SubSeq(l, 1, n)
              b == SubSeq(k, 1, n)
  <1>1. n <= Len(l) /\ n <= Len(k) /\ \A j \in 1..n : l[j] = k[j]
    BY DEF SamePrefix
  <1>2. a \in Seq(Entry) /\ Len(a) = n /\ \A i \in 1..n : a[i] = l[i]
    BY <1>1, FirstEntries
  <1>3. b \in Seq(Entry) /\ Len(b) = n /\ \A i \in 1..n : b[i] = k[i]
    BY <1>1, FirstEntries
  <1>. HIDE DEF a, b
  <1>4. a = b
    BY <1>1, <1>2, <1>3, SeqEqual
  <1>. QED  BY <1>4 DEF a, b

\* Logs that hold an entry of the same term at the same index are equal up to it,
\* whatever old, short or repeated requests AppendEntries has merged.
THEOREM LogsMatch == Spec => []LogMatching
  <1>1. Inv /\ LogHistory => LogMatching
    <2>. SUFFICES ASSUME Inv, LogHistory,
                         NEW s \in Server, NEW t \in Server,
                         NEW i \in (1..Len(log[s])) \cap (1..Len(log[t])),
                         log[s][i].term = log[t][i].term
                  PROVE  SubSeq(log[s], 1, i) = SubSeq(log[t], 1, i)
      BY DEF LogMatching
    <2>1. PICK L \in [Nat -> Seq(Entry)] : LogInv(L)
      BY DEF LogHistory
    <2>2. /\ log[s] \in Seq(Entry) /\ log[t] \in Seq(Entry)
          /\ Recorded(L, log[s]) /\ Recorded(L, log[t])
      BY <2>1 DEF LogInv, ServerLogInv, Inv, IndexInv, TypeOK, StableType
    <2>3. i \in Nat /\ i \in 1..Len(log[s]) /\ i <= Len(log[t])
      BY <2>2, LenProperties
    <2>4. SamePrefix(log[s], log[t], i)
      BY <2>2, <2>3, RecordedAgree
    <2>. QED  BY <2>2, <2>3, <2>4, PrefixesEqual
  <1>. QED  BY <1>1, Invariance, HistoryOfLogs, PTL

\* What a leader believes of a follower of its term is true, in whatever order the
\* replies of AppendEntries came in.
THEOREM MatchIndexSafe == Spec => []MatchIndexTruthful
  <1>1. Inv /\ LogHistory => MatchIndexTruthful
    <2>. SUFFICES ASSUME Inv, LogHistory,
                         NEW s \in Server, NEW p \in Server,
                         myRole[s] = Leader, p # s, currentTerm[p] = currentTerm[s]
                  PROVE  /\ matchIndex[s][p] <= Len(log[p])
                         /\ IsPrefix(SubSeq(log[p], 1, matchIndex[s][p]), log[s])
      BY DEF MatchIndexTruthful
    <2>1. PICK L \in [Nat -> Seq(Entry)] : LogInv(L)
      BY DEF LogHistory
    <2>. DEFINE n == matchIndex[s][p]
    <2>2. /\ log[s] \in Seq(Entry) /\ log[p] \in Seq(Entry) /\ n \in Nat
          /\ currentTerm[s] \in Nat
      BY DEF Inv, IndexInv, TypeOK, StableType, AppendType
    <2>3. log[s] = L[currentTerm[s]]
      BY <2>1 DEF LogInv, ServerLogInv
    <2>4. n = 0 \/ Answered(p, currentTerm[s], n)
      BY <2>1 DEF LogInv, MatchInv
    <2>. HIDE DEF n
    <2>5. SamePrefix(log[p], log[s], n)
      <3>1. CASE n = 0
        <4>1. Len(log[p]) \in Nat /\ Len(log[s]) \in Nat
          BY <2>2, LenProperties
        <4>. QED  BY <3>1, <4>1 DEF SamePrefix
      <3>2. CASE Answered(p, currentTerm[s], n)
        <4>1. PICK r \in appendReps :
                  r.success /\ r.src = p /\ r.reqTerm = currentTerm[s] /\ RepReach(r) = n
          BY <3>2 DEF Answered
        <4>2. r.reqTerm = currentTerm[r.src] =>
                  SamePrefix(log[r.src], L[r.reqTerm], RepReach(r))
          BY <2>1, <4>1 DEF LogInv, ReplyLogInv
        <4>. QED  BY <2>3, <4>1, <4>2
      <3>. QED  BY <2>4, <3>1, <3>2
    <2>6. n <= Len(log[p]) /\ n <= Len(log[s])
      BY <2>5 DEF SamePrefix
    <2>. DEFINE a == SubSeq(log[p], 1, n)
    <2>7. a \in Seq(Entry) /\ Len(a) = n /\ \A i \in 1..n : a[i] = log[p][i]
      BY <2>2, <2>6, FirstEntries
    <2>8. a = SubSeq(log[s], 1, n)
      BY <2>2, <2>5, PrefixesEqual
    <2>. HIDE DEF a
    <2>9. SamePrefix(a, a, n)
      <3>1. n \in 0..Len(a)
        BY <2>2, <2>7
      <3>. QED  BY <2>7, <3>1, SamePrefixRefl
    <2>10. SubSeq(a, 1, Len(a)) = a
      <3>1. \A i \in 1..n : a[i] \in Entry
        <4>. QED  BY <2>7, ElementOfSeq
      <3>2. /\ SubSeq(a, 1, n) \in Seq(Entry) /\ Len(SubSeq(a, 1, n)) = n
            /\ \A i \in 1..n : SubSeq(a, 1, n)[i] = a[i]
        <4>1. n <= Len(a)
          BY <2>2, <2>7
        <4>. QED  BY <2>2, <2>7, <4>1, FirstEntries
      <3>3. SubSeq(a, 1, n) = a
        BY <2>7, <3>2, SeqEqual
      <3>. QED  BY <2>7, <3>3
    <2>11. IsPrefix(a, log[s])
      BY <2>6, <2>7, <2>8, <2>10 DEF IsPrefix
    <2>. QED  BY <2>6, <2>11 DEF a, n
  <1>. QED  BY <1>1, Invariance, HistoryOfLogs, PTL
=============================================================================
