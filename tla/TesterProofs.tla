---------------------------- MODULE TesterProofs ----------------------------
(***************************************************************************)
(* The checks of config.go, over any number of servers, terms, calls and   *)
(* restarts: a test fails only servers that broke a promise, the appliers  *)
(* notice a broken promise about the log, and what one and wait return has *)
(* been delivered by as many servers as they were asked for.               *)
(***************************************************************************)
EXTENDS Tester, FiniteSetTheorems, SequenceTheorems, TLAPS

LogEntry == [term : Nat, command : Command]
ApplyMsg == [index : Index, command : Command]

TypeInv ==
    /\ started \subseteq [index : Index, term : Nat, command : Command]
    /\ chosen \in Seq(LogEntry) /\ Len(chosen) <= MaxIndex
    /\ delivered \in [Server -> Seq(LogEntry)]
    /\ upto \in [Server -> Seq(Nat)]
    /\ applyCh \in [Server -> Seq(Seq(ApplyMsg))]
    /\ \A s \in Server : Len(applyCh[s]) = Len(upto[s])
    /\ logs \in [Server -> [Index -> Command \cup {Nil}]]
    /\ term \in [Server -> 0..MaxTerm] /\ leads \in [Server -> BOOLEAN]
    /\ elected \in [1..MaxTerm -> Server \cup {Nil}]
    /\ faults \in Nat /\ exited \in BOOLEAN

\* Every server has delivered a part of the one log, in each incarnation once more.
DeliveredInv ==
    \A s \in Server :
        /\ Len(delivered[s]) <= Len(chosen)
        /\ \A i \in 1..Len(delivered[s]) : delivered[s][i] = chosen[i]
        /\ \A n \in DOMAIN upto[s] : upto[s][n] <= Len(delivered[s])

\* Leaders, and those a check has already asked, were elected in their terms.
LeaderInv ==
    /\ \A s \in Server : leads[s] =>
          /\ term[s] \in 1..MaxTerm
          /\ faults = 0 => elected[term[s]] = s
    /\ \A x \in seen : x.leads =>
          /\ x.server \in Server /\ x.term \in 1..MaxTerm
          /\ faults = 0 => elected[x.term] = x.server

\* What incarnation n of server s has sent and its applier has not read yet are the
\* last commands of its log so far; what was read was stored.
ChannelInv(s, n) ==
    LET ch   == applyCh[s][n]
        read == upto[s][n] - Len(ch)
    IN  /\ read >= 0
        /\ \A k \in 1..Len(ch) :
              ch[k] = [index |-> read + k, command |-> chosen[read + k].command]
        /\ \A i \in 1..read : logs[s][i] # Nil

\* While no promise is broken, what is stored is the log, and nobody is accused.
FaultlessInv ==
    faults = 0 =>
        /\ ~ Accused
        /\ \A s \in Server : \A n \in DOMAIN upto[s] : ChannelInv(s, n)
        /\ \A s \in Server, i \in Index : logs[s][i] # Nil =>
              i <= Len(chosen) /\ logs[s][i] = chosen[i].command

\* The servers before p that have stored v at index i.
Holders(stored, p, i, v) == {s \in Server : s < p /\ stored[s][i] = v}

\* Where a call is, and what nCommitted has counted so far: as many servers hold the
\* command even if they were read one after the other, since what was stored stays.
CountInv ==
    /\ at \in {"idle", "submit", "count", "waitTerms", "ask", "failed"}
    /\ at \notin {"idle", "failed"} => result.kind = "none"
    /\ starts \in Nat
    /\ at = "ask" => scan \in 0..N
    /\ at = "submit" => op = "one" /\ cmd \in Command /\ want \in 1..N
    /\ at \in {"count", "waitTerms"} =>
          /\ op \in {"one", "wait"} /\ index \in Index /\ want \in 1..N
          /\ op = "one" => cmd \in Command
    /\ at = "count" =>
          /\ scan \in 0..N /\ count \in Nat
          /\ count > 0 =>
                /\ val \in Command
                /\ Accused \/ Cardinality(Holders(logs, scan, index, val)) >= count

\* The answer of one or wait.
AnswerInv ==
    (result.kind = "returned" /\ op \in {"one", "wait"} /\ result.value # -1) =>
        /\ index \in Index /\ result.value \in Command
        /\ Accused \/ Cardinality(Holders(logs, N, index, result.value)) >= want
        /\ want \in 1..N
        /\ op = "one" => result.value = cmd

\* A disagreement that a call has met is one that an applier has met.
RaisedInv ==
    /\ result.kind = "mismatch" => Accused
    /\ result.kind = "rivals" => faults > 0

-----------------------------------------------------------------------------
(* Functions of sequences. *)

LEMMA UpdateAt ==
    ASSUME NEW S, NEW f \in [Server -> Seq(S)], NEW s \in Server,
           NEW n \in DOMAIN f[s], NEW e \in S, NEW g, g = [f EXCEPT ![s][n] = e]
    PROVE  /\ g \in [Server -> Seq(S)]
           /\ \A t \in Server : Len(g[t]) = Len(f[t]) /\ DOMAIN g[t] = DOMAIN f[t]
           /\ g[s][n] = e
           /\ \A t \in Server : \A m \in DOMAIN f[t] :
                 (t # s \/ m # n) => g[t][m] = f[t][m]
  <1>1. f[s] \in Seq(S) /\ g = [f EXCEPT ![s] = [f[s] EXCEPT ![n] = e]]
    OBVIOUS
  <1>. DEFINE h == [f[s] EXCEPT ![n] = e]
  <1>2. n \in 1..Len(f[s]) /\ DOMAIN f[s] = 1..Len(f[s])
    BY <1>1, LenProperties
  <1>3. /\ h \in Seq(S) /\ Len(h) = Len(f[s])
        /\ \A m \in 1..Len(f[s]) : h[m] = IF m = n THEN e ELSE f[s][m]
    BY <1>1, <1>2, ExceptSeq
  <1>4. DOMAIN h = 1..Len(h)
    BY <1>3, LenProperties
  <1>5. g[s] = h /\ \A t \in Server \ {s} : g[t] = f[t]
    BY <1>1
  <1>. HIDE DEF h
  <1>6. g \in [Server -> Seq(S)]
    <2>1. g = [f EXCEPT ![s] = h]
      BY <1>1 DEF h
    <2>. QED  BY <2>1, <1>3
  <1>. QED  BY <1>2, <1>3, <1>4, <1>5, <1>6

LEMMA AppendTo ==
    ASSUME NEW S, NEW f \in [Server -> Seq(S)], NEW s \in Server, NEW e \in S,
           NEW g, g = [f EXCEPT ![s] = Append(@, e)]
    PROVE  /\ g \in [Server -> Seq(S)]
           /\ Len(g[s]) = Len(f[s]) + 1
           /\ DOMAIN g[s] = DOMAIN f[s] \cup {Len(f[s]) + 1}
           /\ g[s][Len(f[s]) + 1] = e
           /\ \A m \in DOMAIN f[s] : g[s][m] = f[s][m] /\ m # Len(f[s]) + 1
           /\ \A t \in Server \ {s} : g[t] = f[t]
  <1>1. f[s] \in Seq(S) /\ g[s] = Append(f[s], e) /\ \A t \in Server \ {s} : g[t] = f[t]
    OBVIOUS
  <1>2. /\ g[s] \in Seq(S) /\ Len(g[s]) = Len(f[s]) + 1
        /\ \A m \in 1..Len(f[s]) : g[s][m] = f[s][m]
        /\ g[s][Len(f[s]) + 1] = e
    BY <1>1, AppendProperties
  <1>3. /\ Len(f[s]) \in Nat /\ DOMAIN f[s] = 1..Len(f[s])
        /\ DOMAIN g[s] = 1..(Len(f[s]) + 1)
    BY <1>1, <1>2, LenProperties
  <1>. QED  BY <1>1, <1>2, <1>3

-----------------------------------------------------------------------------
(* Types. *)

LEMMA NFacts == N \in Nat /\ Server = 0..(N - 1)
  BY TesterAssumption, FS_CardinalityType DEF N

LEMMA Bounds == MaxIndex \in Nat /\ MaxTerm \in Nat
  BY TesterAssumption

\* The next entry of a server's log is one of the log, which has room for it.
LEMMA NextEntry ==
    ASSUME TypeInv, DeliveredInv, NEW s \in Server, NEW entry \in NextEntries(s)
    PROVE  /\ entry \in LogEntry
           /\ Len(delivered[s]) + 1 <= MaxIndex
           /\ Len(delivered[s]) < Len(chosen) => entry = chosen[Len(delivered[s]) + 1]
           /\ Len(delivered[s]) >= Len(chosen) => Len(delivered[s]) = Len(chosen)
  <1>. DEFINE d == Len(delivered[s])
              k == Len(chosen)
  <1>1. d \in Nat /\ k \in Nat /\ d <= k /\ k <= MaxIndex /\ chosen \in Seq(LogEntry)
        /\ DOMAIN chosen = 1..k
    BY LenProperties DEF TypeInv, DeliveredInv
  <1>2. CASE d < k
    <2>1. entry = chosen[d + 1]
      BY <1>2 DEF NextEntries
    <2>2. d + 1 \in 1..k /\ d + 1 <= MaxIndex
      BY <1>1, <1>2, Bounds
    <2>3. chosen[d + 1] \in LogEntry
      BY <1>1, <2>2, ElementOfSeq
    <2>. QED  BY <1>1, <1>2, <2>1, <2>2, <2>3
  <1>3. CASE ~ (d < k)
    <2>1. PICK st \in started : /\ st.index = k + 1
                                /\ entry = [term |-> st.term, command |-> st.command]
      BY <1>3 DEF NextEntries
    <2>2. st.index \in Index /\ st.term \in Nat /\ st.command \in Command
      BY DEF TypeInv
    <2>3. d = k
      BY <1>1, <1>3
    <2>4. d + 1 <= MaxIndex
      BY <2>1, <2>2, <2>3, Bounds DEF Index
    <2>. QED  BY <1>3, <2>1, <2>2, <2>3, <2>4 DEF LogEntry
  <1>. QED  BY <1>2, <1>3

\* The state that a step leaves alone when the servers and the appliers rest.
Quiet == UNCHANGED <<absVars, cluster, checks>>

\* Calls of the test only read, apart from Submit.
Reads ==
    \/ \E c \in Command, n \in 1..N, r \in BOOLEAN : One(c, n, r)
    \/ \E i \in Index, n \in 1..N, t \in -1..MaxTerm : Wait(i, n, t)
    \/ \E name \in {"leader", "terms", "noLeader"} : Check(name)
    \/ Count \/ OneCounted \/ WaitCounted \/ WaitTerms
    \/ GetState \/ CheckOneLeader \/ CheckTerms \/ CheckNoLeader

LEMMA ReadsAreQuiet == Reads => Quiet
  BY DEF Reads, Quiet, One, Wait, Check, Begin, Count, OneCounted, WaitCounted,
         Counted, WaitTerms, GetState, Asked, CheckOneLeader, CheckTerms, CheckNoLeader

LEMMA TestCases ==
    ASSUME Test
    PROVE  \/ Reads
           \/ Submit
           \/ \E s \in Server, up \in BOOLEAN : Connection(s, up)
           \/ \E s \in Server : Crash1(s) \/ Start1(s)
  BY DEF Test, Reads

LEMMA ConnectionIsQuiet ==
    ASSUME NEW s \in Server, NEW up \in BOOLEAN, Connection(s, up)
    PROVE  Quiet
  BY DEF Connection, Quiet

-----------------------------------------------------------------------------
(* What is stored. *)

LogInv == TypeInv /\ DeliveredInv /\ FaultlessInv /\ NoticesDisagreement

\* Steps that neither deliver nor read what was delivered.
LEMMA KeepsLog ==
    ASSUME LogInv, UNCHANGED <<chosen, delivered, upto, logs, applyCh>>,
           started' \subseteq [index : Index, term : Nat, command : Command],
           faults' \in Nat, faults' = 0 => faults = 0,
           term' \in [Server -> 0..MaxTerm], leads' \in [Server -> BOOLEAN],
           elected' \in [1..MaxTerm -> Server \cup {Nil}],
           exited' \in BOOLEAN, Accused' <=> Accused
    PROVE  LogInv'
  <1>1. TypeInv' /\ DeliveredInv'
    BY DEF LogInv, TypeInv, DeliveredInv
  <1>2. FaultlessInv'
    BY DEF LogInv, FaultlessInv, ChannelInv
  <1>3. NoticesDisagreement'
    BY DEF LogInv, NoticesDisagreement
  <1>. QED  BY <1>1, <1>2, <1>3 DEF LogInv

LEMMA QuietLog == ASSUME LogInv, Quiet PROVE LogInv'
  BY KeepsLog DEF LogInv, TypeInv, Quiet, absVars, cluster, checks, Accused

LEMMA TermLog ==
    ASSUME LogInv, NEW s \in Server, NEW t \in 1..MaxTerm, NewTerm(s, t)
    PROVE  LogInv'
  <1>1. term' \in [Server -> 0..MaxTerm] /\ leads' \in [Server -> BOOLEAN]
    BY Bounds DEF LogInv, TypeInv, NewTerm
  <1>. QED  BY <1>1, KeepsLog DEF LogInv, TypeInv, NewTerm, absVars, checks, Accused

LEMMA LeaderLog ==
    ASSUME LogInv, NEW s \in Server, BecomeLeader(s)
    PROVE  LogInv'
  <1>1. leads' \in [Server -> BOOLEAN] /\ elected' \in [1..MaxTerm -> Server \cup {Nil}]
    BY DEF LogInv, TypeInv, BecomeLeader
  <1>2. faults' \in {faults, faults + 1} /\ faults \in Nat
    BY DEF LogInv, TypeInv, BecomeLeader
  <1>3. faults' \in Nat /\ (faults' = 0 => faults = 0)
    BY <1>2
  <1>. QED  BY <1>1, <1>3, KeepsLog
            DEF LogInv, TypeInv, BecomeLeader, absVars, checks, Accused

LEMMA CrashLog == ASSUME LogInv, NEW s \in Server, Crash1(s) PROVE LogInv'
  <1>1. leads' \in [Server -> BOOLEAN]
    BY DEF LogInv, TypeInv, Crash1
  <1>. QED  BY <1>1, KeepsLog DEF LogInv, TypeInv, Crash1, absVars, checks, Accused

LEMMA FatalLog == ASSUME LogInv, Fatal PROVE LogInv'
  <1>1. Accused /\ Accused' /\ exited' \in BOOLEAN
    BY DEF Fatal, Accused
  <1>. QED  BY <1>1, KeepsLog DEF LogInv, TypeInv, Fatal, absVars, cluster

LEMMA SubmitLog == ASSUME LogInv, CountInv, Submit PROVE LogInv'
  <1>1. started' \subseteq [index : Index, term : Nat, command : Command]
    <2>1. cmd \in Command /\ \A s \in Server : term[s] \in Nat
      BY Bounds DEF CountInv, Submit, LogInv, TypeInv
    <2>2. (starts + 1) % N \in Server
      <3>1. starts \in Nat /\ N \in Nat \ {0}
        BY NFacts DEF CountInv, Submit
      <3>2. (starts + 1) % N \in 0..(N - 1)
        BY <3>1
      <3>. QED  BY <3>2, NFacts
    <2>3. CASE started' = started
      BY <2>3 DEF LogInv, TypeInv
    <2>4. ASSUME NEW i \in Free(term[(starts + 1) % N]),
                 leads[(starts + 1) % N],
                 started' = started \cup
                    {[index |-> i, term |-> term[(starts + 1) % N], command |-> cmd]}
          PROVE  started' \subseteq [index : Index, term : Nat, command : Command]
      <3>1. i \in Index
        BY <2>4 DEF Free
      <3>2. term[(starts + 1) % N] \in Nat
        BY <2>1, <2>2
      <3>. QED  BY <2>1, <2>4, <3>1, <3>2 DEF LogInv, TypeInv
    <2>. QED  BY <2>3, <2>4 DEF Submit, absVars
  <1>2. UNCHANGED <<chosen, delivered, cluster, checks>>
    BY DEF Submit, absVars
  <1>. QED  BY <1>1, <1>2, KeepsLog DEF LogInv, TypeInv, cluster, checks, Accused

\* What Apply does to the log: the server has delivered entry i of it afterwards.
LEMMA ApplyFacts ==
    ASSUME LogInv, NEW s \in Server, NEW n \in DOMAIN upto[s], Apply(s, n)
    PROVE  /\ upto[s][n] \in Nat /\ upto[s][n] + 1 \in Index
           /\ chosen' \in Seq(LogEntry) /\ Len(chosen') <= MaxIndex
           /\ Len(chosen) \in Nat /\ Len(chosen') \in Nat /\ Len(chosen) <= Len(chosen')
           /\ \A k \in 1..Len(chosen) : chosen'[k] = chosen[k]
           /\ delivered' \in [Server -> Seq(LogEntry)]
           /\ \A t \in Server : /\ Len(delivered[t]) <= Len(delivered'[t])
                                /\ Len(delivered'[t]) <= Len(chosen')
                                /\ \A k \in 1..Len(delivered'[t]) :
                                      delivered'[t][k] = chosen'[k]
           /\ upto[s][n] + 1 <= Len(delivered'[s])
           /\ started' = started
           /\ Send(s, n, upto[s][n] + 1, chosen'[upto[s][n] + 1].command)
  <1>. TypeInv /\ DeliveredInv
    BY DEF LogInv
  <1>. DEFINE i == upto[s][n] + 1
              d == Len(delivered[s])
              k == Len(chosen)
  <1>1. /\ upto[s][n] \in Nat /\ upto[s][n] <= d /\ d \in Nat /\ k \in Nat /\ d <= k
        /\ k <= MaxIndex
    <2>1. upto[s] \in Seq(Nat) /\ delivered[s] \in Seq(LogEntry) /\ chosen \in Seq(LogEntry)
      BY DEF TypeInv
    <2>2. upto[s][n] \in Nat
      BY <2>1, ElementOfSeq, LenProperties
    <2>. QED  BY <2>1, <2>2, LenProperties DEF TypeInv, DeliveredInv
  <1>2. /\ delivered \in [Server -> Seq(LogEntry)] /\ chosen \in Seq(LogEntry)
        /\ delivered[s] \in Seq(LogEntry)
    BY DEF TypeInv
  <1>3. \A t \in Server : /\ Len(delivered[t]) \in Nat /\ Len(delivered[t]) <= k
                          /\ \A j \in 1..Len(delivered[t]) : delivered[t][j] = chosen[j]
    BY <1>2, LenProperties DEF DeliveredInv
  <1>4. CASE i <= d
    <2>1. UNCHANGED absVars /\ Send(s, n, i, delivered[s][i].command)
      BY <1>4 DEF Apply
    <2>2. i \in 1..d /\ i \in 1..MaxIndex
      BY <1>1, <1>4, Bounds
    <2>3. delivered[s][i] = chosen[i]
      BY <1>3, <2>2
    <2>4. chosen' = chosen /\ delivered' = delivered /\ started' = started
      BY <2>1 DEF absVars
    <2>5. Len(chosen) <= MaxIndex
      BY DEF TypeInv
    <2>. HIDE DEF i, d, k
    <2>6. Send(s, n, i, chosen'[i].command)
      BY <2>1, <2>3, <2>4
    <2>7. i <= Len(delivered'[s])
      BY <2>4, <1>4 DEF d
    <2>8. \A t \in Server : Len(delivered[t]) <= Len(delivered'[t])
      BY <1>3, <2>4
    <2>. QED  BY <1>1, <1>2, <1>3, <2>2, <2>4, <2>5, <2>6, <2>7, <2>8 DEF Index, i, k
  <1>5. CASE ~ (i <= d)
    <2>1. i = d + 1 /\ i >= 1
      BY <1>1, <1>5
    <2>2. PICK entry \in NextEntries(s) :
             /\ delivered' = [delivered EXCEPT ![s] = Append(@, entry)]
             /\ chosen' = IF i > k THEN Append(chosen, entry) ELSE chosen
             /\ started' = started
             /\ Send(s, n, i, entry.command)
      BY <1>5 DEF Apply, Deliver
    <2>3. /\ entry \in LogEntry /\ d + 1 <= MaxIndex
          /\ d < k => entry = chosen[d + 1]
          /\ d >= k => d = k
      BY NextEntry
    <2>4. /\ delivered' \in [Server -> Seq(LogEntry)]
          /\ Len(delivered'[s]) = d + 1
          /\ delivered'[s][d + 1] = entry
          /\ \A j \in 1..d : delivered'[s][j] = delivered[s][j]
          /\ \A t \in Server \ {s} : delivered'[t] = delivered[t]
      <3>1. DOMAIN delivered[s] = 1..d
        BY <1>2, LenProperties
      <3>. QED  BY <1>2, <2>2, <2>3, <3>1, AppendTo
    <2>5. /\ chosen' \in Seq(LogEntry) /\ Len(chosen') \in Nat
          /\ k <= Len(chosen') /\ d + 1 <= Len(chosen') /\ Len(chosen') <= MaxIndex
          /\ \A j \in 1..k : chosen'[j] = chosen[j]
          /\ chosen'[d + 1] = entry
      <3>. HIDE DEF d, k, i
      <3>1. CASE d < k
        <4>1. chosen' = chosen
          BY <1>1, <2>1, <2>2, <3>1
        <4>. QED  BY <1>1, <1>2, <2>3, <3>1, <4>1 DEF k
      <3>2. CASE ~ (d < k)
        <4>1. d = k /\ i > k
          BY <1>1, <2>1, <2>3, <3>2
        <4>2. chosen' = Append(chosen, entry)
          BY <2>2, <4>1
        <4>3. /\ chosen' \in Seq(LogEntry) /\ Len(chosen') = k + 1
              /\ \A j \in 1..k : chosen'[j] = chosen[j]
              /\ chosen'[k + 1] = entry
          BY <1>2, <2>3, <4>2, AppendProperties DEF k
        <4>. QED  BY <1>1, <2>3, <4>1, <4>3
      <3>. QED  BY <3>1, <3>2
    <2>. HIDE DEF d, k, i
    <2>6. \A t \in Server : /\ Len(delivered[t]) <= Len(delivered'[t])
                            /\ Len(delivered'[t]) <= Len(chosen')
                            /\ \A j \in 1..Len(delivered'[t]) :
                                  delivered'[t][j] = chosen'[j]
      <3>1. ASSUME NEW t \in Server, t # s
            PROVE  /\ Len(delivered[t]) <= Len(delivered'[t])
                   /\ Len(delivered'[t]) <= Len(chosen')
                   /\ \A j \in 1..Len(delivered'[t]) : delivered'[t][j] = chosen'[j]
        <4>1. delivered'[t] = delivered[t]
          BY <2>4, <3>1
        <4>2. Len(delivered[t]) \in Nat /\ Len(delivered[t]) <= k
          BY <1>3
        <4>3. 1..Len(delivered[t]) \subseteq 1..k
          BY <1>1, <4>2
        <4>. QED  BY <1>1, <1>3, <2>5, <4>1, <4>2, <4>3
      <3>2. ASSUME NEW j \in 1..(d + 1) PROVE delivered'[s][j] = chosen'[j]
        <4>1. CASE j = d + 1
          BY <2>4, <2>5, <4>1
        <4>2. CASE j # d + 1
          <5>1. j \in 1..d /\ j \in 1..k
            BY <1>1, <4>2
          <5>. QED  BY <1>3, <2>4, <2>5, <5>1 DEF d
        <4>. QED  BY <4>1, <4>2
      <3>3. Len(delivered[s]) <= d + 1
        BY <1>1 DEF d
      <3>. QED  BY <2>4, <2>5, <3>1, <3>2, <3>3
    <2>7. i \in Index /\ i <= Len(delivered'[s])
      BY <2>1, <2>3, <2>4, <1>1, Bounds DEF Index
    <2>8. Send(s, n, i, chosen'[i].command)
      BY <2>1, <2>2, <2>5
    <2>. QED  BY <1>1, <2>2, <2>4, <2>5, <2>6, <2>7, <2>8 DEF i, k
  <1>. QED  BY <1>4, <1>5

\* The channel of an incarnation that a step does not touch, while the log grows and
\* what is stored stays.
LEMMA ChannelKept ==
    ASSUME TypeInv, DeliveredInv, NEW s \in Server, NEW n \in DOMAIN upto[s],
           ChannelInv(s, n), applyCh'[s][n] = applyCh[s][n], upto'[s][n] = upto[s][n],
           \A i \in Index : logs[s][i] # Nil => logs'[s][i] # Nil,
           \A k \in 1..Len(chosen) : chosen'[k] = chosen[k]
    PROVE  ChannelInv(s, n)'
  <1>. DEFINE ch   == applyCh[s][n]
              len  == Len(ch)
              u    == upto[s][n]
              c    == Len(chosen)
  <1>1. /\ ch \in Seq(ApplyMsg) /\ len \in Nat /\ u \in Nat /\ c \in Nat
        /\ u <= c /\ c <= MaxIndex
    <2>1. /\ applyCh[s] \in Seq(Seq(ApplyMsg)) /\ upto[s] \in Seq(Nat)
          /\ chosen \in Seq(LogEntry) /\ delivered[s] \in Seq(LogEntry)
          /\ Len(applyCh[s]) = Len(upto[s])
      BY DEF TypeInv
    <2>2. n \in 1..Len(upto[s])
      BY <2>1, LenProperties
    <2>3. ch \in Seq(ApplyMsg) /\ u \in Nat
      BY <2>1, <2>2, ElementOfSeq
    <2>4. u <= Len(delivered[s]) /\ Len(delivered[s]) <= c
      BY DEF DeliveredInv
    <2>. QED  BY <2>1, <2>3, <2>4, LenProperties DEF TypeInv
  <1>2. /\ u - len >= 0
        /\ \A k \in 1..len :
              ch[k] = [index |-> u - len + k, command |-> chosen[u - len + k].command]
        /\ \A i \in 1..(u - len) : logs[s][i] # Nil
    BY DEF ChannelInv
  <1>. HIDE DEF ch, len, u, c
  <1>3. \A k \in 1..len : u - len + k \in 1..c
    BY <1>1, <1>2
  <1>4. \A i \in 1..(u - len) : i \in Index
    BY <1>1, <1>2, Bounds DEF Index
  <1>5. /\ \A k \in 1..len :
              ch[k] = [index |-> u - len + k, command |-> chosen'[u - len + k].command]
        /\ \A i \in 1..(u - len) : logs'[s][i] # Nil
    BY <1>2, <1>3, <1>4 DEF c
  <1>. QED  BY <1>2, <1>5 DEF ChannelInv, ch, len, u

LEMMA ApplyLog ==
    ASSUME LogInv, NEW s \in Server, NEW n \in DOMAIN upto[s], Apply(s, n)
    PROVE  LogInv'
  <1>. TypeInv /\ DeliveredInv /\ FaultlessInv /\ NoticesDisagreement
    BY DEF LogInv
  <1>. DEFINE u == upto[s][n]
              m == [index |-> u + 1, command |-> chosen'[u + 1].command]
  <1>1. /\ u \in Nat /\ u + 1 \in Index
        /\ chosen' \in Seq(LogEntry) /\ Len(chosen') <= MaxIndex
        /\ Len(chosen) \in Nat /\ Len(chosen') \in Nat /\ Len(chosen) <= Len(chosen')
        /\ \A k \in 1..Len(chosen) : chosen'[k] = chosen[k]
        /\ delivered' \in [Server -> Seq(LogEntry)]
        /\ started' = started
    BY ApplyFacts
  <1>2. /\ \A t \in Server : /\ Len(delivered[t]) <= Len(delivered'[t])
                             /\ Len(delivered'[t]) <= Len(chosen')
                             /\ \A k \in 1..Len(delivered'[t]) :
                                   delivered'[t][k] = chosen'[k]
        /\ u + 1 <= Len(delivered'[s])
    BY ApplyFacts
  <1>3. Send(s, n, u + 1, chosen'[u + 1].command)
    BY ApplyFacts
  <1>4. /\ upto' = [upto EXCEPT ![s][n] = u + 1]
        /\ UNCHANGED <<term, leads, elected, faults, config, logs, failing, exited>>
    BY DEF Apply
  <1>5. m \in ApplyMsg /\ u + 1 \in 1..Len(chosen')
    <2>1. u + 1 \in 1..Len(chosen')
      <3>1. Len(delivered'[s]) \in Nat
        BY <1>1, LenProperties
      <3>2. Len(delivered'[s]) <= Len(chosen')
        BY <1>2
      <3>. QED  BY <1>1, <1>2, <3>1, <3>2
    <2>2. chosen'[u + 1] \in LogEntry
      BY <1>1, <2>1, ElementOfSeq
    <2>. QED  BY <1>1, <2>1, <2>2 DEF ApplyMsg, LogEntry
  <1>6. /\ upto' \in [Server -> Seq(Nat)]
        /\ \A t \in Server : Len(upto'[t]) = Len(upto[t]) /\ DOMAIN upto'[t] = DOMAIN upto[t]
        /\ upto'[s][n] = u + 1
        /\ \A t \in Server : \A p \in DOMAIN upto[t] :
              (t # s \/ p # n) => upto'[t][p] = upto[t][p]
    <2>1. upto \in [Server -> Seq(Nat)] /\ u + 1 \in Nat
      BY <1>1 DEF TypeInv
    <2>. HIDE DEF u
    <2>. QED  BY <1>4, <2>1, UpdateAt
  <1>7. DOMAIN applyCh[s] = DOMAIN upto[s] /\ applyCh[s][n] \in Seq(ApplyMsg)
    <2>1. /\ applyCh[s] \in Seq(Seq(ApplyMsg)) /\ upto[s] \in Seq(Nat)
          /\ Len(applyCh[s]) = Len(upto[s])
      BY DEF TypeInv
    <2>2. DOMAIN applyCh[s] = 1..Len(applyCh[s]) /\ DOMAIN upto[s] = 1..Len(upto[s])
      BY <2>1, LenProperties
    <2>. QED  BY <2>1, <2>2, ElementOfSeq
  <1>8. Append(applyCh[s][n], m) \in Seq(ApplyMsg)
    BY <1>5, <1>7, AppendProperties
  <1>9. /\ applyCh' \in [Server -> Seq(Seq(ApplyMsg))]
        /\ \A t \in Server : Len(applyCh'[t]) = Len(applyCh[t])
        /\ applyCh'[s][n] = Append(applyCh[s][n], m)
        /\ \A t \in Server : \A p \in DOMAIN applyCh[t] :
              (t # s \/ p # n) => applyCh'[t][p] = applyCh[t][p]
    <2>1. applyCh' = [applyCh EXCEPT ![s][n] = Append(applyCh[s][n], m)]
      BY <1>3 DEF Send
    <2>2. applyCh \in [Server -> Seq(Seq(ApplyMsg))]
      BY DEF TypeInv
    <2>. HIDE DEF m, u
    <2>. QED  BY <1>7, <1>8, <2>1, <2>2, UpdateAt
  <1>. HIDE DEF m, u
  <1>10. TypeInv'
    BY <1>1, <1>4, <1>6, <1>9 DEF TypeInv
  <1>11. DeliveredInv'
    <2>1. ASSUME NEW t \in Server, NEW p \in DOMAIN upto[t]
          PROVE  upto'[t][p] <= Len(delivered'[t])
      <3>1. CASE t = s /\ p = n
        BY <1>2, <1>6, <3>1
      <3>2. CASE t # s \/ p # n
        <4>1. upto'[t][p] = upto[t][p] /\ upto[t][p] <= Len(delivered[t])
          BY <1>6, <3>2 DEF DeliveredInv
        <4>2. upto[t][p] \in Nat /\ Len(delivered[t]) \in Nat /\ Len(delivered'[t]) \in Nat
          <5>1. upto[t] \in Seq(Nat) /\ delivered[t] \in Seq(LogEntry)
                /\ delivered'[t] \in Seq(LogEntry)
            BY <1>1 DEF TypeInv
          <5>. QED  BY <5>1, ElementOfSeq, LenProperties
        <4>. QED  BY <1>2, <4>1, <4>2
      <3>. QED  BY <3>1, <3>2
    <2>. QED  BY <1>2, <1>6, <2>1 DEF DeliveredInv
  <1>12. NoticesDisagreement'
    BY <1>4 DEF NoticesDisagreement, Accused
  <1>13. FaultlessInv'
    <2>. SUFFICES ASSUME faults = 0
                  PROVE  /\ \A t \in Server : \A p \in DOMAIN upto[t] : ChannelInv(t, p)'
                         /\ \A t \in Server, i \in Index : logs[t][i] # Nil =>
                               i <= Len(chosen') /\ logs[t][i] = chosen'[i].command
      BY <1>4, <1>6 DEF FaultlessInv, Accused
    <2>1. ASSUME NEW t \in Server, NEW i \in Index, logs[t][i] # Nil
          PROVE  i <= Len(chosen') /\ logs[t][i] = chosen'[i].command
      <3>1. i <= Len(chosen) /\ logs[t][i] = chosen[i].command
        BY <2>1 DEF FaultlessInv
      <3>2. i \in 1..Len(chosen) /\ i <= Len(chosen')
        BY <1>1, <3>1, Bounds DEF Index
      <3>. QED  BY <1>1, <3>1, <3>2
    <2>2. ASSUME NEW t \in Server, NEW p \in DOMAIN upto[t], t # s \/ p # n
          PROVE  ChannelInv(t, p)'
      <3>1. DOMAIN applyCh[t] = DOMAIN upto[t]
        <4>1. /\ applyCh[t] \in Seq(Seq(ApplyMsg)) /\ upto[t] \in Seq(Nat)
              /\ Len(applyCh[t]) = Len(upto[t])
          BY DEF TypeInv
        <4>. QED  BY <4>1, LenProperties
      <3>2. ChannelInv(t, p) /\ applyCh'[t][p] = applyCh[t][p] /\ upto'[t][p] = upto[t][p]
        BY <1>6, <1>9, <2>2, <3>1 DEF FaultlessInv
      <3>. QED  BY <1>1, <1>4, <3>2, ChannelKept
    <2>3. ChannelInv(s, n)'
      <3>. DEFINE ch == applyCh[s][n]
                  len == Len(ch)
      <3>1. /\ u - len >= 0 /\ len \in Nat
            /\ \A k \in 1..len :
                  ch[k] = [index |-> u - len + k, command |-> chosen[u - len + k].command]
            /\ \A i \in 1..(u - len) : logs[s][i] # Nil
        BY <1>7, LenProperties DEF FaultlessInv, ChannelInv, u
      <3>2. /\ Len(Append(ch, m)) = len + 1
            /\ \A k \in 1..len : Append(ch, m)[k] = ch[k]
            /\ Append(ch, m)[len + 1] = m
        BY <1>5, <1>7, AppendProperties
      <3>3. u <= Len(chosen)
        <4>1. u <= Len(delivered[s]) /\ Len(delivered[s]) <= Len(chosen)
          BY DEF DeliveredInv, u
        <4>2. Len(delivered[s]) \in Nat
          BY LenProperties DEF TypeInv
        <4>. QED  BY <1>1, <4>1, <4>2
      <3>. HIDE DEF ch, len
      <3>4. /\ u + 1 - (len + 1) = u - len
            /\ u - len + (len + 1) = u + 1
            /\ \A k \in 1..len : u - len + k \in 1..Len(chosen)
        BY <1>1, <3>1, <3>3
      <3>5. \A k \in 1..(len + 1) : k \in 1..len \/ k = len + 1
        BY <3>1
      <3>6. \A k \in 1..(len + 1) : Append(ch, m)[k] =
               [index |-> u - len + k, command |-> chosen'[u - len + k].command]
        <4>1. \A k \in 1..len : Append(ch, m)[k] =
                 [index |-> u - len + k, command |-> chosen'[u - len + k].command]
          BY <1>1, <3>1, <3>2, <3>4
        <4>2. Append(ch, m)[len + 1] =
                 [index |-> u - len + (len + 1), command |-> chosen'[u - len + (len + 1)].command]
          BY <3>2, <3>4 DEF m
        <4>. QED  BY <3>5, <4>1, <4>2
      <3>7. applyCh'[s][n] = Append(ch, m) /\ upto'[s][n] = u + 1 /\ logs' = logs
        BY <1>4, <1>6, <1>9 DEF ch
      <3>8. Len(applyCh'[s][n]) = len + 1
        BY <3>2, <3>7
      <3>9. upto'[s][n] - Len(applyCh'[s][n]) = u - len
        <4>. DEFINE new == upto'[s][n]
                    more == Len(applyCh'[s][n])
        <4>1. new = u + 1 /\ more = len + 1 /\ u \in Nat /\ len \in Nat
          BY <1>1, <3>1, <3>7, <3>8
        <4>. HIDE DEF new, more
        <4>2. new - more = u - len
          BY <4>1
        <4>. QED  BY <4>2 DEF new, more
      <3>. QED  BY <3>1, <3>6, <3>7, <3>8, <3>9 DEF ChannelInv
    <2>. QED  BY <2>1, <2>2, <2>3
  <1>. QED  BY <1>10, <1>11, <1>12, <1>13 DEF LogInv


\* What Applier takes from its channel.
LEMMA ApplierQueue ==
    ASSUME TypeInv, NEW s \in Server, NEW n \in DOMAIN upto[s], Applier(s, n)
    PROVE  /\ applyCh[s][n] \in Seq(ApplyMsg) /\ applyCh[s][n] # <<>>
           /\ applyCh' \in [Server -> Seq(Seq(ApplyMsg))]
           /\ \A t \in Server : Len(applyCh'[t]) = Len(applyCh[t])
           /\ applyCh'[s][n] = Tail(applyCh[s][n])
           /\ \A t \in Server : \A p \in DOMAIN upto[t] :
                 (t # s \/ p # n) => applyCh'[t][p] = applyCh[t][p]
  <1>1. \A t \in Server : DOMAIN applyCh[t] = DOMAIN upto[t]
    <2>. SUFFICES ASSUME NEW t \in Server PROVE DOMAIN applyCh[t] = DOMAIN upto[t]
      OBVIOUS
    <2>1. /\ applyCh[t] \in Seq(Seq(ApplyMsg)) /\ upto[t] \in Seq(Nat)
          /\ Len(applyCh[t]) = Len(upto[t])
      BY DEF TypeInv
    <2>. QED  BY <2>1, LenProperties
  <1>2. applyCh[s][n] \in Seq(ApplyMsg) /\ applyCh[s][n] # <<>>
    <2>1. applyCh[s] \in Seq(Seq(ApplyMsg)) /\ n \in 1..Len(applyCh[s])
      BY <1>1, LenProperties DEF TypeInv
    <2>. QED  BY <2>1, ElementOfSeq DEF Applier
  <1>3. /\ applyCh' = [applyCh EXCEPT ![s][n] = Tail(applyCh[s][n])]
        /\ applyCh \in [Server -> Seq(Seq(ApplyMsg))]
        /\ Tail(applyCh[s][n]) \in Seq(ApplyMsg)
    BY <1>2, HeadTailProperties DEF Applier, TypeInv
  <1>. QED  BY <1>1, <1>2, <1>3, UpdateAt

\* What Applier reads and stores.
LEMMA ApplierFacts ==
    ASSUME TypeInv, NEW s \in Server, NEW n \in DOMAIN upto[s], Applier(s, n),
           NEW ch, ch = applyCh[s][n], NEW m, m = Head(ch)
    PROVE  /\ Len(ch) \in Nat /\ Len(ch) >= 1
           /\ m = ch[1] /\ m \in ApplyMsg
           /\ Len(Tail(ch)) = Len(ch) - 1
           /\ \A k \in 1..(Len(ch) - 1) : Tail(ch)[k] = ch[k + 1]
           /\ logs' \in [Server -> [Index -> Command \cup {Nil}]]
           /\ logs'[s][m.index] = m.command
           /\ \A t \in Server, i \in Index :
                 (t # s \/ i # m.index) => logs'[t][i] = logs[t][i]
  <1>1. ch \in Seq(ApplyMsg) /\ ch # <<>>
    BY ApplierQueue
  <1>2. /\ Len(ch) \in Nat /\ Len(ch) >= 1 /\ m = ch[1] /\ m \in ApplyMsg
    <2>1. Len(ch) \in Nat /\ Len(ch) # 0
      BY <1>1, LenProperties, EmptySeq
    <2>2. m = ch[1] /\ m \in ApplyMsg
      BY <1>1, HeadTailProperties
    <2>. QED  BY <2>1, <2>2
  <1>3. /\ Len(Tail(ch)) = Len(ch) - 1
        /\ \A k \in 1..(Len(ch) - 1) : Tail(ch)[k] = ch[k + 1]
    BY <1>1, HeadTailProperties
  <1>4. m.index \in Index /\ m.command \in Command
    BY <1>2 DEF ApplyMsg
  <1>5. logs' = [logs EXCEPT ![s][m.index] = m.command]
    BY DEF Applier
  <1>6. /\ logs' \in [Server -> [Index -> Command \cup {Nil}]]
        /\ logs'[s][m.index] = m.command
        /\ \A t \in Server, i \in Index :
              (t # s \/ i # m.index) => logs'[t][i] = logs[t][i]
    BY <1>4, <1>5 DEF TypeInv
  <1>. QED  BY <1>2, <1>3, <1>6

\* An applier that finds a different command, or a gap, is about to end the test; one
\* that finds neither stores a command that leaves the servers in agreement.
LEMMA ApplierNotices ==
    ASSUME LogInv, NEW s \in Server, NEW n \in DOMAIN upto[s], Applier(s, n)
    PROVE  NoticesDisagreement'
  <1>. TypeInv /\ DeliveredInv /\ NoticesDisagreement
    BY DEF LogInv
  <1>. DEFINE ch == applyCh[s][n]
              m  == Head(ch)
  <1>1. /\ m \in ApplyMsg /\ logs'[s][m.index] = m.command
        /\ \A t \in Server, i \in Index :
              (t # s \/ i # m.index) => logs'[t][i] = logs[t][i]
    BY ApplierFacts
  <1>2. m.index \in Index /\ m.command \in Command /\ m.command # Nil
    BY <1>1, TesterAssumption DEF ApplyMsg
  <1>3. CASE Disagrees(s, m) \/ ~ (m.index > 1 => logs[s][m.index - 1] # Nil)
    BY <1>3 DEF Applier, NoticesDisagreement, Accused
  <1>4. CASE ~ Disagrees(s, m) /\ (m.index > 1 => logs[s][m.index - 1] # Nil)
    <2>1. failing' = failing /\ exited' = exited
      BY <1>4 DEF Applier
    <2>2. \A t \in Server : logs[t][m.index] \in {Nil, m.command}
      BY <1>4 DEF Disagrees
    <2>. HIDE DEF m
    <2>. SUFFICES ASSUME ~ Accused, NEW i \in Index
                  PROVE  /\ \A a, b \in Server : Nil \in {logs'[a][i], logs'[b][i]}
                                                 \/ logs'[a][i] = logs'[b][i]
                         /\ i > 1 => \A a \in Server : logs'[a][i] # Nil =>
                                                       logs'[a][i - 1] # Nil
      BY <2>1 DEF NoticesDisagreement, Accused
    <2>3. /\ \A a, b \in Server : Nil \in {logs[a][i], logs[b][i]} \/ logs[a][i] = logs[b][i]
          /\ i > 1 => \A a \in Server : logs[a][i] # Nil => logs[a][i - 1] # Nil
      BY DEF NoticesDisagreement
    <2>4. ASSUME NEW a \in Server, NEW b \in Server
          PROVE  Nil \in {logs'[a][i], logs'[b][i]} \/ logs'[a][i] = logs'[b][i]
      <3>1. CASE i = m.index
        <4>1. \A t \in Server : logs'[t][i] \in {Nil, m.command}
          BY <1>1, <2>2, <3>1
        <4>. QED  BY <4>1
      <3>2. CASE i # m.index
        BY <1>1, <2>3, <3>2
      <3>. QED  BY <3>1, <3>2
    <2>5. ASSUME i > 1, NEW a \in Server, logs'[a][i] # Nil
          PROVE  logs'[a][i - 1] # Nil
      <3>1. i - 1 \in Index /\ i - 1 # i
        BY <2>5, Bounds DEF Index
      <3>2. CASE a = s /\ i = m.index
        <4>1. logs[s][i - 1] # Nil /\ logs'[s][i - 1] = logs[s][i - 1]
          BY <1>1, <1>4, <2>5, <3>1, <3>2
        <4>. QED  BY <3>2, <4>1
      <3>3. CASE a # s \/ i # m.index
        <4>1. logs[a][i - 1] # Nil
          BY <1>1, <2>3, <2>5, <3>3
        <4>2. logs'[a][i - 1] = logs[a][i - 1]
              \/ (a = s /\ i - 1 = m.index /\ logs'[a][i - 1] = m.command)
          BY <1>1, <3>1
        <4>. QED  BY <1>2, <4>1, <4>2
      <3>. QED  BY <3>2, <3>3
    <2>. QED  BY <2>4, <2>5
  <1>. QED  BY <1>3, <1>4

LEMMA ApplierLog ==
    ASSUME LogInv, NEW s \in Server, NEW n \in DOMAIN upto[s], Applier(s, n)
    PROVE  LogInv'
  <1>. TypeInv /\ DeliveredInv /\ FaultlessInv /\ NoticesDisagreement
    BY DEF LogInv
  <1>. DEFINE ch   == applyCh[s][n]
              m    == Head(ch)
              len  == Len(ch)
              u    == upto[s][n]
              read == u - len
  <1>1. /\ len \in Nat /\ len >= 1 /\ m = ch[1] /\ m \in ApplyMsg
        /\ Len(Tail(ch)) = len - 1
        /\ \A k \in 1..(len - 1) : Tail(ch)[k] = ch[k + 1]
        /\ applyCh' \in [Server -> Seq(Seq(ApplyMsg))]
        /\ \A t \in Server : Len(applyCh'[t]) = Len(applyCh[t])
        /\ applyCh'[s][n] = Tail(ch)
        /\ \A t \in Server : \A p \in DOMAIN upto[t] :
              (t # s \/ p # n) => applyCh'[t][p] = applyCh[t][p]
    <2>1. /\ len \in Nat /\ len >= 1 /\ m = ch[1] /\ m \in ApplyMsg
          /\ Len(Tail(ch)) = len - 1
          /\ \A k \in 1..(len - 1) : Tail(ch)[k] = ch[k + 1]
      BY ApplierFacts
    <2>. QED  BY <2>1, ApplierQueue
  <1>2. /\ logs' \in [Server -> [Index -> Command \cup {Nil}]]
        /\ logs'[s][m.index] = m.command
        /\ \A t \in Server, i \in Index :
              (t # s \/ i # m.index) => logs'[t][i] = logs[t][i]
    BY ApplierFacts
  <1>3. m.index \in Index /\ m.command \in Command /\ m.command # Nil
    BY <1>1, TesterAssumption DEF ApplyMsg
  <1>4. UNCHANGED <<started, chosen, delivered, term, leads, elected, upto, faults, exited>>
    BY DEF Applier, absVars, cluster
  <1>5. TypeInv'
    BY <1>1, <1>2, <1>4 DEF TypeInv
  <1>6. DeliveredInv'
    BY <1>4 DEF DeliveredInv
  <1>7. NoticesDisagreement'
    BY ApplierNotices
  <1>8. ASSUME faults = 0
        PROVE  /\ ~ Accused'
               /\ \A t \in Server : \A p \in DOMAIN upto[t] : ChannelInv(t, p)'
               /\ \A t \in Server, i \in Index : logs'[t][i] # Nil =>
                     i <= Len(chosen) /\ logs'[t][i] = chosen[i].command
    <2>1. /\ ~ Accused /\ \A t \in Server : \A p \in DOMAIN upto[t] : ChannelInv(t, p)
          /\ \A t \in Server, i \in Index : logs[t][i] # Nil =>
                i <= Len(chosen) /\ logs[t][i] = chosen[i].command
      BY <1>8 DEF FaultlessInv
    <2>2. /\ read >= 0
          /\ \A k \in 1..len :
                ch[k] = [index |-> read + k, command |-> chosen[read + k].command]
          /\ \A i \in 1..read : logs[s][i] # Nil
      BY <2>1 DEF ChannelInv
    <2>3. u \in Nat /\ u <= Len(chosen) /\ Len(chosen) \in Nat
      <3>1. upto[s] \in Seq(Nat) /\ delivered[s] \in Seq(LogEntry) /\ chosen \in Seq(LogEntry)
        BY DEF TypeInv
      <3>2. upto[s][n] \in Nat /\ Len(delivered[s]) \in Nat /\ Len(chosen) \in Nat
        BY <3>1, ElementOfSeq, LenProperties
      <3>3. u <= Len(delivered[s]) /\ Len(delivered[s]) <= Len(chosen)
        BY DEF DeliveredInv
      <3>. QED  BY <3>2, <3>3
    <2>. HIDE DEF m, ch, len, u
    <2>4. /\ read \in Nat /\ read + 1 <= Len(chosen) /\ 1 \in 1..len
          /\ u - (len - 1) = read + 1
      BY <1>1, <2>2, <2>3
    <2>5. m.index = read + 1 /\ m.command = chosen[read + 1].command
      <3>1. m = [index |-> read + 1, command |-> chosen[read + 1].command]
        BY <1>1, <2>2, <2>4
      <3>. QED  BY <3>1
    <2>. HIDE DEF read
    <2>6. ~ Disagrees(s, m)
      <3>. SUFFICES ASSUME NEW j \in Server, logs[j][m.index] # Nil
                    PROVE  logs[j][m.index] = m.command
        BY DEF Disagrees
      <3>. QED  BY <1>3, <2>1, <2>5
    <2>7. m.index > 1 => logs[s][m.index - 1] # Nil
      <3>. SUFFICES ASSUME m.index > 1 PROVE logs[s][m.index - 1] # Nil
        OBVIOUS
      <3>1. m.index - 1 = read /\ read \in 1..read
        BY <2>4, <2>5
      <3>. QED  BY <2>2, <3>1
    <2>8. ~ Accused'
      BY <1>4, <2>1, <2>6, <2>7 DEF Applier, Accused, m, ch
    <2>9. ASSUME NEW t \in Server, NEW i \in Index, logs'[t][i] # Nil
          PROVE  i <= Len(chosen) /\ logs'[t][i] = chosen[i].command
      <3>1. CASE t = s /\ i = m.index
        BY <1>2, <2>4, <2>5, <3>1
      <3>2. CASE t # s \/ i # m.index
        BY <1>2, <2>1, <2>9, <3>2
      <3>. QED  BY <3>1, <3>2
    <2>10. \A t \in Server, i \in Index : logs[t][i] # Nil => logs'[t][i] # Nil
      BY <1>2, <1>3
    <2>11. ASSUME NEW t \in Server, NEW p \in DOMAIN upto[t], t # s \/ p # n
           PROVE  ChannelInv(t, p)'
      <3>1. ChannelInv(t, p) /\ applyCh'[t][p] = applyCh[t][p] /\ upto'[t][p] = upto[t][p]
        BY <1>1, <1>4, <2>1, <2>11
      <3>. QED  BY <1>4, <2>10, <3>1, ChannelKept
    <2>12. ChannelInv(s, n)'
      <3>1. upto'[s][n] - Len(applyCh'[s][n]) = read + 1 /\ Len(applyCh'[s][n]) = len - 1
        BY <1>1, <1>4, <2>4 DEF u
      <3>2. ASSUME NEW k \in 1..(len - 1)
            PROVE  applyCh'[s][n][k] = [index |-> (read + 1) + k,
                                        command |-> chosen[(read + 1) + k].command]
        <4>1. k + 1 \in 1..len /\ (read + 1) + k = read + (k + 1)
          BY <1>1, <2>4
        <4>. QED  BY <1>1, <2>2, <4>1
      <3>3. ASSUME NEW i \in 1..(read + 1) PROVE logs'[s][i] # Nil
        <4>1. i \in 1..read \/ i = m.index
          BY <2>4, <2>5
        <4>2. i \in Index
          BY <2>4, <2>5, <1>3, Bounds DEF Index
        <4>. QED  BY <1>2, <1>3, <2>2, <2>10, <4>1, <4>2
      <3>4. read + 1 >= 0
        BY <2>4
      <3>. QED  BY <1>4, <3>1, <3>2, <3>3, <3>4 DEF ChannelInv
    <2>. QED  BY <2>8, <2>9, <2>11, <2>12
  <1>9. FaultlessInv'
    BY <1>4, <1>8 DEF FaultlessInv
  <1>. QED  BY <1>5, <1>6, <1>7, <1>9 DEF LogInv


LEMMA MisdeliverLog ==
    ASSUME LogInv, NEW s \in Server, NEW n \in DOMAIN upto[s],
           NEW i \in Index, NEW c \in Command, Misdeliver(s, n, i, c)
    PROVE  LogInv'
  <1>. TypeInv /\ DeliveredInv /\ NoticesDisagreement
    BY DEF LogInv
  <1>. DEFINE m == [index |-> i, command |-> c]
  <1>1. UNCHANGED <<started, chosen, delivered, term, leads, elected, upto, logs, failing,
                    exited>>
    BY DEF Misdeliver, absVars
  <1>2. faults' \in Nat /\ faults' # 0
    BY DEF Misdeliver, TypeInv
  <1>3. n \in DOMAIN applyCh[s] /\ Append(applyCh[s][n], m) \in Seq(ApplyMsg)
    <2>1. /\ applyCh[s] \in Seq(Seq(ApplyMsg)) /\ upto[s] \in Seq(Nat)
          /\ Len(applyCh[s]) = Len(upto[s])
      BY DEF TypeInv
    <2>2. n \in 1..Len(applyCh[s]) /\ DOMAIN applyCh[s] = 1..Len(applyCh[s])
      BY <2>1, LenProperties
    <2>3. applyCh[s][n] \in Seq(ApplyMsg) /\ m \in ApplyMsg
      BY <2>1, <2>2, ElementOfSeq DEF ApplyMsg
    <2>. QED  BY <2>2, <2>3, AppendProperties
  <1>4. applyCh' = [applyCh EXCEPT ![s][n] = Append(applyCh[s][n], m)]
    BY DEF Misdeliver, Send
  <1>. HIDE DEF m
  <1>5. /\ applyCh' \in [Server -> Seq(Seq(ApplyMsg))]
        /\ \A t \in Server : Len(applyCh'[t]) = Len(applyCh[t])
    <2>1. applyCh \in [Server -> Seq(Seq(ApplyMsg))]
      BY DEF TypeInv
    <2>. QED  BY <1>3, <1>4, <2>1, UpdateAt
  <1>6. TypeInv'
    BY <1>1, <1>2, <1>5 DEF TypeInv
  <1>7. DeliveredInv'
    BY <1>1 DEF DeliveredInv
  <1>8. NoticesDisagreement'
    BY <1>1 DEF NoticesDisagreement, Accused
  <1>. QED  BY <1>2, <1>6, <1>7, <1>8 DEF LogInv, FaultlessInv

\* A new incarnation has delivered nothing, and its applier has nothing to read.
LEMMA StartLog ==
    ASSUME LogInv, NEW s \in Server, Start1(s)
    PROVE  LogInv'
  <1>. TypeInv /\ DeliveredInv /\ FaultlessInv /\ NoticesDisagreement
    BY DEF LogInv
  <1>. DEFINE new == Len(upto[s]) + 1
  <1>1. UNCHANGED <<started, chosen, delivered, term, leads, elected, faults, logs, failing,
                    exited>>
    BY DEF Start1, absVars
  <1>2. /\ upto' \in [Server -> Seq(Nat)]
        /\ Len(upto'[s]) = new
        /\ DOMAIN upto'[s] = DOMAIN upto[s] \cup {new}
        /\ upto'[s][new] = 0
        /\ \A p \in DOMAIN upto[s] : upto'[s][p] = upto[s][p] /\ p # new
        /\ \A t \in Server \ {s} : upto'[t] = upto[t]
    <2>1. upto \in [Server -> Seq(Nat)] /\ upto' = [upto EXCEPT ![s] = Append(@, 0)]
      BY DEF TypeInv, Start1
    <2>. QED  BY <2>1, AppendTo
  <1>3. /\ applyCh' \in [Server -> Seq(Seq(ApplyMsg))]
        /\ Len(applyCh'[s]) = Len(applyCh[s]) + 1
        /\ applyCh'[s][Len(applyCh[s]) + 1] = <<>>
        /\ \A p \in DOMAIN applyCh[s] : applyCh'[s][p] = applyCh[s][p]
        /\ \A t \in Server \ {s} : applyCh'[t] = applyCh[t]
    <2>1. /\ applyCh \in [Server -> Seq(Seq(ApplyMsg))]
          /\ applyCh' = [applyCh EXCEPT ![s] = Append(@, <<>>)]
      BY DEF TypeInv, Start1
    <2>2. <<>> \in Seq(ApplyMsg)
      BY EmptySeq
    <2>. QED  BY <2>1, <2>2, AppendTo
  <1>4. Len(applyCh[s]) = Len(upto[s]) /\ DOMAIN applyCh[s] = DOMAIN upto[s]
    <2>1. /\ applyCh[s] \in Seq(Seq(ApplyMsg)) /\ upto[s] \in Seq(Nat)
          /\ Len(applyCh[s]) = Len(upto[s])
      BY DEF TypeInv
    <2>. QED  BY <2>1, LenProperties
  <1>. HIDE DEF new
  <1>5. Len(applyCh'[s]) = new /\ applyCh'[s][new] = <<>>
    BY <1>3, <1>4 DEF new
  <1>6. TypeInv'
    BY <1>1, <1>2, <1>3, <1>5 DEF TypeInv
  <1>7. ASSUME NEW t \in Server, NEW p \in DOMAIN upto'[t]
        PROVE  \/ t = s /\ p = new
               \/ /\ p \in DOMAIN upto[t] /\ upto'[t][p] = upto[t][p]
                  /\ applyCh'[t][p] = applyCh[t][p]
    BY <1>2, <1>3, <1>4
  <1>8. DeliveredInv'
    <2>1. ASSUME NEW t \in Server, NEW p \in DOMAIN upto'[t]
          PROVE  upto'[t][p] <= Len(delivered[t])
      <3>1. Len(delivered[t]) \in Nat
        BY LenProperties DEF TypeInv
      <3>2. CASE t = s /\ p = new
        BY <1>2, <3>1, <3>2
      <3>3. CASE p \in DOMAIN upto[t] /\ upto'[t][p] = upto[t][p]
        BY <3>3 DEF DeliveredInv
      <3>. QED  BY <1>7, <3>2, <3>3
    <2>. QED  BY <1>1, <2>1 DEF DeliveredInv
  <1>9. NoticesDisagreement'
    BY <1>1 DEF NoticesDisagreement, Accused
  <1>10. FaultlessInv'
    <2>. SUFFICES ASSUME faults = 0, NEW t \in Server, NEW p \in DOMAIN upto'[t]
                  PROVE  ChannelInv(t, p)'
      BY <1>1 DEF FaultlessInv, Accused
    <2>1. CASE t = s /\ p = new
      <3>1. /\ applyCh'[t][p] = <<>> /\ upto'[t][p] = 0 /\ Len(<<>>) = 0
            /\ 0 - 0 = 0 /\ 1..0 = {}
        BY <1>2, <1>5, <2>1, EmptySeq
      <3>. QED  BY <3>1 DEF ChannelInv
    <2>2. CASE /\ p \in DOMAIN upto[t] /\ upto'[t][p] = upto[t][p]
               /\ applyCh'[t][p] = applyCh[t][p]
      <3>1. ChannelInv(t, p)
        BY <2>2 DEF FaultlessInv
      <3>. QED  BY <1>1, <2>2, <3>1 DEF ChannelInv
    <2>. QED  BY <1>7, <2>1, <2>2
  <1>. QED  BY <1>6, <1>8, <1>9, <1>10 DEF LogInv

LEMMA LogStep ==
    ASSUME LogInv, CountInv, TesterNext
    PROVE  LogInv'
  <1>1. CASE Servers
    <2>. PICK s \in Server :
           \/ \E t \in 1..MaxTerm : NewTerm(s, t)
           \/ BecomeLeader(s)
           \/ \E n \in DOMAIN upto[s] : Apply(s, n) \/ Applier(s, n)
           \/ \E n \in DOMAIN upto[s], i \in Index, c \in Command : Misdeliver(s, n, i, c)
      BY <1>1 DEF Servers
    <2>. QED  BY TermLog, LeaderLog, ApplyLog, ApplierLog, MisdeliverLog
  <1>2. CASE Fatal
    BY <1>2, FatalLog
  <1>3. CASE Test
    BY <1>3, TestCases, ReadsAreQuiet, ConnectionIsQuiet, QuietLog, SubmitLog, CrashLog,
       StartLog
  <1>. QED  BY <1>1, <1>2, <1>3 DEF TesterNext


-----------------------------------------------------------------------------
(* Leaders. *)

\* Steps that make no leader, and ask none.
LEMMA LeaderKept ==
    ASSUME LeaderInv, elected' = elected, faults' = 0 => faults = 0,
           \A s \in Server : leads'[s] => leads[s] /\ term'[s] = term[s],
           seen' \subseteq seen
    PROVE  LeaderInv'
  <1>1. ASSUME NEW s \in Server, leads'[s]
        PROVE  term'[s] \in 1..MaxTerm /\ (faults' = 0 => elected'[term'[s]] = s)
    BY <1>1 DEF LeaderInv
  <1>2. ASSUME NEW x \in seen', x.leads
        PROVE  /\ x.server \in Server /\ x.term \in 1..MaxTerm
               /\ faults' = 0 => elected'[x.term] = x.server
    BY <1>2 DEF LeaderInv
  <1>. QED  BY <1>1, <1>2 DEF LeaderInv

\* Whoever is elected second in a term breaks a promise; the first is on record.
LEMMA ElectedStep ==
    ASSUME LogInv, LeaderInv, NEW s \in Server, BecomeLeader(s)
    PROVE  LeaderInv'
  <1>. DEFINE T == term[s]
  <1>1. /\ T \in 1..MaxTerm /\ elected \in [1..MaxTerm -> Server \cup {Nil}]
        /\ leads \in [Server -> BOOLEAN] /\ faults \in Nat
    BY Bounds DEF LogInv, TypeInv, BecomeLeader
  <1>2. /\ term' = term /\ seen' = seen
        /\ elected' = [elected EXCEPT ![T] = s]
        /\ leads' = [leads EXCEPT ![s] = TRUE]
    BY DEF BecomeLeader, test, loops
  <1>. HIDE DEF T
  <1>3. faults' = 0 => faults = 0 /\ elected[T] = Nil
    BY <1>1 DEF BecomeLeader, T
  <1>4. elected'[T] = s /\ \A t \in 1..MaxTerm : t # T => elected'[t] = elected[t]
    BY <1>1, <1>2
  <1>5. Nil \notin Server
    BY TesterAssumption
  <1>6. ASSUME NEW r \in Server, leads'[r]
        PROVE  term[r] \in 1..MaxTerm /\ (faults' = 0 => elected'[term[r]] = r)
    <2>1. CASE r = s
      BY <1>1, <1>4, <2>1 DEF T
    <2>2. CASE r # s
      <3>1. leads[r]
        BY <1>1, <1>2, <1>6, <2>2
      <3>2. /\ term[r] \in 1..MaxTerm
            /\ faults' = 0 => elected[term[r]] = r
        BY <1>3, <3>1 DEF LeaderInv
      <3>. QED  BY <1>3, <1>4, <1>5, <3>2
    <2>. QED  BY <2>1, <2>2
  <1>7. ASSUME NEW x \in seen, x.leads
        PROVE  /\ x.server \in Server /\ x.term \in 1..MaxTerm
               /\ faults' = 0 => elected'[x.term] = x.server
    <2>1. /\ x.server \in Server /\ x.term \in 1..MaxTerm
          /\ faults' = 0 => elected[x.term] = x.server
      BY <1>3, <1>7 DEF LeaderInv
    <2>. QED  BY <1>3, <1>4, <1>5, <2>1
  <1>. QED  BY <1>2, <1>6, <1>7 DEF LeaderInv

LEMMA AskedStep ==
    ASSUME LogInv, LeaderInv, CountInv, GetState
    PROVE  LeaderInv'
  <1>1. UNCHANGED <<elected, faults, term, leads>> /\ scan \in Server
    <2>1. at = "ask" /\ scan < N
      BY DEF GetState
    <2>2. scan \in 0..N
      BY <2>1 DEF CountInv
    <2>. QED  BY <2>1, <2>2, NFacts DEF GetState, cluster
  <1>2. ASSUME NEW x \in seen', x.leads
        PROVE  /\ x.server \in Server /\ x.term \in 1..MaxTerm
               /\ faults = 0 => elected[x.term] = x.server
    <2>1. CASE x \in seen
      BY <1>2, <2>1 DEF LeaderInv
    <2>2. CASE x = [server |-> scan, term |-> term[scan], leads |-> leads[scan]]
      <3>1. x.server = scan /\ x.term = term[scan] /\ leads[scan]
        BY <1>2, <2>2
      <3>. QED  BY <1>1, <3>1 DEF LeaderInv
    <2>. QED  BY <2>1, <2>2 DEF GetState
  <1>. QED  BY <1>1, <1>2 DEF LeaderInv

LEMMA LeaderStep ==
    ASSUME LogInv, LeaderInv, CountInv, TesterNext
    PROVE  LeaderInv'
  <1>0. faults \in Nat
    BY DEF LogInv, TypeInv
  <1>1. ASSUME NEW s \in Server, NEW t \in 1..MaxTerm, NewTerm(s, t)
        PROVE  LeaderInv'
    <2>1. \A r \in Server : leads'[r] => leads[r] /\ term'[r] = term[r]
      BY <1>1 DEF NewTerm, LogInv, TypeInv
    <2>2. UNCHANGED <<elected, faults, seen>>
      BY <1>1 DEF NewTerm, test, loops
    <2>. QED  BY <2>1, <2>2, LeaderKept
  <1>2. ASSUME NEW s \in Server, NEW n \in DOMAIN upto[s], Apply(s, n) \/ Applier(s, n)
        PROVE  LeaderInv'
    <2>1. UNCHANGED <<elected, faults, term, leads, seen>>
      BY <1>2 DEF Apply, Applier, cluster, test, loops
    <2>. QED  BY <2>1, LeaderKept
  <1>3. ASSUME NEW s \in Server, NEW n \in DOMAIN upto[s], NEW i \in Index,
               NEW c \in Command, Misdeliver(s, n, i, c)
        PROVE  LeaderInv'
    <2>1. UNCHANGED <<elected, term, leads, seen>> /\ faults' = faults + 1
      BY <1>3 DEF Misdeliver, test, loops
    <2>2. faults' # 0
      BY <1>0, <2>1
    <2>. QED  BY <2>1, <2>2, LeaderKept
  <1>4. CASE Servers
    <2>. PICK s \in Server :
           \/ \E t \in 1..MaxTerm : NewTerm(s, t)
           \/ BecomeLeader(s)
           \/ \E n \in DOMAIN upto[s] : Apply(s, n) \/ Applier(s, n)
           \/ \E n \in DOMAIN upto[s], i \in Index, c \in Command : Misdeliver(s, n, i, c)
      BY <1>4 DEF Servers
    <2>. QED  BY <1>1, <1>2, <1>3, ElectedStep
  <1>5. CASE Fatal
    <2>1. UNCHANGED <<elected, faults, term, leads, seen>>
      BY <1>5 DEF Fatal, cluster, test, loops
    <2>. QED  BY <2>1, LeaderKept
  <1>6. CASE Reads
    <2>1. CASE GetState
      BY <2>1, AskedStep
    <2>2. CASE ~ GetState
      <3>1. seen' \in {seen, {}}
        BY <1>6, <2>2 DEF Reads, One, Wait, Check, Begin, Count, OneCounted, WaitCounted,
              Counted, WaitTerms, Asked, CheckOneLeader, CheckTerms, CheckNoLeader
      <3>2. UNCHANGED <<elected, faults, term, leads>>
        BY <1>6, ReadsAreQuiet DEF Quiet, cluster
      <3>. QED  BY <3>1, <3>2, LeaderKept
    <2>. QED  BY <2>1, <2>2
  <1>7. CASE Submit
    <2>1. UNCHANGED <<elected, faults, term, leads, seen>>
      BY <1>7 DEF Submit, cluster
    <2>. QED  BY <2>1, LeaderKept
  <1>8. ASSUME NEW s \in Server, NEW up \in BOOLEAN, Connection(s, up)
        PROVE  LeaderInv'
    <2>1. UNCHANGED <<elected, faults, term, leads, seen>>
      BY <1>8 DEF Connection, cluster, test, loops
    <2>. QED  BY <2>1, LeaderKept
  <1>9. ASSUME NEW s \in Server, Crash1(s) PROVE LeaderInv'
    <2>1. UNCHANGED <<elected, faults, term, seen>>
      BY <1>9 DEF Crash1, test, loops
    <2>2. \A r \in Server : leads'[r] => leads[r]
      BY <1>9 DEF Crash1, LogInv, TypeInv
    <2>. QED  BY <2>1, <2>2, LeaderKept
  <1>10. ASSUME NEW s \in Server, Start1(s) PROVE LeaderInv'
    <2>1. UNCHANGED <<elected, faults, term, leads, seen>>
      BY <1>10 DEF Start1, test, loops
    <2>. QED  BY <2>1, LeaderKept
  <1>. QED  BY <1>4, <1>5, <1>6, <1>7, <1>8, <1>9, <1>10, TestCases DEF TesterNext


-----------------------------------------------------------------------------
(* What a call has counted, and what it answers. *)

TestInv == CountInv /\ AnswerInv /\ RaisedInv

LEMMA HoldersFinite ==
    ASSUME NEW stored, NEW p, NEW i, NEW v
    PROVE  /\ IsFiniteSet(Holders(stored, p, i, v))
           /\ Cardinality(Holders(stored, p, i, v)) \in Nat
  <1>1. Holders(stored, p, i, v) \subseteq Server
    BY DEF Holders
  <1>. QED  BY <1>1, TesterAssumption, FS_Subset, FS_CardinalityType

LEMMA HoldersGrow ==
    ASSUME NEW stored, NEW later, NEW p, NEW i, NEW v,
           \A s \in Server : stored[s][i] = v => later[s][i] = v
    PROVE  Cardinality(Holders(stored, p, i, v)) <= Cardinality(Holders(later, p, i, v))
  <1>1. Holders(stored, p, i, v) \subseteq Holders(later, p, i, v)
    BY DEF Holders
  <1>. QED  BY <1>1, HoldersFinite, FS_Subset

\* One more server is read.
LEMMA HoldersNext ==
    ASSUME NEW stored, NEW p \in Server, NEW i, NEW v
    PROVE  /\ Cardinality(Holders(stored, p, i, v))
                 <= Cardinality(Holders(stored, p + 1, i, v))
           /\ stored[p][i] = v => Cardinality(Holders(stored, p, i, v)) + 1
                                     <= Cardinality(Holders(stored, p + 1, i, v))
  <1>. DEFINE A == Holders(stored, p, i, v)
              B == Holders(stored, p + 1, i, v)
  <1>1. p < p + 1 /\ ~ (p < p) /\ \A s \in Server : s < p => s < p + 1
    BY NFacts
  <1>2. A \subseteq B /\ p \notin A /\ (stored[p][i] = v => p \in B)
    <2>1. A \subseteq B
      BY <1>1 DEF Holders
    <2>2. p \notin A
      BY <1>1 DEF Holders
    <2>3. stored[p][i] = v => p \in B
      BY <1>1 DEF Holders
    <2>. QED  BY <2>1, <2>2, <2>3
  <1>3. IsFiniteSet(A) /\ IsFiniteSet(B) /\ Cardinality(A) \in Nat /\ Cardinality(B) \in Nat
    BY HoldersFinite
  <1>. HIDE DEF A, B
  <1>4. Cardinality(A) <= Cardinality(B)
    BY <1>2, <1>3, FS_Subset
  <1>5. ASSUME p \in B PROVE Cardinality(A) + 1 <= Cardinality(B)
    <2>1. A \cup {p} \subseteq B
      BY <1>2, <1>5
    <2>2. Cardinality(A \cup {p}) = Cardinality(A) + 1
      BY <1>2, <1>3, FS_AddElement
    <2>3. Cardinality(A \cup {p}) <= Cardinality(B)
      BY <1>3, <2>1, FS_Subset
    <2>. QED  BY <2>2, <2>3
  <1>. QED  BY <1>2, <1>4, <1>5 DEF A, B

\* Everything a server or an applier may do while a call goes on: unless somebody is
\* accused, what was stored stays.
LEMMA TestKept ==
    ASSUME TestInv, UNCHANGED test, Accused => Accused', faults > 0 => faults' > 0,
           Accused' \/ \A s \in Server, i \in Index, v \in Command :
                          logs[s][i] = v => logs'[s][i] = v
    PROVE  TestInv'
  <1>. CountInv /\ AnswerInv /\ RaisedInv
    BY DEF TestInv
  <1>1. UNCHANGED <<at, op, cmd, want, starts, index, scan, count, val, result>>
    BY DEF test, call, loops
  <1>2. ASSUME NEW p, NEW i \in Index, NEW v \in Command, NEW c \in Nat,
               Accused \/ Cardinality(Holders(logs, p, i, v)) >= c
        PROVE  Accused' \/ Cardinality(Holders(logs', p, i, v)) >= c
    <2>. SUFFICES ASSUME ~ Accused' PROVE Cardinality(Holders(logs', p, i, v)) >= c
      OBVIOUS
    <2>1. Cardinality(Holders(logs, p, i, v)) <= Cardinality(Holders(logs', p, i, v))
      BY HoldersGrow
    <2>2. Cardinality(Holders(logs, p, i, v)) >= c
      BY <1>2
    <2>3. /\ Cardinality(Holders(logs, p, i, v)) \in Nat
          /\ Cardinality(Holders(logs', p, i, v)) \in Nat
      BY HoldersFinite
    <2>. QED  BY <2>1, <2>2, <2>3
  <1>3. CountInv'
    <2>1. at = "count" /\ count > 0 =>
             Accused' \/ Cardinality(Holders(logs', scan, index, val)) >= count
      BY <1>2 DEF CountInv
    <2>. QED  BY <1>1, <2>1 DEF CountInv
  <1>4. AnswerInv'
    <2>1. (result.kind = "returned" /\ op \in {"one", "wait"} /\ result.value # -1) =>
             Accused' \/ Cardinality(Holders(logs', N, index, result.value)) >= want
      <3>1. \A x \in 1..N : x \in Nat
        BY NFacts
      <3>. QED  BY <1>2, <3>1 DEF AnswerInv
    <2>. QED  BY <1>1, <2>1 DEF AnswerInv
  <1>5. RaisedInv'
    BY <1>1 DEF RaisedInv
  <1>. QED  BY <1>3, <1>4, <1>5 DEF TestInv

\* What an applier replaces without an error was the same.
LEMMA StoredStays ==
    ASSUME LogInv, NEW s \in Server, NEW n \in DOMAIN upto[s], Applier(s, n)
    PROVE  /\ Accused => Accused'
           /\ Accused' \/ \A t \in Server, i \in Index, v \in Command :
                             logs[t][i] = v => logs'[t][i] = v
  <1>. DEFINE m == Head(applyCh[s][n])
  <1>1. Accused => Accused'
    BY DEF Applier, Accused
  <1>2. CASE Disagrees(s, m)
    BY <1>2 DEF Applier, Accused
  <1>3. CASE ~ Disagrees(s, m)
    <2>1. logs'[s][m.index] = m.command /\ \A t \in Server, i \in Index :
             (t # s \/ i # m.index) => logs'[t][i] = logs[t][i]
      BY ApplierFacts DEF LogInv
    <2>2. logs[s][m.index] \in {Nil, m.command}
      BY <1>3 DEF Disagrees
    <2>3. Nil \notin Command
      BY TesterAssumption
    <2>. HIDE DEF m
    <2>4. \A t \in Server, i \in Index, v \in Command : logs[t][i] = v => logs'[t][i] = v
      BY <2>1, <2>2, <2>3
    <2>. QED  BY <1>1, <2>4
  <1>. QED  BY <1>1, <1>2, <1>3


\* A call begins.
LEMMA BeginTest ==
    ASSUME TestInv,
           \/ \E c \in Command, n \in 1..N, r \in BOOLEAN : One(c, n, r)
           \/ \E i \in Index, n \in 1..N, t \in -1..MaxTerm : Wait(i, n, t)
           \/ \E name \in {"leader", "terms", "noLeader"} : Check(name)
    PROVE  TestInv'
  <1>1. /\ result' = [kind |-> "none", value |-> Nil]
        /\ starts' = 0 /\ scan' = 0 /\ count' = 0
        /\ \/ at' = "submit" /\ op' = "one" /\ cmd' \in Command /\ want' \in 1..N
           \/ at' = "count" /\ op' = "wait" /\ index' \in Index /\ want' \in 1..N
           \/ at' = "ask"
    BY DEF One, Wait, Check, Begin
  <1>2. 0 \in 0..N
    BY NFacts
  <1>3. CountInv'
    BY <1>1, <1>2 DEF CountInv
  <1>. QED  BY <1>1, <1>3 DEF TestInv, AnswerInv, RaisedInv

LEMMA SubmitTest ==
    ASSUME TestInv, Submit
    PROVE  TestInv'
  <1>1. /\ at = "submit" /\ op = "one" /\ cmd \in Command /\ want \in 1..N
        /\ result.kind = "none" /\ starts \in Nat
    BY DEF TestInv, CountInv, Submit
  <1>2. UNCHANGED <<op, cmd, want>>
    BY DEF Submit, call
  <1>3. starts' \in Nat
    <2>1. N \in Nat \ {0}
      BY <1>1, NFacts
    <2>2. (starts + 1) % N \in Nat
      BY <1>1, <2>1
    <2>. QED  BY <2>2 DEF Submit
  <1>4. \/ /\ at' = "count" /\ index' \in Index /\ scan' = 0 /\ count' = 0 /\ result' = result
        \/ at' = "submit" /\ result' = result
        \/ at' = "failed" /\ result'.kind = "noAgreement"
    BY <1>1 DEF Submit, Done, Recount, Free
  <1>5. 0 \in 0..N
    BY NFacts
  <1>6. CountInv'
    BY <1>1, <1>2, <1>3, <1>4, <1>5 DEF CountInv
  <1>. QED  BY <1>1, <1>4, <1>6 DEF TestInv, AnswerInv, RaisedInv

\* nCommitted reads one more server.
LEMMA CountTest ==
    ASSUME LogInv, TestInv, Count
    PROVE  TestInv'
  <1>. DEFINE cmd1 == logs[scan][index]
              held == Cardinality(Holders(logs, scan, index, val))
  <1>1. /\ at = "count" /\ scan \in Server /\ scan + 1 \in 0..N /\ count \in Nat
        /\ op \in {"one", "wait"} /\ index \in Index /\ want \in 1..N
        /\ op = "one" => cmd \in Command
        /\ count > 0 => val \in Command /\ (Accused \/ held >= count)
        /\ result.kind = "none" /\ starts \in Nat
    <2>1. scan \in 0..N /\ scan < N
      BY DEF TestInv, CountInv, Count
    <2>2. scan \in Server /\ scan + 1 \in 0..N
      BY <2>1, NFacts
    <2>. QED  BY <2>2 DEF TestInv, CountInv, Count
  <1>2. /\ UNCHANGED <<op, cmd, want, starts, index>> /\ logs' = logs
        /\ Accused' = Accused /\ scan' = scan + 1
    BY DEF Count, call, checks, Accused
  <1>3. held \in Nat /\ \A v : Cardinality(Holders(logs, scan, index, v)) \in Nat
                          /\ Cardinality(Holders(logs, scan + 1, index, v)) \in Nat
    BY HoldersFinite
  <1>4. ASSUME at' = "count", result' = result, count' \in Nat,
               count' > 0 => /\ val' \in Command
                             /\ Accused \/ Cardinality(Holders(logs, scan + 1, index, val'))
                                              >= count'
        PROVE  TestInv'
    <2>1. CountInv'
      BY <1>1, <1>2, <1>4 DEF CountInv
    <2>. QED  BY <1>1, <1>4, <2>1 DEF TestInv, AnswerInv, RaisedInv
  <1>. HIDE DEF held
  <1>5. CASE cmd1 = Nil
    <2>1. at' = "count" /\ result' = result /\ count' = count /\ val' = val
      BY <1>1, <1>5 DEF Count
    <2>2. held <= Cardinality(Holders(logs, scan + 1, index, val))
      BY <1>1, HoldersNext DEF held
    <2>3. count > 0 => Accused \/ Cardinality(Holders(logs, scan + 1, index, val)) >= count
      BY <1>1, <1>3, <2>2
    <2>. QED  BY <1>1, <1>4, <2>1, <2>3
  <1>6. CASE cmd1 # Nil /\ count > 0 /\ val # cmd1
    <2>1. at' = "failed" /\ result'.kind = "mismatch"
      BY <1>6 DEF Count, Done
    <2>2. Accused
      <3>. SUFFICES ASSUME ~ Accused PROVE FALSE
        OBVIOUS
      <3>1. held >= count /\ val \in Command /\ val # Nil
        BY <1>1, <1>6, TesterAssumption
      <3>2. Holders(logs, scan, index, val) # {}
        <4>1. held # 0
          BY <1>1, <1>3, <1>6, <3>1
        <4>. QED  BY <4>1, FS_EmptySet DEF held
      <3>3. PICK s \in Server : logs[s][index] = val
        BY <3>2 DEF Holders
      <3>4. Nil \in {logs[s][index], logs[scan][index]} \/ logs[s][index] = logs[scan][index]
        BY <1>1 DEF LogInv, NoticesDisagreement
      <3>. QED  BY <1>6, <3>1, <3>3, <3>4
    <2>3. CountInv'
      BY <1>1, <1>2, <2>1 DEF CountInv
    <2>. QED  BY <1>2, <2>1, <2>2, <2>3 DEF TestInv, AnswerInv, RaisedInv
  <1>7. CASE cmd1 # Nil /\ ~ (count > 0 /\ val # cmd1)
    <2>1. at' = "count" /\ result' = result /\ count' = count + 1 /\ val' = cmd1
      BY <1>1, <1>7 DEF Count
    <2>2. cmd1 \in Command
      <3>1. logs[scan][index] \in Command \cup {Nil}
        BY <1>1 DEF LogInv, TypeInv
      <3>. QED  BY <1>7, <3>1
    <2>3. Cardinality(Holders(logs, scan, index, cmd1)) + 1
             <= Cardinality(Holders(logs, scan + 1, index, cmd1))
      BY <1>1, HoldersNext
    <2>4. Accused \/ Cardinality(Holders(logs, scan, index, cmd1)) >= count
      <3>1. CASE count = 0
        BY <1>3, <3>1
      <3>2. CASE count # 0
        <4>1. count > 0
          BY <1>1, <3>2
        <4>2. val = cmd1
          BY <1>7, <4>1
        <4>. QED  BY <1>1, <4>1, <4>2 DEF held
      <3>. QED  BY <3>1, <3>2
    <2>. HIDE DEF cmd1
    <2>5. Accused \/ Cardinality(Holders(logs, scan + 1, index, cmd1)) >= count + 1
      BY <1>1, <1>3, <2>3, <2>4
    <2>6. count + 1 \in Nat
      BY <1>1
    <2>. QED  BY <1>4, <2>1, <2>2, <2>5, <2>6
  <1>. QED  BY <1>5, <1>6, <1>7


LEMMA CountedFacts ==
    ASSUME TestInv, NEW name, Counted(name)
    PROVE  /\ at = "count" /\ op = name /\ scan = N /\ index \in Index /\ want \in 1..N
           /\ want \in Nat /\ want > 0 /\ count \in Nat /\ starts \in Nat
           /\ result.kind = "none"
           /\ op = "one" => cmd \in Command
           /\ count > 0 => val \in Command
           /\ count >= want => /\ val \in Command
                               /\ Accused \/ Cardinality(Holders(logs, N, index, val)) >= want
           /\ UNCHANGED <<op, cmd, want, starts, index, logs>>
           /\ Accused' = Accused /\ faults' = faults
  <1>1. /\ at = "count" /\ op = name /\ scan = N /\ index \in Index /\ want \in 1..N
        /\ count \in Nat /\ starts \in Nat
        /\ result.kind = "none"
        /\ op = "one" => cmd \in Command
        /\ count > 0 => /\ val \in Command
                        /\ Accused \/ Cardinality(Holders(logs, N, index, val)) >= count
    BY DEF TestInv, CountInv, Counted
  <1>2. want \in Nat /\ want > 0
    BY <1>1, NFacts
  <1>3. count >= want => /\ val \in Command
                         /\ Accused \/ Cardinality(Holders(logs, N, index, val)) >= want
    <2>. SUFFICES ASSUME count >= want, ~ Accused
                  PROVE  Cardinality(Holders(logs, N, index, val)) >= want
      BY <1>1, <1>2
    <2>1. Cardinality(Holders(logs, N, index, val)) >= count
      BY <1>1, <1>2
    <2>2. Cardinality(Holders(logs, N, index, val)) \in Nat
      BY HoldersFinite
    <2>. QED  BY <1>1, <1>2, <2>1, <2>2
  <1>4. /\ UNCHANGED <<op, cmd, want, starts, index, logs>>
        /\ Accused' = Accused /\ faults' = faults
    BY DEF Counted, call, checks, cluster, Accused
  <1>. QED  BY <1>1, <1>2, <1>3, <1>4

LEMMA OneCountedTest ==
    ASSUME TestInv, OneCounted
    PROVE  TestInv'
  <1>. Counted("one")
    BY DEF OneCounted
  <1>1. /\ at = "count" /\ op = "one" /\ index \in Index /\ want \in 1..N /\ cmd \in Command
        /\ starts \in Nat /\ result.kind = "none"
        /\ count >= want => /\ val \in Command
                            /\ Accused \/ Cardinality(Holders(logs, N, index, val)) >= want
        /\ UNCHANGED <<op, cmd, want, starts, index, logs>>
        /\ Accused' = Accused
    BY CountedFacts
  <1>2. CASE Agreed
    <2>1. /\ at' = "idle" /\ result' = [kind |-> "returned", value |-> val]
          /\ count >= want /\ val = cmd
      BY <1>2 DEF OneCounted, Done, Agreed
    <2>2. AnswerInv'
      BY <1>1, <2>1 DEF AnswerInv
    <2>. QED  BY <1>1, <2>1, <2>2 DEF TestInv, CountInv, RaisedInv
  <1>3. CASE ~ Agreed
    <2>1. \/ at' = "count" /\ result' = result /\ scan' = 0 /\ count' = 0
          \/ at' = "submit" /\ result' = result
          \/ at' = "failed" /\ result'.kind = "noAgreement"
      BY <1>1, <1>3 DEF OneCounted, Recount, GiveUp, Done
    <2>2. 0 \in 0..N
      BY NFacts
    <2>3. CountInv'
      BY <1>1, <2>1, <2>2 DEF CountInv
    <2>. QED  BY <1>1, <2>1, <2>3 DEF TestInv, AnswerInv, RaisedInv
  <1>. QED  BY <1>2, <1>3

LEMMA WaitCountedTest ==
    ASSUME TestInv, WaitCounted
    PROVE  TestInv'
  <1>. Counted("wait")
    BY DEF WaitCounted
  <1>1. /\ at = "count" /\ op = "wait" /\ index \in Index /\ want \in 1..N
        /\ starts \in Nat /\ result.kind = "none"
        /\ count >= want => /\ val \in Command
                            /\ Accused \/ Cardinality(Holders(logs, N, index, val)) >= want
        /\ UNCHANGED <<op, cmd, want, starts, index, logs>>
        /\ Accused' = Accused
    BY CountedFacts
  <1>2. CASE last
    <2>1. \/ /\ count >= want /\ at' = "idle"
             /\ result' = [kind |-> "returned", value |-> val]
          \/ at' = "failed" /\ result' = [kind |-> "few", value |-> val]
      BY <1>2 DEF WaitCounted, Done
    <2>2. AnswerInv'
      BY <1>1, <2>1 DEF AnswerInv
    <2>. QED  BY <1>1, <2>1, <2>2 DEF TestInv, CountInv, RaisedInv
  <1>3. CASE ~ last
    <2>1. /\ result' = result
          /\ \/ at' = "count" /\ scan' = 0 /\ count' = 0
             \/ at' = "waitTerms"
      BY <1>1, <1>3 DEF WaitCounted, Recount, NextRound
    <2>2. 0 \in 0..N
      BY NFacts
    <2>3. CountInv'
      BY <1>1, <2>1, <2>2 DEF CountInv
    <2>. QED  BY <1>1, <2>1, <2>3 DEF TestInv, AnswerInv, RaisedInv
  <1>. QED  BY <1>2, <1>3

LEMMA WaitTermsTest ==
    ASSUME TestInv, WaitTerms
    PROVE  TestInv'
  <1>1. /\ at = "waitTerms" /\ op \in {"one", "wait"} /\ index \in Index /\ want \in 1..N
        /\ op = "one" => cmd \in Command
        /\ starts \in Nat /\ result.kind = "none"
    BY DEF TestInv, CountInv, WaitTerms
  <1>2. UNCHANGED <<op, cmd, want, starts, index>>
    BY DEF WaitTerms, call
  <1>3. \/ at' = "count" /\ result' = result /\ scan' = 0 /\ count' = 0
        \/ at' = "waitTerms" /\ result' = result
        \/ at' = "idle" /\ result' = [kind |-> "returned", value |-> -1]
    BY <1>1 DEF WaitTerms, NextRound, Recount, Done
  <1>4. 0 \in 0..N
    BY NFacts
  <1>5. CountInv'
    BY <1>1, <1>2, <1>3, <1>4 DEF CountInv
  <1>. QED  BY <1>1, <1>3, <1>5 DEF TestInv, AnswerInv, RaisedInv

\* checkOneLeader finds rivals only when a term has had two leaders.
LEMMA CheckTest ==
    ASSUME LogInv, LeaderInv, TestInv,
           GetState \/ CheckOneLeader \/ CheckTerms \/ CheckNoLeader
    PROVE  TestInv'
  <1>1. /\ at = "ask" /\ scan \in 0..N /\ starts \in Nat /\ result.kind = "none"
        /\ UNCHANGED <<op, starts>> /\ faults' = faults
    BY DEF TestInv, CountInv, GetState, Asked, CheckOneLeader, CheckTerms, CheckNoLeader,
           call, cluster
  <1>2. CASE GetState
    <2>1. scan' \in 0..N
      <3>1. scan < N /\ scan' = scan + 1
        BY <1>2 DEF GetState
      <3>. QED  BY <1>1, <3>1, NFacts
    <2>2. at' = "ask" /\ result' = result
      BY <1>1, <1>2 DEF GetState
    <2>3. CountInv'
      BY <1>1, <2>1, <2>2 DEF CountInv
    <2>. QED  BY <1>1, <2>2, <2>3 DEF TestInv, AnswerInv, RaisedInv
  <1>3. CASE CheckOneLeader \/ CheckTerms \/ CheckNoLeader
    <2>1. op \notin {"one", "wait"}
      BY <1>3 DEF CheckOneLeader, CheckTerms, CheckNoLeader, Asked
    <2>2. \/ at' = "ask" /\ scan' = 0 /\ result' = result
          \/ /\ at' \in {"idle", "failed"}
             /\ \/ result'.kind \notin {"mismatch", "rivals"}
                \/ result'.kind = "rivals" /\ Rivals
      <3>1. CASE CheckOneLeader
        BY <1>1, <3>1 DEF CheckOneLeader, Done
      <3>2. CASE CheckTerms
        BY <3>2 DEF CheckTerms, Done
      <3>3. CASE CheckNoLeader
        BY <3>3 DEF CheckNoLeader, Done
      <3>. QED  BY <1>3, <3>1, <3>2, <3>3
    <2>3. Rivals => faults > 0
      <3>. SUFFICES ASSUME Rivals, faults = 0 PROVE FALSE
        BY DEF LogInv, TypeInv
      <3>1. PICK x, y \in Leaders : x.term = y.term /\ x.server # y.server
        BY DEF Rivals
      <3>. QED  BY <3>1 DEF Leaders, LeaderInv
    <2>4. 0 \in 0..N
      BY NFacts
    <2>5. CountInv'
      BY <1>1, <2>2, <2>4 DEF CountInv
    <2>6. RaisedInv'
      BY <1>1, <2>2, <2>3 DEF RaisedInv
    <2>. QED  BY <1>1, <2>1, <2>5, <2>6 DEF TestInv, AnswerInv
  <1>. QED  BY <1>2, <1>3

LEMMA TestStep ==
    ASSUME LogInv, LeaderInv, TestInv, TesterNext
    PROVE  TestInv'
  <1>0. faults \in Nat
    BY DEF LogInv, TypeInv
  <1>1. ASSUME UNCHANGED <<test, logs, faults, failing, exited>>
        PROVE  TestInv'
    BY <1>1, TestKept DEF Accused
  <1>2. ASSUME NEW s \in Server,
               \/ \E t \in 1..MaxTerm : NewTerm(s, t)
               \/ \E n \in DOMAIN upto[s] : Apply(s, n)
               \/ Crash1(s) \/ Start1(s) \/ \E up \in BOOLEAN : Connection(s, up)
        PROVE  TestInv'
    <2>1. UNCHANGED <<test, logs, faults, failing, exited>>
      BY <1>2 DEF NewTerm, Apply, Crash1, Start1, Connection, checks, cluster
    <2>. QED  BY <1>1, <2>1
  <1>3. ASSUME NEW s \in Server, BecomeLeader(s) PROVE TestInv'
    <2>1. UNCHANGED <<test, logs, failing, exited>> /\ faults' \in {faults, faults + 1}
      BY <1>3 DEF BecomeLeader, checks
    <2>2. faults > 0 => faults' > 0
      BY <1>0, <2>1
    <2>. QED  BY <2>1, <2>2, TestKept DEF Accused
  <1>4. ASSUME NEW s \in Server, NEW n \in DOMAIN upto[s], NEW i \in Index,
               NEW c \in Command, Misdeliver(s, n, i, c)
        PROVE  TestInv'
    <2>1. UNCHANGED <<test, logs, failing, exited>> /\ faults' = faults + 1
      BY <1>4 DEF Misdeliver
    <2>2. faults > 0 => faults' > 0
      BY <1>0, <2>1
    <2>. QED  BY <2>1, <2>2, TestKept DEF Accused
  <1>5. ASSUME NEW s \in Server, NEW n \in DOMAIN upto[s], Applier(s, n)
        PROVE  TestInv'
    <2>1. UNCHANGED <<test, faults>>
      BY <1>5 DEF Applier, cluster
    <2>. QED  BY <1>5, <2>1, StoredStays, TestKept
  <1>6. CASE Servers
    <2>. PICK s \in Server :
           \/ \E t \in 1..MaxTerm : NewTerm(s, t)
           \/ BecomeLeader(s)
           \/ \E n \in DOMAIN upto[s] : Apply(s, n) \/ Applier(s, n)
           \/ \E n \in DOMAIN upto[s], i \in Index, c \in Command : Misdeliver(s, n, i, c)
      BY <1>6 DEF Servers
    <2>. QED  BY <1>2, <1>3, <1>4, <1>5
  <1>7. CASE Fatal
    <2>1. /\ UNCHANGED <<test, logs, faults>> /\ Accused'
      BY <1>7 DEF Fatal, cluster, Accused
    <2>. QED  BY <2>1, TestKept
  <1>8. CASE Test
    BY <1>2, <1>8, TestCases, BeginTest, SubmitTest, CountTest, OneCountedTest,
       WaitCountedTest, WaitTermsTest, CheckTest DEF Reads
  <1>. QED  BY <1>6, <1>7, <1>8 DEF TesterNext

-----------------------------------------------------------------------------
(* The theorems. *)

LEMMA InitCheck == TesterInit => LogInv /\ LeaderInv /\ TestInv
  <1>. SUFFICES ASSUME TesterInit PROVE LogInv /\ LeaderInv /\ TestInv
    OBVIOUS
  <1>. USE DEF TesterInit, Init
  <1>1. /\ <<>> \in Seq(LogEntry) /\ <<>> \in Seq(ApplyMsg) /\ Len(<<>>) = 0
        /\ <<0>> \in Seq(Nat) /\ Len(<<0>>) = 1 /\ DOMAIN <<0>> = {1} /\ <<0>>[1] = 0
        /\ 1..0 = {} /\ 0 - 0 = 0
    BY EmptySeq
  <1>2. <<<<>>>> \in Seq(Seq(ApplyMsg)) /\ Len(<<<<>>>>) = 1 /\ <<<<>>>>[1] = <<>>
    BY <1>1
  <1>3. TypeInv
    <2>1. /\ term \in [Server -> 0..MaxTerm] /\ leads \in [Server -> BOOLEAN]
          /\ elected \in [1..MaxTerm -> Server \cup {Nil}] /\ faults \in Nat
          /\ exited \in BOOLEAN
      <3>1. 0 \in 0..MaxTerm
        BY Bounds
      <3>2. term \in [Server -> 0..MaxTerm]
        BY <3>1
      <3>3. elected \in [1..MaxTerm -> Server \cup {Nil}]
        OBVIOUS
      <3>4. leads \in [Server -> BOOLEAN] /\ faults \in Nat /\ exited \in BOOLEAN
        OBVIOUS
      <3>. QED  BY <3>2, <3>3, <3>4
    <2>4. logs \in [Server -> [Index -> Command \cup {Nil}]]
      OBVIOUS
    <2>2. /\ upto \in [Server -> Seq(Nat)] /\ applyCh \in [Server -> Seq(Seq(ApplyMsg))]
          /\ \A s \in Server : Len(applyCh[s]) = Len(upto[s])
      BY <1>1, <1>2
    <2>3. /\ started \subseteq [index : Index, term : Nat, command : Command]
          /\ chosen \in Seq(LogEntry) /\ Len(chosen) <= MaxIndex
          /\ delivered \in [Server -> Seq(LogEntry)]
      BY <1>1, Bounds
    <2>. QED  BY <2>1, <2>2, <2>3, <2>4 DEF TypeInv
  <1>4. DeliveredInv
    BY <1>1 DEF DeliveredInv
  <1>5. NoticesDisagreement
    BY DEF NoticesDisagreement
  <1>6. FaultlessInv
    <2>1. ~ Accused
      BY DEF Accused
    <2>2. ASSUME NEW s \in Server, NEW n \in DOMAIN upto[s] PROVE ChannelInv(s, n)
      <3>1. n = 1 /\ upto[s][n] = 0 /\ applyCh[s][n] = <<>>
        BY <1>1, <1>2
      <3>. QED  BY <1>1, <3>1 DEF ChannelInv
    <2>. QED  BY <2>1, <2>2 DEF FaultlessInv
  <1>7. LeaderInv
    BY DEF LeaderInv
  <1>8. TestInv
    BY DEF TestInv, CountInv, AnswerInv, RaisedInv
  <1>. QED  BY <1>3, <1>4, <1>5, <1>6, <1>7, <1>8 DEF LogInv

LEMMA TesterInvariant == TesterSpec => [](LogInv /\ LeaderInv /\ TestInv)
  <1>1. TesterInit => LogInv /\ LeaderInv /\ TestInv
    BY InitCheck
  <1>2. LogInv /\ LeaderInv /\ TestInv /\ [TesterNext]_vars
           => (LogInv /\ LeaderInv /\ TestInv)'
    <2>. SUFFICES ASSUME LogInv, LeaderInv, TestInv, [TesterNext]_vars
                  PROVE  LogInv' /\ LeaderInv' /\ TestInv'
      OBVIOUS
    <2>1. CountInv
      BY DEF TestInv
    <2>2. CASE TesterNext
      BY <2>1, <2>2, LogStep, LeaderStep, TestStep
    <2>3. CASE UNCHANGED vars
      <3>1. UNCHANGED <<absVars, cluster, checks, test>>
        BY <2>3 DEF vars
      <3>2. LogInv'
        BY <3>1, QuietLog DEF Quiet
      <3>3. LeaderInv'
        BY <3>1 DEF LeaderInv, cluster, test, loops
      <3>4. TestInv'
        BY <3>1, TestKept DEF checks, cluster, Accused
      <3>. QED  BY <3>2, <3>3, <3>4
    <2>. QED  BY <2>2, <2>3
  <1>. QED  BY <1>1, <1>2, PTL DEF TesterSpec


\* The tester fails no servers that keep their promises (cfg.Fatalf in applier, one
\* and checkOneLeader), however its reads fall between their deliveries.
THEOREM AccusesJustly == TesterSpec => []NeverAccusesUnjustly
  <1>1. LogInv /\ LeaderInv /\ TestInv => NeverAccusesUnjustly
    BY DEF LogInv, FaultlessInv, TestInv, RaisedInv, NeverAccusesUnjustly
  <1>. QED  BY <1>1, TesterInvariant, PTL

\* checkLogs misses no disagreement and no gap.
THEOREM DisagreementIsNoticed == TesterSpec => []NoticesDisagreement
  <1>1. LogInv /\ LeaderInv /\ TestInv => NoticesDisagreement
    BY DEF LogInv
  <1>. QED  BY <1>1, TesterInvariant, PTL

\* The agreement that one and wait report is real, although nCommitted counts it one
\* server at a time.
THEOREM ReportedAgreementIsReal == TesterSpec => []AgreementIsReal
  <1>1. LogInv /\ LeaderInv /\ TestInv => AgreementIsReal
    <2>. SUFFICES ASSUME TestInv, result.kind = "returned", op \in {"one", "wait"},
                         result.value # -1
                  PROVE  /\ \/ Accused
                            \/ Cardinality({s \in Server : logs[s][index] = result.value})
                                  >= want
                         /\ op = "one" => result.value = cmd
      BY DEF AgreementIsReal
    <2>1. /\ Accused \/ Cardinality(Holders(logs, N, index, result.value)) >= want
          /\ op = "one" => result.value = cmd
      BY DEF TestInv, AnswerInv
    <2>2. Holders(logs, N, index, result.value)
             = {s \in Server : logs[s][index] = result.value}
      BY NFacts DEF Holders
    <2>. QED  BY <2>1, <2>2
  <1>. QED  BY <1>1, TesterInvariant, PTL
=============================================================================
