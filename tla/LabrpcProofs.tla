---------------------------- MODULE LabrpcProofs ----------------------------
(***************************************************************************)
(* For any number of peers, calls, incarnations and operations of the      *)
(* tester: what a call has been told is saved survives every crash, and    *)
(* the network lets through exactly what the tester has connected.         *)
(***************************************************************************)
EXTENDS Labgob, FiniteSetTheorems, SequenceTheorems, TLAPS

LEMMA InitInv == Init => NetInv
  <1>. SUFFICES ASSUME Init PROVE NetInv
    OBVIOUS
  <1>. USE LabrpcAssumption DEF Init
  <1>1. TypeOK
    <2>1. stores \in [Peer -> Seq(SUBSET Call)] /\ rafts \in [Peer -> Seq(Nat)]
      <3>1. {} \in SUBSET Call /\ 1 \in Nat
        OBVIOUS
      <3>2. <<{}>> \in Seq(SUBSET Call) /\ <<1>> \in Seq(Nat)
        BY <3>1
      <3>. QED  BY <3>2
    <2>2. enabled \subseteq End /\ todo \subseteq End
      OBVIOUS
    <2>3. servers \in [Peer -> 0..MaxStarts] /\ target \in [Call -> 0..MaxStarts]
      <3>1. {0, 1} \subseteq 0..MaxStarts
        OBVIOUS
      <3>. QED  BY <3>1
    <2>4. ops \in 0..MaxOps
      OBVIOUS
    <2>. QED  BY <2>1, <2>2, <2>3, <2>4 DEF TypeOK, Where
  <1>2. StoreInv
    BY DEF StoreInv, Last
  <1>3. NoAckLost
    BY DEF NoAckLost
  <1>. QED  BY <1>1, <1>2, <1>3 DEF NetInv

\* The steps of a call that change nothing but its place.
Moves(c) ==
    \/ Begin(c) \/ Accept(c) \/ Refuse(c) \/ ReadNoServer(c) \/ StartHandler(c)
    \/ Answered(c) \/ Poll(c) \/ Reply(c) \/ DropReply(c) \/ Succeed(c) \/ Fail(c)

\* A call that is on its way to return true has been executed, and when it passes
\* the second look at the server, in the incarnation that can still be called.
LEMMA MovesInv ==
    ASSUME NetInv, NEW c \in Call, Moves(c)
    PROVE  NetInv'
  <1>. TypeOK /\ StoreInv /\ NoAckLost
    BY DEF NetInv
  <1>1. UNCHANGED <<network, peers, tester, end, target, executed>>
    BY DEF Moves, OnlyMoves, Begin, Accept, Refuse, ReadNoServer, StartHandler,
           Answered, Poll, Reply, DropReply, Succeed, Fail
  <1>2. PICK w \in Where : /\ pc' = [pc EXCEPT ![c] = w]
                           /\ w \in {"calling", "sent"} => pc[c] \in {"idle", "calling"}
                           /\ w \notin {"idle", "delayed"}
                           /\ w = "answered" => c \in executed
                           /\ w = "true" => pc[c] = "replying"
                           /\ w = "replying" => pc[c] = "answered" /\ ~ IsServerDead(c)
    BY DEF Moves, OnlyMoves, Goto, Begin, Accept, Refuse, ReadNoServer, StartHandler,
           Answered, Poll, Reply, DropReply, Succeed, Fail, Where
  <1>. USE <1>1 DEF network, peers, tester
  <1>3. TypeOK'
    BY <1>2 DEF TypeOK
  <1>4. StoreInv'
    <2>1. \A d \in Call :
             /\ pc'[d] \in {"idle", "calling", "sent"} => target[d] = 0
             /\ pc'[d] = "delayed" => d \notin executed
             /\ pc'[d] \in {"answered", "replying", "true"} => d \in executed
      BY <1>2 DEF TypeOK, StoreInv
    <2>. QED  BY <2>1 DEF StoreInv, Last
  <1>5. NoAckLost'
    <2>. DEFINE i == end[c].to
    <2>1. i \in Peer
      BY DEF TypeOK, End
    <2>2. w = "replying" => c \in stores[i][saved[i]]
      <3>. SUFFICES ASSUME w = "replying" PROVE c \in stores[i][saved[i]]
        OBVIOUS
      <3>1. c \in executed /\ servers[i] = target[c]
        BY <1>2 DEF StoreInv, IsServerDead, Server
      <3>2. target[c] # 0 /\ c \in stores[i][rafts[i][target[c]]]
        BY <3>1 DEF StoreInv
      <3>. QED  BY <2>1, <3>1, <3>2 DEF StoreInv
    <2>3. w = "true" => c \in stores[i][saved[i]]
      BY <1>2 DEF NoAckLost
    <2>. QED  BY <1>2, <2>2, <2>3 DEF NoAckLost, TypeOK
  <1>. QED  BY <1>3, <1>4, <1>5 DEF NetInv

LEMMA ReadInv ==
    ASSUME NetInv, NEW c \in Call, Read(c) \/ DropRequest(c)
    PROVE  NetInv'
  <1>. TypeOK /\ StoreInv /\ NoAckLost
    BY DEF NetInv
  <1>1. UNCHANGED <<network, peers, tester, end, executed>>
    BY DEF Read, DropRequest
  <1>2. PICK w \in {"delayed", "failing"}, n \in 0..MaxStarts :
          /\ pc' = [pc EXCEPT ![c] = w]
          /\ target' = [target EXCEPT ![c] = n]
          /\ n # 0 => n = servers[end[c].to]
    <2>1. end[c].to \in Peer /\ 0 \in 0..MaxStarts
      BY LabrpcAssumption DEF TypeOK, End
    <2>2. CASE Read(c)
      BY <2>1, <2>2 DEF Read, Goto, Server, TypeOK
    <2>3. CASE DropRequest(c)
      BY <2>1, <2>3 DEF DropRequest, Goto
    <2>. QED  BY <2>2, <2>3
  <1>3. c \notin executed
    BY DEF Read, DropRequest, StoreInv, TypeOK
  <1>. USE <1>1 DEF network, peers, tester
  <1>4. TypeOK'
    BY <1>2 DEF TypeOK, Where
  <1>5. StoreInv'
    <2>1. \A d \in Call : target'[d] <= Last(end[d].to)
      <3>1. end[c].to \in Peer
        BY DEF TypeOK, End
      <3>2. n = 0 \/ n = Last(end[c].to)
        BY <1>2, <3>1 DEF StoreInv
      <3>3. n <= Last(end[c].to)
        BY <3>1, <3>2 DEF StoreInv, TypeOK, Last
      <3>4. ASSUME NEW d \in Call PROVE target'[d] = IF d = c THEN n ELSE target[d]
        BY <1>2 DEF TypeOK
      <3>. QED  BY <3>3, <3>4 DEF StoreInv
    <2>2. \A d \in executed :
             target'[d] # 0 /\ d \in stores[end[d].to][rafts[end[d].to][target'[d]]]
      BY <1>2, <1>3 DEF TypeOK, StoreInv
    <2>3. \A d \in Call :
             /\ pc'[d] \in {"idle", "calling", "sent"} => target'[d] = 0
             /\ pc'[d] = "delayed" => d \notin executed
             /\ pc'[d] \in {"answered", "replying", "true"} => d \in executed
      BY <1>2, <1>3 DEF TypeOK, StoreInv
    <2>. QED  BY <2>1, <2>2, <2>3 DEF StoreInv, Last
  <1>6. NoAckLost'
    BY <1>2 DEF NoAckLost, TypeOK
  <1>. QED  BY <1>4, <1>5, <1>6 DEF NetInv

\* The incarnation that has executed a call.
LEMMA ExecutedIn ==
    ASSUME TypeOK, StoreInv, NEW d \in executed
    PROVE  end[d].to \in Peer /\ target[d] \in DOMAIN rafts[end[d].to]
  <1>1. end[d].to \in Peer /\ target[d] \in Nat
    BY LabrpcAssumption DEF TypeOK, End
  <1>2. target[d] # 0 /\ target[d] <= Last(end[d].to)
    BY DEF TypeOK, StoreInv
  <1>3. rafts[end[d].to] \in Seq(Nat)
    BY <1>1 DEF TypeOK
  <1>4. target[d] \in 1..Len(rafts[end[d].to])
    BY <1>1, <1>2, <1>3 DEF Last
  <1>. QED  BY <1>1, <1>3, <1>4

\* A handler only adds to a persister.
LEMMA DispatchInv ==
    ASSUME NetInv, NEW c \in Call, Dispatch(c)
    PROVE  NetInv'
  <1>. TypeOK /\ StoreInv /\ NoAckLost
    BY DEF NetInv
  <1>. DEFINE i == end[c].to
              p == rafts[i][target[c]]
  <1>1. /\ UNCHANGED <<network, connected, saved, rafts, tester, calls>>
        /\ executed' = executed \cup {c}
        /\ target[c] # 0 /\ pc[c] # "delayed"
    BY DEF Dispatch
  <1>2. i \in Peer
    BY DEF TypeOK, End
  <1>3. p \in DOMAIN stores[i]
    BY SMTT(40), <1>1, <1>2 DEF TypeOK, StoreInv, Last
  <1>4. stores' = [stores EXCEPT ![i] = [stores[i] EXCEPT ![p] = @ \cup {c}]]
    BY DEF Dispatch
  <1>5. /\ stores'[i] \in Seq(SUBSET Call)
        /\ DOMAIN stores'[i] = DOMAIN stores[i]
        /\ \A n \in DOMAIN stores[i] : stores[i][n] \subseteq stores'[i][n]
        /\ c \in stores'[i][p]
    <2>1. stores[i] \in Seq(SUBSET Call) /\ stores'[i] = [stores[i] EXCEPT ![p] = @ \cup {c}]
      BY <1>2, <1>4 DEF TypeOK
    <2>2. stores[i][p] \cup {c} \in SUBSET Call
      <3>1. p \in 1..Len(stores[i])
        BY <1>3, <2>1, LenProperties
      <3>2. stores[i][p] \in SUBSET Call
        BY <2>1, <3>1, ElementOfSeq
      <3>. QED  BY <3>2
    <2>3. stores'[i] = [stores[i] EXCEPT ![p] = stores[i][p] \cup {c}]
      BY <2>1
    <2>4. stores'[i] \in Seq(SUBSET Call)
      <3>. HIDE DEF i, p
      <3>1. p \in 1..Len(stores[i])
        BY <1>3, <2>1
      <3>. QED  BY <2>1, <2>2, <2>3, <3>1, ExceptSeq
    <2>. QED  BY <1>3, <2>1, <2>3, <2>4
  <1>6. \A j \in Peer : j # i => stores'[j] = stores[j]
    BY <1>4 DEF TypeOK
  <1>7. stores' \in [Peer -> Seq(SUBSET Call)]
    BY <1>2, <1>4, <1>5 DEF TypeOK
  <1>8. \A j \in Peer : /\ DOMAIN stores'[j] = DOMAIN stores[j]
                        /\ \A n \in DOMAIN stores[j] : stores[j][n] \subseteq stores'[j][n]
    BY <1>5, <1>6
  <1>. USE <1>1 DEF network, tester, calls
  <1>9. TypeOK'
    BY <1>7 DEF TypeOK
  <1>10. StoreInv'
    <2>1. \A d \in executed' : d \in stores'[end[d].to][rafts[end[d].to][target[d]]]
      <3>1. ASSUME NEW d \in executed
            PROVE  d \in stores'[end[d].to][rafts[end[d].to][target[d]]]
        <4>1. end[d].to \in Peer /\ target[d] \in DOMAIN rafts[end[d].to]
          BY ExecutedIn
        <4>. QED  BY <4>1, <1>8 DEF StoreInv
      <3>. QED  BY <3>1, <1>5
    <2>2. \A j \in Peer : saved[j] \in DOMAIN stores'[j]
      BY <1>8 DEF StoreInv
    <2>3. \A j \in Peer : \A n \in DOMAIN rafts[j] : rafts[j][n] \in DOMAIN stores'[j]
      BY <1>8 DEF StoreInv
    <2>. QED  BY <2>1, <2>2, <2>3 DEF StoreInv, Last, TypeOK
  <1>11. NoAckLost'
    <2>1. \A d \in Call : end[d].to \in Peer
      BY DEF TypeOK, End
    <2>. QED  BY <2>1, <1>8 DEF NoAckLost, StoreInv
  <1>. QED  BY <1>9, <1>10, <1>11 DEF NetInv

-----------------------------------------------------------------------------
(* The tester. *)

LEMMA OperateInv ==
    ASSUME NetInv, NEW i \in Peer, NEW conn \in BOOLEAN,
           connected' = [connected EXCEPT ![i] = conn],
           NEW operation \in {"connect", "disconnect", "crash", "start"},
           operation = "start" => Last(i) < MaxStarts,
           NEW ends \in SUBSET End,
           Operate(i, operation, ends)
    PROVE  NetInv'
  <1>. TypeOK /\ StoreInv /\ NoAckLost
    BY DEF NetInv
  <1>. USE DEF Operate, network, calls
  <1>1. TypeOK'
    <2>1. ops' \in 0..MaxOps
      BY LabrpcAssumption DEF TypeOK
    <2>. QED  BY <2>1 DEF TypeOK
  <1>2. StoreInv'
    BY DEF StoreInv, Last
  <1>3. NoAckLost'
    BY DEF NoAckLost
  <1>. QED  BY <1>1, <1>2, <1>3 DEF NetInv

LEMMA BeginOperationInv ==
    ASSUME NetInv, NEW i \in Peer,
           Connect(i) \/ Disconnect(i) \/ Crash(i) \/ Start(i)
    PROVE  NetInv'
  <1>1. EndsAt(i) \in SUBSET End
    BY DEF EndsAt, EndsNow
  <1>2. CASE Connect(i)
    BY <1>1, <1>2, OperateInv DEF Connect
  <1>3. CASE Disconnect(i) \/ Crash(i) \/ Start(i)
    BY <1>1, <1>3, OperateInv DEF Detach, Disconnect, Crash, Start
  <1>. QED  BY <1>2, <1>3

LEMMA NetworkInv ==
    ASSUME NetInv, (\E e \in End : Toggle(e)) \/ DeleteServer \/ Cleanup
    PROVE  NetInv'
  <1>. TypeOK /\ StoreInv /\ NoAckLost
    BY DEF NetInv
  <1>1. UNCHANGED <<peers, calls, executed, op, subject>>
    BY DEF Toggle, DeleteServer, Cleanup, tester
  <1>. USE <1>1 DEF peers, calls
  <1>2. TypeOK'
    <2>1. CASE \E e \in End : Toggle(e)
      BY <2>1 DEF Toggle, TypeOK
    <2>2. CASE DeleteServer
      <3>1. 0 \in 0..MaxStarts
        BY LabrpcAssumption
      <3>. QED  BY <2>2, <3>1 DEF DeleteServer, TypeOK
    <2>3. CASE Cleanup
      BY <2>3 DEF Cleanup, TypeOK, tester
    <2>. QED  BY <2>1, <2>2, <2>3
  <1>3. StoreInv'
    <2>1. CASE \E e \in End : Toggle(e)
      BY <2>1 DEF Toggle, StoreInv, Last
    <2>2. CASE DeleteServer
      BY <2>2 DEF DeleteServer, StoreInv, Last, TypeOK
    <2>3. CASE Cleanup
      BY <2>3 DEF Cleanup, StoreInv, Last, tester
    <2>. QED  BY <2>1, <2>2, <2>3
  <1>4. NoAckLost'
    BY DEF NoAckLost
  <1>. QED  BY <1>2, <1>3, <1>4 DEF NetInv

\* The copy holds what the persister held.
LEMMA CopyInv == ASSUME NetInv, Copy PROVE NetInv'
  <1>. TypeOK /\ StoreInv /\ NoAckLost
    BY DEF NetInv
  <1>. DEFINE i == subject
              n == Len(stores[i])
  <1>1. /\ step = "copy" /\ step' = AfterCopy
        /\ stores' = [stores EXCEPT ![i] = Append(@, @[saved[i]])]
        /\ saved' = [saved EXCEPT ![i] = Len(stores'[i])]
        /\ UNCHANGED <<network, connected, rafts, op, subject, todo, ops, calls, executed>>
    BY DEF Copy
  <1>2. i \in Peer /\ stores[i] \in Seq(SUBSET Call) /\ saved[i] \in DOMAIN stores[i]
    BY DEF TypeOK, StoreInv
  <1>3. /\ stores'[i] \in Seq(SUBSET Call)
        /\ DOMAIN stores'[i] = DOMAIN stores[i] \cup {n + 1}
        /\ \A k \in DOMAIN stores[i] : stores'[i][k] = stores[i][k]
        /\ saved'[i] = n + 1 /\ stores'[i][n + 1] = stores[i][saved[i]]
    <2>1. stores'[i] = Append(stores[i], stores[i][saved[i]])
      BY <1>1, <1>2 DEF TypeOK
    <2>2. saved'[i] = Len(stores'[i])
      BY <1>1, <1>2 DEF TypeOK
    <2>3. stores[i][saved[i]] \in SUBSET Call
      BY <1>2
    <2>. QED  BY <1>2, <2>1, <2>2, <2>3
  <1>4. \A j \in Peer \ {i} : stores'[j] = stores[j] /\ saved'[j] = saved[j]
    BY <1>1 DEF TypeOK
  <1>5. \A j \in Peer : \A k \in DOMAIN stores[j] :
           k \in DOMAIN stores'[j] /\ stores'[j][k] = stores[j][k]
    BY <1>3, <1>4
  <1>6. \A j \in Peer : stores'[j][saved'[j]] = stores[j][saved[j]]
    BY <1>3, <1>4
  <1>. USE <1>1 DEF network, calls
  <1>7. TypeOK'
    <2>1. stores' \in [Peer -> Seq(SUBSET Call)]
      BY <1>1, <1>2, <1>3 DEF TypeOK
    <2>2. saved' \in [Peer -> Nat]
      BY <1>1, <1>2, <1>3 DEF TypeOK
    <2>. QED  BY <2>1, <2>2 DEF TypeOK, AfterCopy
  <1>8. StoreInv'
    <2>1. \A j \in Peer : /\ saved'[j] \in DOMAIN stores'[j]
                          /\ \A k \in DOMAIN rafts[j] : rafts[j][k] \in DOMAIN stores'[j]
      BY <1>3, <1>4, <1>5 DEF StoreInv
    <2>2. \A j \in Peer : servers[j] # 0 => saved'[j] = saved[j]
      BY <1>4 DEF StoreInv
    <2>3. \A d \in executed : d \in stores'[end[d].to][rafts[end[d].to][target[d]]]
      <3>. SUFFICES ASSUME NEW d \in executed
                    PROVE  d \in stores'[end[d].to][rafts[end[d].to][target[d]]]
        OBVIOUS
      <3>1. end[d].to \in Peer /\ target[d] \in DOMAIN rafts[end[d].to]
        BY ExecutedIn
      <3>. QED  BY <3>1, <1>5 DEF StoreInv
    <2>. QED  BY <2>1, <2>2, <2>3 DEF StoreInv, Last, AfterCopy
  <1>9. NoAckLost'
    <2>1. \A d \in Call : end[d].to \in Peer
      BY DEF TypeOK, End
    <2>. QED  BY <2>1, <1>6 DEF NoAckLost
  <1>. QED  BY <1>7, <1>8, <1>9 DEF NetInv

LEMMA MakeInv == ASSUME NetInv, Make PROVE NetInv'
  <1>. TypeOK /\ StoreInv /\ NoAckLost
    BY DEF NetInv
  <1>. DEFINE i == subject
              n == Last(i)
  <1>1. /\ step = "make" /\ step' = "idle"
        /\ rafts' = [rafts EXCEPT ![i] = Append(@, saved[i])]
        /\ servers' = [servers EXCEPT ![i] = Len(rafts'[i])]
        /\ UNCHANGED <<reliable, done, enabled, connected, stores, saved, op, subject, todo,
                       ops, calls, executed>>
    BY DEF Make
  <1>2. i \in Peer /\ rafts[i] \in Seq(Nat) /\ saved[i] \in Nat
    BY DEF TypeOK
  <1>3. /\ rafts'[i] \in Seq(Nat) /\ Len(rafts'[i]) = n + 1 /\ n \in Nat
        /\ \A k \in DOMAIN rafts[i] : rafts'[i][k] = rafts[i][k]
        /\ DOMAIN rafts'[i] = DOMAIN rafts[i] \cup {n + 1}
        /\ rafts'[i][n + 1] = saved[i]
        /\ servers'[i] = n + 1
    <2>1. rafts'[i] = Append(rafts[i], saved[i])
      BY <1>1, <1>2 DEF TypeOK
    <2>2. servers'[i] = Len(rafts'[i])
      BY <1>1, <1>2 DEF TypeOK
    <2>. QED  BY <1>2, <2>1, <2>2 DEF Last
  <1>4. \A j \in Peer \ {i} : rafts'[j] = rafts[j] /\ servers'[j] = servers[j]
    BY <1>1 DEF TypeOK
  <1>5. n + 1 \in 1..MaxStarts
    BY <1>1, <1>3, LabrpcAssumption DEF StoreInv, TypeOK
  <1>. USE <1>1 DEF calls
  <1>6. TypeOK'
    <2>1. rafts' \in [Peer -> Seq(Nat)]
      BY <1>1, <1>2, <1>3 DEF TypeOK
    <2>2. servers' \in [Peer -> 0..MaxStarts]
      BY <1>1, <1>2, <1>3, <1>5 DEF TypeOK
    <2>. QED  BY <2>1, <2>2 DEF TypeOK
  <1>7. StoreInv'
    <2>1. \A j \in Peer :
             /\ 1 <= Len(rafts'[j]) /\ Len(rafts'[j]) <= MaxStarts
             /\ \A k \in DOMAIN rafts'[j] : rafts'[j][k] \in DOMAIN stores[j]
             /\ servers'[j] # 0 => servers'[j] = Len(rafts'[j])
                                   /\ saved[j] = rafts'[j][Len(rafts'[j])]
      BY <1>3, <1>4, <1>5 DEF StoreInv, Last
    <2>2. \A d \in Call : target[d] <= Len(rafts'[end[d].to])
      <3>. SUFFICES ASSUME NEW d \in Call PROVE target[d] <= Len(rafts'[end[d].to])
        OBVIOUS
      <3>1. end[d].to \in Peer /\ target[d] \in Nat /\ target[d] <= Last(end[d].to)
        BY LabrpcAssumption DEF TypeOK, End, StoreInv
      <3>. QED  BY <3>1, <1>3, <1>4 DEF Last
    <2>3. \A d \in executed : rafts'[end[d].to][target[d]] = rafts[end[d].to][target[d]]
      <3>. SUFFICES ASSUME NEW d \in executed
                    PROVE  rafts'[end[d].to][target[d]] = rafts[end[d].to][target[d]]
        OBVIOUS
      <3>1. end[d].to \in Peer /\ target[d] \in DOMAIN rafts[end[d].to]
        BY ExecutedIn
      <3>. QED  BY <3>1, <1>3, <1>4
    <2>. QED  BY ZenonT(40), <2>1, <2>2, <2>3 DEF StoreInv, Last
  <1>8. NoAckLost'
    BY DEF NoAckLost
  <1>. QED  BY <1>6, <1>7, <1>8 DEF NetInv

LEMMA NextInv == NetInv /\ [Next]_vars => NetInv'
  <1>1. ASSUME NetInv, NEW c \in Call, Begin(c) \/ Process(c) \/ Dispatch(c)
        PROVE  NetInv'
    BY <1>1, MovesInv, ReadInv, DispatchInv DEF Process, Moves
  <1>2. ASSUME NetInv, Test PROVE NetInv'
    BY <1>2, BeginOperationInv, NetworkInv, CopyInv, MakeInv DEF Test
  <1>3. ASSUME NetInv, UNCHANGED vars PROVE NetInv'
    BY <1>3 DEF vars, network, peers, tester, calls, NetInv, TypeOK, StoreInv,
                NoAckLost, Last
  <1>. QED  BY <1>1, <1>2, <1>3 DEF Next

-----------------------------------------------------------------------------
\* The persisters of all incarnations, through every crash and restart of config.go.
THEOREM NetInvariance == Spec => []NetInv
  <1>. QED  BY InitInv, NextInv, PTL DEF Spec

\* What labrpc acknowledges is saved where the next incarnation finds it
\* (processReq's second look at the server).
THEOREM AcksAreSaved == Spec => []NoAckLost
  <1>1. NetInv => NoAckLost
    BY DEF NetInv
  <1>. QED  BY <1>1, NetInvariance, PTL

-----------------------------------------------------------------------------
(* What the tester has connected.  While it toggles ends, those in todo are *)
(* the ones that may differ; a peer that is being crashed or restarted is   *)
(* disconnected, so its new ends start out as its old ones ended.           *)
EnabledInv ==
    /\ step = "toggle" /\ op = "connect" => enabled \cup todo = Reachable
    /\ step = "toggle" /\ op # "connect" => enabled \ todo = Reachable
    /\ step # "toggle" => enabled = Reachable
    /\ step # "idle" /\ op # "connect" => ~ connected[subject]

LEMMA InitEnabled == Init => EnabledInv
  BY LabrpcAssumption DEF Init, EnabledInv, Reachable, EndsNow, End, Last

LEMMA ToggleEnabled ==
    ASSUME EnabledInv, NEW e \in End, Toggle(e)
    PROVE  EnabledInv'
  <1>1. Reachable' = Reachable
    BY DEF Toggle, peers, Reachable, EndsNow, Last
  <1>. QED  BY <1>1 DEF Toggle, peers, EnabledInv

LEMMA ConnectEnabled ==
    ASSUME TypeOK, EnabledInv, NEW i \in Peer, Connect(i)
    PROVE  EnabledInv'
  <1>1. /\ step = "idle" /\ step' = "toggle" /\ op' = "connect" /\ rafts' = rafts
        /\ UNCHANGED enabled
        /\ todo' = {e \in EndsAt(i) : connected'[e.from] /\ connected'[e.to]}
    BY DEF Connect, Operate, network
  <1>2. \A j \in Peer : connected'[j] <=> connected[j] \/ j = i
    BY DEF Connect, TypeOK
  <1>3. EndsNow' = EndsNow
    BY <1>1 DEF EndsNow, Last
  <1>4. Reachable' = Reachable \cup todo'
    <2>1. ASSUME NEW e \in EndsNow PROVE e \in Reachable' <=> e \in Reachable \cup todo'
      <3>1. e.from \in Peer /\ e.to \in Peer
        BY DEF EndsNow, End
      <3>. QED  BY <3>1, <1>1, <1>2, <1>3 DEF Reachable, EndsAt
    <2>. QED  BY <2>1, <1>1, <1>3 DEF Reachable, EndsAt
  <1>. QED  BY <1>1, <1>4 DEF EnabledInv

LEMMA DetachEnabled ==
    ASSUME TypeOK, EnabledInv, NEW i \in Peer,
           NEW operation \in {"disconnect", "crash", "start"}, Detach(i, operation)
    PROVE  EnabledInv'
  <1>1. /\ step = "idle" /\ step' = "toggle" /\ op' = operation /\ rafts' = rafts
        /\ UNCHANGED enabled /\ todo' = EndsAt(i) /\ subject' = i
    BY DEF Detach, Operate, network
  <1>2. \A j \in Peer : connected'[j] <=> connected[j] /\ j # i
    BY DEF Detach, TypeOK
  <1>3. EndsNow' = EndsNow
    BY <1>1 DEF EndsNow, Last
  <1>4. Reachable' = Reachable \ todo'
    <2>1. ASSUME NEW e \in EndsNow PROVE e \in Reachable' <=> e \in Reachable \ todo'
      <3>1. e.from \in Peer /\ e.to \in Peer
        BY DEF EndsNow, End
      <3>. QED  BY <3>1, <1>1, <1>2, <1>3 DEF Reachable, EndsAt
    <2>. QED  BY <2>1, <1>1, <1>3 DEF Reachable, EndsAt
  <1>. QED  BY <1>1, <1>2, <1>4 DEF EnabledInv

LEMMA MakeEnabled == ASSUME TypeOK, EnabledInv, StoreInv, Make PROVE EnabledInv'
  <1>1. /\ step = "make" /\ step' = "idle" /\ op = "start"
        /\ UNCHANGED <<connected, enabled>>
        /\ \A j \in Peer \ {subject} : rafts'[j] = rafts[j]
    BY DEF Make, StoreInv, TypeOK
  <1>2. ~ connected[subject]
    BY <1>1 DEF EnabledInv
  <1>3. \A e \in End : e.from # subject => (e \in EndsNow' <=> e \in EndsNow)
    BY <1>1 DEF EndsNow, End, Last
  <1>4. Reachable' = Reachable
    BY <1>1, <1>2, <1>3 DEF Reachable, EndsNow
  <1>. QED  BY <1>1, <1>4 DEF EnabledInv

LEMMA NextEnabled == NetInv /\ EnabledInv /\ [Next]_vars => EnabledInv'
  <1>. SUFFICES ASSUME NetInv, EnabledInv, [Next]_vars PROVE EnabledInv'
    OBVIOUS
  <1>. TypeOK /\ StoreInv
    BY DEF NetInv
  <1>1. ASSUME UNCHANGED <<enabled, connected, rafts, op, subject, todo>>,
               step' = step \/ (step # "toggle" /\ step' # "toggle" /\ (step = "idle" => step' = "idle"))
        PROVE  EnabledInv'
    <2>1. Reachable' = Reachable
      BY <1>1 DEF Reachable, EndsNow, Last
    <2>. QED  BY <1>1, <2>1 DEF EnabledInv
  <1>2. ASSUME NEW c \in Call, Begin(c) \/ Process(c) \/ Dispatch(c) PROVE EnabledInv'
    BY <1>1, <1>2 DEF Process, OnlyMoves, Begin, Accept, Refuse, Read, ReadNoServer,
                      DropRequest, StartHandler, Dispatch, Answered, Poll, Reply,
                      DropReply, Succeed, Fail, network, peers, tester
  <1>3. CASE DeleteServer \/ Copy \/ Cleanup
    BY <1>1, <1>3 DEF DeleteServer, Copy, Cleanup, AfterCopy, network, peers, tester
  <1>4. ASSUME NEW i \in Peer, Connect(i) \/ Disconnect(i) \/ Crash(i) \/ Start(i)
        PROVE  EnabledInv'
    BY <1>4, ConnectEnabled, DetachEnabled DEF Disconnect, Crash, Start
  <1>5. CASE UNCHANGED vars
    BY <1>1, <1>5 DEF vars, network, peers, tester
  <1>. QED
    BY <1>2, <1>3, <1>4, <1>5, ToggleEnabled, MakeEnabled DEF Next, Test

\* Nothing of a replaced or disconnected peer gets through, however often the peers
\* are connected, disconnected, crashed and restarted.
THEOREM EnabledExact == Spec => []EnabledIsConnected
  <1>1. EnabledInv => EnabledIsConnected
    BY DEF EnabledInv, EnabledIsConnected
  <1>2. Spec => []EnabledInv
    BY InitEnabled, NextEnabled, NetInvariance, PTL DEF Spec
  <1>. QED  BY <1>1, <1>2, PTL


-----------------------------------------------------------------------------
(* The persisters of replaced incarnations.  A copy is made after every      *)
(* incarnation that could save in the original was made.                     *)
ApartInv ==
    /\ \A i \in Peer : \A n \in DOMAIN rafts[i] : n # Last(i) => rafts[i][n] # saved[i]
    /\ step = "make" =>
          \A n \in DOMAIN rafts[subject] : rafts[subject][n] # saved[subject]

LEMMA InitApart == Init => ApartInv
  <1>. SUFFICES ASSUME Init PROVE ApartInv
    OBVIOUS
  <1>1. \A i \in Peer : rafts[i] = <<1>> /\ Last(i) = 1
    BY DEF Init, Last
  <1>2. DOMAIN <<1>> = {1}
    OBVIOUS
  <1>. QED  BY <1>1, <1>2 DEF Init, ApartInv

LEMMA CopyApart == ASSUME NetInv, ApartInv, Copy PROVE ApartInv'
  <1>. TypeOK /\ StoreInv
    BY DEF NetInv
  <1>. DEFINE i == subject
              n == Len(stores[i])
  <1>1. /\ i \in Peer /\ stores[i] \in Seq(SUBSET Call) /\ n \in Nat
        /\ saved \in [Peer -> Nat]
    BY LenProperties DEF TypeOK
  <1>2. /\ stores'[i] = Append(stores[i], stores[i][saved[i]])
        /\ saved' = [saved EXCEPT ![i] = Len(stores'[i])]
        /\ UNCHANGED <<rafts, subject>>
    BY DEF Copy, TypeOK
  <1>3. Len(stores'[i]) = n + 1
    <2>1. stores[i][saved[i]] \in SUBSET Call
      BY <1>1, ElementOfSeq DEF StoreInv
    <2>. QED  BY <1>1, <1>2, <2>1, AppendProperties
  <1>4. \A m \in DOMAIN rafts[i] : rafts[i][m] \in 1..n
    BY <1>1, LenProperties DEF StoreInv
  <1>5. \A m \in DOMAIN rafts[i] : rafts[i][m] # n + 1
    BY <1>1, <1>4
  <1>. HIDE DEF n
  <1>6. saved'[i] = n + 1 /\ \A j \in Peer \ {i} : saved'[j] = saved[j]
    BY <1>1, <1>2, <1>3
  <1>. QED  BY <1>1, <1>2, <1>5, <1>6 DEF ApartInv, Last

LEMMA MakeApart == ASSUME NetInv, ApartInv, Make PROVE ApartInv'
  <1>. TypeOK /\ StoreInv
    BY DEF NetInv
  <1>. DEFINE i == subject
              n == Last(i)
  <1>1. /\ i \in Peer /\ rafts[i] \in Seq(Nat) /\ n \in Nat /\ saved[i] \in Nat
        /\ DOMAIN rafts[i] = 1..n
    BY LenProperties DEF TypeOK, Last
  <1>2. /\ rafts'[i] = Append(rafts[i], saved[i])
        /\ \A j \in Peer \ {i} : rafts'[j] = rafts[j]
        /\ UNCHANGED <<saved, subject>> /\ step = "make" /\ step' = "idle"
    BY DEF Make, TypeOK
  <1>3. /\ Len(rafts'[i]) = n + 1 /\ DOMAIN rafts'[i] = 1..(n + 1)
        /\ \A m \in 1..n : rafts'[i][m] = rafts[i][m]
    <2>1. rafts'[i] \in Seq(Nat) /\ Len(rafts'[i]) = n + 1
      BY <1>1, <1>2, AppendProperties DEF Last
    <2>. QED  BY <1>1, <1>2, <2>1, AppendProperties, LenProperties DEF Last
  <1>4. \A m \in 1..n : rafts[i][m] # saved[i]
    BY <1>1, <1>2 DEF ApartInv
  <1>. HIDE DEF n
  <1>5. \A m \in 1..(n + 1) : m # n + 1 => m \in 1..n
    BY <1>1
  <1>6. \A m \in DOMAIN rafts'[i] : m # Len(rafts'[i]) => rafts'[i][m] # saved[i]
    BY <1>3, <1>4, <1>5
  <1>7. \A j \in Peer \ {i} : \A m \in DOMAIN rafts'[j] :
           m # Len(rafts'[j]) => rafts'[j][m] # saved[j]
    BY <1>2 DEF ApartInv, Last
  <1>. QED  BY <1>2, <1>6, <1>7 DEF ApartInv, Last

LEMMA NextApart == NetInv /\ ApartInv /\ [Next]_vars => ApartInv'
  <1>. SUFFICES ASSUME NetInv, ApartInv, [Next]_vars PROVE ApartInv'
    OBVIOUS
  <1>1. ASSUME UNCHANGED <<rafts, saved>>, step' # "make" \/ (step = "make" /\ subject' = subject)
        PROVE  ApartInv'
    BY <1>1 DEF ApartInv, Last
  <1>2. ASSUME NEW c \in Call, Begin(c) \/ Process(c) \/ Dispatch(c) PROVE ApartInv'
    BY <1>1, <1>2 DEF Process, OnlyMoves, Begin, Accept, Refuse, Read, ReadNoServer,
                      DropRequest, StartHandler, Dispatch, Answered, Poll, Reply,
                      DropReply, Succeed, Fail, network, peers, tester
  <1>3. CASE DeleteServer \/ Cleanup \/ \E e \in End : Toggle(e)
    BY <1>1, <1>3 DEF DeleteServer, Cleanup, Toggle, network, peers, tester
  <1>4. ASSUME NEW i \in Peer, Connect(i) \/ Disconnect(i) \/ Crash(i) \/ Start(i)
        PROVE  ApartInv'
    BY <1>1, <1>4 DEF Connect, Disconnect, Crash, Start, Detach, Operate
  <1>5. CASE UNCHANGED vars
    BY <1>1, <1>5 DEF vars, network, peers, tester
  <1>. QED
    BY <1>2, <1>3, <1>4, <1>5, CopyApart, MakeApart DEF Next, Test

\* A handler of an incarnation that was replaced saves in a persister that no later
\* incarnation reads, however late it runs (the copy in crash1 and start1 of config.go).
THEOREM OldStoresStayApart == Spec => OldStoresApart
  <1>1. Spec => []ApartInv
    BY InitApart, NextApart, NetInvariance, PTL DEF Spec
  <1>2. ASSUME NetInv, ApartInv, [Next]_vars,
               NEW c \in executed' \ executed, target[c] # Last(end[c].to)
        PROVE  stores'[end[c].to][saved'[end[c].to]] = stores[end[c].to][saved[end[c].to]]
    <2>. TypeOK /\ StoreInv
      BY <1>2 DEF NetInv
    <2>1. PICK d \in Call : Dispatch(d)
      BY <1>2 DEF Next, Process, OnlyMoves, Begin, Accept, Refuse, Read, ReadNoServer,
                  DropRequest, StartHandler, Answered, Poll, Reply, DropReply, Succeed,
                  Fail, Test, Connect, Disconnect, Crash, Start, Detach, Operate, Toggle,
                  DeleteServer, Copy, Make, Cleanup, vars
    <2>2. d = c
      BY <1>2, <2>1 DEF Dispatch
    <2>. DEFINE i == end[c].to
    <2>3. /\ stores' = [stores EXCEPT ![i][rafts[i][target[c]]] = @ \cup {c}]
          /\ saved' = saved /\ target[c] # 0
      BY <2>1, <2>2 DEF Dispatch
    <2>4. i \in Peer /\ target[c] \in Nat /\ Last(i) \in Nat /\ target[c] <= Last(i)
      BY <2>2, LabrpcAssumption, LenProperties DEF TypeOK, End, StoreInv, Last
    <2>5. target[c] \in DOMAIN rafts[i]
      BY <2>3, <2>4, LenProperties DEF TypeOK, Last
    <2>6. rafts[i][target[c]] # saved[i]
      BY <1>2, <2>4, <2>5 DEF ApartInv
    <2>. QED  BY <2>3, <2>4, <2>6 DEF TypeOK
  <1>3. NetInv /\ ApartInv /\ [Next]_vars =>
           [\A c \in executed' \ executed :
              LET i == end[c].to IN
              target[c] # Last(i) => stores'[i][saved'[i]] = stores[i][saved[i]]]_vars
    BY <1>2
  <1>. QED  BY <1>1, <1>3, NetInvariance, PTL DEF Spec, OldStoresApart

-----------------------------------------------------------------------------
(* labgob. *)

\* What is proved of labrpc holds with labgob's replies, which only look on.
THEOREM LabgobIsLabrpc == GobSpec => Spec
  <1>1. GobInit => Init
    BY DEF GobInit
  <1>2. [GobNext]_<<vars, gob>> => [Next]_vars
    BY DEF GobNext, Fill, Next
  <1>. QED  BY <1>1, <1>2, PTL DEF GobSpec, Spec

\* Decoding into a variable without old values gives what was encoded.
LEMMA FreshIsFaithful ==
    ASSUME NEW v \in Content, NEW w \in Content, \A f \in Field : v[f] = 0
    PROVE  Decode(v, Encode(w)) = w
  BY DEF Decode, Encode, Content

LEMMA DecodeType ==
    ASSUME NEW v \in Content, NEW w \in Content
    PROVE  Decode(v, Encode(w)) \in Content
  BY DEF Decode, Encode, Content

ReplyInv ==
    /\ reply \in [Call -> Content] /\ filled \in [Call -> Content]
    /\ errorCount \in Nat
    /\ MixedReplyIsReported

LEMMA CheckCounts ==
    ASSUME NEW v \in Content
    PROVE  /\ CheckDefault(v) \in Nat
           /\ CheckDefault(v) = 0 => Depth > 3 \/ \A f \in Field : v[f] = 0
  <1>. DEFINE F == {f \in Field : v[f] # 0}
  <1>1. IsFiniteSet(F)
    BY ReplyAssumption, FS_Subset
  <1>2. Cardinality(F) \in Nat /\ (Cardinality(F) = 0 => F = {})
    BY <1>1, FS_CardinalityType, FS_EmptySet
  <1>. QED  BY <1>2 DEF CheckDefault

LEMMA InitReply == GobInit => ReplyInv
  <1>. SUFFICES ASSUME GobInit PROVE ReplyInv
    OBVIOUS
  <1>1. \A c \in Call : pc[c] # "true"
    BY DEF GobInit, Init
  <1>2. Fresh \in Content
    BY DEF Fresh, Content
  <1>. QED  BY <1>1, <1>2 DEF GobInit, ReplyInv, MixedReplyIsReported

LEMMA NextReply == NetInv /\ ReplyInv /\ [GobNext]_<<vars, gob>> => ReplyInv'
  <1>. SUFFICES ASSUME NetInv, ReplyInv, [GobNext]_<<vars, gob>> PROVE ReplyInv'
    OBVIOUS
  <1>. TypeOK /\ StoreInv /\ DOMAIN pc = Call
    BY DEF NetInv, TypeOK
  <1>1. ASSUME UNCHANGED gob, \A d \in Call : pc'[d] = "true" => pc[d] = "true"
        PROVE  ReplyInv'
    BY <1>1 DEF gob, ReplyInv, MixedReplyIsReported
  <1>2. ASSUME NEW c \in Call, Fill(c) PROVE ReplyInv'
    <2>1. /\ c \notin executed /\ pc' = pc
          /\ UNCHANGED <<reply, errorCount>>
          /\ filled' \in [Call -> Content]
          /\ \A d \in Call \ {c} : filled'[d] = filled[d]
      BY <1>2 DEF Fill, Dispatch, calls, ReplyInv
    <2>2. pc[c] # "true"
      BY <2>1 DEF StoreInv
    <2>. QED  BY <2>1, <2>2 DEF ReplyInv, MixedReplyIsReported
  <1>3. ASSUME NEW c \in Call, Begin(c), UNCHANGED gob PROVE ReplyInv'
    BY <1>1, <1>3 DEF Begin, OnlyMoves, Goto
  <1>4. ASSUME NEW c \in Call, Process(c), pc[c] # "replying", UNCHANGED gob
        PROVE  ReplyInv'
    BY <1>1, <1>4 DEF Process, OnlyMoves, Goto, Accept, Refuse, Read, ReadNoServer,
                      DropRequest, StartHandler, Answered, Poll, Reply, DropReply,
                      Succeed, Fail
  <1>5. ASSUME NEW c \in Call, Process(c), pc[c] = "replying", Receive(c)
        PROVE  ReplyInv'
    <2>1. pc' = [pc EXCEPT ![c] = "true"]
      BY <1>5 DEF Process, OnlyMoves, Goto, Accept, Refuse, Read, ReadNoServer,
                  DropRequest, StartHandler, Answered, Poll, Reply, DropReply,
                  Succeed, Fail
    <2>2. /\ reply[c] \in Content /\ filled[c] \in Content
          /\ filled' = filled /\ errorCount' = errorCount + CheckDefault(reply[c])
          /\ reply' = [reply EXCEPT ![c] = Decode(reply[c], Encode(filled[c]))]
      BY <1>5 DEF Receive, ReplyInv
    <2>3. reply' \in [Call -> Content]
      BY <2>2, DecodeType DEF ReplyInv
    <2>4. /\ errorCount' \in Nat
          /\ errorCount > 0 => errorCount' > 0
          /\ errorCount' > 0 \/ CheckDefault(reply[c]) = 0
      BY <2>2, CheckCounts DEF ReplyInv
    <2>5. reply'[c] = filled[c] \/ errorCount' > 0 \/ Depth > 3
      <3>1. CASE CheckDefault(reply[c]) = 0
        <4>1. Depth > 3 \/ \A f \in Field : reply[c][f] = 0
          BY <2>2, <3>1, CheckCounts
        <4>2. (\A f \in Field : reply[c][f] = 0) => reply'[c] = filled[c]
          BY <2>2, FreshIsFaithful DEF ReplyInv
        <4>. QED  BY <4>1, <4>2
      <3>. QED  BY <2>4, <3>1
    <2>. QED  BY <2>1, <2>2, <2>3, <2>4, <2>5 DEF ReplyInv, MixedReplyIsReported
  <1>6. ASSUME Test, UNCHANGED gob PROVE ReplyInv'
    BY <1>1, <1>6 DEF Test, Connect, Disconnect, Crash, Start, Detach, Operate, Toggle,
                      DeleteServer, Copy, Make, Cleanup, calls
  <1>7. CASE UNCHANGED <<vars, gob>>
    BY <1>1, <1>7 DEF vars, calls, gob
  <1>. QED  BY <1>2, <1>3, <1>4, <1>5, <1>6, <1>7 DEF GobNext

\* A reply whose fields are what labgob looks at is never mixed with the old values of
\* the caller's variable without a warning, in any order of calls and answers.
THEOREM MixedReplyIsSeen == GobSpec => []MixedReplyIsReported
  <1>1. ReplyInv => MixedReplyIsReported
    BY DEF ReplyInv
  <1>2. GobSpec => []NetInv
    BY LabgobIsLabrpc, NetInvariance, PTL
  <1>3. GobSpec => []ReplyInv
    BY <1>2, InitReply, NextReply, PTL DEF GobSpec
  <1>. QED  BY <1>1, <1>3, PTL
=============================================================================
