------------------------------- MODULE Labrpc -------------------------------
(***************************************************************************)
(* The simulated network of labrpc.go, and the tester of config.go that    *)
(* connects, disconnects, crashes and restarts peers on it.  A handler is  *)
(* a step that saves an update in the persister of the incarnation it runs *)
(* in.  Raft takes crash1 and start1 as one step; here they are taken      *)
(* apart.                                                                  *)
(*                                                                         *)
(* A step is a critical section of Network.mu, the hand-over of a request  *)
(* or a reply, or a statement of the tester on what others can see.        *)
(***************************************************************************)
EXTENDS Integers, Sequences

CONSTANTS
    Peer,      \* the servers, which are also the senders
    Call,      \* runs of ClientEnd.Call
    MaxStarts, \* bound: how often a peer is started
    MaxOps     \* bound: what the tester does after make_config

ASSUME LabrpcAssumption == MaxStarts \in Nat \ {0} /\ MaxOps \in Nat

VARIABLES
    reliable,  \* Network.reliable
    done,      \* Network.done is closed
    enabled,   \* Network.enabled, as a set of ends
    servers,   \* Network.servers: the incarnation behind each name, 0 for nil
    connected, \* cfg.connected
    stores,    \* the Persisters made for each peer: the calls each has saved
    saved,     \* cfg.saved: which of them is the peer's now
    rafts,     \* which of them each incarnation of the peer was made with
    op,        \* the operation the tester is in, or was in last
    step,      \* what it does next in it, or "idle"
    subject,   \* the peer of that operation
    todo,      \* the ends it has yet to enable or disable
    ops,       \* bound: how many operations it has begun
    pc,        \* where each call is
    end,       \* its ClientEnd
    target,    \* the incarnation that serves it, 0 when there is none
    executed   \* the calls whose handler has run

network == <<reliable, done, enabled, servers>>
peers   == <<connected, stores, saved, rafts>>
tester  == <<op, step, subject, todo, ops>>
calls   == <<pc, end, target>>
vars    == <<network, peers, tester, calls, executed>>

\* The ClientEnds of an incarnation, one for each server: their random names are
\* all different, and each is connected to its server for good.
End == [from : Peer, inst : 1..MaxStarts, to : Peer]

\* The latest incarnation of a peer, also after it has crashed.
Last(i) == Len(rafts[i])

\* cfg.endnames, and those of them that lead from or to peer i.
EndsNow == {e \in End : e.inst = Last(e.from)}
EndsAt(i) == {e \in EndsNow : i \in {e.from, e.to}}

\* As make_config leaves it: every peer started once and connected.  A network that
\* setunreliable changes between calls does nothing an unreliable one may not do.
Init ==
    /\ reliable \in BOOLEAN
    /\ done = FALSE
    /\ enabled = {e \in End : e.inst = 1}
    /\ servers = [i \in Peer |-> 1]
    /\ connected = [i \in Peer |-> TRUE]
    /\ stores = [i \in Peer |-> <<{}>>]
    /\ saved = [i \in Peer |-> 1]
    /\ rafts = [i \in Peer |-> <<1>>]
    /\ op = "none" /\ step = "idle"
    /\ subject \in Peer
    /\ todo = {}
    /\ ops = 0
    /\ pc = [c \in Call |-> "idle"]
    /\ end \in [Call -> End]
    /\ target = [c \in Call |-> 0]
    /\ executed = {}

-----------------------------------------------------------------------------
(* ClientEnd.Call and Network.processReq. *)

Goto(c, where) == pc' = [pc EXCEPT ![c] = where]

OnlyMoves(c, where) ==
    Goto(c, where) /\ UNCHANGED <<network, peers, tester, end, target, executed>>

\* An incarnation that was killed may still call.
Begin(c) == pc[c] = "idle" /\ end[c].inst <= Last(end[c].from) /\ OnlyMoves(c, "calling")

\* The goroutine of MakeNetwork takes the request.
Accept(c) == pc[c] = "calling" /\ OnlyMoves(c, "sent")

Refuse(c) == pc[c] = "calling" /\ done /\ OnlyMoves(c, "false")

Server(c) == servers[end[c].to]

\* readEndnameInfo.
Read(c) ==
    /\ pc[c] = "sent"
    /\ end[c] \in enabled /\ Server(c) # 0
    /\ target' = [target EXCEPT ![c] = Server(c)]
    /\ Goto(c, "delayed")
    /\ UNCHANGED <<network, peers, tester, end, executed>>

ReadNoServer(c) ==
    /\ pc[c] = "sent"
    /\ ~ (end[c] \in enabled /\ Server(c) # 0)
    /\ OnlyMoves(c, "failing")

DropRequest(c) ==
    /\ pc[c] = "delayed" /\ ~ reliable
    /\ target' = [target EXCEPT ![c] = 0]
    /\ Goto(c, "failing")
    /\ UNCHANGED <<network, peers, tester, end, executed>>

StartHandler(c) == pc[c] = "delayed" /\ OnlyMoves(c, "serving")

\* The handler runs to its end even if nobody waits for it any more, and saves in
\* the persister that its own incarnation was made with.
Dispatch(c) ==
    LET i == end[c].to IN
    /\ target[c] # 0 /\ pc[c] # "delayed" /\ c \notin executed
    /\ executed' = executed \cup {c}
    /\ stores' = [stores EXCEPT ![i][rafts[i][target[c]]] = @ \cup {c}]
    /\ UNCHANGED <<network, connected, saved, rafts, tester, calls>>

\* Mutant: a server that was deleted or replaced is not looked for.
IsServerDeadIfDisabled(c) == end[c] \notin enabled

IsServerDead(c) == end[c] \notin enabled \/ Server(c) # target[c]

Answered(c) == pc[c] = "serving" /\ c \in executed /\ OnlyMoves(c, "answered")

\* The look at the server every 100 ms.
Poll(c) == pc[c] = "serving" /\ IsServerDead(c) /\ OnlyMoves(c, "failing")

\* Mutant: no second look once the handler has returned.
ReplyUnchecked(c) == pc[c] = "answered" /\ OnlyMoves(c, "replying")

Reply(c) == pc[c] = "answered" /\ ~ IsServerDead(c) /\ OnlyMoves(c, "replying")

DropReply(c) ==
    pc[c] = "answered" /\ (IsServerDead(c) \/ ~ reliable) /\ OnlyMoves(c, "failing")

\* With or without long reordering, the reply arrives some time.
Succeed(c) == pc[c] = "replying" /\ OnlyMoves(c, "true")

Fail(c) == pc[c] = "failing" /\ OnlyMoves(c, "false")

-----------------------------------------------------------------------------
(* The tester: one operation at a time. *)

Operate(i, operation, ends) ==
    /\ step = "idle" /\ ops < MaxOps /\ ~ done
    /\ op' = operation /\ step' = "toggle" /\ subject' = i /\ todo' = ends
    /\ ops' = ops + 1
    /\ UNCHANGED <<network, stores, saved, rafts, calls, executed>>

\* Mutant: the ends between i and peers that are disconnected too.
ConnectToAll(i) ==
    /\ servers[i] # 0
    /\ connected' = [connected EXCEPT ![i] = TRUE]
    /\ Operate(i, "connect", EndsAt(i))

\* The tests connect peers that run.
Connect(i) ==
    /\ servers[i] # 0
    /\ connected' = [connected EXCEPT ![i] = TRUE]
    /\ Operate(i, "connect", {e \in EndsAt(i) : connected'[e.from] /\ connected'[e.to]})

\* disconnect, which is also the first statement of crash1; start1 begins with
\* crash1, whether the peer runs or not.
Detach(i, operation) ==
    /\ connected' = [connected EXCEPT ![i] = FALSE]
    /\ Operate(i, operation, EndsAt(i))

Disconnect(i) == Detach(i, "disconnect")
Crash(i)      == Detach(i, "crash")
Start(i)      == Last(i) < MaxStarts /\ Detach(i, "start")

\* One call of Network.Enable, in the loops of connect and disconnect.
Toggle(e) ==
    /\ step = "toggle" /\ e \in todo
    /\ enabled' = IF op = "connect" THEN enabled \cup {e} ELSE enabled \ {e}
    /\ todo' = todo \ {e}
    /\ step' = IF todo' # {} THEN step
               ELSE IF op \in {"crash", "start"} THEN "delete" ELSE "idle"
    /\ UNCHANGED <<reliable, done, servers, peers, op, subject, ops, calls, executed>>

\* Mutant: the server can still be called.
DeleteNothing ==
    /\ step = "delete"
    /\ step' = "copy"
    /\ UNCHANGED <<network, peers, op, subject, todo, ops, calls, executed>>

DeleteServer ==
    /\ step = "delete"
    /\ servers' = [servers EXCEPT ![subject] = 0]
    /\ step' = "copy"
    /\ UNCHANGED <<reliable, done, enabled, peers, op, subject, todo, ops, calls,
                   executed>>

AfterCopy == IF op = "start" THEN "make" ELSE "idle"

\* Mutant: the next incarnation gets the same Persister.
CopyShared ==
    /\ step = "copy"
    /\ step' = AfterCopy
    /\ UNCHANGED <<network, peers, op, subject, todo, ops, calls, executed>>

\* The old incarnation keeps its persister.  Nobody else has the copy, so the two
\* copies that are made of it before the next start add nothing.
Copy ==
    /\ step = "copy"
    /\ stores' = [stores EXCEPT ![subject] = Append(@, @[saved[subject]])]
    /\ saved' = [saved EXCEPT ![subject] = Len(stores'[subject])]
    /\ step' = AfterCopy
    /\ UNCHANGED <<network, connected, rafts, op, subject, todo, ops, calls, executed>>

\* New ends, which are not enabled yet; Make; AddServer.
Make ==
    /\ step = "make"
    /\ rafts' = [rafts EXCEPT ![subject] = Append(@, saved[subject])]
    /\ servers' = [servers EXCEPT ![subject] = Len(rafts'[subject])]
    /\ step' = "idle"
    /\ UNCHANGED <<reliable, done, enabled, connected, stores, saved, op, subject, todo,
                   ops, calls, executed>>

\* cleanup, at the end of a test.
Cleanup ==
    /\ step = "idle" /\ ~ done
    /\ done' = TRUE
    /\ UNCHANGED <<reliable, enabled, servers, peers, tester, calls, executed>>

-----------------------------------------------------------------------------
Process(c) ==
    \/ Accept(c) \/ Refuse(c)
    \/ Read(c) \/ ReadNoServer(c) \/ DropRequest(c) \/ StartHandler(c)
    \/ Answered(c) \/ Poll(c) \/ Reply(c) \/ DropReply(c)
    \/ Succeed(c) \/ Fail(c)

Test ==
    \/ \E i \in Peer : Connect(i) \/ Disconnect(i) \/ Crash(i) \/ Start(i)
    \/ \E e \in End : Toggle(e)
    \/ DeleteServer \/ Copy \/ Make \/ Cleanup

Next == (\E c \in Call : Begin(c) \/ Process(c) \/ Dispatch(c)) \/ Test

\* The goroutines of the network run.  Handlers may hang, and the tester may stop.
Fairness == \A c \in Call : WF_vars(Process(c))

Spec == Init /\ [][Next]_vars /\ Fairness

-----------------------------------------------------------------------------
(* Properties. *)

Where == {"idle", "calling", "sent", "delayed", "serving", "answered", "replying",
          "failing", "true", "false"}

TypeOK ==
    /\ reliable \in BOOLEAN /\ done \in BOOLEAN
    /\ enabled \subseteq End /\ todo \subseteq End
    /\ servers \in [Peer -> 0..MaxStarts]
    /\ connected \in [Peer -> BOOLEAN]
    /\ stores \in [Peer -> Seq(SUBSET Call)]
    /\ saved \in [Peer -> Nat]
    /\ rafts \in [Peer -> Seq(Nat)]
    /\ op \in {"none", "connect", "disconnect", "crash", "start"}
    /\ step \in {"idle", "toggle", "delete", "copy", "make"}
    /\ subject \in Peer /\ ops \in 0..MaxOps
    /\ pc \in [Call -> Where]
    /\ end \in [Call -> End]
    /\ target \in [Call -> 0..MaxStarts]
    /\ executed \subseteq Call

\* The persisters are where the comments of config.go say: the incarnation that can
\* be called saves in the one the next incarnation will start from, and what a
\* handler has saved stays in the persister of its incarnation.
StoreInv ==
    /\ \A i \in Peer :
          /\ 1 <= Last(i) /\ Last(i) <= MaxStarts
          /\ saved[i] \in DOMAIN stores[i]
          /\ \A n \in DOMAIN rafts[i] : rafts[i][n] \in DOMAIN stores[i]
          /\ servers[i] # 0 => servers[i] = Last(i) /\ saved[i] = rafts[i][Last(i)]
    /\ step \in {"copy", "make"} => servers[subject] = 0
    /\ step = "make" => op = "start"
    /\ op = "start" /\ step # "idle" => Last(subject) < MaxStarts
    /\ \A c \in Call : target[c] <= Last(end[c].to)
    /\ \A c \in executed :
          target[c] # 0 /\ c \in stores[end[c].to][rafts[end[c].to][target[c]]]
    /\ \A c \in Call :
          /\ pc[c] \in {"idle", "calling", "sent"} => target[c] = 0
          /\ pc[c] = "delayed" => c \notin executed
          /\ pc[c] \in {"answered", "replying", "true"} => c \in executed

\* A call that returns true is saved where the next incarnation of the server finds
\* it, whatever crashes and restarts overlap with it ("do not reply if DeleteServer()
\* has been called", labrpc.go:264-269).
NoAckLost ==
    \A c \in Call : pc[c] \in {"replying", "true"} =>
        c \in stores[end[c].to][saved[end[c].to]]

NetInv == TypeOK /\ StoreInv /\ NoAckLost

Reachable == {e \in EndsNow : connected[e.from] /\ connected[e.to]}

\* Between two operations of the tester the network lets through what goes between
\* two connected peers, and nothing from an incarnation that was replaced ("so that
\* old crashed instance's ClientEnds can't send", config.go:186).
EnabledIsConnected == step = "idle" => enabled = Reachable

\* A handler that still runs in an incarnation that was replaced does not change what
\* its successor has saved (config.go:201-202).
OldStoresApart ==
    [][\A c \in executed' \ executed :
          LET i == end[c].to IN
          target[c] # Last(i) => stores'[i][saved'[i]] = stores[i][saved[i]]]_vars

\* Every call returns, unless its handler hangs in a server that was not deleted
\* (TestKilled): the network does not wait for handlers of dead servers.
Hanging(c) == pc[c] = "serving" /\ c \notin executed /\ Server(c) = target[c]

CallsReturn ==
    \A c \in Call : (pc[c] = "calling" ~> pc[c] \in {"true", "false"}) \/ <>[]Hanging(c)
=============================================================================
