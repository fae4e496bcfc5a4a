------------------------------- MODULE Tester -------------------------------
(***************************************************************************)
(* The checks of config.go, over anything that keeps the promises of       *)
(* ReplicatedLog (Raft does) or, after a fault, breaks them: the appliers  *)
(* that compare what the servers deliver, and the test's own goroutine in  *)
(* one, wait, checkOneLeader, checkTerms and checkNoLeader.                *)
(*                                                                         *)
(* A step is a critical section of cfg.mu, a call of the Raft interface,   *)
(* or a fatal error.  Labrpc takes crash1, start1 and connect apart.       *)
(***************************************************************************)
EXTENDS ReplicatedLog, FiniteSets, FiniteSetsExt

CONSTANTS
    Nil,
    MaxIndex,    \* bound: the indices of the log
    MaxTerm,     \* bound: terms
    MaxCalls,    \* bound: calls of the test's goroutine
    MaxChanges,  \* bound: calls of connect, disconnect, crash1 and start1
    MaxFaults    \* bound: broken promises

N == Cardinality(Server)

ASSUME TesterAssumption ==
    /\ IsFiniteSet(Server) /\ Server = 0..(N - 1)
    /\ {MaxIndex, MaxTerm, MaxCalls, MaxChanges, MaxFaults} \subseteq Nat
    /\ Nil \notin Command \cup Server

VARIABLES
    \* the servers
    term, leads,     \* what GetState returns
    elected,         \* the leader of each term
    upto,            \* how far each incarnation has delivered the log
    faults,          \* bound: promises broken so far
    \* cfg
    connected,       \* cfg.connected
    rafts,           \* cfg.rafts: the incarnation, 0 for nil
    changes,         \* bound: changes to them so far
    logs,            \* cfg.logs
    applyCh,         \* of each incarnation, what its applier has yet to read
    failing,         \* the appliers that hold an err_msg
    exited,          \* log.Fatalf
    \* the test's goroutine: the call it is in, and its variables
    at, op, ops, cmd, want, retry, starts, tried, index, startTerm, last,
    scan, count, val, seen,
    result           \* what the last call returned, or how it failed

cluster == <<term, leads, elected, upto, faults>>
config  == <<connected, rafts, changes>>
checks  == <<logs, applyCh, failing, exited>>
call    == <<op, ops, cmd, want, retry, startTerm>>
loops   == <<starts, tried, index, last, scan, count, val, seen>>
test    == <<at, call, loops, result>>
vars    == <<absVars, cluster, config, checks, test>>

Index == 1..MaxIndex

TesterInit ==
    /\ Init
    /\ term = [s \in Server |-> 0] /\ leads = [s \in Server |-> FALSE]
    /\ elected = [t \in 1..MaxTerm |-> Nil]
    /\ upto = [s \in Server |-> <<0>>] /\ faults = 0
    /\ connected = [s \in Server |-> TRUE] /\ rafts = [s \in Server |-> 1]
    /\ changes = 0
    /\ logs = [s \in Server |-> [i \in Index |-> Nil]]
    /\ applyCh = [s \in Server |-> <<<<>>>>]
    /\ failing = {} /\ exited = FALSE
    /\ at = "idle" /\ op = "none" /\ ops = 0
    /\ cmd = Nil /\ want = 0 /\ retry = FALSE /\ startTerm = -1
    /\ starts = 0 /\ tried = 0 /\ index = 0 /\ last = FALSE
    /\ scan = 0 /\ count = 0 /\ val = Nil /\ seen = {}
    /\ result = [kind |-> "none", value |-> Nil]

-----------------------------------------------------------------------------
(* The servers, as far as a tester can see them. *)

\* A message of a newer term, or an election timeout.
NewTerm(s, t) ==
    /\ t > term[s]
    /\ term' = [term EXCEPT ![s] = t]
    /\ leads' = [leads EXCEPT ![s] = FALSE]
    /\ UNCHANGED <<absVars, elected, upto, faults, config, checks, test>>

\* An election is won.  A second leader of a term is a fault.
BecomeLeader(s) ==
    /\ rafts[s] # 0 /\ term[s] > 0 /\ ~ leads[s]
    /\ IF elected[term[s]] = Nil THEN UNCHANGED faults
       ELSE faults < MaxFaults /\ faults' = faults + 1
    /\ elected' = [elected EXCEPT ![term[s]] = s]
    /\ leads' = [leads EXCEPT ![s] = TRUE]
    /\ UNCHANGED <<absVars, term, upto, config, checks, test>>

Send(s, n, i, c) ==
    applyCh' = [applyCh EXCEPT ![s][n] = Append(@, [index |-> i, command |-> c])]

\* What may come next in the log of server s.
NextEntries(s) ==
    IF Len(delivered[s]) < Len(chosen) THEN {chosen[Len(delivered[s]) + 1]}
    ELSE {[term |-> st.term, command |-> st.command] :
             st \in {x \in started : x.index = Len(chosen) + 1}}

\* Incarnation n of server s sends its next entry: one the server has delivered
\* before, in an earlier incarnation, or a new one.
Apply(s, n) ==
    LET i == upto[s][n] + 1 IN
    /\ upto' = [upto EXCEPT ![s][n] = i]
    /\ IF i <= Len(delivered[s])
       THEN UNCHANGED absVars /\ Send(s, n, i, delivered[s][i].command)
       ELSE \E entry \in NextEntries(s) :
              /\ delivered' = [delivered EXCEPT ![s] = Append(@, entry)]
              /\ chosen' = IF i > Len(chosen) THEN Append(chosen, entry) ELSE chosen
              /\ Deliver(s)
              /\ Send(s, n, i, entry.command)
    /\ UNCHANGED <<term, leads, elected, faults, config, logs, failing, exited, test>>

\* A broken server: any command at any index.
Misdeliver(s, n, i, c) ==
    /\ faults < MaxFaults
    /\ faults' = faults + 1
    /\ Send(s, n, i, c)
    /\ UNCHANGED <<absVars, term, leads, elected, upto, config, logs, failing, exited,
                   test>>

-----------------------------------------------------------------------------
(* checkLogs and applier. *)

\* Mutant: a server is only compared with itself.
DisagreesWithItself(s, m) == logs[s][m.index] \notin {Nil, m.command}

\* "some server has already committed a different value for this entry!"
Disagrees(s, m) == \E j \in Server : logs[j][m.index] \notin {Nil, m.command}

\* Both are looked at before m is stored; the error is raised after cfg.mu is
\* released, so others may go on in between.
Applier(s, n) ==
    /\ applyCh[s][n] # <<>> /\ <<s, n>> \notin failing
    /\ LET m == Head(applyCh[s][n])
           prevok == m.index > 1 => logs[s][m.index - 1] # Nil
       IN  /\ logs' = [logs EXCEPT ![s][m.index] = m.command]
           /\ failing' = IF Disagrees(s, m) \/ ~ prevok THEN failing \cup {<<s, n>>}
                                                      ELSE failing
    /\ applyCh' = [applyCh EXCEPT ![s][n] = Tail(@)]
    /\ UNCHANGED <<absVars, cluster, config, exited, test>>

Fatal ==
    /\ failing # {}
    /\ exited' = TRUE
    /\ UNCHANGED <<absVars, cluster, config, logs, applyCh, failing, test>>

-----------------------------------------------------------------------------
(* The test's goroutine. *)

Begin(name, next) ==
    /\ at = "idle" /\ ops < MaxCalls
    /\ ops' = ops + 1 /\ op' = name /\ at' = next
    /\ scan' = 0 /\ count' = 0 /\ val' = Nil /\ seen' = {} /\ last' = FALSE
    /\ starts' = 0 /\ tried' = 0
    /\ result' = [kind |-> "none", value |-> Nil]
    /\ UNCHANGED <<absVars, cluster, config, checks>>

\* cfg.t.Fatalf ends the test's goroutine.
Done(kind, value) ==
    /\ at' = IF kind = "returned" THEN "idle" ELSE "failed"
    /\ result' = [kind |-> kind, value |-> value]

\* one: the servers are tried in turn until one takes the command.
One(c, n, r) ==
    /\ \A st \in started : st.command # c
    /\ Begin("one", "submit")
    /\ cmd' = c /\ want' = n /\ retry' = r /\ index' = -1
    /\ UNCHANGED startTerm

Recount == scan' = 0 /\ count' = 0 /\ val' = Nil

\* The indices a leader may give: it appends, so they grow in a term.
Free(t) == {i \in Index : \A st \in started : st.term = t => st.index < i}

\* Start returns the index the command has if it is committed.
Submit ==
    LET s == (starts + 1) % N IN
    /\ at = "submit"
    /\ starts' = s
    /\ IF connected[s] /\ rafts[s] # 0 /\ leads[s]
       THEN \E i \in Free(term[s]) :
              /\ started' = started \cup {[index |-> i, term |-> term[s], command |-> cmd]}
              /\ UNCHANGED <<chosen, delivered>>
              /\ StartCommand
              /\ index' = i /\ at' = "count" /\ Recount
              /\ UNCHANGED <<tried, result>>
       ELSE /\ IF tried + 1 < N THEN tried' = tried + 1 /\ UNCHANGED <<at, result>>
               ELSE \/ tried' = 0 /\ UNCHANGED <<at, result>>
                    \/ Done("noAgreement", Nil) /\ UNCHANGED tried
            /\ UNCHANGED <<absVars, index, scan, count, val>>
    /\ UNCHANGED <<cluster, config, checks, call, last, seen>>

\* nCommitted takes cfg.mu once for each server.
Count ==
    /\ at = "count" /\ scan < N
    /\ scan' = scan + 1
    /\ LET cmd1 == logs[scan][index] IN
       IF cmd1 = Nil THEN UNCHANGED <<at, count, val, result>>
       ELSE IF count > 0 /\ val # cmd1
       THEN Done("mismatch", Nil) /\ UNCHANGED <<count, val>>
       ELSE count' = count + 1 /\ val' = cmd1 /\ UNCHANGED <<at, result>>
    /\ UNCHANGED <<absVars, cluster, config, checks, call, starts, tried, index, last,
                   seen>>

Counted(name) ==
    /\ at = "count" /\ scan = N /\ op = name
    /\ UNCHANGED <<absVars, cluster, config, checks, call, starts, index, seen>>

\* Mutant: any command that was committed there will do.
AgreedOnAny == count > 0 /\ count >= want

Agreed == count > 0 /\ count >= want /\ val = cmd

\* The five seconds are over, or the twenty-five.
GiveUp ==
    \/ retry /\ at' = "submit" /\ tried' = 0 /\ UNCHANGED result
    \/ Done("noAgreement", Nil) /\ UNCHANGED tried

OneCounted ==
    /\ Counted("one")
    /\ IF Agreed THEN Done("returned", val) /\ UNCHANGED <<tried, scan, count, val>>
       ELSE \/ Recount /\ UNCHANGED <<at, tried, result>>
            \/ GiveUp /\ UNCHANGED <<scan, count, val>>
    /\ UNCHANGED last

\* wait; the tests give it the term of a leader they have called Start on, and have
\* not crashed a server when they do.
Wait(i, n, t) ==
    /\ t # -1 => /\ \E s \in Server : leads[s] /\ t = term[s]
                 /\ \A s \in Server : rafts[s] # 0
    /\ Begin("wait", "count")
    /\ index' = i /\ want' = n /\ startTerm' = t
    /\ UNCHANGED <<cmd, retry>>

\* The next round, or after the thirtieth, and after a round that has counted
\* enough servers, the count that decides.
NextRound == Recount /\ at' = "count" /\ last' \in BOOLEAN

WaitCounted ==
    /\ Counted("wait")
    /\ IF last
       THEN /\ Done(IF count >= want THEN "returned" ELSE "few", val)
            /\ UNCHANGED <<last, scan, count, val>>
       ELSE /\ UNCHANGED result
            /\ IF count >= want THEN Recount /\ last' = TRUE /\ UNCHANGED at
               ELSE IF startTerm = -1 THEN NextRound
               ELSE at' = "waitTerms" /\ scan' = 0 /\ UNCHANGED <<last, count, val>>
    /\ UNCHANGED tried

\* "someone has moved on"
WaitTerms ==
    /\ at = "waitTerms"
    /\ IF scan = N THEN NextRound /\ UNCHANGED result
       ELSE /\ IF term[scan] > startTerm THEN Done("returned", -1)
               ELSE UNCHANGED <<at, result>>
            /\ scan' = scan + 1
            /\ UNCHANGED <<last, count, val>>
    /\ UNCHANGED <<absVars, cluster, config, checks, call, starts, tried, index, seen>>

\* checkOneLeader, checkTerms and checkNoLeader ask the connected servers in turn.
Check(name) ==
    /\ \A s \in Server : connected[s] => rafts[s] # 0
    /\ Begin(name, "ask")
    /\ UNCHANGED <<cmd, want, retry, index, startTerm>>

GetState ==
    /\ at = "ask" /\ scan < N
    /\ scan' = scan + 1
    /\ seen' = IF ~ connected[scan] THEN seen
               ELSE seen \cup {[server |-> scan, term |-> term[scan], leads |-> leads[scan]]}
    /\ UNCHANGED <<absVars, cluster, config, checks, at, call, starts, tried, index, last,
                   count, val, result>>

Asked(name) ==
    /\ at = "ask" /\ scan = N /\ op = name
    /\ UNCHANGED <<absVars, cluster, config, checks, call, starts, tried, index, last,
                   count, val>>

Leaders == {x \in seen : x.leads}

\* Mutant: leaders of different terms are taken for rivals.
RivalsOfAnyTerm == Cardinality(Leaders) > 1

Rivals == \E x, y \in Leaders : x.term = y.term /\ x.server # y.server

CheckOneLeader ==
    /\ Asked("leader")
    /\ IF Rivals THEN Done("rivals", Nil) /\ UNCHANGED <<scan, seen>>
       ELSE IF Leaders # {}
       THEN /\ LET newest == CHOOSE x \in Leaders : \A y \in Leaders : y.term <= x.term
               IN  Done("returned", newest.server)
            /\ UNCHANGED <<scan, seen>>
       ELSE \/ scan' = 0 /\ seen' = {} /\ UNCHANGED <<at, result>>
            \/ Done("noLeader", Nil) /\ UNCHANGED <<scan, seen>>

CheckTerms ==
    /\ Asked("terms")
    /\ LET terms == {x.term : x \in seen} IN
       Done(IF Cardinality(terms) > 1 THEN "terms" ELSE "returned",
            IF terms = {} THEN -1 ELSE Max(terms))
    /\ UNCHANGED <<scan, seen>>

CheckNoLeader ==
    /\ Asked("noLeader")
    /\ Done(IF Leaders # {} THEN "leader" ELSE "returned", Nil)
    /\ UNCHANGED <<scan, seen>>

-----------------------------------------------------------------------------
(* What the test does to the servers between two calls. *)

Connection(s, up) ==
    /\ at = "idle" /\ connected[s] # up /\ changes < MaxChanges
    /\ changes' = changes + 1
    /\ connected' = [connected EXCEPT ![s] = up]
    /\ UNCHANGED <<absVars, cluster, rafts, checks, test>>

Crash1(s) ==
    /\ at = "idle" /\ rafts[s] # 0 /\ changes < MaxChanges
    /\ changes' = changes + 1
    /\ connected' = [connected EXCEPT ![s] = FALSE]
    /\ rafts' = [rafts EXCEPT ![s] = 0]
    /\ leads' = [leads EXCEPT ![s] = FALSE]
    /\ UNCHANGED <<absVars, term, elected, upto, faults, checks, test>>

\* Mutant: what the earlier incarnation delivered is forgotten.
Start1Forgets(s) ==
    /\ at = "idle" /\ rafts[s] = 0 /\ changes < MaxChanges
    /\ changes' = changes + 1
    /\ upto' = [upto EXCEPT ![s] = Append(@, 0)]
    /\ rafts' = [rafts EXCEPT ![s] = Len(upto'[s])]
    /\ applyCh' = [applyCh EXCEPT ![s] = Append(@, <<>>)]
    /\ logs' = [logs EXCEPT ![s] = [i \in Index |-> Nil]]
    /\ UNCHANGED <<absVars, term, leads, elected, faults, connected, failing, exited, test>>

\* A new channel and a new applier; the old one reads what is left in its own.
Start1(s) ==
    /\ at = "idle" /\ rafts[s] = 0 /\ changes < MaxChanges
    /\ changes' = changes + 1
    /\ upto' = [upto EXCEPT ![s] = Append(@, 0)]
    /\ rafts' = [rafts EXCEPT ![s] = Len(upto'[s])]
    /\ applyCh' = [applyCh EXCEPT ![s] = Append(@, <<>>)]
    /\ UNCHANGED <<absVars, term, leads, elected, faults, connected, logs, failing, exited,
                   test>>

-----------------------------------------------------------------------------
Servers ==
    \E s \in Server :
        \/ \E t \in 1..MaxTerm : NewTerm(s, t)
        \/ BecomeLeader(s)
        \/ \E n \in DOMAIN upto[s] : Apply(s, n) \/ Applier(s, n)
        \/ \E n \in DOMAIN upto[s], i \in Index, c \in Command : Misdeliver(s, n, i, c)

Test ==
    \/ \E c \in Command, n \in 1..N, r \in BOOLEAN : One(c, n, r)
    \/ \E i \in Index, n \in 1..N, t \in -1..MaxTerm : Wait(i, n, t)
    \/ \E name \in {"leader", "terms", "noLeader"} : Check(name)
    \/ Submit \/ Count \/ OneCounted \/ WaitCounted \/ WaitTerms
    \/ GetState \/ CheckOneLeader \/ CheckTerms \/ CheckNoLeader
    \/ \E s \in Server :
          (\E up \in BOOLEAN : Connection(s, up)) \/ Crash1(s) \/ Start1(s)

TesterNext == ~ exited /\ (Servers \/ Fatal \/ Test)

TesterSpec == TesterInit /\ [][TesterNext]_vars

-----------------------------------------------------------------------------
(* Properties. *)

\* A checked disagreement, or a gap, that nobody has raised yet.
Accused == failing # {} \/ exited

\* The tester does not fail servers that keep their promises: whatever is crashed,
\* restarted and delivered again, and however its reads fall between deliveries and
\* elections, no fatal error about agreement, order or rival leaders is raised.
NeverAccusesUnjustly ==
    faults = 0 => ~ Accused /\ result.kind \notin {"mismatch", "rivals"}

\* It misses no broken promise about the log: as soon as two servers have delivered
\* different commands at an index, or one has left out an index, an applier is about
\* to end the test.
NoticesDisagreement ==
    Accused \/ \A i \in Index :
        /\ \A s, t \in Server : Nil \in {logs[s][i], logs[t][i]} \/ logs[s][i] = logs[t][i]
        /\ i > 1 => \A s \in Server : logs[s][i] # Nil => logs[s][i - 1] # Nil

\* When one or wait returns a command, as many servers as it was asked for have
\* delivered that command at that index, although it read them one after the other;
\* one returns only for its own command.
AgreementIsReal ==
    (result.kind = "returned" /\ op \in {"one", "wait"} /\ result.value # -1) =>
        /\ Accused \/ Cardinality({s \in Server : logs[s][index] = result.value}) >= want
        /\ op = "one" => result.value = cmd
=============================================================================
