--------------------------- MODULE ReplicatedLog ---------------------------
(***************************************************************************)
(* What the Raft package promises to the service above it: Start hands out *)
(* an (index, term) for a command, a single log grows by started commands, *)
(* and every server's applyCh delivers a growing prefix of that log.       *)
(***************************************************************************)
EXTENDS Integers, Sequences, SequencesExt

CONSTANTS Server, Command

VARIABLES started,   \* the [index, term, command] Start has returned for
          chosen,    \* the log the servers agree on
          delivered  \* what every server has delivered of it

absVars == <<started, chosen, delivered>>

Init == started = {} /\ chosen = <<>> /\ delivered = [s \in Server |-> <<>>]

\* "the first return value is the index that the command will appear at if it's
\* ever committed": no two commands get the same index in the same term.
StartCommand ==
    \E call \in started' \ started :
        /\ started' = started \cup {call}
        /\ \A other \in started :
              <<other.index, other.term>> # <<call.index, call.term>>
        /\ UNCHANGED <<chosen, delivered>>

\* A server delivers some more of the log, which may be the moment those
\* entries are chosen.
Deliver(s) ==
    /\ delivered' = [delivered EXCEPT ![s] = delivered'[s]]
    /\ IsStrictPrefix(delivered[s], delivered'[s])
    /\ IsPrefix(delivered'[s], chosen')
    /\ IsPrefix(chosen, chosen')
    /\ chosen' \in {chosen, delivered'[s]}
    /\ \A i \in (Len(chosen) + 1)..Len(chosen') :
          [index |-> i, term |-> chosen'[i].term,
           command |-> chosen'[i].command] \in started
    /\ UNCHANGED started

Next == StartCommand \/ \E s \in Server : Deliver(s)

Spec == Init /\ [][Next]_absVars
=============================================================================
