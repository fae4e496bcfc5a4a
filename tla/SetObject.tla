----------------------------- MODULE SetObject -----------------------------
(***************************************************************************)
(* What the interface StringSet promises to goroutines that share one set: *)
(* Add and Count take effect at one moment between their call and their    *)
(* return; PredRange is weaker, it may miss a string that was added while  *)
(* it ran and include one that was added later.                            *)
(***************************************************************************)
EXTENDS Integers, FiniteSets

CONSTANTS Client, Request, Nil

VARIABLES members,   \* the strings in the set
          request,   \* the call of every client, Nil before it calls
          before,    \* the members when it called
          result     \* its result, Nil before it takes effect

absVars == <<members, request, before, result>>

Init ==
    /\ members = {}
    /\ request = [c \in Client |-> Nil]
    /\ before = [c \in Client |-> {}]
    /\ result = [c \in Client |-> Nil]

Call(c) ==
    /\ request[c] = Nil
    /\ \E r \in Request : request' = [request EXCEPT ![c] = r]
    /\ before' = [before EXCEPT ![c] = members]
    /\ UNCHANGED <<members, result>>

\* A call of this operation that has not taken effect yet.
Pending(c, op) ==
    /\ request[c] # Nil /\ result[c] = Nil
    /\ request[c].op = op
    /\ UNCHANGED <<request, before>>

Answer(c, value) == value # Nil /\ result' = [result EXCEPT ![c] = value]

Add(c) ==
    /\ Pending(c, "Add")
    /\ Answer(c, request[c].key \notin members)
    /\ members' = members \cup {request[c].key}

Count(c) ==
    /\ Pending(c, "Count")
    /\ Answer(c, Cardinality(members))
    /\ UNCHANGED members

PredRange(c) ==
    /\ Pending(c, "PredRange")
    /\ \E found \in SUBSET (members \cap request[c].range) :
          /\ before[c] \cap request[c].range \subseteq found
          /\ Answer(c, found)
    /\ UNCHANGED members

Next == \E c \in Client : Call(c) \/ Add(c) \/ Count(c) \/ PredRange(c)

Spec == Init /\ [][Next]_absVars
=============================================================================
