------------------------------ MODULE StringSet ------------------------------
(***************************************************************************)
(* The string sets of lab0.  StripedStringSet spreads its strings over     *)
(* stripes with a reader-writer lock each and counts them in one atomic    *)
(* counter; LockedStringSet is the case in which every string falls into   *)
(* one stripe.                                                             *)
(*                                                                         *)
(* A step is one statement on shared state.  What a goroutine does under   *)
(* the lock of a stripe is taken apart, for Count reads the counter        *)
(* without a lock.                                                         *)
(***************************************************************************)
EXTENDS Integers, FiniteSets

CONSTANTS
    Client,  \* the goroutines that call, each once
    Key,     \* the strings
    Stripe,  \* stringSet.stripes
    Ranges,  \* for each PredRange asked for, the strings of [begin, end) that
             \* match the pattern
    Nil

\* The calls.
Request ==
    [op : {"Add"}, key : Key] \cup [op : {"Count"}]
        \cup [op : {"PredRange"}, range : Ranges]

ASSUME StringSetAssumption ==
    /\ IsFiniteSet(Key) /\ IsFiniteSet(Stripe)
    /\ Stripe # {}
    /\ Ranges \subseteq SUBSET Key
    /\ Nil \notin Client \cup BOOLEAN \cup Nat
    /\ \A K \in SUBSET Key : Nil # K
    /\ \A r \in Request : Nil # r

VARIABLES
    stripeOf,  \* fnv32(key) % stripeCount
    set,       \* the strings of each stripe
    writer,    \* the client that holds the lock of a stripe for writing
    readers,   \* the clients one of whose goroutines holds it for reading
    count,     \* the atomic counter
    pc,        \* where each client is
    request,   \* its call
    unread,    \* the stripes a PredRange has not started to read
    sent,      \* the stripes whose answers are in the channel it has made
    found,     \* the strings of these answers
    before,    \* history: the members when it called
    result     \* its result

stripes == <<set, writer, readers>>
scans   == <<unread, sent, found>>
vars    == <<stripeOf, stripes, count, pc, request, scans, before, result>>

\* The stripe of the string that c adds.
Target(c) == stripeOf[request[c].key]

\* Strings that are in their stripe but not counted yet.
Uncounted == {request[c].key : c \in {a \in Client : pc[a] = "increment"}}

Members == (UNION {set[s] : s \in Stripe}) \ Uncounted

Init ==
    /\ stripeOf \in [Key -> Stripe]
    /\ set = [s \in Stripe |-> {}]
    /\ writer = [s \in Stripe |-> Nil]
    /\ readers = [s \in Stripe |-> {}]
    /\ count = 0
    /\ pc = [c \in Client |-> "idle"]
    /\ request = [c \in Client |-> Nil]
    /\ unread = [c \in Client |-> {}]
    /\ sent = [c \in Client |-> {}]
    /\ found = [c \in Client |-> {}]
    /\ before = [c \in Client |-> {}]
    /\ result = [c \in Client |-> Nil]

Goto(c, where) == pc' = [pc EXCEPT ![c] = where]

Call(c, r) ==
    /\ pc[c] = "idle"
    /\ request' = [request EXCEPT ![c] = r]
    /\ before' = [before EXCEPT ![c] = Members]
    /\ unread' = [unread EXCEPT ![c] = IF r.op = "PredRange" THEN Stripe ELSE {}]
    /\ Goto(c, r.op)
    /\ UNCHANGED <<stripeOf, stripes, count, sent, found, result>>

-----------------------------------------------------------------------------
(* Add. *)

\* Mutant: a read lock for the writer.
AddLockShared(c) ==
    /\ pc[c] = "Add"
    /\ writer' = [writer EXCEPT ![Target(c)] = c]
    /\ Goto(c, "lookup")
    /\ UNCHANGED <<stripeOf, set, readers, count, request, scans, before, result>>

AddLock(c) ==
    /\ pc[c] = "Add"
    /\ writer[Target(c)] = Nil /\ readers[Target(c)] = {}
    /\ writer' = [writer EXCEPT ![Target(c)] = c]
    /\ Goto(c, "lookup")
    /\ UNCHANGED <<stripeOf, set, readers, count, request, scans, before, result>>

AddLookup(c) ==
    /\ pc[c] = "lookup"
    /\ IF request[c].key \in set[Target(c)]
       THEN Goto(c, "unlock") /\ result' = [result EXCEPT ![c] = FALSE]
       ELSE Goto(c, "insert") /\ UNCHANGED result
    /\ UNCHANGED <<stripeOf, stripes, count, request, scans, before>>

AddInsert(c) ==
    /\ pc[c] = "insert"
    /\ set' = [set EXCEPT ![Target(c)] = @ \cup {request[c].key}]
    /\ Goto(c, "increment")
    /\ UNCHANGED <<stripeOf, writer, readers, count, request, scans, before, result>>

\* Mutant: the counter is incremented after the unlock.
AddIncrementUnlocked(c) ==
    /\ pc[c] = "increment"
    /\ IF writer[Target(c)] = c
       THEN /\ writer' = [writer EXCEPT ![Target(c)] = Nil]
            /\ UNCHANGED <<count, pc, result>>
       ELSE /\ count' = count + 1
            /\ result' = [result EXCEPT ![c] = TRUE]
            /\ Goto(c, "done")
            /\ UNCHANGED writer
    /\ UNCHANGED <<stripeOf, set, readers, request, scans, before>>

AddIncrement(c) ==
    /\ pc[c] = "increment"
    /\ count' = count + 1
    /\ result' = [result EXCEPT ![c] = TRUE]
    /\ Goto(c, "unlock")
    /\ UNCHANGED <<stripeOf, stripes, request, scans, before>>

\* Mutant: a return without the deferred Unlock for a string that was there.
AddUnlockInserted(c) ==
    /\ pc[c] = "unlock"
    /\ writer' = [writer EXCEPT ![Target(c)] = IF result[c] THEN Nil ELSE @]
    /\ Goto(c, "done")
    /\ UNCHANGED <<stripeOf, set, readers, count, request, scans, before, result>>

\* The deferred Unlock.
AddUnlock(c) ==
    /\ pc[c] = "unlock"
    /\ writer' = [writer EXCEPT ![Target(c)] = Nil]
    /\ Goto(c, "done")
    /\ UNCHANGED <<stripeOf, set, readers, count, request, scans, before, result>>

-----------------------------------------------------------------------------
(* Count and PredRange. *)

Count(c) ==
    /\ pc[c] = "Count"
    /\ result' = [result EXCEPT ![c] = count]
    /\ Goto(c, "done")
    /\ UNCHANGED <<stripeOf, stripes, count, request, scans, before>>

\* Mutant: without RLock.
ScanUnlocked(c, s) ==
    /\ pc[c] = "PredRange" /\ s \in unread[c]
    /\ readers' = [readers EXCEPT ![s] = @ \cup {c}]
    /\ unread' = [unread EXCEPT ![c] = @ \ {s}]
    /\ UNCHANGED <<stripeOf, set, writer, count, pc, request, sent, found, before,
                   result>>

\* The goroutine of stripe s takes the read lock.
ScanLock(c, s) ==
    /\ pc[c] = "PredRange" /\ s \in unread[c]
    /\ writer[s] = Nil
    /\ readers' = [readers EXCEPT ![s] = @ \cup {c}]
    /\ unread' = [unread EXCEPT ![c] = @ \ {s}]
    /\ UNCHANGED <<stripeOf, set, writer, count, pc, request, sent, found, before,
                   result>>

\* Mutant: make(chan []string), of which nobody receives before wg.Wait().
Unbuffered == 0

\* make(chan []string, stripeCount).
Capacity == Cardinality(Stripe)

\* It sends what the stripe holds of the range, and waits as long as the channel is
\* full: nothing is received before all goroutines are done.
ScanSend(c, s) ==
    /\ c \in readers[s] /\ s \notin sent[c]
    /\ Cardinality(sent[c]) < Capacity
    /\ sent' = [sent EXCEPT ![c] = @ \cup {s}]
    /\ found' = [found EXCEPT ![c] = @ \cup (set[s] \cap request[c].range)]
    /\ UNCHANGED <<stripeOf, stripes, count, pc, request, unread, before, result>>

\* It unlocks and is done.
ScanUnlock(c, s) ==
    /\ c \in readers[s] /\ s \in sent[c]
    /\ readers' = [readers EXCEPT ![s] = @ \ {c}]
    /\ UNCHANGED <<stripeOf, set, writer, count, pc, request, scans, before, result>>

\* wg.Wait(), then everything in the channel is the result.
Gather(c) ==
    /\ pc[c] = "PredRange" /\ unread[c] = {}
    /\ \A s \in Stripe : c \notin readers[s]
    /\ result' = [result EXCEPT ![c] = found[c]]
    /\ Goto(c, "done")
    /\ UNCHANGED <<stripeOf, stripes, count, request, scans, before>>

-----------------------------------------------------------------------------
Add(c) == AddLock(c) \/ AddLookup(c) \/ AddInsert(c) \/ AddIncrement(c) \/ AddUnlock(c)

PredRange(c) ==
    \/ \E s \in Stripe : ScanLock(c, s) \/ ScanSend(c, s) \/ ScanUnlock(c, s)
    \/ Gather(c)

Next == \E c \in Client :
    (\E r \in Request : Call(c, r)) \/ Add(c) \/ Count(c) \/ PredRange(c)

\* Every goroutine runs, and a lock that is free is given to one that waits.
Fairness == \A c \in Client : WF_vars(Add(c) \/ Count(c) \/ PredRange(c))

Spec == Init /\ [][Next]_vars /\ Fairness

-----------------------------------------------------------------------------
(* Properties. *)

AddRequest == [op : {"Add"}, key : Key]

\* In Add, with the lock of the stripe.
Holding == {"lookup", "insert", "increment", "unlock"}

TypeOK ==
    /\ stripeOf \in [Key -> Stripe]
    /\ set \in [Stripe -> SUBSET Key]
    /\ writer \in [Stripe -> Client \cup {Nil}]
    /\ readers \in [Stripe -> SUBSET Client]
    /\ count \in Nat
    /\ pc \in [Client -> {"idle", "Add", "Count", "PredRange", "done"} \cup Holding]
    /\ request \in [Client -> Request \cup {Nil}]
    /\ \A c \in Client : pc[c] \in Holding \cup {"Add"} => request[c] \in AddRequest

\* A lock is held by the one client that is in its critical section, and by no
\* reader then.
LockInv ==
    /\ \A c \in Client : pc[c] \in Holding => writer[Target(c)] = c
    /\ \A s \in Stripe : writer[s] # Nil => readers[s] = {}

\* A string is in no stripe but its own, and Add keeps what its lookup has found.
StripeInv ==
    /\ \A s \in Stripe : \A k \in set[s] : stripeOf[k] = s
    /\ \A c \in Client :
          /\ pc[c] = "insert" => request[c].key \notin set[Target(c)]
          /\ pc[c] = "increment" => request[c].key \in set[Target(c)]

\* The counter, which is not under the lock of any stripe, never counts a string
\* twice or misses one, whoever adds the same string at the same time.
CountIsSize == count = Cardinality(Members)

\* Nobody reads a stripe's map while another goroutine writes to it: Go ends the
\* program ("concurrent map iteration and map write").
NoMapRace ==
    \A c \in Client : pc[c] = "insert" =>
        /\ readers[Target(c)] = {}
        /\ \A d \in Client \ {c} :
              pc[d] \in {"lookup", "insert"} => Target(d) # Target(c)

\* The locks serve their purpose: every critical section is alone in its stripe,
\* and finds the map as it left it.  Inductive, with CountIsSize.
SetInv == TypeOK /\ LockInv /\ StripeInv /\ CountIsSize

\* Where a call is: an answer is given once, by the step that takes effect.
CallInv ==
    /\ DOMAIN result = Client
    /\ \A c \in Client :
          /\ request[c] = Nil <=> pc[c] = "idle"
          /\ pc[c] \in {"Count", "PredRange"} =>
                request[c] \in Request /\ request[c].op = pc[c]
          /\ pc[c] \notin {"unlock", "done"} => result[c] = Nil

\* A PredRange has been sent only members, and every member it has to return was
\* sent or is in a stripe that it still has to lock or to send.
Scanning(c) ==
    /\ pc[c] = "idle" => found[c] = {} /\ sent[c] = {}
    /\ \A s \in Stripe : c \in readers[s] => pc[c] = "PredRange" /\ s \notin unread[c]
    /\ pc[c] = "PredRange" =>
          /\ sent[c] \cap unread[c] = {}
          /\ before[c] \subseteq Members
          /\ found[c] \subseteq Members \cap request[c].range
          /\ \A k \in before[c] \cap request[c].range :
                \/ k \in found[c]
                \/ stripeOf[k] \in unread[c]
                \/ c \in readers[stripeOf[k]] /\ stripeOf[k] \notin sent[c]

ScanInv ==
    /\ {unread, sent} \subseteq [Client -> SUBSET Stripe]
    /\ {found, before} \subseteq [Client -> SUBSET Key]
    /\ \A c \in Client : Scanning(c)

Abstract == INSTANCE SetObject WITH members <- Members

\* Add, Count and PredRange return what one set, changed at one moment in each
\* call, would have answered, although Count takes no lock and PredRange reads the
\* stripes at different times.
ImplementsSetObject == Abstract!Spec

\* Every call returns: no lock is kept, a PredRange is not stuck behind writers, and
\* no goroutine of it is stuck in a send while it holds a lock.
CallsReturn == \A c \in Client : (pc[c] # "idle") ~> (pc[c] = "done")
=============================================================================
