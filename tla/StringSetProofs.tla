--------------------------- MODULE StringSetProofs ---------------------------
(***************************************************************************)
(* For any number of goroutines, strings and stripes, and any hash: the    *)
(* counter of a string set is exact, and its maps are never read while     *)
(* they are written.                                                       *)
(***************************************************************************)
EXTENDS StringSet, FiniteSetTheorems, TLAPS

LEMMA InitInv == Init => SetInv
  <1>. SUFFICES ASSUME Init PROVE SetInv
    OBVIOUS
  <1>1. TypeOK /\ LockInv /\ StripeInv
    BY DEF Init, TypeOK, LockInv, StripeInv, Holding
  <1>2. CountIsSize
    <2>1. Members = {}
      BY DEF Init, Members
    <2>. QED  BY <2>1, FS_EmptySet DEF Init, CountIsSize
  <1>. QED  BY <1>1, <1>2 DEF SetInv

\* Two clients in the critical section of one stripe are the same.
LEMMA Alone ==
    ASSUME SetInv, NEW c \in Client, NEW d \in Client,
           pc[c] \in Holding, pc[d] \in Holding, Target(c) = Target(d)
    PROVE  c = d
  BY DEF SetInv, LockInv

\* The types of the next state, action by action.
LEMMA TypeStep == ASSUME SetInv, Next PROVE TypeOK'
  <1>. TypeOK
    BY DEF SetInv
  <1>. USE DEF TypeOK, Goto, stripes, scans
  <1>1. ASSUME NEW c \in Client, NEW r \in Request, Call(c, r) PROVE TypeOK'
    <2>1. r.op \in {"Add", "Count", "PredRange"} /\ (r.op = "Add" => r \in AddRequest)
      BY DEF Request, AddRequest
    <2>. QED  BY <1>1, <2>1 DEF Call, Holding
  <1>2. ASSUME NEW c \in Client, AddLock(c) PROVE TypeOK'
    BY <1>2 DEF AddLock, Holding
  <1>3. ASSUME NEW c \in Client, AddLookup(c) PROVE TypeOK'
    BY <1>3 DEF AddLookup, Holding
  <1>4. ASSUME NEW c \in Client, AddInsert(c) PROVE TypeOK'
    <2>1. request[c].key \in Key
      BY <1>4 DEF AddInsert, Holding, AddRequest
    <2>. QED  BY <1>4, <2>1 DEF AddInsert, Holding
  <1>5. ASSUME NEW c \in Client, AddIncrement(c) PROVE TypeOK'
    BY <1>5 DEF AddIncrement, Holding
  <1>6. ASSUME NEW c \in Client, AddUnlock(c) PROVE TypeOK'
    BY <1>6 DEF AddUnlock, Holding
  <1>7. ASSUME NEW c \in Client, Count(c) PROVE TypeOK'
    BY <1>7 DEF Count, Holding
  <1>8. ASSUME NEW c \in Client, NEW s \in Stripe, ScanLock(c, s) PROVE TypeOK'
    BY <1>8 DEF ScanLock
  <1>9. ASSUME NEW c \in Client, NEW s \in Stripe, ScanUnlock(c, s) PROVE TypeOK'
    BY <1>9 DEF ScanUnlock
  <1>10. ASSUME NEW c \in Client, Gather(c) PROVE TypeOK'
    BY <1>10 DEF Gather, Holding
  <1>11. ASSUME NEW c \in Client, NEW s \in Stripe, ScanSend(c, s) PROVE TypeOK'
    BY <1>11 DEF ScanSend
  <1>. QED
    BY <1>1, <1>2, <1>3, <1>4, <1>5, <1>6, <1>7, <1>8, <1>9, <1>10, <1>11
    DEF Next, Add, PredRange

\* Only AddLock and AddUnlock change the writer of a stripe, and no reader comes
\* in while there is one.
LEMMA LockStep == ASSUME SetInv, Next PROVE LockInv'
  <1>. TypeOK /\ LockInv
    BY DEF SetInv
  <1>. USE DEF TypeOK, LockInv, Goto, stripes, scans, Target
  <1>1. ASSUME NEW c \in Client, NEW r \in Request, Call(c, r) PROVE LockInv'
    <2>1. r.op \in {"Add", "Count", "PredRange"}
      BY DEF Request
    <2>. QED  BY <1>1, <2>1 DEF Call, Holding
  <1>2. ASSUME NEW c \in Client, AddLock(c) PROVE LockInv'
    <2>1. stripeOf[request[c].key] \in Stripe
      BY <1>2 DEF AddLock, AddRequest
    <2>2. \A d \in Client : pc[d] \in Holding => stripeOf[request[d].key] # stripeOf[request[c].key]
      BY <1>2, StringSetAssumption DEF AddLock
    <2>. QED  BY <1>2, <2>1, <2>2 DEF AddLock, Holding
  <1>3. ASSUME NEW c \in Client, AddLookup(c) PROVE LockInv'
    BY <1>3 DEF AddLookup, Holding
  <1>4. ASSUME NEW c \in Client, AddInsert(c) PROVE LockInv'
    BY <1>4 DEF AddInsert, Holding
  <1>5. ASSUME NEW c \in Client, AddIncrement(c) PROVE LockInv'
    BY <1>5 DEF AddIncrement, Holding
  <1>6. ASSUME NEW c \in Client, AddUnlock(c) PROVE LockInv'
    <2>1. pc[c] \in Holding /\ request[c] \in AddRequest
      BY <1>6 DEF AddUnlock, Holding
    <2>2. stripeOf[request[c].key] \in Stripe
      BY <2>1 DEF AddRequest
    <2>3. \A d \in Client \ {c} : pc[d] \in Holding => stripeOf[request[d].key] # stripeOf[request[c].key]
      BY <2>1
    <2>. QED  BY <1>6, <2>1, <2>2, <2>3 DEF AddUnlock, Holding
  <1>7. ASSUME NEW c \in Client, Count(c) PROVE LockInv'
    BY <1>7 DEF Count, Holding
  <1>8. ASSUME NEW c \in Client, NEW s \in Stripe, ScanLock(c, s) PROVE LockInv'
    BY <1>8 DEF ScanLock
  <1>9. ASSUME NEW c \in Client, NEW s \in Stripe, ScanUnlock(c, s) PROVE LockInv'
    BY <1>9 DEF ScanUnlock
  <1>10. ASSUME NEW c \in Client, Gather(c) PROVE LockInv'
    BY <1>10 DEF Gather, Holding
  <1>11. ASSUME NEW c \in Client, NEW s \in Stripe, ScanSend(c, s) PROVE LockInv'
    BY <1>11 DEF ScanSend
  <1>. QED
    BY <1>1, <1>2, <1>3, <1>4, <1>5, <1>6, <1>7, <1>8, <1>9, <1>10, <1>11
    DEF Next, Add, PredRange

\* What the rest of a step may rely on when it touches neither the maps nor the
\* clients that are about to change them.
LEMMA SameMembers ==
    ASSUME UNCHANGED <<set, request>>,
           \A a \in Client : pc'[a] = "increment" <=> pc[a] = "increment"
    PROVE  Members' = Members
  BY DEF Members, Uncounted

\* The maps change in AddInsert only, by a string that nobody else holds.
LEMMA StripeStep == ASSUME SetInv, Next PROVE StripeInv'
  <1>. TypeOK /\ LockInv /\ StripeInv
    BY DEF SetInv
  <1>. USE DEF TypeOK, StripeInv, Goto, stripes, scans, Target
  <1>1. ASSUME NEW c \in Client, NEW r \in Request, Call(c, r) PROVE StripeInv'
    <2>1. r.op \in {"Add", "Count", "PredRange"}
      BY DEF Request
    <2>. QED  BY <1>1, <2>1 DEF Call
  <1>2. ASSUME NEW c \in Client, AddLock(c) PROVE StripeInv'
    BY <1>2 DEF AddLock
  <1>3. ASSUME NEW c \in Client, AddLookup(c) PROVE StripeInv'
    BY <1>3 DEF AddLookup
  <1>4. ASSUME NEW c \in Client, AddInsert(c) PROVE StripeInv'
    <2>1. pc[c] \in Holding /\ request[c].key \in Key
      BY <1>4 DEF AddInsert, Holding, AddRequest
    <2>2. \A d \in Client \ {c} :
             pc[d] \in Holding => stripeOf[request[d].key] # stripeOf[request[c].key]
      BY <2>1, Alone
    <2>. QED  BY <1>4, <2>1, <2>2 DEF AddInsert, Holding
  <1>5. ASSUME NEW c \in Client, AddIncrement(c) PROVE StripeInv'
    BY <1>5 DEF AddIncrement
  <1>6. ASSUME NEW c \in Client, AddUnlock(c) PROVE StripeInv'
    BY <1>6 DEF AddUnlock
  <1>7. ASSUME NEW c \in Client, Count(c) PROVE StripeInv'
    BY <1>7 DEF Count
  <1>8. ASSUME NEW c \in Client, NEW s \in Stripe, ScanLock(c, s) PROVE StripeInv'
    BY <1>8 DEF ScanLock
  <1>9. ASSUME NEW c \in Client, NEW s \in Stripe, ScanUnlock(c, s) PROVE StripeInv'
    BY <1>9 DEF ScanUnlock
  <1>10. ASSUME NEW c \in Client, Gather(c) PROVE StripeInv'
    BY <1>10 DEF Gather
  <1>11. ASSUME NEW c \in Client, NEW s \in Stripe, ScanSend(c, s) PROVE StripeInv'
    BY <1>11 DEF ScanSend
  <1>. QED
    BY <1>1, <1>2, <1>3, <1>4, <1>5, <1>6, <1>7, <1>8, <1>9, <1>10, <1>11
    DEF Next, Add, PredRange

\* The inserted string is uncounted until AddIncrement.
LEMMA InsertKeepsMembers ==
    ASSUME SetInv, NEW c \in Client, AddInsert(c)
    PROVE  Members' = Members
  <1>. DEFINE k == request[c].key
  <1>1. /\ pc[c] = "insert" /\ k \in Key
        /\ Target(c) = stripeOf[k] /\ stripeOf[k] \in Stripe
        /\ k \notin set[stripeOf[k]]
    BY DEF AddInsert, SetInv, TypeOK, StripeInv, Holding, AddRequest, Target
  <1>2. k \notin UNION {set[s] : s \in Stripe}
    BY <1>1 DEF SetInv, StripeInv
  <1>3. UNION {set'[s] : s \in Stripe} = (UNION {set[s] : s \in Stripe}) \cup {k}
    <2>1. \A s \in Stripe :
             set'[s] = IF s = stripeOf[k] THEN set[s] \cup {k} ELSE set[s]
      BY <1>1 DEF AddInsert, SetInv, TypeOK
    <2>2. ASSUME NEW x PROVE (\E s \in Stripe : x \in set'[s])
                               <=> (x = k \/ \E s \in Stripe : x \in set[s])
      BY <1>1, <2>1
    <2>. QED  BY <2>2
  <1>4. Uncounted' = Uncounted \cup {k}
    <2>1. \A a \in Client : pc'[a] = "increment" <=> (pc[a] = "increment" \/ a = c)
      BY <1>1 DEF AddInsert, Goto, SetInv, TypeOK
    <2>2. request' = request
      BY DEF AddInsert
    <2>. QED  BY <2>1, <2>2 DEF Uncounted
  <1>. QED  BY <1>2, <1>3, <1>4 DEF Members

\* Counting a string adds it, and it alone, to the members.
LEMMA IncrementAddsOne ==
    ASSUME SetInv, NEW c \in Client, AddIncrement(c)
    PROVE  /\ request[c].key \notin Members
           /\ Members' = Members \cup {request[c].key}
  <1>. DEFINE k == request[c].key
  <1>1. /\ pc[c] = "increment" /\ k \in Key
        /\ Target(c) = stripeOf[k] /\ stripeOf[k] \in Stripe
        /\ k \in set[stripeOf[k]]
    BY DEF AddIncrement, SetInv, TypeOK, StripeInv, Holding, AddRequest, Target
  <1>2. k \in Uncounted
    BY <1>1 DEF Uncounted
  <1>3. set' = set /\ request' = request
    BY DEF AddIncrement, stripes
  <1>4. Uncounted' = Uncounted \ {k}
    <2>1. \A a \in Client : pc'[a] = "increment" <=> (pc[a] = "increment" /\ a # c)
      BY <1>1 DEF AddIncrement, Goto, SetInv, TypeOK
    <2>2. \A a \in Client : (pc[a] = "increment" /\ request[a].key = k) => a = c
      BY <1>1, Alone DEF Holding, Target
    <2>. QED  BY <2>1, <2>2, <1>3 DEF Uncounted
  <1>. QED  BY <1>1, <1>2, <1>3, <1>4 DEF Members

LEMMA CountStep == ASSUME SetInv, Next PROVE CountIsSize'
  <1>. TypeOK /\ CountIsSize
    BY DEF SetInv
  <1>. USE DEF TypeOK, Goto, stripes, scans
  <1>1. ASSUME UNCHANGED count, Members' = Members PROVE CountIsSize'
    BY <1>1 DEF CountIsSize
  <1>2. ASSUME NEW c \in Client, NEW r \in Request, Call(c, r) PROVE CountIsSize'
    <2>1. r.op \in {"Add", "Count", "PredRange"}
      BY DEF Request
    <2>2. Uncounted' = Uncounted
      <3>. DEFINE A == {a \in Client : pc[a] = "increment"}
      <3>1. A' = A /\ \A a \in A : request'[a] = request[a]
        BY <1>2, <2>1 DEF Call
      <3>. HIDE DEF A
      <3>2. {request'[a].key : a \in A'} = {request[a].key : a \in A}
        BY <3>1
      <3>. QED  BY <3>2 DEF Uncounted, A
    <2>. QED  BY <1>1, <1>2, <2>2 DEF Call, Members
  <1>3. ASSUME NEW c \in Client,
               AddLock(c) \/ AddLookup(c) \/ AddUnlock(c) \/ Count(c) \/ Gather(c)
        PROVE  CountIsSize'
    <2>1. UNCHANGED <<set, request, count>>
      BY <1>3 DEF AddLock, AddLookup, AddUnlock, Count, Gather
    <2>2. \A a \in Client : pc'[a] = "increment" <=> pc[a] = "increment"
      BY <1>3 DEF AddLock, AddLookup, AddUnlock, Count, Gather
    <2>. QED  BY <1>1, <2>1, <2>2, SameMembers
  <1>4. ASSUME NEW c \in Client, NEW s \in Stripe,
               ScanLock(c, s) \/ ScanSend(c, s) \/ ScanUnlock(c, s)
        PROVE  CountIsSize'
    <2>1. UNCHANGED <<set, request, count, pc>>
      BY <1>4 DEF ScanLock, ScanSend, ScanUnlock
    <2>. QED  BY <1>1, <2>1, SameMembers
  <1>5. ASSUME NEW c \in Client, AddInsert(c) PROVE CountIsSize'
    BY <1>1, <1>5, InsertKeepsMembers DEF AddInsert
  <1>6. ASSUME NEW c \in Client, AddIncrement(c) PROVE CountIsSize'
    <2>1. IsFiniteSet(Members)
      <3>1. Members \subseteq Key
        BY DEF Members
      <3>. QED  BY <3>1, StringSetAssumption, FS_Subset
    <2>2. count' = count + 1
      BY <1>6 DEF AddIncrement
    <2>. QED  BY <1>6, <2>1, <2>2, IncrementAddsOne, FS_AddElement DEF CountIsSize
  <1>. QED
    BY <1>2, <1>3, <1>4, <1>5, <1>6 DEF Next, Add, PredRange

LEMMA NextInv == SetInv /\ [Next]_vars => SetInv'
  <1>1. ASSUME SetInv, Next PROVE SetInv'
    BY <1>1, TypeStep, LockStep, StripeStep, CountStep DEF SetInv
  <1>2. ASSUME SetInv, UNCHANGED vars PROVE SetInv'
    BY <1>2 DEF vars, stripes, scans, SetInv, TypeOK, LockInv, StripeInv,
                CountIsSize, Members, Uncounted, Target
  <1>. QED  BY <1>1, <1>2

-----------------------------------------------------------------------------
\* Locks, stripes and counter of both string sets of lab0, whatever the hash
\* fnv32 does and however many goroutines call.
THEOREM SetInvariance == Spec => []SetInv
  <1>. QED  BY InitInv, NextInv, PTL DEF Spec

\* The counter of Add and Count is exact although Count takes no lock.
THEOREM CountExact == Spec => []CountIsSize
  <1>1. SetInv => CountIsSize
    BY DEF SetInv
  <1>. QED  BY <1>1, SetInvariance, PTL

\* No goroutine of Add or PredRange reads a map while another Add writes to it.
THEOREM NoRace == Spec => []NoMapRace
  <1>1. ASSUME SetInv PROVE NoMapRace
    <2>. SUFFICES ASSUME NEW c \in Client, pc[c] = "insert"
                  PROVE  /\ readers[Target(c)] = {}
                         /\ \A d \in Client \ {c} :
                               pc[d] \in {"lookup", "insert"} => Target(d) # Target(c)
      BY DEF NoMapRace
    <2>1. pc[c] \in Holding /\ request[c] \in AddRequest
      BY <1>1 DEF SetInv, TypeOK, Holding
    <2>2. Target(c) \in Stripe /\ writer[Target(c)] = c
      BY <1>1, <2>1 DEF SetInv, TypeOK, LockInv, Target, AddRequest
    <2>3. readers[Target(c)] = {}
      BY <1>1, <2>2, StringSetAssumption DEF SetInv, LockInv
    <2>. QED  BY <1>1, <2>1, <2>3, Alone DEF Holding
  <1>. QED  BY <1>1, SetInvariance, PTL


-----------------------------------------------------------------------------
(* The refinement of SetObject. *)

LEMMA InitCalls == Init => CallInv /\ ScanInv
  <1>. SUFFICES ASSUME Init PROVE CallInv /\ ScanInv
    OBVIOUS
  <1>. QED  BY DEF Init, CallInv, ScanInv, Scanning

LEMMA CallStep == ASSUME SetInv, CallInv, Next PROVE CallInv'
  <1>. /\ pc \in [Client -> {"idle", "Add", "Count", "PredRange", "done"} \cup Holding]
       /\ DOMAIN request = Client
    BY DEF SetInv, TypeOK
  <1>. USE DEF CallInv, Goto, stripes, scans
  <1>1. ASSUME NEW c \in Client, NEW r \in Request, Call(c, r) PROVE CallInv'
    <2>1. /\ r.op \in {"Add", "Count", "PredRange"}
          /\ r # Nil
      BY StringSetAssumption DEF Request
    <2>. QED  BY <1>1, <2>1 DEF Call
  <1>2. ASSUME NEW c \in Client, AddLock(c) PROVE CallInv'
    BY <1>2 DEF AddLock
  <1>3. ASSUME NEW c \in Client, AddLookup(c) PROVE CallInv'
    BY <1>3 DEF AddLookup
  <1>4. ASSUME NEW c \in Client, AddInsert(c) PROVE CallInv'
    BY <1>4 DEF AddInsert
  <1>5. ASSUME NEW c \in Client, AddIncrement(c) PROVE CallInv'
    BY <1>5 DEF AddIncrement
  <1>6. ASSUME NEW c \in Client, AddUnlock(c) PROVE CallInv'
    BY <1>6 DEF AddUnlock
  <1>7. ASSUME NEW c \in Client, Count(c) PROVE CallInv'
    BY <1>7 DEF Count
  <1>8. ASSUME NEW c \in Client, NEW s \in Stripe, ScanLock(c, s) PROVE CallInv'
    BY <1>8 DEF ScanLock
  <1>9. ASSUME NEW c \in Client, NEW s \in Stripe, ScanUnlock(c, s) PROVE CallInv'
    BY <1>9 DEF ScanUnlock
  <1>10. ASSUME NEW c \in Client, Gather(c) PROVE CallInv'
    BY <1>10 DEF Gather
  <1>11. ASSUME NEW c \in Client, NEW s \in Stripe, ScanSend(c, s) PROVE CallInv'
    BY <1>11 DEF ScanSend
  <1>. QED
    BY <1>1, <1>2, <1>3, <1>4, <1>5, <1>6, <1>7, <1>8, <1>9, <1>10, <1>11
    DEF Next, Add, PredRange

\* A call is of an operation that exists: it is not in any critical section, and
\* those that are keep their requests.
LEMMA CallKeepsMembers ==
    ASSUME SetInv, NEW c \in Client, NEW r \in Request, Call(c, r)
    PROVE  Members' = Members
  <1>1. r.op \in {"Add", "Count", "PredRange"}
    BY DEF Request
  <1>2. Uncounted' = Uncounted
    <2>. DEFINE A == {a \in Client : pc[a] = "increment"}
    <2>1. A' = A /\ \A a \in A : request'[a] = request[a]
      BY <1>1 DEF Call, Goto, SetInv, TypeOK
    <2>. HIDE DEF A
    <2>2. {request'[a].key : a \in A'} = {request[a].key : a \in A}
      BY <2>1
    <2>. QED  BY <2>2 DEF Uncounted, A
  <1>. QED  BY <1>2 DEF Call, Members, stripes

\* Nothing is ever taken out of the set.
LEMMA MembersGrow ==
    ASSUME SetInv, Next
    PROVE  Members \subseteq Members'
  <1>1. ASSUME NEW c \in Client,
               AddLock(c) \/ AddLookup(c) \/ AddUnlock(c) \/ Count(c) \/ Gather(c)
        PROVE  Members' = Members
    <2>1. /\ UNCHANGED <<set, request>>
          /\ \A a \in Client : pc'[a] = "increment" <=> pc[a] = "increment"
      BY <1>1 DEF AddLock, AddLookup, AddUnlock, Count, Gather, Goto, stripes, scans,
                  SetInv, TypeOK
    <2>. QED  BY <2>1, SameMembers
  <1>2. ASSUME NEW c \in Client, NEW s \in Stripe,
               ScanLock(c, s) \/ ScanSend(c, s) \/ ScanUnlock(c, s)
        PROVE  Members' = Members
    <2>1. UNCHANGED <<set, request, pc>>
      BY <1>2 DEF ScanLock, ScanSend, ScanUnlock, stripes, scans
    <2>. QED  BY <2>1, SameMembers
  <1>. QED
    BY <1>1, <1>2, CallKeepsMembers, InsertKeepsMembers, IncrementAddsOne
    DEF Next, Add, PredRange

\* While a stripe is read-locked, all its strings are members.
LEMMA ReadIsMember ==
    ASSUME SetInv, NEW s \in Stripe, readers[s] # {}
    PROVE  set[s] \subseteq Members
  <1>1. writer[s] = Nil
    BY DEF SetInv, LockInv
  <1>2. ASSUME NEW k \in set[s], NEW a \in Client, pc[a] = "increment", request[a].key = k
        PROVE  FALSE
    <2>1. writer[Target(a)] = a
      BY <1>2 DEF SetInv, LockInv, Holding
    <2>2. Target(a) = s
      BY <1>2 DEF Target, SetInv, StripeInv
    <2>. QED  BY <1>1, <2>1, <2>2, StringSetAssumption
  <1>. QED  BY <1>2 DEF Members, Uncounted

\* A step that leaves a client and its readers alone does not disturb its scan.
LEMMA ScanKept ==
    ASSUME SetInv, Next, NEW d \in Client, Scanning(d), stripeOf' = stripeOf,
           pc'[d] = pc[d], request'[d] = request[d],
           unread'[d] = unread[d], sent'[d] = sent[d], found'[d] = found[d],
           before'[d] = before[d],
           \A s \in Stripe : d \in readers'[s] <=> d \in readers[s]
    PROVE  Scanning(d)'
  <1>1. Members \subseteq Members'
    BY MembersGrow
  <1>2. pc[d] = "PredRange" =>
           \A k \in before[d] \cap request[d].range :
              \/ k \in found[d]
              \/ stripeOf[k] \in unread[d]
              \/ d \in readers'[stripeOf[k]] /\ stripeOf[k] \notin sent[d]
    <2>1. \A k \in before[d] : stripeOf[k] \in Stripe \/ pc[d] # "PredRange"
      <3>1. Members \subseteq Key /\ stripeOf \in [Key -> Stripe]
        BY DEF Members, SetInv, TypeOK
      <3>. QED  BY <3>1 DEF Scanning
    <2>. QED  BY <2>1 DEF Scanning
  <1>. QED  BY <1>1, <1>2 DEF Scanning

LEMMA ScanStep == ASSUME SetInv, CallInv, ScanInv, Next PROVE ScanInv'
  <1>. /\ pc \in [Client -> {"idle", "Add", "Count", "PredRange", "done"} \cup Holding]
       /\ DOMAIN request = Client
       /\ stripeOf \in [Key -> Stripe]
       /\ readers \in [Stripe -> SUBSET Client]
       /\ set \in [Stripe -> SUBSET Key]
       /\ Members \subseteq Key
    BY DEF SetInv, TypeOK, Members
  <1>. /\ unread \in [Client -> SUBSET Stripe]
       /\ sent \in [Client -> SUBSET Stripe]
       /\ found \in [Client -> SUBSET Key]
       /\ before \in [Client -> SUBSET Key]
       /\ \A c \in Client : Scanning(c)
    BY DEF ScanInv
  <1>. stripeOf' = stripeOf
    BY DEF Next, Add, PredRange, Call, AddLock, AddLookup, AddInsert, AddIncrement,
           AddUnlock, Count, ScanLock, ScanSend, ScanUnlock, Gather
  <1>. USE DEF Goto, stripes, scans
  <1>1. ASSUME NEW c \in Client, NEW r \in Request, Call(c, r) PROVE ScanInv'
    <2>1. /\ unread' \in [Client -> SUBSET Stripe]
          /\ before' \in [Client -> SUBSET Key]
          /\ found' = found /\ sent' = sent
      BY <1>1 DEF Call
    <2>2. ASSUME NEW d \in Client, d # c PROVE Scanning(d)'
      BY <1>1, <2>2, ScanKept DEF Call
    <2>3. Scanning(c)'
      <3>1. Members' = Members
        BY <1>1, CallKeepsMembers
      <3>2. /\ pc[c] = "idle" /\ found[c] = {} /\ sent[c] = {}
            /\ \A s \in Stripe : c \notin readers[s]
        BY <1>1 DEF Call, Scanning
      <3>3. /\ pc'[c] = r.op /\ r.op # "idle" /\ request'[c] = r
            /\ before'[c] = Members /\ found'[c] = {} /\ sent'[c] = {} /\ readers' = readers
            /\ r.op = "PredRange" => unread'[c] = Stripe
        BY <1>1, <3>2 DEF Call, Request
      <3>4. \A k \in before'[c] : stripeOf[k] \in Stripe
        BY <3>3
      <3>. QED  BY <3>1, <3>2, <3>3, <3>4 DEF Scanning
    <2>. QED  BY <2>1, <2>2, <2>3 DEF ScanInv
  <1>2. ASSUME NEW c \in Client, Add(c) \/ Count(c) PROVE ScanInv'
    <2>1. /\ pc[c] \notin {"idle", "PredRange"} /\ pc'[c] \notin {"idle", "PredRange"}
          /\ \A d \in Client \ {c} : pc'[d] = pc[d]
          /\ UNCHANGED <<readers, request, unread, sent, found, before>>
      BY <1>2 DEF Add, AddLock, AddLookup, AddInsert, AddIncrement, AddUnlock, Count
    <2>2. ASSUME NEW d \in Client, d # c PROVE Scanning(d)'
      BY <2>1, <2>2, ScanKept
    <2>3. Scanning(c)'
      BY <2>1 DEF Scanning
    <2>. QED  BY <2>1, <2>2, <2>3 DEF ScanInv
  <1>3. ASSUME NEW c \in Client, NEW s \in Stripe, ScanLock(c, s) PROVE ScanInv'
    <2>1. /\ pc[c] = "PredRange"
          /\ UNCHANGED <<set, pc, request, sent, found, before>>
          /\ unread' = [unread EXCEPT ![c] = @ \ {s}]
          /\ readers' = [readers EXCEPT ![s] = @ \cup {c}]
          /\ s \in unread[c]
      BY <1>3 DEF ScanLock
    <2>2. ASSUME NEW d \in Client, d # c PROVE Scanning(d)'
      BY <2>1, <2>2, ScanKept
    <2>3. Scanning(c)'
      <3>1. Members' = Members
        BY <2>1, SameMembers
      <3>2. \A k \in before[c] \cap request[c].range :
               \/ k \in found[c]
               \/ stripeOf[k] \in unread'[c]
               \/ c \in readers'[stripeOf[k]] /\ stripeOf[k] \notin sent[c]
        BY <2>1 DEF Scanning
      <3>. QED  BY <2>1, <3>1, <3>2 DEF Scanning
    <2>. QED  BY <2>1, <2>2, <2>3 DEF ScanInv
  <1>4. ASSUME NEW c \in Client, NEW s \in Stripe, ScanSend(c, s) PROVE ScanInv'
    <2>1. /\ pc[c] = "PredRange" /\ c \in readers[s]
          /\ UNCHANGED <<set, readers, pc, request, unread, before>>
          /\ found' = [found EXCEPT ![c] = @ \cup (set[s] \cap request[c].range)]
          /\ sent' = [sent EXCEPT ![c] = @ \cup {s}]
          /\ s \notin unread[c]
      BY <1>4 DEF ScanSend, Scanning
    <2>2. ASSUME NEW d \in Client, d # c PROVE Scanning(d)'
      BY <2>1, <2>2, ScanKept
    <2>3. Scanning(c)'
      <3>1. Members' = Members
        BY <2>1, SameMembers
      <3>2. set[s] \subseteq Members
        BY <2>1, ReadIsMember
      <3>3. \A k \in Members : stripeOf[k] = s => k \in set[s]
        BY DEF Members, SetInv, StripeInv
      <3>4. \A k \in before[c] \cap request[c].range :
               \/ k \in found'[c]
               \/ stripeOf[k] \in unread[c]
               \/ c \in readers[stripeOf[k]] /\ stripeOf[k] \notin sent'[c]
        BY <2>1, <3>3 DEF Scanning
      <3>5. found'[c] \subseteq Members \cap request[c].range
        BY <2>1, <3>2 DEF Scanning
      <3>6. sent'[c] \cap unread[c] = {}
        BY <2>1 DEF Scanning
      <3>. QED  BY <2>1, <3>1, <3>4, <3>5, <3>6 DEF Scanning
    <2>4. found' \in [Client -> SUBSET Key] /\ sent' \in [Client -> SUBSET Stripe]
      BY <2>1
    <2>. QED  BY <2>1, <2>2, <2>3, <2>4 DEF ScanInv
  <1>5. ASSUME NEW c \in Client, NEW s \in Stripe, ScanUnlock(c, s) PROVE ScanInv'
    <2>1. /\ pc[c] = "PredRange" /\ s \in sent[c]
          /\ UNCHANGED <<set, pc, request, unread, sent, found, before>>
          /\ readers' = [readers EXCEPT ![s] = @ \ {c}]
      BY <1>5 DEF ScanUnlock, Scanning
    <2>2. ASSUME NEW d \in Client, d # c PROVE Scanning(d)'
      BY <2>1, <2>2, ScanKept
    <2>3. Scanning(c)'
      <3>1. Members' = Members
        BY <2>1, SameMembers
      <3>2. \A k \in before[c] \cap request[c].range :
               \/ k \in found[c]
               \/ stripeOf[k] \in unread[c]
               \/ c \in readers'[stripeOf[k]] /\ stripeOf[k] \notin sent[c]
        BY <2>1 DEF Scanning
      <3>. QED  BY <2>1, <3>1, <3>2 DEF Scanning
    <2>. QED  BY <2>1, <2>2, <2>3 DEF ScanInv
  <1>6. ASSUME NEW c \in Client, Gather(c) PROVE ScanInv'
    <2>1. /\ pc[c] = "PredRange" /\ pc' = [pc EXCEPT ![c] = "done"]
          /\ \A s \in Stripe : c \notin readers[s]
          /\ UNCHANGED <<readers, request, unread, sent, found, before>>
      BY <1>6 DEF Gather
    <2>2. ASSUME NEW d \in Client, d # c PROVE Scanning(d)'
      BY <2>1, <2>2, ScanKept
    <2>3. Scanning(c)'
      BY <2>1 DEF Scanning
    <2>. QED  BY <2>1, <2>2, <2>3 DEF ScanInv
  <1>. QED
    BY <1>1, <1>2, <1>3, <1>4, <1>5, <1>6 DEF Next, PredRange

\* Each call takes effect in one step: Add when its lookup finds the string or its
\* increment counts it, Count when it reads the counter, PredRange when it gathers.
LEMMA SetObjectStep ==
    ASSUME SetInv, CallInv, ScanInv, Next
    PROVE  [Abstract!Next]_(Abstract!absVars)
  <1>. DOMAIN result = Client /\ \A c \in Client : request[c] = Nil <=> pc[c] = "idle"
    BY DEF CallInv
  <1>. USE DEF Goto, stripes, scans
  <1>1. ASSUME NEW c \in Client, NEW r \in Request, Call(c, r) PROVE Abstract!Next
    <2>1. Abstract!Call(c)
      BY <1>1, CallKeepsMembers DEF Abstract!Call, Call
    <2>. QED  BY <2>1 DEF Abstract!Next
  <1>2. ASSUME NEW c \in Client, AddLock(c) \/ AddUnlock(c) PROVE UNCHANGED Abstract!absVars
    <2>1. /\ UNCHANGED <<set, request, before, result>>
          /\ \A a \in Client : pc'[a] = "increment" <=> pc[a] = "increment"
      BY <1>2 DEF AddLock, AddUnlock, SetInv, TypeOK
    <2>. QED  BY <2>1, SameMembers DEF Abstract!absVars
  <1>3. ASSUME NEW c \in Client, AddLookup(c) PROVE [Abstract!Next]_(Abstract!absVars)
    <2>1. /\ UNCHANGED <<set, request, before>>
          /\ \A a \in Client : pc'[a] = "increment" <=> pc[a] = "increment"
      BY <1>3 DEF AddLookup, SetInv, TypeOK
    <2>2. Members' = Members
      BY <2>1, SameMembers
    <2>3. CASE request[c].key \notin set[Target(c)]
      BY <1>3, <2>1, <2>2, <2>3 DEF AddLookup, Abstract!absVars
    <2>4. CASE request[c].key \in set[Target(c)]
      <3>1. pc[c] \in Holding /\ request[c] \in AddRequest /\ result[c] = Nil
        BY <1>3 DEF AddLookup, SetInv, TypeOK, Holding, CallInv
      <3>2. Target(c) \in Stripe
        BY <3>1 DEF SetInv, TypeOK, Target, AddRequest
      <3>3. request[c].key \in Members
        <4>1. ASSUME NEW a \in Client, pc[a] = "increment", request[a].key = request[c].key
              PROVE  FALSE
          <5>1. Target(a) = Target(c)
            BY <4>1 DEF Target
          <5>2. a = c
            BY <3>1, <4>1, <5>1, Alone DEF Holding
          <5>. QED  BY <1>3, <4>1, <5>2 DEF AddLookup
        <4>. QED  BY <2>4, <3>2, <4>1 DEF Members, Uncounted
      <3>4. result' = [result EXCEPT ![c] = FALSE] /\ FALSE # Nil
        BY <1>3, <2>4, StringSetAssumption DEF AddLookup
      <3>5. Abstract!Pending(c, "Add")
        BY <1>3, <2>1, <3>1 DEF AddLookup, Abstract!Pending, AddRequest
      <3>6. Abstract!Answer(c, request[c].key \notin Members)
        BY <3>3, <3>4 DEF Abstract!Answer
      <3>7. Abstract!Add(c)
        BY <2>2, <3>3, <3>5, <3>6 DEF Abstract!Add
      <3>. QED  BY <3>7 DEF Abstract!Next
    <2>. QED  BY <2>3, <2>4
  <1>4. ASSUME NEW c \in Client, AddInsert(c) PROVE UNCHANGED Abstract!absVars
    BY <1>4, InsertKeepsMembers DEF AddInsert, Abstract!absVars
  <1>5. ASSUME NEW c \in Client, AddIncrement(c) PROVE Abstract!Next
    <2>1. /\ request[c] \in AddRequest /\ result[c] = Nil
          /\ UNCHANGED <<request, before>> /\ result' = [result EXCEPT ![c] = TRUE]
      BY <1>5 DEF AddIncrement, SetInv, TypeOK, Holding, CallInv
    <2>2. Abstract!Pending(c, "Add")
      BY <1>5, <2>1 DEF AddIncrement, Abstract!Pending, AddRequest
    <2>3. Abstract!Answer(c, request[c].key \notin Members)
      BY <1>5, <2>1, IncrementAddsOne, StringSetAssumption DEF Abstract!Answer
    <2>4. Abstract!Add(c)
      BY <1>5, <2>2, <2>3, IncrementAddsOne DEF Abstract!Add
    <2>. QED  BY <2>4 DEF Abstract!Next
  <1>6. ASSUME NEW c \in Client, Count(c) PROVE Abstract!Next
    <2>1. /\ UNCHANGED <<set, request, before>>
          /\ \A a \in Client : pc'[a] = "increment" <=> pc[a] = "increment"
          /\ result' = [result EXCEPT ![c] = count]
      BY <1>6 DEF Count, SetInv, TypeOK
    <2>2. Abstract!Pending(c, "Count")
      BY <1>6, <2>1 DEF Count, Abstract!Pending, CallInv
    <2>3. Abstract!Answer(c, Cardinality(Members))
      <3>1. count \in Nat /\ count = Cardinality(Members)
        BY DEF SetInv, TypeOK, CountIsSize
      <3>. QED  BY <2>1, <3>1, StringSetAssumption DEF Abstract!Answer
    <2>4. Abstract!Count(c)
      <3>1. Members' = Members
        BY <2>1, SameMembers
      <3>2. Abstract!Cardinality(Members) = Cardinality(Members)
        BY DEF Abstract!Cardinality, Cardinality
      <3>. QED  BY <2>2, <2>3, <3>1, <3>2 DEF Abstract!Count
    <2>. QED  BY <2>4 DEF Abstract!Next
  <1>7. ASSUME NEW c \in Client, NEW s \in Stripe,
               ScanLock(c, s) \/ ScanSend(c, s) \/ ScanUnlock(c, s)
        PROVE  UNCHANGED Abstract!absVars
    BY <1>7, SameMembers DEF ScanLock, ScanSend, ScanUnlock, Abstract!absVars
  <1>8. ASSUME NEW c \in Client, Gather(c) PROVE Abstract!Next
    <2>1. /\ pc[c] = "PredRange" /\ unread[c] = {}
          /\ \A s \in Stripe : c \notin readers[s]
          /\ UNCHANGED <<set, request, before>>
          /\ \A a \in Client : pc'[a] = "increment" <=> pc[a] = "increment"
          /\ result' = [result EXCEPT ![c] = found[c]]
      BY <1>8 DEF Gather, SetInv, TypeOK
    <2>2. Abstract!Pending(c, "PredRange")
      BY <2>1 DEF Abstract!Pending, CallInv
    <2>3. /\ found[c] \subseteq Members \cap request[c].range
          /\ before[c] \cap request[c].range \subseteq found[c]
      <3>1. \A k \in before[c] : stripeOf[k] \in Stripe
        BY <2>1 DEF ScanInv, Scanning, SetInv, TypeOK, Members
      <3>. QED  BY <2>1, <3>1 DEF ScanInv, Scanning
    <2>4. found[c] # Nil
      BY StringSetAssumption DEF ScanInv
    <2>5. Abstract!PredRange(c)
      BY <2>1, <2>2, <2>3, <2>4, SameMembers DEF Abstract!PredRange, Abstract!Answer
    <2>. QED  BY <2>5 DEF Abstract!Next
  <1>. QED
    BY <1>1, <1>2, <1>3, <1>4, <1>5, <1>6, <1>7, <1>8 DEF Next, Add, PredRange

LEMMA ScanInvariance == Spec => [](SetInv /\ CallInv /\ ScanInv)
  <1>1. SetInv /\ CallInv /\ ScanInv /\ [Next]_vars => (CallInv /\ ScanInv)'
    <2>1. ASSUME SetInv, CallInv, ScanInv, UNCHANGED vars PROVE (CallInv /\ ScanInv)'
      BY <2>1 DEF vars, stripes, scans, CallInv, ScanInv, Scanning, Members, Uncounted
    <2>. QED  BY <2>1, CallStep, ScanStep
  <1>. QED  BY <1>1, InitCalls, SetInvariance, PTL DEF Spec

\* A goroutine of PredRange that is about to send has room in the channel.
SendHasRoom ==
    \A c \in Client : \A s \in Stripe :
        c \in readers[s] /\ s \notin sent[c] => Cardinality(sent[c]) < Capacity

\* No goroutine of PredRange waits for a receiver while it holds the read lock of its
\* stripe: when it sends, at most the answers of the other stripes are in the channel.
THEOREM SendsNeverWait == Spec => []SendHasRoom
  <1>1. ScanInv => SendHasRoom
    <2>. SUFFICES ASSUME ScanInv, NEW c \in Client, NEW s \in Stripe, s \notin sent[c]
                  PROVE  Cardinality(sent[c]) < Capacity
      BY DEF SendHasRoom
    <2>. DEFINE n == Cardinality(sent[c])
                m == Cardinality(Stripe)
    <2>1. sent[c] \subseteq Stripe /\ sent[c] # Stripe
      BY DEF ScanInv
    <2>2. /\ n <= m /\ n # m
          /\ n \in Nat /\ m \in Nat
      BY <2>1, StringSetAssumption, FS_Subset, FS_CardinalityType
    <2>. HIDE DEF n, m
    <2>3. n < m
      BY <2>2
    <2>. QED  BY <2>3 DEF Capacity, n, m
  <1>. QED  BY <1>1, ScanInvariance, PTL

\* What Add, Count and PredRange of lab0 return is what one set, changed at one moment
\* in each call, would have answered: no lock around the counter or around all
\* stripes is needed.
THEOREM SetsImplementObject == Spec => ImplementsSetObject
  <1>1. Init => Abstract!Init
    BY DEF Init, Abstract!Init, Members
  <1>2. SetInv /\ CallInv /\ ScanInv /\ [Next]_vars => [Abstract!Next]_(Abstract!absVars)
    <2>1. ASSUME UNCHANGED vars PROVE UNCHANGED Abstract!absVars
      BY <2>1 DEF vars, stripes, Abstract!absVars, Members, Uncounted
    <2>. QED  BY <2>1, SetObjectStep
  <1>. QED
    BY <1>1, <1>2, ScanInvariance, PTL
    DEF Spec, ImplementsSetObject, Abstract!Spec
=============================================================================
